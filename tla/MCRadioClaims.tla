--------------------------- MODULE MCRadioClaims ---------------------------
(***************************************************************************)
(* Instances of RadioClaims for TLC.  What is over leaves traces in the    *)
(* state that no step and no property looks at: TLC sees the state without *)
(* them.                                                                   *)
(***************************************************************************)
EXTENDS RadioClaims, TLC

\* Adapters, calls and radios differ in nothing but what they do.
ClaimSymmetry ==
  Permutations(Adapters) \cup Permutations(Opens) \cup Permutations(Radios)

\* A client that works, or is about to; closing another changes nothing of it.
Live(o) == open[o] \in {"starting", "opened"} /\ o \notin stopping

\* The promise is settled and the engine gone.
Over(o) == /\ proc[o] # "running"
           /\ \/ open[o] \in {"rejected", "dead"}
              \/ open[o] = "opened" /\ o \in stopping

CallView(o) ==
  IF open[o] = "new" \/ Over(o) THEN <<IF Over(o) THEN "over" ELSE "new">>
  ELSE <<open[o], o \in stopping, proc[o], holds[o],
         IF open[o] = "opened" /\ ~Live(o) THEN "none" ELSE owner[o],
         IF open[o] = "opened" \/ holds[o] # Blank THEN Blank ELSE named[o],
         Working(o) /\ o \in robbed>>

ClaimView ==
  <<built, attached, unseen, claims, serial,
    [a \in Adapters |-> IF engine[a] \in Opens /\ Live(engine[a])
                       THEN engine[a] ELSE "none"],
    [o \in Opens |-> CallView(o)],
    find, findAge, sample, IF Fresh THEN cache ELSE {}, cacheAge>>
=============================================================================
