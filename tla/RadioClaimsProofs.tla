-------------------------- MODULE RadioClaimsProofs --------------------------
(* Proofs about RadioClaims: types, the claims of the radios at work, and  *)
(* the age of an answer, for any number of adapters, calls and radios and  *)
(* any timeout of `engine --find`.                                         *)
EXTENDS RadioClaims, TLAPS

\* What the proofs use of ClaimAssumption.
LEMMA Constants ==
  /\ Blank \notin Radios /\ "none" \notin Opens
  /\ FindMax \in Nat /\ Interval = 1 /\ Old = FindMax + 2
BY ClaimAssumption, SMT DEF Interval, Old

-----------------------------------------------------------------------------
(* Types.                                                                  *)

LEMMA InitType == Init => TypeOK
<1> SUFFICES ASSUME Init PROVE TypeOK OBVIOUS
<1>1. built \in BOOLEAN BY Zenon DEF Init
<1>2. unseen \in [Radios -> 0..Old] BY Constants DEF Init
<1>3. /\ attached \subseteq Radios /\ claims \subseteq Radios
      /\ sample \subseteq Radios /\ cache \subseteq Radios
  BY DEF Init
<1>4. /\ serial \in [Adapters -> Serials]
      /\ engine \in [Adapters -> Opens \cup {"none"}]
      /\ owner \in [Opens -> Adapters \cup {"none"}]
      /\ named \in [Opens -> Serials] /\ holds \in [Opens -> Serials]
      /\ stopping \subseteq Opens /\ robbed \subseteq Opens
  BY DEF Init, Serials
<1>5. /\ open \in [Opens -> {"new", "starting", "failing", "opened", "dead", "rejected"}]
      /\ proc \in [Opens -> {"none", "running", "gone"}]
  BY DEF Init
<1>6. /\ find \in {"none", "running", "sampled"}
      /\ findAge \in 0..FindMax /\ cacheAge \in 0..Interval
  BY Constants DEF Init
<1> QED BY <1>1, <1>2, <1>3, <1>4, <1>5, <1>6 DEF TypeOK

\* The clock's step keeps its counters in their bounds.
LEMMA LaterType ==
  ASSUME TypeOK, Later
  PROVE  /\ unseen' \in [Radios -> 0..Old]
         /\ findAge' \in 0..FindMax /\ cacheAge' \in 0..Interval
<1>1. ASSUME NEW r \in Radios
      PROVE (IF r \in Visible THEN 0
             ELSE IF unseen[r] < Old THEN unseen[r] + 1 ELSE Old) \in 0..Old
  BY Constants, SMT DEF TypeOK
<1>2. findAge' \in 0..FindMax
  BY Constants, SMT DEF TypeOK, Later
<1> QED BY <1>1, <1>2, Constants, SMT DEF Later

\* The calls whose claim another party gives up are calls.
LEMMA RobType ==
  ASSUME TypeOK, NEW s, NEW own, Rob(s, own) PROVE robbed' \subseteq Opens
BY DEF TypeOK, Rob

LEMMA NextType == TypeOK /\ [Next]_vars => TypeOK'
<1> SUFFICES ASSUME TypeOK, [Next]_vars PROVE TypeOK' OBVIOUS
<1> USE Constants DEF TypeOK
<1>1. CASE Poll BY <1>1 DEF Poll, bus, lives, calls
<1>2. CASE FindSamples
  <2>1. sample' \subseteq Radios BY <1>2 DEF FindSamples, Visible
  <2>2. unseen' \in [Radios -> 0..Old]
    <3>1. ASSUME NEW r \in Radios
          PROVE (IF r \in Visible THEN 0 ELSE unseen[r]) \in 0..Old
      OBVIOUS
    <3> QED BY <1>2, <3>1 DEF FindSamples
  <2> QED BY <1>2, <2>1, <2>2 DEF FindSamples, bus, lives, calls
<1>3. CASE FindEnds BY <1>3 DEF FindEnds, bus, lives, calls
<1>4. ASSUME NEW o \in Opens, NEW a \in Adapters, CallOpen(o, a) PROVE TypeOK'
  <2>1. claims' \subseteq Radios BY <1>4 DEF CallOpen, ClaimOf, Serials
  <2>2. open' \in [Opens -> {"new", "starting", "failing", "opened", "dead", "rejected"}]
    BY <1>4 DEF CallOpen
  <2>3. engine' \in [Adapters -> Opens \cup {"none"}] BY <1>4 DEF CallOpen
  <2>4. owner' \in [Opens -> Adapters \cup {"none"}] BY <1>4 DEF CallOpen
  <2>5. named' \in [Opens -> Serials] BY <1>4 DEF CallOpen
  <2> QED BY <1>4, <2>1, <2>2, <2>3, <2>4, <2>5 DEF CallOpen, bus, search
<1>5. ASSUME NEW o \in Opens, SpawnEngine(o) PROVE TypeOK'
  BY <1>5 DEF SpawnEngine, bus, search, calls
<1>6. ASSUME NEW o \in Opens, OpenResolves(o) PROVE TypeOK'
  <2>1. holds[o] \in Radios BY <1>6 DEF OpenResolves, Serials
  <2>2. claims' \subseteq Radios BY <1>6, <2>1 DEF OpenResolves, Claimed
  <2>3. serial' \in [Adapters -> Serials] BY <1>6, <2>1 DEF OpenResolves, Serials
  <2>4. robbed' \subseteq Opens BY <1>6, RobType DEF OpenResolves
  <2> QED BY <1>6, <2>2, <2>3, <2>4 DEF OpenResolves, bus, search, calls
<1>7. ASSUME NEW o \in Opens, StartFails(o) PROVE TypeOK'
  BY <1>7 DEF StartFails, bus, search, calls
<1>8. ASSUME NEW o \in Opens, OpenRejects(o) PROVE TypeOK'
  <2>1. robbed' \subseteq Opens BY <1>8, RobType DEF OpenRejects
  <2> QED BY <1>8, <2>1 DEF OpenRejects, bus, search, calls
<1>9. ASSUME NEW o \in Opens, Fatal(o) PROVE TypeOK'
  <2>1. robbed' \subseteq Opens BY <1>9, RobType DEF Fatal
  <2> QED BY <1>9, <2>1 DEF Fatal, bus, search, calls, Serials
<1>10. ASSUME NEW o \in Opens, EngineExits(o) PROVE TypeOK'
  BY <1>10 DEF EngineExits, bus, search, calls, Serials
<1>11. ASSUME NEW o \in Opens, NEW r \in Radios, EngineTakes(o, r) PROVE TypeOK'
  BY <1>11 DEF EngineTakes, bus, search, calls, Serials
<1>12. ASSUME NEW a \in Adapters, Close(a) PROVE TypeOK'
  <2>1. stopping' \subseteq Opens BY <1>12 DEF Close
  <2>2. robbed' \subseteq Opens BY <1>12, RobType DEF Close
  <2> QED BY <1>12, <2>1, <2>2 DEF Close, bus, search, calls
<1>13. CASE Environment
  <2>1. built' \in BOOLEAN BY <1>13, Zenon DEF Environment
  <2>2. attached' \subseteq Radios BY <1>13 DEF Environment
  <2> QED BY <1>13, <2>1, <2>2 DEF Environment, lives, search, calls
<1>14. CASE Later BY <1>14, LaterType DEF Later, bus, lives, calls
<1>15. CASE UNCHANGED vars BY <1>15 DEF vars, bus, lives, search, calls
<1> QED BY <1>1, <1>2, <1>3, <1>4, <1>5, <1>6, <1>7, <1>8, <1>9, <1>10, <1>11,
           <1>12, <1>13, <1>14, <1>15 DEF Next

\* Every state is one of the declared kind.
THEOREM TypeCorrect == Spec => []TypeOK
BY InitType, NextType, PTL DEF Spec

-----------------------------------------------------------------------------
(* Claims.                                                                 *)

\* Who works with a radio that is given up has been noted, unless it is the
\* call that gives it up; whoever works with another keeps its claim.
LEMMA KeepsClaim ==
  ASSUME WorkingIsClaimed, NEW s, NEW own, Rob(s, own),
         claims \ {s} \subseteq claims',
         NEW p \in Opens \ robbed', p # own, Working(p)
  PROVE  holds[p] \in claims'
BY DEF WorkingIsClaimed, Rob

\* What a step that starts nobody's work and gives up no claim keeps.
LEMMA QuietKeeps ==
  ASSUME WorkingIsClaimed, claims \subseteq claims', UNCHANGED robbed,
         \A p \in Opens : Working(p)' => Working(p) /\ holds'[p] = holds[p]
  PROVE  WorkingIsClaimed'
BY DEF WorkingIsClaimed

LEMMA NextClaim ==
  ASSUME TypeOK, WorkingIsClaimed, [Next]_vars
  PROVE  WorkingIsClaimed'
<1> USE DEF TypeOK
<1>1. ASSUME NEW o \in Opens, NEW a \in Adapters, CallOpen(o, a)
      PROVE  WorkingIsClaimed'
  <2>1. claims \subseteq claims' /\ UNCHANGED <<stopping, holds, robbed>>
    BY <1>1 DEF CallOpen
  <2>2. \A p \in Opens : open'[p] = "opened" => open[p] = "opened"
    BY <1>1 DEF CallOpen
  <2>. QED BY <2>1, <2>2, QuietKeeps DEF Working
<1>2. ASSUME NEW o \in Opens, OpenResolves(o) PROVE WorkingIsClaimed'
  <2>1. /\ holds[o] \in claims' /\ UNCHANGED <<stopping, holds>>
        /\ claims \ {serial[owner[o]]} \subseteq claims'
        /\ Rob(serial[owner[o]], o)
    BY <1>2 DEF OpenResolves, Claimed
  <2>2. \A p \in Opens : p # o => open'[p] = open[p] BY <1>2 DEF OpenResolves
  <2>3. ASSUME NEW p \in Opens \ robbed', Working(p)' PROVE holds'[p] \in claims'
    <3>1. CASE p = o BY <2>1, <3>1
    <3>2. CASE p # o
      <4>1. Working(p) BY <2>1, <2>2, <2>3, <3>2 DEF Working
      <4>. QED BY <2>1, <2>3, <3>2, <4>1, KeepsClaim
    <3>. QED BY <3>1, <3>2
  <2>. QED BY <2>3 DEF WorkingIsClaimed
<1>3. ASSUME NEW o \in Opens, OpenRejects(o) \/ Fatal(o) PROVE WorkingIsClaimed'
  <2>1. /\ claims \ {serial[owner[o]]} \subseteq claims' /\ UNCHANGED stopping
        /\ Rob(serial[owner[o]], o)
    BY <1>3 DEF OpenRejects, Fatal
  <2>2. open'[o] # "opened" BY <1>3 DEF OpenRejects, Fatal
  <2>3. \A p \in Opens : p # o => open'[p] = open[p] /\ holds'[p] = holds[p]
    BY <1>3 DEF OpenRejects, Fatal
  <2>4. ASSUME NEW p \in Opens \ robbed', Working(p)' PROVE holds'[p] \in claims'
    <3>1. p # o BY <2>2, <2>4 DEF Working
    <3>2. Working(p) /\ holds'[p] = holds[p] BY <2>1, <2>3, <2>4, <3>1 DEF Working
    <3>. QED BY <2>1, <2>4, <3>1, <3>2, KeepsClaim
  <2>. QED BY <2>4 DEF WorkingIsClaimed
<1>4. ASSUME NEW a \in Adapters, Close(a) PROVE WorkingIsClaimed'
  <2>1. /\ claims \ {serial[a]} \subseteq claims' /\ UNCHANGED <<open, holds>>
        /\ Rob(serial[a], engine[a])
    BY <1>4 DEF Close
  <2>2. \A p \in Opens : p \notin stopping' => p \notin stopping /\ p # engine[a]
    BY <1>4 DEF Close
  <2>3. ASSUME NEW p \in Opens \ robbed', Working(p)' PROVE holds'[p] \in claims'
    <3>1. Working(p) /\ p # engine[a] BY <2>1, <2>2, <2>3 DEF Working
    <3>. QED BY <2>1, <2>3, <3>1, KeepsClaim
  <2>. QED BY <2>3 DEF WorkingIsClaimed
<1>5. ASSUME NEW o \in Opens, StartFails(o) PROVE WorkingIsClaimed'
  <2>1. /\ UNCHANGED <<claims, robbed, holds>> /\ stopping \subseteq stopping'
        /\ \A p \in Opens : open'[p] = "opened" => open[p] = "opened"
    BY <1>5 DEF StartFails
  <2>. QED BY <2>1, QuietKeeps DEF Working
<1>6. ASSUME NEW o \in Opens,
             EngineExits(o) \/ \E r \in Radios : EngineTakes(o, r)
      PROVE  WorkingIsClaimed'
  <2>1. UNCHANGED <<claims, robbed, open, stopping>>
    BY <1>6 DEF EngineExits, EngineTakes
  <2>2. \A p \in Opens : p # o => holds'[p] = holds[p]
    BY <1>6 DEF EngineExits, EngineTakes
  <2>3. holds'[o] = Blank \/ open[o] # "opened"
    BY <1>6 DEF EngineExits, EngineTakes
  <2>. QED BY <2>1, <2>2, <2>3, QuietKeeps DEF Working
<1>7. ASSUME UNCHANGED <<claims, lives>> \/ \E o \in Opens : SpawnEngine(o)
      PROVE  WorkingIsClaimed'
  <2>1. UNCHANGED <<claims, open, stopping, holds, robbed>>
    BY <1>7 DEF SpawnEngine, lives
  <2>. QED BY <2>1 DEF WorkingIsClaimed, Working
<1>. QED BY <1>1, <1>2, <1>3, <1>4, <1>5, <1>6, <1>7
        DEF Next, Poll, FindSamples, FindEnds, Environment, Later, vars

\* A radio at work keeps its claim through whatever calls of open() and close()
\* overlap, on whatever adapters, until a call or an adapter that is not its own
\* gives the claim up (adapter.js:201-257, 644-664).
THEOREM DevicesClaim == Spec => []WorkingIsClaimed
<1>1. Init => WorkingIsClaimed BY DEF Init, WorkingIsClaimed, Working
<1>2. TypeOK /\ WorkingIsClaimed /\ [Next]_vars => WorkingIsClaimed' BY NextClaim
<1>. QED BY <1>1, <1>2, InitType, NextType, PTL DEF Spec

\* Every answer of discoverDevices() names every radio at work that no other
\* party has given up, from the cache or from an enumeration of any age
\* (adapter.js:103-138).
THEOREM DevicesListed == Spec => []WorkingIsListed
<1>1. WorkingIsClaimed => WorkingIsListed
  BY DEF WorkingIsClaimed, WorkingIsListed, Answer
<1>. QED BY DevicesClaim, <1>1, PTL

-----------------------------------------------------------------------------
(* How old an answer may be.                                               *)

\* What the running enumeration and a fresh cache name was seen no longer ago
\* than the enumeration has run, or may run, and the cache has lasted.
RecentInv ==
  /\ find # "sampled" => sample = {}
  /\ \A r \in sample : unseen[r] <= findAge
  /\ Fresh => \A r \in cache : unseen[r] <= FindMax

LEMMA NextRecent ==
  ASSUME TypeOK, RecentInv, [Next]_vars PROVE RecentInv'
<1> USE Constants DEF RecentInv, TypeOK, Fresh, Interval
<1>1. CASE FindSamples BY <1>1 DEF FindSamples, bus, lives, Visible
<1>2. CASE FindEnds BY <1>2 DEF FindEnds, bus, lives
<1>3. CASE Later BY <1>3 DEF Later, bus, lives
<1>4. CASE Poll BY <1>4 DEF Poll, bus, lives
<1>5. ASSUME UNCHANGED <<unseen, search>> PROVE RecentInv' BY <1>5 DEF search
<1>6. CASE \/ Environment \/ UNCHANGED vars \/ \E a \in Adapters : Close(a)
  BY <1>5, <1>6 DEF Environment, Close, vars
<1>7. ASSUME NEW o \in Opens,
             \/ SpawnEngine(o) \/ OpenResolves(o) \/ StartFails(o)
             \/ OpenRejects(o) \/ Fatal(o) \/ EngineExits(o)
             \/ \E a \in Adapters : CallOpen(o, a)
             \/ \E r \in Radios : EngineTakes(o, r)
      PROVE  RecentInv'
  BY <1>5, <1>7 DEF CallOpen, SpawnEngine, OpenResolves, StartFails, OpenRejects,
                    Fatal, EngineExits, EngineTakes
<1>. QED BY <1>1, <1>2, <1>3, <1>4, <1>6, <1>7 DEF Next

\* A radio that discoverDevices() lists and nobody claims was on the bus, and
\* free, no longer ago than an enumeration and its result may last, whatever
\* the adapters, the radios and the timeout of `engine --find`.
THEOREM AlwaysRecent == Spec => []ListedIsRecent
<1>1. Init => RecentInv BY DEF Init, RecentInv, Fresh
<1>2. TypeOK /\ RecentInv /\ [Next]_vars => RecentInv' BY NextRecent
<1>3. TypeOK /\ RecentInv => ListedIsRecent
  BY Constants DEF TypeOK, RecentInv, ListedIsRecent, Answer, Interval
<1>. QED BY <1>1, <1>2, <1>3, InitType, NextType, PTL DEF Spec
=============================================================================
