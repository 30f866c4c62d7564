---------------------------- MODULE RadioClaims ----------------------------
(***************************************************************************)
(* adapter.js: which radios the plugin reports, and which it has claimed.  *)
(*                                                                         *)
(* A B200 that an engine has opened does not answer enumeration, so        *)
(* openRadios keeps it in the list.  The map is keyed by serial and shared *)
(* by all adapters, several of which may be of one radio: a device that is *)
(* removed and added again is a new adapter.  open() is pending for as     *)
(* long as EngineClient.start() is, which close() does not settle: a       *)
(* status in the two seconds of grace still resolves it, and without one   *)
(* it rejects after the ninety seconds of the startup timeout.  Nothing in *)
(* the code keeps calls of open() and close() apart, of one adapter or of  *)
(* several, and nothing here does.                                         *)
(*                                                                         *)
(* Each call of open() makes a new EngineClient and is named here; of the  *)
(* client only what its promise and its process do is kept (EngineClient   *)
(* has the rest).  Time is counted in steps of DISCOVERY_INTERVAL_MS.      *)
(***************************************************************************)
EXTENDS Naturals

CONSTANTS
  Adapters,
  Opens,      \* the calls of open()
  Radios,     \* serial numbers
  Blank,      \* no serial: the only USRP attached
  FindMax     \* the timeout of `engine --find`, in discovery intervals

Interval == 1

ASSUME ClaimAssumption ==
  /\ Blank \notin Radios
  /\ FindMax \in Nat
  /\ "none" \notin Opens

VARIABLES
  built,    \* there is an engine binary to run
  attached, \* radios on the USB bus
  unseen,   \* how long each radio has not answered an enumeration
  claims,   \* the keys of openRadios
  serial,   \* this.serial of each adapter
  engine,   \* this.engine: the call that made it, or "none"
  owner,    \* the adapter of each call
  named,    \* the serial its engine was told to open
  open,     \* the promise of each call
  stopping, \* clients told to stop
  proc,     \* the engine process of each client
  holds,    \* the radio it has opened
  robbed,   \* history: the calls whose radio another party has given up
  find,     \* findInFlight: "none", "running", "sampled"
  findAge,  \* since it was spawned
  sample,   \* what it found
  cache,    \* lastFind.radios
  cacheAge  \* since lastFind.at

bus == <<built, attached>>
calls == <<owner, named>>
lives == <<serial, engine, calls, open, stopping, proc, holds, robbed>>
search == <<find, findAge, sample, cache, cacheAge>>
vars == <<bus, unseen, claims, lives, search>>

Serials == Radios \cup {Blank}
Old == Interval + FindMax + 1

TypeOK == /\ built \in BOOLEAN
          /\ attached \subseteq Radios /\ claims \subseteq Radios
          /\ sample \subseteq Radios /\ cache \subseteq Radios
          /\ unseen \in [Radios -> 0..Old]
          /\ serial \in [Adapters -> Serials]
          /\ engine \in [Adapters -> Opens \cup {"none"}]
          /\ owner \in [Opens -> Adapters \cup {"none"}]
          /\ named \in [Opens -> Serials]
          /\ robbed \subseteq Opens
          /\ open \in [Opens -> {"new", "starting", "failing", "opened",
                                 "dead", "rejected"}]
          /\ stopping \subseteq Opens
          /\ proc \in [Opens -> {"none", "running", "gone"}]
          /\ holds \in [Opens -> Serials]
          /\ find \in {"none", "running", "sampled"}
          /\ findAge \in 0..FindMax /\ cacheAge \in 0..Interval

Init == /\ built \in BOOLEAN
        /\ attached \in SUBSET Radios
        /\ claims = {} /\ sample = {} /\ cache = {}
        /\ unseen = [r \in Radios |-> 0]
        /\ serial \in [Adapters -> Serials]
        /\ engine = [a \in Adapters |-> "none"]
        /\ owner = [o \in Opens |-> "none"]
        /\ named = [o \in Opens |-> Blank]
        /\ open = [o \in Opens |-> "new"]
        /\ stopping = {} /\ robbed = {}
        /\ proc = [o \in Opens |-> "none"]
        /\ holds = [o \in Opens |-> Blank]
        /\ find = "none" /\ findAge = 0 /\ cacheAge = Interval

\* A radio at work: open() returned, and its engine has the radio and was not
\* told to stop.
Working(o) == open[o] = "opened" /\ holds[o] # Blank /\ o \notin stopping

\* The radios an enumeration sees: a claimed B200 does not answer.
Visible == attached \ {holds[o] : o \in Opens}

-----------------------------------------------------------------------------
(* discoverDevices() and cachedFind().                                     *)

\* Mutant: the cache never expires.
FreshForEver == cache # {}

Fresh == cacheAge < Interval

\* What discoverDevices() answers while the result of an enumeration is fresh,
\* which it is at the latest when the answer is given: the claimed radios are
\* laid over it as they are then.  Without an engine the answer is empty.
Answer == IF built THEN cache \cup claims ELSE {}

\* A call that finds no fresh result starts an enumeration, or awaits the one
\* in flight.
Poll == /\ built /\ ~Fresh
        /\ find = "none"
        /\ find' = "running" /\ findAge' = 0 /\ sample' = {}
        /\ UNCHANGED <<bus, unseen, claims, lives, cache, cacheAge>>

\* `engine --find` reads the bus some time before its answer is read.
FindSamples == /\ find = "running"
               /\ find' = "sampled"
               /\ sample' = Visible
               /\ unseen' = [r \in Radios |-> IF r \in Visible THEN 0
                                            ELSE unseen[r]]
               /\ UNCHANGED <<bus, claims, lives, findAge, cache, cacheAge>>

\* It ends, or is killed by its timeout, and the calls that await it answer:
\* whatever goes wrong is an empty list.
FindEnds == /\ find # "none"
            /\ cache' = sample /\ cacheAge' = 0
            /\ find' = "none" /\ findAge' = 0 /\ sample' = {}
            /\ UNCHANGED <<bus, unseen, claims, lives>>

-----------------------------------------------------------------------------
(* open().                                                                 *)

\* The claim of s is given up: the calls but its own that work with it are robbed.
Rob(s, own) ==
  robbed' = robbed \cup {o \in Opens \ {own} : Working(o) /\ holds[o] = s}

ClaimOf(a) == {serial[a]} \ {Blank}

\* Up to the first await of start(): the claim comes before the engine.
\* Without a binary, open() throws before it claims.
CallOpen(o, a) ==
  /\ open[o] = "new"
  /\ owner' = [owner EXCEPT ![o] = a]
  /\ named' = [named EXCEPT ![o] = serial[a]]
  /\ IF built
     THEN /\ claims' = claims \cup ClaimOf(a)
          /\ open' = [open EXCEPT ![o] = "starting"]
          /\ engine' = [engine EXCEPT ![a] = o]
     ELSE /\ open' = [open EXCEPT ![o] = "rejected"]
          /\ UNCHANGED <<claims, engine>>
  /\ UNCHANGED <<bus, unseen, serial, stopping, proc, holds, robbed, search>>

\* The socket listens, and the engine is spawned unless stop() came first.
SpawnEngine(o) == /\ open[o] = "starting" /\ proc[o] = "none"
                  /\ o \notin stopping
                  /\ proc' = [proc EXCEPT ![o] = "running"]
                  /\ UNCHANGED <<bus, unseen, claims, serial, engine, calls,
                                 open, stopping, holds, robbed, search>>

\* Mutant: the claim stays where it was before the engine answered.
ClaimedAsNamed(a, r) == claims

\* The first status resolves start(), stopping or not; the rest of open()
\* moves the claim to the radio that answered.
Claimed(a, r) == (claims \ ({serial[a]} \ {r})) \cup {r}

OpenResolves(o) ==
  LET a == owner[o] IN
  /\ open[o] = "starting" /\ proc[o] = "running" /\ holds[o] # Blank
  /\ claims' = Claimed(a, holds[o])
  /\ serial' = [serial EXCEPT ![a] = holds[o]]
  /\ open' = [open EXCEPT ![o] = "opened"]
  /\ Rob(serial[a], o)
  /\ UNCHANGED <<bus, unseen, engine, calls, stopping, proc, holds, search>>

\* The engine died, never answered, or was stopped before it was spawned:
\* start() stops the client and waits for the process before it rejects.
StartFails(o) == /\ open[o] = "starting"
                 /\ open' = [open EXCEPT ![o] = "failing"]
                 /\ stopping' = stopping \cup {o}
                 /\ UNCHANGED <<bus, unseen, claims, serial, engine, calls,
                                proc, holds, robbed, search>>

OpenRejects(o) == /\ open[o] = "failing" /\ proc[o] # "running"
                  /\ open' = [open EXCEPT ![o] = "rejected"]
                  /\ claims' = claims \ {serial[owner[o]]}
                  /\ Rob(serial[owner[o]], o)
                  /\ UNCHANGED <<bus, unseen, serial, engine, calls, stopping,
                                 proc, holds, search>>

-----------------------------------------------------------------------------
(* The end of a device: engine.onFatal and close().                        *)

\* An engine that exits or falls silent by itself is killed and reported.
Fatal(o) == /\ open[o] = "opened" /\ o \notin stopping
            /\ open' = [open EXCEPT ![o] = "dead"]
            /\ proc' = [proc EXCEPT ![o] = "gone"]
            /\ holds' = [holds EXCEPT ![o] = Blank]
            /\ claims' = claims \ {serial[owner[o]]}
            /\ Rob(serial[owner[o]], o)
            /\ UNCHANGED <<bus, unseen, serial, engine, calls, stopping, search>>

\* At any time, also twice: a device removed, the plugin shutting down, or
\* the shell after a fatal error or a failed open.
Close(a) == /\ claims' = claims \ {serial[a]}
            /\ engine' = [engine EXCEPT ![a] = "none"]
            /\ stopping' = stopping \cup ({engine[a]} \cap Opens)
            /\ Rob(serial[a], engine[a])
            /\ UNCHANGED <<bus, unseen, serial, calls, open, proc, holds, search>>

-----------------------------------------------------------------------------
(* The engine processes, the bus and the clock.                            *)

\* UHD opens the radio of the serial it was given, or with a blank one any.
EngineTakes(o, r) == /\ proc[o] = "running" /\ holds[o] = Blank
                     /\ open[o] \in {"starting", "failing"}
                     /\ r \in Visible /\ named[o] \in {r, Blank}
                     /\ holds' = [holds EXCEPT ![o] = r]
                     /\ UNCHANGED <<bus, unseen, claims, serial, engine, calls,
                                    open, stopping, proc, robbed, search>>

EngineExits(o) == /\ proc[o] = "running"
                  /\ proc' = [proc EXCEPT ![o] = "gone"]
                  /\ holds' = [holds EXCEPT ![o] = Blank]
                  /\ UNCHANGED <<bus, unseen, claims, serial, engine, calls,
                                 open, stopping, robbed, search>>

\* Radios are plugged in and out, and the engine is built.
Environment ==
  /\ \/ \E r \in Radios : /\ attached' = IF r \in attached THEN attached \ {r}
                                         ELSE attached \cup {r}
                          /\ UNCHANGED built
     \/ built' = TRUE /\ UNCHANGED attached
  /\ UNCHANGED <<unseen, claims, lives, search>>

\* One interval passes; a find that has had its time is killed first.
Later == /\ find # "none" => findAge < FindMax
         /\ unseen' = [r \in Radios |-> IF r \in Visible THEN 0
                         ELSE IF unseen[r] < Old THEN unseen[r] + 1 ELSE Old]
         /\ findAge' = IF find = "none" THEN 0 ELSE findAge + 1
         /\ cacheAge' = Interval
         /\ UNCHANGED <<bus, claims, lives, find, sample, cache>>

Next == \/ Poll \/ FindSamples \/ FindEnds
        \/ \E o \in Opens : \/ SpawnEngine(o) \/ OpenResolves(o)
                            \/ StartFails(o) \/ OpenRejects(o) \/ Fatal(o)
                            \/ EngineExits(o)
                            \/ \E a \in Adapters : CallOpen(o, a)
                            \/ \E r \in Radios : EngineTakes(o, r)
        \/ \E a \in Adapters : Close(a)
        \/ Environment \/ Later

Spec == Init /\ [][Next]_vars

-----------------------------------------------------------------------------
(* Properties.                                                             *)

\* A radio at work is claimed, whatever else is opened, closed or found: what
\* ends a device's own work, and nothing it does before, gives up its claim.
\* Only another party can: a call of open() of the same serial that is rejected
\* or dies, or an adapter of it that is closed (adapter.js:224, 241, 663).
WorkingIsClaimed ==
  \A o \in Opens \ robbed : Working(o) => holds[o] \in claims

\* Every answer of discoverDevices() names every radio at work that has not
\* been given up by another party, also an answer from the cache or from an
\* enumeration begun before the radio was opened (adapter.js:72-80).
WorkingIsListed ==
  built /\ Fresh => \A o \in Opens \ robbed : Working(o) => holds[o] \in Answer

\* A radio that is listed and not claimed was on the bus, and free, no longer
\* ago than an enumeration and the life of its result can take.
ListedIsRecent ==
  Fresh => \A r \in Answer \ claims : unseen[r] <= Interval + FindMax
=============================================================================
