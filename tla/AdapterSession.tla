--------------------------- MODULE AdapterSession ---------------------------
(***************************************************************************)
(* adapter.js on an open radio: applyConfig(), startSweep(), stopSweep()   *)
(* and #onSweep(), over the two ordered streams of the engine's socket, to *)
(* an engine that answers in its own time.                                 *)
(*                                                                         *)
(* The engine is driver/fake-engine.js, which takes a line at a time, or   *)
(* the real one, whose ctl loop takes all that came, between sweeps only   *)
(* (EngineControl has its threads).  The shell makes one applyConfig() at  *)
(* a time (docs/adapter-reference.md:202).  A plan is its span, its two    *)
(* bandwidths and image rejection: a span is a name, and only the ratio of *)
(* the bandwidths and the step matter of the numbers.                      *)
(***************************************************************************)
EXTENDS Integers, Sequences, SequencesExt, FiniteSetsExt, FiniteSets

CONSTANTS
  Kinds,     \* of engine: "fake", "real"
  Requests,  \* the patches the shell may ask for: functions on some of Fields
  Default,   \* the plan an engine starts with
  MaxStep,   \* GRID_MAX_STEP_HZ
  Ratios,    \* AVERAGING_RATIOS
  MaxCalls,  \* bound: calls of applyConfig()
  MaxLines,  \* bound: commands under way
  MaxFrames  \* bound: frames under way when a sweep is sent

Fields == {"span", "rbw", "vbw", "img"}
Nothing == <<>> \* the empty patch, {}
None == <<>>    \* no grid

Positive == Nat \ {0}

\* Bandwidths are in a unit in which every ratio divides every RBW: the code
\* divides floating-point numbers.
IsRbw(n) == n \in Positive /\ \A a \in Ratios : n % a = 0

\* Settings of some of a plan's fields, or of all of them.
IsPatch(p) == /\ p = [f \in DOMAIN p |-> p[f]]
              /\ DOMAIN p \subseteq Fields
              /\ "rbw" \in DOMAIN p => IsRbw(p.rbw)
              /\ "vbw" \in DOMAIN p => p.vbw \in Positive
              /\ "img" \in DOMAIN p => p.img \in BOOLEAN
IsPlan(p) == IsPatch(p) /\ DOMAIN p = Fields

ASSUME SessionAssumption ==
  /\ Kinds \subseteq {"fake", "real"}
  /\ Ratios \subseteq Positive /\ IsFiniteSet(Ratios) /\ Ratios # {}
  /\ IsPlan(Default) /\ Default.vbw <= Default.rbw
  /\ \A c \in Requests : /\ DOMAIN c \subseteq Fields \cup {"avg"}
                         /\ IsPatch([f \in DOMAIN c \cap Fields |-> c[f]])
                         /\ "avg" \in DOMAIN c => c.avg \in Ratios
  /\ MaxStep \in Positive
  /\ MaxCalls \in Nat /\ MaxLines \in Nat /\ MaxFrames \in Nat

VARIABLES
  plan,     \* this.plan
  controls, \* this.controls: averaging and imageReject
  geometry, \* this.geometry.grid, or None
  sweeping, \* this.sweeping
  call,     \* the call of applyConfig(): "idle", "waiting", "answered"
  asked,    \* its cfg
  sent,     \* the plan it sent, and waits to see answered
  reply,    \* the `applied` that resolved it
  calls,    \* how many calls were made
  failed,   \* one of them was not acknowledged
  drawn,    \* the grid of the last trace since the last echo, or None
  commands, \* lines to the engine
  frames,   \* `applied` and sweep frames to the adapter
  kind,     \* which engine it is
  force,    \* the engine's plan
  starting, \* startingUp
  early,    \* earlyPlans, and the lines they came with
  wanted,   \* the engine has been told to sweep
  inSweep,  \* the real engine is in runSweep()
  unsent    \* the grid of a sweep it has captured and not yet sent, or None

session == <<plan, controls, geometry, call, asked, sent, reply, calls, failed>>
adapter == <<session, sweeping, drawn>>
engine == <<kind, force, starting, early, wanted, inSweep, unsent>>
vars == <<adapter, commands, frames, engine>>

-----------------------------------------------------------------------------
(* Plans and grids.                                                        *)

\* snapToGrid(): what sameGrid() compares of a plan.
Grid(p) == <<p.span, IF p.rbw < MaxStep THEN p.rbw ELSE MaxStep>>

\* nearestAveraging(): |log(ratio / a)| < |log(ratio / b)|, in whole numbers.
\* Of two that are as near the smaller is kept, which comes first.
Closer(p, a, b) == IF a > b THEN p.rbw * p.rbw > a * b * p.vbw * p.vbw
                   ELSE p.rbw * p.rbw <= a * b * p.vbw * p.vbw
AveragingId(p) == CHOOSE a \in Ratios : \A b \in Ratios \ {a} : Closer(p, a, b)

\* Mutant: the video bandwidth is not limited.
Unlimited(p) == p

\* What the engine makes of a plan: no video bandwidth above the RBW.
Limited(p) == [p EXCEPT !.vbw = IF @ > p.rbw THEN p.rbw ELSE @]

Has(cfg, field) == field \in DOMAIN cfg

\* Mutant: a reply to anything is the answer.
AnswersAll(requested, patch) == TRUE

\* answers(): the reply echoes everything the patch set.
Answers(requested, patch) == \A f \in DOMAIN patch : requested[f] = patch[f]

TypeOK == /\ plan.vbw \in 1..plan.rbw /\ force.vbw \in 1..force.rbw
          /\ controls.avg \in Ratios /\ controls.img \in BOOLEAN
          /\ call \in {"idle", "waiting", "answered"}
          /\ calls \in 0..MaxCalls
          /\ Len(commands) <= MaxLines + 1
          /\ \A i \in 1..Len(frames) : frames[i].type \in {"applied", "sweep"}

Init == /\ plan = Default
        /\ controls = [avg |-> AveragingId(Default), img |-> TRUE]
        /\ geometry = None /\ sweeping = FALSE /\ drawn = None
        /\ call = "idle" /\ asked = Nothing /\ sent = Nothing
        /\ reply = Nothing /\ calls = 0 /\ failed = FALSE
        /\ frames = <<>>
        /\ kind \in Kinds
        /\ force = Default /\ wanted = FALSE /\ inSweep = FALSE
        /\ unsent = None
        /\ early = <<>>
        \* The second announcement is to come: the fake's timer, or the plan
        \* of the real engine's command line.
        /\ starting = (kind = "fake")
        /\ commands = IF kind = "fake" THEN <<>>
                      ELSE <<[cmd |-> "setPlan", patch |-> Nothing]>>

-----------------------------------------------------------------------------
(* The adapter: applyConfig().                                             *)

\* Mutant: the averaging in force is left to the old video bandwidth.
AveragingAsked(cfg) == IF Has(cfg, "avg") THEN {cfg.avg} ELSE {}

\* The averaging to send as a video bandwidth, if any: the control's, or with
\* a new RBW alone the one in force.
Averaging(cfg) ==
  IF Has(cfg, "avg") THEN {cfg.avg}
  ELSE IF Has(cfg, "rbw") /\ ~Has(cfg, "vbw") THEN {controls.avg} ELSE {}

\* The engine's plan disagrees with the plugin's policy.
Policy(cfg) == ~Has(cfg, "img") /\ plan.img # controls.img

\* The plan to send: what the patch names and what the adapter adds to it.
\* `plan` here is `previous`.
RbwFor(cfg) == IF Has(cfg, "rbw") THEN cfg.rbw ELSE plan.rbw
PlanFor(cfg) ==
  [f \in (DOMAIN cfg \cap Fields) \cup {v \in {"vbw"} : Averaging(cfg) # {}}
                                \cup {i \in {"img"} : Policy(cfg)} |->
     IF f = "vbw" /\ Averaging(cfg) # {}
     THEN RbwFor(cfg) \div (CHOOSE a \in Averaging(cfg) : TRUE)
     ELSE IF f = "img" /\ Policy(cfg) THEN controls.img ELSE cfg[f]]

\* Up to the await of setPlan().
ApplyConfig(cfg) ==
  /\ call = "idle" /\ calls < MaxCalls /\ Len(commands) < MaxLines
  /\ call' = "waiting"
  /\ asked' = cfg
  /\ sent' = PlanFor(cfg)
  /\ commands' = Append(commands, [cmd |-> "setPlan", patch |-> sent'])
  /\ calls' = calls + 1
  /\ UNCHANGED <<plan, controls, geometry, reply, failed, sweeping, drawn,
                 frames, engine>>

\* The rest of it, once setPlan() has resolved: the echo is the reply.
Echo == /\ call = "answered"
        /\ call' = "idle"
        /\ plan' = reply
        /\ geometry' = Grid(reply)
        /\ controls' = [avg |-> AveragingId(reply), img |-> reply.img]
        /\ drawn' = None
        /\ asked' = Nothing /\ sent' = Nothing /\ reply' = Nothing
        /\ UNCHANGED <<calls, failed, sweeping, commands, frames, engine>>

\* APPLY_TIMEOUT_MS: the waiter goes and the call rejects.  The command is
\* still on its way.
PlanTimesOut == /\ call = "waiting"
                /\ call' = "idle" /\ failed' = TRUE
                /\ asked' = Nothing /\ sent' = Nothing
                /\ UNCHANGED <<plan, controls, geometry, reply, calls,
                               sweeping, drawn, commands, frames, engine>>

-----------------------------------------------------------------------------
(* The adapter: sweeps.                                                    *)

StartSweep == /\ ~sweeping /\ call # "answered" /\ Len(commands) < MaxLines
              /\ sweeping' = TRUE
              /\ commands' = Append(commands, [cmd |-> "start"])
              /\ UNCHANGED <<session, drawn, frames, engine>>

StopSweep == /\ call # "answered" /\ Len(commands) < MaxLines
             /\ sweeping' = FALSE
             /\ commands' = Append(commands, [cmd |-> "stop"])
             /\ UNCHANGED <<session, drawn, frames, engine>>

\* Mutant: a sweep is drawn whatever it was measured on.
AnyGrid(grid) == TRUE

SameGrid(grid) == grid = geometry

\* The next frame is handled: #onFrame(), #onSweep().  Several may be in one
\* chunk, and are handled before the call that one of them answers goes on.
Deliver ==
  /\ frames # <<>>
  /\ frames' = Tail(frames)
  /\ LET f == Head(frames) IN
     \/ /\ f.type = "applied" /\ call = "waiting" /\ Answers(f.requested, sent)
        /\ call' = "answered" /\ reply' = f.applied
        /\ UNCHANGED drawn
     \/ /\ f.type = "applied" /\ ~(call = "waiting" /\ Answers(f.requested, sent))
        /\ UNCHANGED <<call, reply, drawn>>
     \/ /\ f.type = "sweep"
        /\ drawn' = IF sweeping /\ geometry # None /\ SameGrid(f.grid)
                    THEN f.grid ELSE drawn
        /\ UNCHANGED <<call, reply>>
  /\ UNCHANGED <<plan, controls, geometry, asked, sent, calls, failed,
                 sweeping, commands, engine>>

-----------------------------------------------------------------------------
(* The engine.                                                             *)

Applied(requested) == [type |-> "applied", requested |-> requested,
                       applied |-> Limited(requested)]
SweepFrame(grid) == [type |-> "sweep", grid |-> grid]

\* The plans of some lines laid over p, one after the other: a field is as the
\* last line that names it has it.
Setters(lines, f) == {i \in DOMAIN lines : lines[i].cmd = "setPlan"
                                           /\ Has(lines[i].patch, f)}
Laid(p, lines) ==
  [f \in Fields |-> IF Setters(lines, f) = {} THEN p[f]
                    ELSE lines[Max(Setters(lines, f))].patch[f]]

\* fake-engine.js, applyPlan().
FakeApplies(line) ==
  /\ force' = Limited(Laid(force, <<line>>))
  /\ frames' = Append(frames, Applied(Laid(force, <<line>>)))

\* fake-engine.js, handle(): one line.
FakeTakes ==
  /\ kind = "fake" /\ commands # <<>>
  /\ commands' = Tail(commands)
  /\ LET c == Head(commands) IN
     \/ /\ c.cmd = "setPlan" /\ starting
        /\ early' = Append(early, c)
        /\ UNCHANGED <<force, frames, wanted>>
     \/ /\ c.cmd = "setPlan" /\ ~starting
        /\ FakeApplies(c)
        /\ UNCHANGED <<early, wanted>>
     \/ /\ c.cmd # "setPlan"
        /\ wanted' = (c.cmd = "start")
        /\ UNCHANGED <<early, force, frames>>
  /\ UNCHANGED <<adapter, kind, starting, inSweep, unsent>>

\* The second announcement, and then the plans that came before it, as one.
FakeAnnounces ==
  /\ kind = "fake" /\ starting
  /\ starting' = FALSE /\ early' = <<>>
  /\ LET merged == Laid(force, early)
     IN /\ force' = Limited(merged)
        /\ frames' = frames \o <<Applied(force)>>
             \o (IF early = <<>> THEN <<>> ELSE <<Applied(merged)>>)
  /\ UNCHANGED <<adapter, commands, kind, wanted, inSweep, unsent>>

\* emitSweep(), by its interval timer.
FakeSweeps == /\ kind = "fake" /\ wanted /\ Len(frames) < MaxFrames
              /\ frames' = Append(frames, SweepFrame(Grid(force)))
              /\ UNCHANGED <<adapter, commands, engine>>

\* handleCommands(): every line that came, in one batch.
Batch == Laid(force, commands)
WantedAfter == LET Want(w, c) == IF c.cmd = "setPlan" THEN w ELSE c.cmd = "start"
               IN FoldLeft(Want, wanted, commands)

\* engine.cpp, ctlLoop() up to runSweep(): one `applied` for the whole batch.
RealLoop ==
  /\ kind = "real" /\ ~inSweep
  /\ commands # <<>> \/ wanted
  /\ commands' = <<>>
  /\ wanted' = WantedAfter
  /\ inSweep' = WantedAfter
  /\ IF \E i \in 1..Len(commands) : commands[i].cmd = "setPlan"
     THEN /\ force' = Limited(Batch)
          /\ frames' = Append(frames, Applied(Batch))
     ELSE UNCHANGED <<force, frames>>
  /\ UNCHANGED <<adapter, kind, starting, early, unsent>>

\* runSweep() returns when its last capture is taken, by the thread that has
\* sent the sweep before.  The trace is yet to be computed and sent.
RealSweepEnds == /\ inSweep /\ unsent = None /\ Len(frames) < MaxFrames
                 /\ inSweep' = FALSE
                 /\ unsent' = Grid(force)
                 /\ UNCHANGED <<adapter, commands, frames, kind, force, starting,
                                early, wanted>>

\* processCapture() and emitTrace(), in the dsp thread: the ctl thread may have
\* answered a plan meanwhile.
RealSends == /\ unsent # None
             /\ unsent' = None
             /\ frames' = Append(frames, SweepFrame(unsent))
             /\ UNCHANGED <<adapter, commands, kind, force, starting, early,
                            wanted, inSweep>>

-----------------------------------------------------------------------------
Next == \/ \E cfg \in Requests : ApplyConfig(cfg)
        \/ Echo \/ PlanTimesOut \/ StartSweep \/ StopSweep \/ Deliver
        \/ FakeTakes \/ FakeAnnounces \/ FakeSweeps
        \/ RealLoop \/ RealSweepEnds \/ RealSends

\* The engine works on, the socket delivers and promises go on; the shell
\* need not call and no call need time out.
Spec == /\ Init /\ [][Next]_vars
        /\ WF_vars(Echo) /\ WF_vars(Deliver)
        /\ WF_vars(FakeTakes) /\ WF_vars(FakeAnnounces) /\ WF_vars(FakeSweeps)
        /\ WF_vars(RealLoop) /\ WF_vars(RealSweepEnds) /\ WF_vars(RealSends)

-----------------------------------------------------------------------------
(* Properties.                                                             *)

\* When all is said, and no call has failed, the adapter's plan, which every
\* echo and the next patch are built from, is the engine's: no announcement
\* was taken for an answer that was not one (engine-client.js:203-210).
EchoIsInForce ==
  (/\ call = "idle" /\ ~failed /\ geometry # None
   /\ commands = <<>> /\ frames = <<>> /\ early = <<>> /\ ~starting)
     => plan = force

\* The shell is never handed a trace that was measured on another axis than
\* the one last echoed to it, also with a failed call behind (adapter.js:672).
TraceOnEchoedAxis == drawn # None => drawn = Grid(plan)

\* The averaging choice is what the user made it: a call that names it gets
\* it, and one that only changes the RBW keeps it (adapter.js:517-521).
AveragingIsKept ==
  [][(call = "answered" /\ call' = "idle" /\ ~failed) =>
       /\ Has(asked, "avg") => controls'.avg = asked.avg
       /\ (Has(asked, "rbw") /\ ~Has(asked, "vbw") /\ ~Has(asked, "avg"))
            => controls'.avg = controls.avg]_vars

\* A configured adapter that sweeps is drawing, or will be: what is dropped
\* for its grid is followed by what is not, as long as no call has failed.
TracesArrive ==
  (sweeping /\ geometry # None /\ ~failed)
     ~> (drawn # None \/ ~sweeping \/ failed)

\* What adapter.js:675 says of a sweep that is dropped: the next one, one that
\* is drawn, is not far.  Also after a call that was not acknowledged.
DroppedIsFollowed ==
  (sweeping /\ geometry # None) ~> (drawn # None \/ ~sweeping)
=============================================================================
