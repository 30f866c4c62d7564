---------------------------- MODULE EngineControl ----------------------------
(***************************************************************************)
(* engine/src/engine.cpp and the serve loop of main.cpp: the life of one   *)
(* engine process, seen from its threads.                                  *)
(*                                                                         *)
(*   ctl    takes commands, applies plans, reconfigures the radio, sweeps  *)
(*   rx     receives while it is not paused                                *)
(*   wd     the watchdog                                                   *)
(*   main   waits for a reason to leave, then shuts down                   *)
(*                                                                         *)
(* The dsp thread is left out: a hop ends with its capture or with the     *)
(* capture's timeout, and ctl does the same after both.  A plan is a   *)
(* profile (with the antenna: what reconfigures the radio) and a span (the *)
(* rest); a setPlan patch is taken with its missing fields filled in.      *)
(***************************************************************************)
EXTENDS Integers, Sequences

CONSTANTS
  Profiles,    \* radio profiles
  Spans,       \* everything else in a plan
  FirstPlan,   \* desired_ as the constructor leaves it
  LinePlan,    \* the plan the command line carries
  None,        \* no profile, no plan
  Hops,        \* LO positions in a sweep
  TimeoutLimit,\* consecutive rx timeouts the watchdog forgives
  MaxCommands  \* bound: commands the client sends

Plans == [profile : Profiles, span : Spans]

SetPlan(p) == [cmd |-> "setPlan", plan |-> p]

Commands == {SetPlan(p) : p \in Plans}
            \cup [cmd : {"start", "stop", "single", "shutdown"}]

ASSUME ControlAssumption ==
  /\ FirstPlan \in Plans /\ LinePlan \in Plans
  /\ None \notin Profiles \cup Plans
  /\ Hops \in Nat \ {0}
  /\ TimeoutLimit \in Nat
  /\ MaxCommands \in Nat

VARIABLES
  sent,     \* commands sent so far
  cmds,     \* cmds_, oldest first
  batch,    \* handleCommands()'s batch, what is left of it
  ctl,      \* where the ctl thread is
  hop,      \* LO positions this sweep has visited
  desired,  \* desired_
  dirty,    \* planDirty_
  plan,     \* plan_: the request and the profile it was made for
  applied,  \* the request of the last applied frame
  wanted,   \* sweepingWanted_
  single,   \* single_
  owed,     \* history: the sweeps asked for and not begun: none, one or any
  active,   \* activeProfile_
  stream,   \* streamer_: none, started or stopped
  running,  \* running_
  paused,   \* rxPaused_
  idle,     \* rxIdle_
  rx,       \* where the rx thread is
  timeouts, \* rxConsecutiveTimeouts_
  wd,       \* whether the watchdog still runs
  main,     \* where the main thread is
  device,   \* usrp_ is open
  dead,     \* the radio's transport died
  wedged,   \* ctl hangs in a UHD call
  exit      \* how the process ended

client  == <<sent, cmds>>
plans   == <<desired, dirty, plan, applied>>
sweeps  == <<wanted, single, owed, hop>>
radio   == <<active, stream, paused>>
rxState == <<idle, rx, timeouts>>
others  == <<wd, main, device>>
world   == <<dead, wedged, exit>>
vars == <<client, batch, ctl, plans, sweeps, radio, running, rxState, others,
          world>>

\* After open() and start().
Init == /\ sent = 0
        /\ cmds = <<>>
        /\ batch = <<>>
        /\ ctl = "top"
        /\ hop = 0
        /\ desired = FirstPlan
        /\ dirty = TRUE
        /\ plan = None
        /\ applied = None
        /\ wanted = FALSE
        /\ single = FALSE
        /\ owed = "none"
        /\ active = None
        /\ stream = "none"
        /\ running = TRUE
        /\ paused = FALSE
        /\ idle = TRUE
        /\ rx = "none"
        /\ timeouts = 0
        /\ wd = "running"
        /\ main = "starting"
        /\ device = "open"
        /\ dead = FALSE
        /\ wedged = FALSE
        /\ exit = "no"

-----------------------------------------------------------------------------
(* The ctl thread: commands.                                               *)

\* The top of ctlLoop(): leave, or swap the queue for an empty batch.
CtlTop == /\ ctl = "top"
          /\ \/ /\ ~running
                /\ ctl' = "tail"
                /\ UNCHANGED <<cmds, batch>>
             \/ /\ running
                /\ ctl' = "batch"
                /\ batch' = cmds
                /\ cmds' = <<>>
          /\ UNCHANGED <<sent, plans, sweeps, radio, running, rxState, others,
                         world>>

\* What a command asks for, in sweeps.
Asks == [start |-> "any", single |-> "one", stop |-> "none"]

\* A planDirty_ set only by what reconfigures the radio.
HandleCommandLazily ==
  /\ ctl = "batch" /\ batch # <<>>
  /\ batch' = Tail(batch)
  /\ LET cmd == Head(batch).cmd IN
     \/ /\ cmd = "setPlan"
        /\ desired' = Head(batch).plan
        /\ dirty' = (dirty \/ Head(batch).plan.profile # desired.profile)
        /\ UNCHANGED <<wanted, single, owed, running>>
     \/ /\ cmd \in {"start", "single", "stop"}
        /\ wanted' = (cmd # "stop")
        /\ single' = (cmd = "single")
        /\ owed' = Asks[cmd]
        /\ UNCHANGED <<desired, dirty, running>>
     \/ /\ cmd = "shutdown"
        /\ running' = FALSE
        /\ UNCHANGED <<desired, dirty, wanted, single, owed>>
  /\ UNCHANGED <<client, ctl, plan, applied, hop, radio, rxState, others,
                 world>>

HandleCommand ==
  /\ ctl = "batch" /\ batch # <<>>
  /\ batch' = Tail(batch)
  /\ LET cmd == Head(batch).cmd IN
     \/ /\ cmd = "setPlan"
        /\ desired' = Head(batch).plan
        /\ dirty' = TRUE
        /\ UNCHANGED <<wanted, single, owed, running>>
     \/ /\ cmd \in {"start", "single", "stop"}
        /\ wanted' = (cmd # "stop")
        /\ single' = (cmd = "single")
        /\ owed' = Asks[cmd]
        /\ UNCHANGED <<desired, dirty, running>>
     \/ /\ cmd = "shutdown"
        /\ running' = FALSE
        /\ UNCHANGED <<desired, dirty, wanted, single, owed>>
  /\ UNCHANGED <<client, ctl, plan, applied, hop, radio, rxState, others,
                 world>>

\* A plan that waits for the sweeping to be over.
BatchDoneLater ==
  /\ ctl = "batch" /\ batch = <<>>
  /\ ctl' = IF ~running THEN "tail"
            ELSE IF ~dirty \/ (wanted /\ plan # None) THEN "go"
            ELSE IF active # desired.profile THEN "pause" ELSE "apply"
  /\ UNCHANGED <<client, batch, plans, sweeps, radio, running, rxState, others,
                 world>>

\* A changed profile reconfigures the radio before the plan is made.
BatchDone ==
  /\ ctl = "batch" /\ batch = <<>>
  /\ ctl' = IF ~running THEN "tail"
            ELSE IF ~dirty THEN "go"
            ELSE IF active # desired.profile THEN "pause" ELSE "apply"
  /\ UNCHANGED <<client, batch, plans, sweeps, radio, running, rxState, others,
                 world>>

-----------------------------------------------------------------------------
(* The ctl thread: reconfigure(), called by applyPlan().                   *)

\* pauseRx() up to its wait; nothing to pause before the rx thread exists.
PauseRx == /\ ctl = "pause" /\ ~wedged
           /\ \/ /\ rx = "none"
                 /\ ctl' = "rates"
                 /\ stream' = "none"
                 /\ UNCHANGED paused
              \/ /\ rx # "none"
                 /\ ctl' = "await"
                 /\ stream' = IF stream = "started" THEN "stopped" ELSE stream
                 /\ paused' = TRUE
           /\ UNCHANGED <<client, batch, plans, sweeps, active, running,
                          rxState, others, world>>

\* pauseRx() waits for rxIdle_, two seconds at most; streamer_ is reset.
RxIsIdle == /\ ctl = "await"
            /\ idle
            /\ ctl' = "rates"
            /\ stream' = "none"
            /\ UNCHANGED <<client, batch, plans, sweeps, active, paused,
                           running, rxState, others, world>>

RxIdleTimeout == /\ ctl = "await"
                 /\ ~idle
                 /\ ctl' = "rates"
                 /\ stream' = "none"
                 /\ UNCHANGED <<client, batch, plans, sweeps, active, paused,
                                running, rxState, others, world>>

\* applyPlan()'s catch: go on with the profile there is, or give up.
ReconfigureFails ==
  \/ /\ active' # None
     /\ ctl' = "apply"
     /\ UNCHANGED running
  \/ /\ active' = None
     /\ ctl' = "top"
     /\ running' = FALSE

\* configureRates(), setAntenna().
ConfigureRates ==
  /\ ctl = "rates" /\ ~wedged
  /\ \/ /\ ~dead
        /\ active' = desired.profile
        /\ ctl' = "stream"
        /\ UNCHANGED running
     \/ /\ UNCHANGED active
        /\ ReconfigureFails
  /\ UNCHANGED <<client, batch, plans, sweeps, stream, paused, rxState, others,
                 world>>

\* makeStreamer() to resumeRx(), which only a complete reconfigure() reaches.
StartStream ==
  /\ ctl = "stream" /\ ~wedged
  /\ \/ /\ ~dead
        /\ stream' = "started"
        /\ rx' = IF rx = "none" THEN "top" ELSE rx
        /\ paused' = FALSE
        /\ ctl' = "apply"
        /\ UNCHANGED <<active, running>>
     \/ /\ stream' \in {"none", "stopped"}
        /\ UNCHANGED <<active, rx, paused>>
        /\ ReconfigureFails
  /\ UNCHANGED <<client, batch, plans, sweeps, idle, timeouts, others, world>>

-----------------------------------------------------------------------------
(* The ctl thread: the rest of applyPlan(), and sweeping.                  *)

\* The plan is made, the gain set, the plan put in force and announced.
ApplyPlan == /\ ctl = "apply" /\ ~wedged
             /\ plan' = [request |-> desired, profile |-> active]
             /\ dirty' = FALSE
             /\ applied' = desired
             /\ ctl' = "go"
             /\ UNCHANGED <<client, batch, desired, sweeps, radio, running,
                            rxState, others, world>>

\* Nothing to do: ctl waits for a command or 100 ms.
Rest == /\ ctl = "go" /\ ~wanted
        /\ ctl' = "top"
        /\ UNCHANGED <<client, batch, plans, sweeps, radio, running, rxState,
                       others, world>>

\* plant() if needed, then runSweep() on the plan in force.
BeginSweep == /\ ctl = "go" /\ ~wedged /\ wanted
              /\ ctl' = "sweep"
              /\ owed' = IF owed = "one" THEN "none" ELSE owed
              /\ UNCHANGED <<client, batch, plans, wanted, single, hop, radio,
                             running, rxState, others, world>>

\* One LO position: tune, request the captures, wait for the last of them.
Hop == /\ ctl = "sweep" /\ ~wedged
       /\ hop < Hops /\ running
       /\ wanted \/ single
       /\ hop' = hop + 1
       /\ UNCHANGED <<client, batch, ctl, plans, wanted, single, owed, radio,
                      running, rxState, others, world>>

\* sweepingWanted_ left as it is.
EndSweepStillWanted == /\ ctl = "sweep" /\ ~wedged
                       /\ hop = Hops \/ ~running \/ ~(wanted \/ single)
                       /\ ctl' = "top"
                       /\ hop' = 0
                       /\ single' = FALSE
                       /\ UNCHANGED <<wanted, owed>>
                       /\ UNCHANGED <<client, batch, plans, radio, running,
                                      rxState, others, world>>

\* A single sweep is over when it is over, cut short or not.
EndSweep == /\ ctl = "sweep" /\ ~wedged
            /\ hop = Hops \/ ~running \/ ~(wanted \/ single)
            /\ ctl' = "top"
            /\ hop' = 0
            /\ single' = FALSE
            /\ wanted' = (wanted /\ ~single)
            /\ UNCHANGED <<client, batch, plans, owed, radio, running, rxState,
                           others, world>>

\* A UHD call throws outside reconfigure(): ctlLoop()'s catch.
CtlFatal == /\ ctl \in {"apply", "sweep"} \/ (ctl = "go" /\ wanted)
            /\ ~wedged
            /\ running' = FALSE
            /\ ctl' = "tail"
            /\ UNCHANGED <<client, batch, plans, sweeps, radio, rxState,
                           others, world>>

CtlTail == /\ ctl = "tail" /\ ~wedged
           /\ stream' = IF stream = "started" THEN "stopped" ELSE stream
           /\ paused' = TRUE
           /\ ctl' = "done"
           /\ UNCHANGED <<client, batch, plans, sweeps, active, running,
                          rxState, others, world>>

-----------------------------------------------------------------------------
(* The rx thread.                                                          *)

\* A paused thread that waits to be resumed, whatever running_ says.
RxTopUntilResumed == /\ rx = "top"
                     /\ \/ /\ ~running /\ ~paused
                           /\ rx' = "done"
                           /\ idle' = TRUE
                        \/ /\ paused
                           /\ idle' = TRUE
                           /\ UNCHANGED rx
                        \/ /\ running /\ ~paused
                           /\ rx' = "unpaused"
                           /\ UNCHANGED idle
                     /\ UNCHANGED <<client, batch, ctl, plans, sweeps, radio,
                                    running, timeouts, others, world>>

\* The top of rxLoop(): running_ and rxPaused_ are read.  A paused thread comes
\* back here when rxCv_ is notified, or after 20 ms.
RxTop == /\ rx = "top"
         /\ \/ /\ ~running
               /\ rx' = "done"
               /\ idle' = TRUE
            \/ /\ running /\ paused
               /\ idle' = TRUE
               /\ UNCHANGED rx
            \/ /\ running /\ ~paused
               /\ rx' = "unpaused"
               /\ UNCHANGED idle
         /\ UNCHANGED <<client, batch, ctl, plans, sweeps, radio, running,
                        timeouts, others, world>>

RxTakesStream == /\ rx = "unpaused"
                 /\ idle' = FALSE
                 /\ rx' = IF stream = "none" THEN "top" ELSE "receiving"
                 /\ UNCHANGED <<client, batch, ctl, plans, sweeps, radio,
                                running, timeouts, others, world>>

RxReceives == /\ rx = "receiving"
              /\ stream = "started" /\ ~dead
              /\ timeouts' = 0
              /\ rx' = "top"
              /\ UNCHANGED <<client, batch, ctl, plans, sweeps, radio, running,
                             idle, others, world>>

\* Half a second without a sample.
RxTimesOut == /\ rx = "receiving"
              /\ timeouts' = IF timeouts > TimeoutLimit THEN timeouts
                             ELSE timeouts + 1
              /\ rx' = "top"
              /\ UNCHANGED <<client, batch, ctl, plans, sweeps, radio, running,
                             idle, others, world>>

-----------------------------------------------------------------------------
(* The other threads.                                                      *)

\* Only the control calls, or only the stream, watched.
WatchdogBitesOnWedge == /\ wd = "running"
                        /\ wedged
                        /\ exit' = "watchdog"
                        /\ UNCHANGED <<client, batch, ctl, plans, sweeps, radio,
                                       running, rxState, others, dead, wedged>>

WatchdogBitesOnSilence == /\ wd = "running"
                          /\ timeouts > TimeoutLimit /\ ~paused
                          /\ exit' = "watchdog"
                          /\ UNCHANGED <<client, batch, ctl, plans, sweeps,
                                         radio, running, rxState, others, dead,
                                         wedged>>

\* A control call that hangs, or a stream that is silent and not paused.
WatchdogBites == /\ wd = "running"
                 /\ wedged \/ (timeouts > TimeoutLimit /\ ~paused)
                 /\ exit' = "watchdog"
                 /\ UNCHANGED <<client, batch, ctl, plans, sweeps, radio,
                                running, rxState, others, dead, wedged>>

WatchdogEnds == /\ wd = "running" /\ ~running
                /\ wd' = "done"
                /\ UNCHANGED <<client, batch, ctl, plans, sweeps, radio,
                               running, rxState, main, device, world>>

\* The command line's plan, if it has one, is queued like a command, ctl being
\* at work already.
QueueLinePlan == /\ main = "starting"
                 /\ main' = "serving"
                 /\ \/ cmds' = Append(cmds, SetPlan(LinePlan))
                    \/ UNCHANGED cmds
                 /\ UNCHANGED <<sent, batch, ctl, plans, sweeps, radio,
                                running, rxState, wd, device, world>>

\* Engine::shutdown() finds running_ already false, and returns at once.
MainLeaves == /\ main = "serving"
              /\ ~running
              /\ main' = "returned"
              /\ UNCHANGED <<client, batch, ctl, plans, sweeps, radio, running,
                             rxState, wd, device, world>>

Joined(thread) == CASE thread = "ctl" -> ctl = "done"
                    [] thread = "rx"  -> rx \in {"none", "done"}
                    [] thread = "wd"  -> wd = "done"

MainJoins(now, thread, next) ==
  /\ main = now /\ Joined(thread)
  /\ main' = next
  /\ UNCHANGED <<client, batch, ctl, plans, sweeps, radio, running, rxState,
                 wd, device, world>>

\* The rx thread is not waited for.
JoinThreadsButRx == \/ MainJoins("joinCtl", "ctl", "joinWd")
                    \/ MainJoins("joinWd", "wd", "close")

JoinThreads == \/ MainJoins("joinCtl", "ctl", "joinRx")
               \/ MainJoins("joinRx", "rx", "joinWd")
               \/ MainJoins("joinWd", "wd", "close")

CloseDevice == /\ main = "close"
               /\ stream' = "none"
               /\ device' = "closed"
               /\ main' = "returned"
               /\ UNCHANGED <<client, batch, ctl, plans, sweeps, active,
                              paused, running, rxState, wd, world>>

\* main() returns.  ~Engine() finds running_ false too, and destroying a
\* joinable std::thread ends the process with std::terminate().
ProcessEnds == /\ main = "returned"
               /\ exit' = IF device = "closed" THEN "clean" ELSE "terminate"
               /\ UNCHANGED <<client, batch, ctl, plans, sweeps, radio,
                              running, rxState, others, dead, wedged>>

-----------------------------------------------------------------------------
(* The client, the user and the radio, while it matters: nobody reads a    *)
(* command once running_ is false.                                         *)

Send(cmd) == /\ sent < MaxCommands /\ running
             /\ sent' = sent + 1
             /\ cmds' = Append(cmds, cmd)
             /\ UNCHANGED <<batch, ctl, plans, sweeps, radio, running, rxState,
                            others, world>>

\* The client closed the socket or a signal came: g_stop is set, and main,
\* which polls it, finds running_ true and calls it off.
StopRequested ==
  /\ main = "serving" /\ running
  /\ running' = FALSE
  /\ main' = "joinCtl"
  /\ UNCHANGED <<client, batch, ctl, plans, sweeps, radio, rxState, wd, device,
                 world>>

\* The cable is pulled.
RadioDies == /\ ~dead /\ running
             /\ dead' = TRUE
             /\ UNCHANGED <<client, batch, ctl, plans, sweeps, radio, running,
                            rxState, others, wedged, exit>>

\* A UHD call does not come back.
Wedge == /\ \/ ctl \in {"pause", "rates", "stream", "apply", "sweep", "tail"}
            \/ ctl = "go" /\ wanted
         /\ ~wedged
         /\ wedged' = TRUE
         /\ UNCHANGED <<client, batch, ctl, plans, sweeps, radio, running,
                        rxState, others, dead, exit>>

-----------------------------------------------------------------------------
Ctl == \/ CtlTop \/ HandleCommand \/ BatchDone
       \/ PauseRx \/ RxIsIdle \/ RxIdleTimeout \/ ConfigureRates \/ StartStream
       \/ ApplyPlan \/ Rest \/ BeginSweep \/ Hop \/ EndSweep
       \/ CtlFatal \/ CtlTail
Rx == RxTop \/ RxTakesStream \/ RxReceives \/ RxTimesOut
Watchdog == WatchdogBites \/ WatchdogEnds
Main == \/ QueueLinePlan \/ MainLeaves \/ JoinThreads
        \/ CloseDevice \/ ProcessEnds
Environment == (\E cmd \in Commands : Send(cmd)) \/ StopRequested
               \/ RadioDies \/ Wedge

Next == /\ exit = "no"
        /\ Ctl \/ Rx \/ Watchdog \/ Main \/ Environment

Spec == Init /\ [][Next]_vars

(***************************************************************************)
(* Fairness: the scheduler runs every thread that can go on, the scripted  *)
(* waits end, and a call that has not wedged returns or throws.  Nothing   *)
(* is owed by the client, the user or the radio.                           *)
(***************************************************************************)
Alive == exit = "no"

Fairness == /\ WF_vars(Alive /\ Ctl)
            /\ WF_vars(Alive /\ Rx)
            /\ WF_vars(Alive /\ WatchdogBites)
            /\ WF_vars(Alive /\ WatchdogEnds)
            /\ WF_vars(Alive /\ Main)

FairSpec == Spec /\ Fairness

-----------------------------------------------------------------------------
(* Properties.                                                             *)

QueuesTyped == /\ sent \in 0 .. MaxCommands
               /\ cmds \in Seq(Commands) /\ batch \in Seq(Commands)

PlansTyped == /\ desired \in Plans
              /\ plan \in [request : Plans, profile : Profiles] \cup {None}
              /\ applied \in Plans \cup {None}
              /\ active \in Profiles \cup {None}

ThreadsTyped ==
  /\ ctl \in {"top", "batch", "pause", "await", "rates", "stream", "apply",
              "go", "sweep", "tail", "done"}
  /\ hop \in 0 .. Hops
  /\ owed \in {"none", "one", "any"}
  /\ stream \in {"none", "started", "stopped"}
  /\ rx \in {"none", "top", "unpaused", "receiving", "done"}
  /\ timeouts \in 0 .. TimeoutLimit + 1
  /\ wd \in {"running", "done"}
  /\ main \in {"starting", "serving", "joinCtl", "joinRx", "joinWd",
               "close", "returned"}
  /\ device \in {"open", "closed"}
  /\ exit \in {"no", "watchdog", "clean", "terminate"}

FlagsTyped == /\ dirty \in BOOLEAN /\ wanted \in BOOLEAN /\ single \in BOOLEAN
              /\ running \in BOOLEAN /\ paused \in BOOLEAN /\ idle \in BOOLEAN
              /\ dead \in BOOLEAN /\ wedged \in BOOLEAN

\* The state is well typed.
TypeOK == QueuesTyped /\ PlansTyped /\ ThreadsTyped /\ FlagsTyped

\* The engine sweeps the plan it last announced, which is the last one it was
\* asked for, with the profile the radio was last configured for.
SweepsWhatItSaid ==
  ctl = "sweep" => /\ ~dirty
                   /\ plan.request = desired /\ applied = desired
                   /\ plan.profile = active

\* The device is closed after every thread that uses it has ended, and with
\* its stream stopped.
JoinedBeforeClose ==
  device = "closed" => /\ ctl = "done" /\ rx \in {"none", "done"}
                       /\ wd = "done"
                       /\ stream = "none"

\* What makes the two inductive: a clean plan is the plan in force, and only
\* what follows applyPlan()'s test of planDirty_ knows it clean or dirty ...
PlanInForce == ~dirty => /\ plan.request = desired /\ applied = desired
                         /\ plan.profile = active

DirtyWhileApplying ==
  /\ ctl \in {"go", "sweep"} => ~dirty
  /\ ctl \in {"pause", "await", "rates", "stream", "apply"} => dirty
  /\ ctl \in {"stream", "apply"} => active # None

\* ... and main passes a join once the thread has ended for good.
JoinsInOrder ==
  LET past(places) == main \in places \/ device = "closed" IN
  /\ past({"joinRx", "joinWd", "close"}) => ctl = "done"
  /\ past({"joinWd", "close"}) => rx \in {"none", "done"}
  /\ past({"close"}) => wd = "done"
  /\ device = "closed" => stream = "none"

\* Wanting a sweep goes with being owed one.
WantedIsOwed ==
  /\ single => wanted
  /\ wanted /\ ~single => owed = "any"
  /\ single /\ ctl \notin {"sweep", "tail", "done"} => owed = "one"

ControlInv == /\ TypeOK /\ PlanInForce /\ DirtyWhileApplying /\ JoinsInOrder
              /\ WantedIsOwed

\* Nothing the engine can go on from.
Over == ~running \/ wedged \/ exit # "no"

\* The last plan the client asked for, wherever it is.
Latest == LET all == <<SetPlan(desired)>> \o batch \o cmds
              Sets(i) == all[i].cmd = "setPlan"
              last == CHOOSE i \in DOMAIN all :
                        Sets(i) /\ \A j \in DOMAIN all : j > i => ~Sets(j)
          IN all[last].plan

\* In the end the last plan asked for is in force and announced, sweep or no
\* sweep, also one that needs no reconfigure.
LatestPlanApplied == []<>(applied = Latest \/ Over)

\* A sweep begins only if it was asked for: after a single's one sweep, also
\* one that was cut short, and after a stop, none begins until a start or
\* another single is handled, whatever arrived in between (engine.cpp:284).
SweepsAsAsked == [][ctl # "sweep" /\ ctl' = "sweep" => owed # "none"]_vars

\* A hung UHD call ends the process while the engine is meant to run.
WedgeIsFatal == (wedged /\ running) ~> (exit # "no" \/ ~running)

\* So does a stream that went silent, as long as it is the engine's stream.
SilenceIsFatal ==
  (dead /\ stream = "started" /\ running)
    ~> (exit # "no" \/ ~running \/ stream # "started")

\* Once main has begun to leave, the process ends.
ShutdownEnds == main \notin {"starting", "serving"} ~> (exit # "no" \/ wedged)

\* "stops threads, closes the device": whatever made main leave.
ReleasedOnReturn == main = "returned" => device = "closed"
=============================================================================
