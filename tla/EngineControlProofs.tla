------------------------- MODULE EngineControlProofs -------------------------
(***************************************************************************)
(* The engine's safety properties, for every set of profiles and spans,    *)
(* every number of LO positions, of commands and of timeouts forgiven.     *)
(*                                                                         *)
(* ControlInv has four parts beside the types: PlanInForce leans on        *)
(* DirtyWhileApplying; JoinsInOrder and WantedIsOwed stand on their own.   *)
(* Each part has a lemma below, whose steps are the threads, and whose     *)
(* named actions are the ones that disturb the part.                       *)
(***************************************************************************)
EXTENDS EngineControl, TLAPS

-----------------------------------------------------------------------------
(* The types.                                                              *)

\* Only commands pass through the queue and the batch.
LEMMA QueuesStep ==
  ASSUME QueuesTyped, Next
  PROVE  QueuesTyped'
<1> USE DEF QueuesTyped
<1>c. MaxCommands \in Nat /\ SetPlan(LinePlan) \in Commands
  BY ControlAssumption DEF Commands
<1>1. CASE CtlTop
  <2>1. sent' = sent
    BY <1>1 DEF CtlTop
  <2>2. (cmds' = <<>> /\ batch' = cmds) \/ (cmds' = cmds /\ batch' = batch)
    BY <1>1 DEF CtlTop
  <2>3. <<>> \in Seq(Commands)
    OBVIOUS
  <2> QED
    BY <2>1, <2>2, <2>3
<1>2. CASE HandleCommand
  BY <1>2 DEF HandleCommand, client
<1>3. CASE QueueLinePlan
  BY <1>c, <1>3 DEF QueueLinePlan
<1>4. ASSUME NEW cmd \in Commands, Send(cmd)
      PROVE  QueuesTyped'
  BY <1>c, <1>4 DEF Send
<1>5. CASE UNCHANGED <<sent, cmds, batch>>
  BY <1>5
<1>6. \/ CtlTop \/ HandleCommand \/ QueueLinePlan
      \/ \E cmd \in Commands : Send(cmd)
      \/ UNCHANGED <<sent, cmds, batch>>
  BY DEF Next, Ctl, Rx, Watchdog, Main, Environment, client, plans, sweeps,
         radio, rxState, others, world, BatchDone, PauseRx, RxIsIdle,
         RxIdleTimeout, ConfigureRates, StartStream, ApplyPlan, Rest,
         BeginSweep, Hop, EndSweep, CtlFatal, CtlTail, RxTop, RxTakesStream,
         RxReceives, RxTimesOut, WatchdogBites, WatchdogEnds, MainLeaves,
         JoinThreads, MainJoins, CloseDevice, ProcessEnds, StopRequested,
         RadioDies, Wedge
<1> QED
  BY <1>1, <1>2, <1>3, <1>4, <1>5, <1>6

\* A plan is made with a profile in force: only ctl makes one, past "stream".
LEMMA PlansStep ==
  ASSUME QueuesTyped, PlansTyped, DirtyWhileApplying, Next
  PROVE  PlansTyped'
<1> USE DEF PlansTyped
<1>1. CASE HandleCommand
  <2>1. Head(batch) \in Commands
    BY <1>1 DEF HandleCommand, QueuesTyped
  <2>2. Head(batch).cmd = "setPlan" => Head(batch).plan \in Plans
    BY <2>1 DEF Commands, SetPlan
  <2> QED
    BY <1>1, <2>2 DEF HandleCommand, radio
<1>2. CASE ConfigureRates
  BY <1>2 DEF ConfigureRates, plans, Plans
<1>3. CASE ApplyPlan
  BY <1>3 DEF ApplyPlan, DirtyWhileApplying, radio
<1>4. CASE UNCHANGED <<desired, plan, applied, active>>
  BY <1>4
<1>5. \/ HandleCommand \/ ConfigureRates \/ ApplyPlan
      \/ UNCHANGED <<desired, plan, applied, active>>
  BY DEF Next, Ctl, Rx, Watchdog, Main, Environment, client, plans, sweeps,
         radio, rxState, others, world, CtlTop, BatchDone, PauseRx, RxIsIdle,
         RxIdleTimeout, StartStream, Rest, BeginSweep, Hop, EndSweep, CtlFatal,
         CtlTail, RxTop, RxTakesStream, RxReceives, RxTimesOut, WatchdogBites,
         WatchdogEnds, QueueLinePlan, MainLeaves, JoinThreads, MainJoins,
         CloseDevice, ProcessEnds, Send, StopRequested, RadioDies, Wedge
<1> QED
  BY <1>1, <1>2, <1>3, <1>4, <1>5

\* Where the threads are, what they count, and what they have left of the radio.
LEMMA ThreadsStep ==
  ASSUME ThreadsTyped, Next
  PROVE  ThreadsTyped'
<1> USE DEF ThreadsTyped, client, plans, sweeps, radio, rxState, others, world
<1>c. Hops \in Nat /\ TimeoutLimit \in Nat
  BY ControlAssumption
<1>1. CASE Ctl
  <2>1. CASE HandleCommand
    BY <1>c, <2>1 DEF HandleCommand, Asks
  <2> QED
    BY <1>c, <1>1, <2>1
    DEF Ctl, CtlTop, BatchDone, PauseRx, RxIsIdle, RxIdleTimeout,
        ConfigureRates, ReconfigureFails, StartStream, ApplyPlan, Rest,
        BeginSweep, Hop, EndSweep, CtlFatal, CtlTail
<1>2. CASE Rx
  BY <1>c, <1>2 DEF Rx, RxTop, RxTakesStream, RxReceives, RxTimesOut
<1>3. CASE Watchdog \/ Main
  BY <1>3
  DEF Watchdog, Main, WatchdogBites, WatchdogEnds, QueueLinePlan, MainLeaves,
      JoinThreads, MainJoins, CloseDevice, ProcessEnds
<1>4. CASE Environment
  BY <1>4 DEF Environment, Send, StopRequested, RadioDies, Wedge
<1> QED
  BY <1>1, <1>2, <1>3, <1>4 DEF Next

\* The flags the threads share.
LEMMA FlagsStep ==
  ASSUME FlagsTyped, Next
  PROVE  FlagsTyped'
<1> USE DEF FlagsTyped, client, plans, sweeps, radio, rxState, others, world
<1>1. CASE Ctl
  <2>1. CASE HandleCommand
    BY <2>1, Zenon DEF HandleCommand
  <2>2. CASE EndSweep
    BY <2>2, Zenon DEF EndSweep
  <2>3. CASE ConfigureRates \/ StartStream
    BY <2>3 DEF ConfigureRates, ReconfigureFails, StartStream
  <2>4. CASE CtlTop \/ BatchDone \/ PauseRx \/ RxIsIdle \/ RxIdleTimeout
    BY <2>4 DEF CtlTop, BatchDone, PauseRx, RxIsIdle, RxIdleTimeout
  <2>5. CASE ApplyPlan \/ Rest \/ BeginSweep \/ Hop \/ CtlFatal \/ CtlTail
    BY <2>5 DEF ApplyPlan, Rest, BeginSweep, Hop, CtlFatal, CtlTail
  <2> QED
    BY <1>1, <2>1, <2>2, <2>3, <2>4, <2>5 DEF Ctl
<1>2. CASE Rx
  BY <1>2 DEF Rx, RxTop, RxTakesStream, RxReceives, RxTimesOut
<1>3. CASE Watchdog \/ Main
  BY <1>3
  DEF Watchdog, Main, WatchdogBites, WatchdogEnds, QueueLinePlan, MainLeaves,
      JoinThreads, MainJoins, CloseDevice, ProcessEnds
<1>4. CASE Environment
  BY <1>4 DEF Environment, Send, StopRequested, RadioDies, Wedge
<1> QED
  BY <1>1, <1>2, <1>3, <1>4 DEF Next

-----------------------------------------------------------------------------
(* The plan in force.                                                      *)

\* Whatever ctl does between its test of planDirty_ and applyPlan()'s end, the
\* plan stays dirty, and with a profile from configureRates() on.
LEMMA DirtyStep ==
  ASSUME PlansTyped, DirtyWhileApplying, Next
  PROVE  DirtyWhileApplying'
<1> USE DEF DirtyWhileApplying, client, plans, sweeps, radio, rxState, others,
            world
<1>1. CASE Ctl
  <2>1. desired.profile # None
    BY ControlAssumption DEF PlansTyped, Plans
  <2> QED
    BY <1>1, <2>1
    DEF Ctl, CtlTop, HandleCommand, BatchDone, PauseRx, RxIsIdle,
        RxIdleTimeout, ConfigureRates, ReconfigureFails, StartStream,
        ApplyPlan, Rest, BeginSweep, Hop, EndSweep, CtlFatal, CtlTail
<1>2. CASE Rx
  BY <1>2 DEF Rx, RxTop, RxTakesStream, RxReceives, RxTimesOut
<1>3. CASE Watchdog \/ Main
  BY <1>3
  DEF Watchdog, Main, WatchdogBites, WatchdogEnds, QueueLinePlan, MainLeaves,
      JoinThreads, MainJoins, CloseDevice, ProcessEnds
<1>4. CASE Environment
  BY <1>4 DEF Environment, Send, StopRequested, RadioDies, Wedge
<1> QED
  BY <1>1, <1>2, <1>3, <1>4 DEF Next

\* A clean plan stays the plan in force: a new wish and a new profile both find
\* or leave it dirty.
LEMMA InForceStep ==
  ASSUME PlansTyped, DirtyWhileApplying, PlanInForce, Next
  PROVE  PlanInForce'
<1> USE DEF PlanInForce, plans, radio
<1>1. CASE HandleCommand
  <2>1. CASE Head(batch).cmd = "setPlan"
    BY <1>1, <2>1 DEF HandleCommand
  <2>2. CASE UNCHANGED <<desired, dirty>>
    BY <1>1, <2>2 DEF HandleCommand
  <2> QED
    BY <1>1, <2>1, <2>2 DEF HandleCommand
<1>2. CASE ConfigureRates
  BY <1>2 DEF ConfigureRates, DirtyWhileApplying
<1>3. CASE ApplyPlan
  BY <1>3 DEF ApplyPlan
<1>4. CASE UNCHANGED <<desired, dirty, plan, applied, active>>
  BY <1>4
<1>5. \/ HandleCommand \/ ConfigureRates \/ ApplyPlan
      \/ UNCHANGED <<desired, dirty, plan, applied, active>>
  BY DEF Next, Ctl, Rx, Watchdog, Main, Environment, client, sweeps, rxState,
         others, world, CtlTop, BatchDone, PauseRx, RxIsIdle, RxIdleTimeout,
         StartStream, Rest, BeginSweep, Hop, EndSweep, CtlFatal, CtlTail,
         RxTop, RxTakesStream, RxReceives, RxTimesOut, WatchdogBites,
         WatchdogEnds, QueueLinePlan, MainLeaves, JoinThreads, MainJoins,
         CloseDevice, ProcessEnds, Send, StopRequested, RadioDies, Wedge
<1> QED
  BY <1>1, <1>2, <1>3, <1>4, <1>5

-----------------------------------------------------------------------------
(* The way out.                                                            *)

\* A thread main has joined does not come back, nor does its use of the stream.
LEMMA JoinsStep ==
  ASSUME JoinsInOrder, Next
  PROVE  JoinsInOrder'
<1> USE DEF JoinsInOrder, client, plans, sweeps, radio, rxState, others, world
<1>1. CASE Ctl
  BY <1>1
  DEF Ctl, CtlTop, HandleCommand, BatchDone, PauseRx, RxIsIdle, RxIdleTimeout,
      ConfigureRates, ReconfigureFails, StartStream, ApplyPlan, Rest,
      BeginSweep, Hop, EndSweep, CtlFatal, CtlTail
<1>2. CASE Rx
  BY <1>2 DEF Rx, RxTop, RxTakesStream, RxReceives, RxTimesOut
<1>3. CASE Watchdog \/ Main
  BY <1>3
  DEF Watchdog, Main, WatchdogBites, WatchdogEnds, QueueLinePlan, MainLeaves,
      JoinThreads, MainJoins, Joined, CloseDevice, ProcessEnds
<1>4. CASE Environment
  BY <1>4 DEF Environment, Send, StopRequested, RadioDies, Wedge
<1> QED
  BY <1>1, <1>2, <1>3, <1>4 DEF Next

-----------------------------------------------------------------------------
(* What sweeps.                                                            *)

\* A command leaves ctl wanting what it asks for, and a sweep takes its own
\* from what is owed; between the two, and once it has ended, nothing else.
LEMMA OwedStep ==
  ASSUME FlagsTyped, ThreadsTyped, WantedIsOwed, Next
  PROVE  WantedIsOwed'
<1> USE DEF WantedIsOwed
<1>1. CASE HandleCommand
  <2>1. CASE Head(batch).cmd \in {"setPlan", "shutdown"}
    BY <1>1, <2>1 DEF HandleCommand
  <2>2. CASE Head(batch).cmd \in {"start", "single", "stop"}
    <3>1. owed' = Asks[Head(batch).cmd]
      BY <1>1, <2>2 DEF HandleCommand
    <3>2. /\ wanted' <=> Head(batch).cmd # "stop"
          /\ single' <=> Head(batch).cmd = "single"
      BY <1>1, <2>2, Zenon DEF HandleCommand
    <3> QED
      BY <2>2, <3>1, <3>2 DEF Asks
  <2> QED
    BY <1>1, <2>1, <2>2 DEF HandleCommand
<1>2. CASE BeginSweep
  BY <1>2 DEF BeginSweep
<1>3. CASE EndSweep
  BY <1>3 DEF EndSweep, FlagsTyped
<1>4. CASE /\ UNCHANGED <<wanted, single, owed>>
           /\ ctl' = ctl \/ ctl \notin {"sweep", "tail", "done"}
                \/ ctl' \in {"sweep", "tail", "done"}
  BY <1>4
<1>5. \/ HandleCommand \/ BeginSweep \/ EndSweep
      \/ /\ UNCHANGED <<wanted, single, owed>>
         /\ ctl' = ctl \/ ctl \notin {"sweep", "tail", "done"}
              \/ ctl' \in {"sweep", "tail", "done"}
  BY DEF Next, Ctl, Rx, Watchdog, Main, Environment, client, plans, sweeps,
         radio, rxState, others, world, CtlTop, BatchDone, PauseRx, RxIsIdle,
         RxIdleTimeout, ConfigureRates, StartStream, ApplyPlan, Rest, Hop,
         CtlFatal, CtlTail, RxTop, RxTakesStream, RxReceives, RxTimesOut,
         WatchdogBites, WatchdogEnds, QueueLinePlan, MainLeaves, JoinThreads,
         MainJoins, CloseDevice, ProcessEnds, Send, StopRequested, RadioDies,
         Wedge
<1> QED
  BY <1>1, <1>2, <1>3, <1>4, <1>5

\* The step that begins a sweep finds one owed.
LEMMA BeginIsOwed ==
  ASSUME FlagsTyped, WantedIsOwed, Next, ctl # "sweep", ctl' = "sweep"
  PROVE  owed # "none"
<1>1. BeginSweep
  BY DEF Next, Ctl, Rx, Watchdog, Main, Environment, client, plans, sweeps,
         radio, rxState, others, world, CtlTop, HandleCommand, BatchDone,
         PauseRx, RxIsIdle, RxIdleTimeout, ConfigureRates, ReconfigureFails,
         StartStream, ApplyPlan, Rest, Hop, EndSweep, CtlFatal, CtlTail, RxTop,
         RxTakesStream, RxReceives, RxTimesOut, WatchdogBites, WatchdogEnds,
         QueueLinePlan, MainLeaves, JoinThreads, MainJoins, CloseDevice,
         ProcessEnds, Send, StopRequested, RadioDies, Wedge
<1> QED
  BY <1>1 DEF BeginSweep, WantedIsOwed

-----------------------------------------------------------------------------
(* The theorems.                                                           *)

\* ControlInv is inductive, and holds throughout.
THEOREM ControlInductive == Spec => []ControlInv
<1>1. Init => ControlInv
  <2> SUFFICES ASSUME Init
               PROVE  ControlInv
    OBVIOUS
  <2> USE DEF Init
  <2>1. QueuesTyped
    BY ControlAssumption DEF QueuesTyped
  <2>2. PlansTyped
    BY ControlAssumption DEF PlansTyped
  <2>3. ThreadsTyped
    BY ControlAssumption DEF ThreadsTyped
  <2>4. FlagsTyped
    BY DEF FlagsTyped
  <2>5. PlanInForce /\ DirtyWhileApplying /\ JoinsInOrder /\ WantedIsOwed
    BY DEF PlanInForce, DirtyWhileApplying, JoinsInOrder, WantedIsOwed
  <2> QED
    BY <2>1, <2>2, <2>3, <2>4, <2>5 DEF ControlInv, TypeOK
<1>2. ControlInv /\ [Next]_vars => ControlInv'
  <2> SUFFICES ASSUME ControlInv, [Next]_vars
               PROVE  ControlInv'
    OBVIOUS
  <2>1. CASE Next
    BY <2>1, QueuesStep, PlansStep, ThreadsStep, FlagsStep, DirtyStep,
       InForceStep, JoinsStep, OwedStep DEF ControlInv, TypeOK
  <2>2. CASE UNCHANGED vars
    BY <2>2
    DEF ControlInv, TypeOK, QueuesTyped, PlansTyped, ThreadsTyped, FlagsTyped,
        PlanInForce, DirtyWhileApplying, JoinsInOrder, WantedIsOwed, vars,
        client, plans, sweeps, radio, rxState, others, world
  <2> QED
    BY <2>1, <2>2
<1> QED
  BY <1>1, <1>2, PTL DEF Spec

\* The state is well typed: among others, a plan is never made without a profile
\* in force, though a reconfigure() that threw may have left none.
THEOREM ControlTypeCorrect == Spec => []TypeOK
<1>1. ControlInv => TypeOK
  BY DEF ControlInv
<1> QED
  BY <1>1, ControlInductive, PTL

\* The engine sweeps the plan it last announced, the last one asked for.
THEOREM SweepIsAnnounced == Spec => []SweepsWhatItSaid
<1>1. ControlInv => SweepsWhatItSaid
  BY DEF ControlInv, PlanInForce, DirtyWhileApplying, SweepsWhatItSaid
<1> QED
  BY <1>1, ControlInductive, PTL

\* The device is closed after every thread that uses it has ended.
THEOREM CloseIsLast == Spec => []JoinedBeforeClose
<1>1. ControlInv => JoinedBeforeClose
  BY DEF ControlInv, JoinsInOrder, JoinedBeforeClose
<1> QED
  BY <1>1, ControlInductive, PTL

\* No sweep begins that was not asked for: one for each single, none after a
\* stop, whatever commands come together, fail, or arrive during a sweep.
THEOREM SweepsOnlyAsAsked == Spec => SweepsAsAsked
<1>1. ASSUME ControlInv, [Next]_vars
      PROVE  [ctl # "sweep" /\ ctl' = "sweep" => owed # "none"]_vars
  BY <1>1, BeginIsOwed DEF ControlInv, TypeOK
<1> QED
  BY <1>1, ControlInductive, PTL DEF Spec, SweepsAsAsked
=============================================================================
