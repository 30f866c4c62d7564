------------------------- MODULE EngineClientProofs -------------------------
(***************************************************************************)
(* The client's safety properties, for every number of setPlan() and       *)
(* stop() calls, and any number of frames on their way.                    *)
(*                                                                         *)
(* The inductive invariant has three parts that no step mixes: the control *)
(* state, the waiters, and the connection.                                 *)
(***************************************************************************)
EXTENDS EngineClient, SequenceTheorems, TLAPS

-----------------------------------------------------------------------------
(* The control state.                                                      *)

Scalars == /\ startPc \in {"idle", "listening", "waiting", "failing",
                           "resolved", "rejected"}
           /\ server \in BOOLEAN /\ child \in BOOLEAN /\ conn \in BOOLEAN
           /\ stopping \in BOOLEAN /\ dead \in BOOLEAN
           /\ health \in BOOLEAN /\ closeTimer \in BOOLEAN
           /\ wedged \in BOOLEAN /\ killed \in BOOLEAN
           /\ stopPc \in [Stoppers -> {"idle", "grace", "closing", "done"}]
           /\ fatal \in Nat
           /\ proc \in {"none", "running", "exited", "reaped", "unstartable",
                        "void"}

ControlInv == Scalars /\ UnbornUntilSpawned /\ StopsAreStops /\ ChildIsHeld
              /\ OneVerdict /\ SilenceIsTimed

\* #die, whoever calls it: the silence timer, the 150 ms timer, a bad frame, the
\* child's exit or its failure to run.
LEMMA DieKeepsControl ==
  ASSUME ControlInv, ~Unborn,
         NEW hasChild \in BOOLEAN, NEW rest, Die(hasChild, rest),
         hasChild = child \/ (~hasChild /\ proc' = "reaped"),
         closeTimer' \in BOOLEAN, wedged' = wedged,
         proc' \in {proc, "reaped", "void"}
  PROVE  ControlInv'
<1> USE DEF ControlInv, Scalars, UnbornUntilSpawned, Unborn, StopsAreStops,
       ChildIsHeld, OneVerdict, SilenceIsTimed
<1>0. "start" \in Stoppers
  BY DEF Stoppers
<1>k. killed' \in BOOLEAN
  BY DEF Die, FailStart, StopBody
<1>1. CASE ~MayDie
  BY <1>0, <1>1 DEF Die, MayDie
<1>2. CASE MayDie /\ startPc = "waiting"
  <2>1. FailStart(hasChild, rest) /\ dead' = TRUE /\ UNCHANGED fatal
        /\ killed' = (killed \/ (hasChild /\ Unreported))
    BY <1>2 DEF Die
  <2>2. startPc' = "failing" /\ stopping' = TRUE /\ health' = FALSE
      /\ child' = FALSE
    BY <2>1 DEF FailStart, StopBody
  <2>3. CASE hasChild /\ Unreported /\ UNCHANGED <<conn, link, server>>
             /\ stopPc' = [stopPc EXCEPT !["start"] = "grace"]
    <3>1. Scalars'
      BY <1>0, <1>k, <1>2, <2>1, <2>2, <2>3 DEF MayDie
    <3>2. UnbornUntilSpawned'
      BY <1>0, <1>2, <2>1, <2>2, <2>3 DEF MayDie
    <3>3. StopsAreStops'
      BY <1>0, <1>2, <2>1, <2>2, <2>3 DEF MayDie
    <3>4. ChildIsHeld'
      BY <1>0, <1>2, <2>1, <2>2, <2>3 DEF MayDie
    <3>5. OneVerdict'
      BY <1>0, <1>2, <2>1, <2>2, <2>3 DEF MayDie
    <3>6. SilenceIsTimed'
      BY <1>0, <1>2, <2>1, <2>2, <2>3 DEF MayDie
    <3> QED
      BY <3>1, <3>2, <3>3, <3>4, <3>5, <3>6
  <2>4. CASE ~(hasChild /\ Unreported) /\ Teardown("start")
    <3>1. Scalars'
      BY <1>0, <1>k, <1>2, <2>1, <2>2, <2>4 DEF Teardown, Unreported, MayDie
    <3>2. UnbornUntilSpawned'
      BY <1>0, <1>2, <2>1, <2>2, <2>4 DEF Teardown, Unreported, MayDie
    <3>3. StopsAreStops'
      BY <1>0, <1>2, <2>1, <2>2, <2>4 DEF Teardown, Unreported, MayDie
    <3>4. ChildIsHeld'
      BY <1>0, <1>2, <2>1, <2>2, <2>4 DEF Teardown, Unreported, MayDie
    <3>5. OneVerdict'
      BY <1>0, <1>2, <2>1, <2>2, <2>4 DEF Teardown, Unreported, MayDie
    <3>6. SilenceIsTimed'
      BY <1>0, <1>2, <2>1, <2>2, <2>4 DEF Teardown, Unreported, MayDie
    <3> QED
      BY <3>1, <3>2, <3>3, <3>4, <3>5, <3>6
  <2> QED
    BY <2>1, <2>3, <2>4 DEF FailStart, StopBody
<1>3. CASE MayDie /\ startPc # "waiting"
  <2>1. /\ dead' = TRUE /\ fatal' = fatal + 1 /\ health' = FALSE /\ child' = hasChild
        /\ UNCHANGED <<startPc, server, conn, stopping, stopPc>>
    BY <1>3 DEF Die
  <2>2. killed' = (killed \/ (hasChild /\ Unreported))
    BY <1>3 DEF Die
  <2> QED
    <3>1. Scalars'
      <4>1. fatal' \in Nat
        BY <2>1
      <4>2. proc' \in {"none", "running", "exited", "reaped", "unstartable",
                     "void"}
        OBVIOUS
      <4> QED
        BY <1>k, <2>1, <4>1, <4>2
    <3>2. UnbornUntilSpawned'
      BY <1>0, <1>3, <2>1, <2>2 DEF MayDie, Unreported
    <3>3. StopsAreStops'
      BY <1>0, <1>3, <2>1, <2>2 DEF MayDie, Unreported
    <3>4. ChildIsHeld'
      BY <1>0, <1>3, <2>1, <2>2 DEF MayDie, Unreported
    <3>5. OneVerdict'
      BY <1>0, <1>3, <2>1, <2>2 DEF MayDie, Unreported
    <3>6. SilenceIsTimed'
      BY <1>0, <1>3, <2>1, <2>2 DEF MayDie, Unreported
    <3> QED
      BY <3>1, <3>2, <3>3, <3>4, <3>5, <3>6
<1> QED
  BY <1>1, <1>2, <1>3

\* Every step of the client and of the engine keeps the control invariant.
LEMMA ControlStep ==
  ASSUME ControlInv, Next
  PROVE  ControlInv'
<1> USE DEF ControlInv, Scalars, UnbornUntilSpawned, Unborn, StopsAreStops,
       ChildIsHeld, OneVerdict, SilenceIsTimed
<1>s. "start" \in Stoppers /\ Closers \subseteq Stoppers
  BY DEF Stoppers
<1>1. CASE CallStart
  BY <1>s, <1>1 DEF CallStart
<1>2. CASE Listening
  <2>1. Scalars'
    BY <1>s, <1>2 DEF Listening, StartAborted, FailStart, StopBody, Teardown,
       RejectWaiters, Unreported
  <2>2. UnbornUntilSpawned'
    BY <1>s, <1>2 DEF Listening, StartAborted, FailStart, StopBody, Teardown,
       RejectWaiters, Unreported
  <2>3. StopsAreStops'
    BY <1>s, <1>2 DEF Listening, StartAborted, FailStart, StopBody, Teardown,
       RejectWaiters, Unreported
  <2>4. ChildIsHeld'
    BY <1>s, <1>2 DEF Listening, StartAborted, FailStart, StopBody, Teardown,
       RejectWaiters, Unreported
  <2>5. OneVerdict'
    BY <1>s, <1>2 DEF Listening, StartAborted, FailStart, StopBody, Teardown,
       RejectWaiters, Unreported
  <2>6. SilenceIsTimed'
    BY <1>s, <1>2 DEF Listening, StartAborted, FailStart, StopBody, Teardown,
       RejectWaiters, Unreported
  <2> QED
    BY <2>1, <2>2, <2>3, <2>4, <2>5, <2>6
<1>3. CASE ListenFails
  BY <1>s, <1>3 DEF ListenFails
<1>4. CASE StartTimeout
  <2>1. Scalars'
    BY <1>s, <1>4 DEF StartTimeout, FailStart, StopBody, Teardown,
       RejectWaiters, Unreported
  <2>2. UnbornUntilSpawned'
    BY <1>s, <1>4 DEF StartTimeout, FailStart, StopBody, Teardown,
       RejectWaiters, Unreported
  <2>3. StopsAreStops'
    BY <1>s, <1>4 DEF StartTimeout, FailStart, StopBody, Teardown,
       RejectWaiters, Unreported
  <2>4. ChildIsHeld'
    BY <1>s, <1>4 DEF StartTimeout, FailStart, StopBody, Teardown,
       RejectWaiters, Unreported
  <2>5. OneVerdict'
    BY <1>s, <1>4 DEF StartTimeout, FailStart, StopBody, Teardown,
       RejectWaiters, Unreported
  <2>6. SilenceIsTimed'
    BY <1>s, <1>4 DEF StartTimeout, FailStart, StopBody, Teardown,
       RejectWaiters, Unreported
  <2> QED
    BY <2>1, <2>2, <2>3, <2>4, <2>5, <2>6
<1>5. CASE ReadStatus
  BY <1>s, <1>5 DEF ReadStatus
<1>6. CASE ReadApplied
  <2>1. Scalars'
    BY <1>s, <1>6 DEF ReadApplied, AnswersHead
  <2>2. UnbornUntilSpawned'
    BY <1>s, <1>6 DEF ReadApplied, AnswersHead
  <2>3. StopsAreStops'
    BY <1>s, <1>6 DEF ReadApplied, AnswersHead
  <2>4. ChildIsHeld'
    BY <1>s, <1>6 DEF ReadApplied, AnswersHead
  <2>5. OneVerdict'
    BY <1>s, <1>6 DEF ReadApplied, AnswersHead
  <2>6. SilenceIsTimed'
    BY <1>s, <1>6 DEF ReadApplied, AnswersHead
  <2> QED
    BY <2>1, <2>2, <2>3, <2>4, <2>5, <2>6
<1>7. CASE ReadGarbage
  BY <1>7, DieKeepsControl DEF ReadGarbage, Unborn, Scalars
<1>8. ASSUME NEW c \in Calls, NEW plan \in Plans, SetPlan(c,
plan) PROVE ControlInv'
  <2>1. Scalars'
    BY <1>s, <1>8 DEF SetPlan
  <2>2. UnbornUntilSpawned'
    BY <1>s, <1>8 DEF SetPlan
  <2>3. StopsAreStops'
    BY <1>s, <1>8 DEF SetPlan
  <2>4. ChildIsHeld'
    BY <1>s, <1>8 DEF SetPlan
  <2>5. OneVerdict'
    BY <1>s, <1>8 DEF SetPlan
  <2>6. SilenceIsTimed'
    BY <1>s, <1>8 DEF SetPlan
  <2> QED
    BY <2>1, <2>2, <2>3, <2>4, <2>5, <2>6
<1>9. ASSUME NEW c \in Calls, ApplyTimeout(c) PROVE ControlInv'
  <2>1. Scalars'
    BY <1>s, <1>9 DEF ApplyTimeout, DropWaiter
  <2>2. UnbornUntilSpawned'
    BY <1>s, <1>9 DEF ApplyTimeout, DropWaiter
  <2>3. StopsAreStops'
    BY <1>s, <1>9 DEF ApplyTimeout, DropWaiter
  <2>4. ChildIsHeld'
    BY <1>s, <1>9 DEF ApplyTimeout, DropWaiter
  <2>5. OneVerdict'
    BY <1>s, <1>9 DEF ApplyTimeout, DropWaiter
  <2>6. SilenceIsTimed'
    BY <1>s, <1>9 DEF ApplyTimeout, DropWaiter
  <2> QED
    BY <2>1, <2>2, <2>3, <2>4, <2>5, <2>6
<1>10. CASE HealthTimeout
  <2>1. CASE ~MayDie
    <3>1. health' = FALSE /\ UNCHANGED <<startPc, server, child, conn,
    stopping, dead,
                   stopPc, fatal, killed, closeTimer, proc, wedged>>
      BY <1>10, <2>1 DEF HealthTimeout
    <3>2. Scalars'
      BY <1>s, <2>1, <3>1, ZenonT(40) DEF MayDie
    <3>3. UnbornUntilSpawned'
      BY <1>s, <2>1, <3>1 DEF MayDie
    <3>4. StopsAreStops'
      BY <1>s, <2>1, <3>1 DEF MayDie
    <3>5. ChildIsHeld'
      BY <1>s, <2>1, <3>1 DEF MayDie
    <3>6. OneVerdict'
      BY <1>s, <2>1, <3>1 DEF MayDie
    <3>7. SilenceIsTimed'
      BY <1>s, <2>1, <3>1 DEF MayDie
    <3> QED
      BY <3>2, <3>3, <3>4, <3>5, <3>6, <3>7
  <2>2. CASE MayDie
    BY <1>10, <2>2, DieKeepsControl DEF HealthTimeout, Unborn, Scalars
  <2> QED
    BY <2>1, <2>2
<1>11. CASE ConnectionClosed
  <2>1. Scalars'
    BY <1>s, <1>11 DEF ConnectionClosed
  <2>2. UnbornUntilSpawned'
    BY <1>s, <1>11 DEF ConnectionClosed
  <2>3. StopsAreStops'
    BY <1>s, <1>11 DEF ConnectionClosed
  <2>4. ChildIsHeld'
    BY <1>s, <1>11 DEF ConnectionClosed
  <2>5. OneVerdict'
    BY <1>s, <1>11 DEF ConnectionClosed
  <2>6. SilenceIsTimed'
    BY <1>s, <1>11 DEF ConnectionClosed
  <2> QED
    BY <2>1, <2>2, <2>3, <2>4, <2>5, <2>6
<1>12. CASE CloseTimeout
  BY <1>12, DieKeepsControl DEF CloseTimeout, Unborn, Scalars
<1>13. CASE ExitReported
  <2>1. ASSUME NEW s \in Stoppers, stopPc[s] = "grace", Teardown(s),
               UNCHANGED <<startPc, child, stopping, dead, health, fatal,
                           killed>>
        PROVE  ControlInv'
    BY <1>s, <1>13, <2>1 DEF ExitReported, Teardown
  <2>2. CASE child /\ Die(FALSE, inbox)
    BY <1>13, <2>2, DieKeepsControl DEF ExitReported, Unborn, Scalars
  <2>3. CASE UNCHANGED shared
    BY <1>s, <1>13, <2>3 DEF ExitReported, shared
  <2> QED
    BY <1>13, <2>1, <2>2, <2>3 DEF ExitReported
<1>14. CASE SpawnErrorReported
  BY <1>14, DieKeepsControl DEF SpawnErrorReported, Unborn, Scalars
<1>15. ASSUME NEW s \in Closers, CallStop(s) PROVE ControlInv'
  <2>1. Scalars'
    BY <1>s, <1>15 DEF CallStop, StopBody, Teardown, RejectWaiters, Unreported
  <2>2. UnbornUntilSpawned'
    BY <1>s, <1>15 DEF CallStop, StopBody, Teardown, RejectWaiters, Unreported
  <2>3. StopsAreStops'
    <3>1. stopping' /\ startPc' = startPc
          /\ \/ stopPc' = [stopPc EXCEPT ![s] = "grace"]
             \/ stopPc' = [stopPc EXCEPT ![s] = "closing"]
      BY <1>15 DEF CallStop, StopBody, Teardown
    <3>2. s # "start" /\ s \in Stoppers
      BY <1>s, ClientAssumption
    <3>3. stopPc'[s] # "idle" /\ stopPc'["start"] = stopPc["start"]
      BY <1>s, <3>1, <3>2 DEF Scalars
    <3> QED
      BY <3>1, <3>2, <3>3 DEF StopsAreStops
  <2>4. ChildIsHeld'
    BY <1>s, <1>15 DEF CallStop, StopBody, Teardown, RejectWaiters, Unreported
  <2>5. OneVerdict'
    BY <1>s, <1>15 DEF CallStop, StopBody, Teardown, RejectWaiters, Unreported
  <2>6. SilenceIsTimed'
    BY <1>s, <1>15 DEF CallStop, StopBody, Teardown, RejectWaiters, Unreported
  <2> QED
    BY <2>1, <2>2, <2>3, <2>4, <2>5, <2>6
<1>16. ASSUME NEW s \in Stoppers, GraceTimeout(s) PROVE ControlInv'
  <2>1. Scalars'
    BY <1>s, <1>16 DEF GraceTimeout, Teardown
  <2>2. UnbornUntilSpawned'
    BY <1>s, <1>16 DEF GraceTimeout, Teardown
  <2>3. StopsAreStops'
    BY <1>s, <1>16 DEF GraceTimeout, Teardown
  <2>4. ChildIsHeld'
    BY <1>s, <1>16 DEF GraceTimeout, Teardown
  <2>5. OneVerdict'
    BY <1>s, <1>16 DEF GraceTimeout, Teardown
  <2>6. SilenceIsTimed'
    BY <1>s, <1>16 DEF GraceTimeout, Teardown
  <2> QED
    BY <2>1, <2>2, <2>3, <2>4, <2>5, <2>6
<1>17. ASSUME NEW s \in Stoppers, StopReturns(s) PROVE ControlInv'
  BY <1>s, <1>17 DEF StopReturns
<1>18. CASE EngineConnects
  BY <1>s, <1>18 DEF EngineConnects, Active
<1>19. ASSUME NEW frame \in Frames, EngineSends(frame) PROVE ControlInv'
  BY <1>s, <1>19 DEF EngineSends, Active
<1>20. CASE EngineHangsUp
  BY <1>s, <1>20 DEF EngineHangsUp, Active
<1>21. CASE EngineWedges
  BY <1>s, <1>21 DEF EngineWedges, Active, shared
<1>22. CASE EngineExits
  BY <1>s, <1>22 DEF EngineExits, Active
<1> QED
  BY <1>1, <1>2, <1>3, <1>4, <1>5, <1>6, <1>7, <1>8, <1>9, <1>10, <1>11,
     <1>12, <1>13, <1>14, <1>15, <1>16, <1>17, <1>18, <1>19, <1>20, <1>21,
     <1>22 DEF Next, ClientNext, EngineNext
-----------------------------------------------------------------------------
(* The waiters.                                                            *)

Waiter == [call : Calls, plan : Plans]
Verdicts == {"new", "pending", "resolved", "rejected"}

WaitersInv == /\ waiters \in Seq(Waiter)
              /\ call \in [Calls -> Verdicts]
              /\ WaitersMatch

\* Rejecting every waiter and forgetting them leaves no promise open.
LEMMA RejectKeepsWaiters ==
  ASSUME WaitersInv, RejectWaiters
  PROVE  WaitersInv'
<1>1. waiters' = <<>> /\ waiters' \in Seq(Waiter) /\ DOMAIN waiters' = {}
  BY DEF RejectWaiters
<1>2. Waiting' = {}
  BY <1>1 DEF Waiting
<1>3. \A c \in Calls : call'[c] \in Verdicts /\ call'[c] # "pending"
  BY DEF RejectWaiters, WaitersInv, WaitersMatch, Waiting, Verdicts
<1>4. call' \in [Calls -> Verdicts]
  BY <1>3 DEF RejectWaiters
<1> QED
  BY <1>1, <1>2, <1>3, <1>4 DEF WaitersInv, WaitersMatch

\* Taking one waiter out of the list and settling its call keeps the two in
\* step, wherever in the list it stood.
LEMMA SettleKeepsWaiters ==
  ASSUME WaitersInv,
         NEW i \in 1 .. Len(waiters),
         NEW verdict \in {"resolved", "rejected"},
         waiters' \in Seq(Waiter),
         Len(waiters') = Len(waiters) - 1,
         \A j \in 1 .. Len(waiters) - 1 :
           waiters'[j] = waiters[IF j < i THEN j ELSE j + 1],
         call' = [call EXCEPT ![waiters[i].call] = verdict]
  PROVE  WaitersInv'
<1> DEFINE n == Len(waiters)
           From(j) == IF j < i THEN j ELSE j + 1
<1>1. n \in Nat /\ DOMAIN waiters = 1 .. n /\ DOMAIN waiters' = 1 .. n - 1
  BY DEF WaitersInv
<1>2. \A j \in 1 .. n - 1 : From(j) \in 1 .. n /\ From(j) # i
  BY <1>1
<1>3. \A j, k \in 1 .. n - 1 : From(j) = From(k) => j = k
  BY <1>1
<1>4. \A k \in 1 .. n : k # i => \E j \in 1 .. n - 1 : From(j) = k
  <2> SUFFICES ASSUME NEW k \in 1 .. n, k # i
               PROVE  \E j \in 1 .. n - 1 : From(j) = k
    OBVIOUS
  <2>1. CASE k < i
    <3>1. k \in 1 .. n - 1 /\ From(k) = k
      BY <1>1, <2>1
    <3> QED
      BY <3>1
  <2>2. CASE k > i
    <3>1. k - 1 \in 1 .. n - 1 /\ From(k - 1) = k
      BY <1>1, <2>2
    <3> QED
      BY <3>1
  <2> QED
    BY <1>1, <2>1, <2>2
<1>5. \A j \in 1 .. n - 1 : waiters'[j] = waiters[From(j)]
  OBVIOUS
<1> HIDE DEF From
<1>6. \A j, k \in 1 .. n : waiters[j].call = waiters[k].call => j = k
  BY <1>1 DEF WaitersInv, WaitersMatch
<1>7. \A j \in 1 .. n : waiters[j].call \in Calls
  <2>1. \A j \in 1 .. n : waiters[j] \in Waiter
    BY ElementOfSeq DEF WaitersInv
  <2> QED
    BY <2>1 DEF Waiter
<1>8. Waiting = {waiters[j].call : j \in 1 .. n}
      /\ Waiting' = {waiters'[j].call : j \in 1 .. n - 1}
  BY <1>1 DEF Waiting
<1>9. Waiting' = Waiting \ {waiters[i].call}
  <2>1. ASSUME NEW j \in 1 .. n - 1
        PROVE  waiters'[j].call \in Waiting \ {waiters[i].call}
    BY <1>1, <1>2, <1>5, <1>6, <1>8
  <2>2. ASSUME NEW k \in 1 .. n, k # i
        PROVE  waiters[k].call \in Waiting'
    BY <1>4, <1>5, <1>8, <2>2
  <2> QED
    BY <1>8, <2>1, <2>2
<1>10. \A j, k \in 1 .. n - 1 : waiters'[j].call = waiters'[k].call => j = k
  BY <1>2, <1>3, <1>5, <1>6
<1>11. call' \in [Calls -> Verdicts]
  BY <1>7 DEF WaitersInv, Verdicts
<1>12. \A c \in Calls : call'[c] = IF c = waiters[i].call THEN verdict ELSE call[c]
  BY <1>7 DEF WaitersInv
<1>13. Waiting' = {c \in Calls : call'[c] = "pending"}
  BY <1>9, <1>12 DEF WaitersInv, WaitersMatch
<1> QED
  BY <1>1, <1>10, <1>11, <1>13 DEF WaitersInv, WaitersMatch

\* A setPlan() that times out leaves the list wherever it stood in it.
LEMMA DropKeepsWaiters ==
  ASSUME WaitersInv, NEW c \in Calls, DropWaiter(c),
         call' = [call EXCEPT ![c] = "rejected"]
  PROVE  WaitersInv'
<1>1. PICK i \in DOMAIN waiters :
        /\ waiters[i].call = c
        /\ waiters' = SubSeq(waiters, 1, i - 1)
                      \o SubSeq(waiters, i + 1, Len(waiters))
  BY DEF DropWaiter
<1> DEFINE n == Len(waiters)
           a == SubSeq(waiters, 1, i - 1)
           b == SubSeq(waiters, i + 1, n)
<1>2. waiters \in Seq(Waiter) /\ n \in Nat /\ i \in 1 .. n
  BY <1>1 DEF WaitersInv
<1>3. a \in Seq(Waiter) /\ Len(a) = i - 1
      /\ \A j \in 1 .. i - 1 : a[j] = waiters[j]
  BY <1>2, SubSeqProperties
<1>4. b \in Seq(Waiter) /\ Len(b) = n - i
      /\ \A j \in 1 .. n - i : b[j] = waiters[i + j]
  BY <1>2, SubSeqProperties
<1> HIDE DEF a, b
<1>5. waiters' = a \o b
  BY <1>1 DEF a, b
<1>6. waiters' \in Seq(Waiter) /\ Len(waiters') = n - 1
      /\ \A j \in 1 .. n - 1 : waiters'[j] = IF j <= i - 1 THEN a[j] ELSE b[j - (i - 1)]
  BY <1>2, <1>3, <1>4, <1>5, ConcatProperties, SMTT(30)
<1>7. \A j \in 1 .. n - 1 : waiters'[j] = waiters[IF j < i THEN j ELSE j + 1]
  <2> TAKE j \in 1 .. n - 1
  <2>1. CASE j < i
    <3>1. j \in 1 .. i - 1 /\ j <= i - 1
      BY <1>2, <2>1
    <3>2. waiters'[j] = a[j]
      BY <1>6, <3>1
    <3>3. a[j] = waiters[j]
      BY <1>3, <3>1
    <3> QED
      BY <2>1, <3>2, <3>3
  <2>2. CASE j >= i
    <3>1. j - (i - 1) \in 1 .. n - i /\ i + (j - (i - 1)) = j + 1
          /\ ~(j <= i - 1) /\ ~(j < i)
      BY <1>2, <2>2
    <3>2. waiters'[j] = b[j - (i - 1)]
      BY <1>6, <3>1
    <3>3. b[j - (i - 1)] = waiters[i + (j - (i - 1))]
      BY <1>4, <3>1
    <3> QED
      BY <3>1, <3>2, <3>3
  <2> QED
    BY <1>2, <2>1, <2>2
<1> QED
  BY <1>1, <1>2, <1>6, <1>7, SettleKeepsWaiters

\* An answer settles the oldest.
LEMMA AnswerKeepsWaiters ==
  ASSUME WaitersInv, waiters # <<>>,
         waiters' = Tail(waiters),
         call' = [call EXCEPT ![Head(waiters).call] = "resolved"]
  PROVE  WaitersInv'
<1>1. waiters \in Seq(Waiter) /\ Len(waiters) \in Nat /\ Len(waiters) >= 1
  BY DEF WaitersInv
<1>2. Head(waiters) = waiters[1] /\ 1 \in 1 .. Len(waiters)
  BY <1>1
<1>3. waiters' \in Seq(Waiter) /\ Len(waiters') = Len(waiters) - 1
      /\ \A j \in 1 .. Len(waiters) - 1 : waiters'[j] = waiters[j + 1]
  BY <1>1, HeadTailProperties
<1>4. \A j \in 1 .. Len(waiters) - 1 :
        waiters'[j] = waiters[IF j < 1 THEN j ELSE j + 1]
  BY <1>1, <1>3
<1>5. call' = [call EXCEPT ![waiters[1].call] = "resolved"]
  BY <1>2
<1> QED
  BY <1>2, <1>3, <1>4, <1>5, SettleKeepsWaiters

\* A new call joins at the end, or is refused.
LEMMA SetPlanKeepsWaiters ==
  ASSUME WaitersInv, NEW c \in Calls, NEW plan \in Plans, SetPlan(c, plan)
  PROVE  WaitersInv'
<1>1. call[c] = "new" /\ c \notin Waiting
  BY DEF SetPlan, WaitersInv, WaitersMatch
<1>2. CASE /\ call' = [call EXCEPT ![c] = "pending"]
           /\ waiters' = Append(waiters, [call |-> c, plan |-> plan])
  <2> DEFINE n == Len(waiters)
             w == [call |-> c, plan |-> plan]
  <2>1. waiters \in Seq(Waiter) /\ n \in Nat /\ DOMAIN waiters = 1 .. n /\ w \in Waiter
    BY DEF WaitersInv, Waiter
  <2>2. /\ waiters' \in Seq(Waiter)
        /\ Len(waiters') = n + 1
        /\ DOMAIN waiters' = 1 .. n + 1
        /\ \A j \in 1 .. n : waiters'[j] = waiters[j]
        /\ waiters'[n + 1] = w
    BY <1>2, <2>1, AppendProperties
  <2>3. Waiting' = Waiting \cup {c}
    BY <2>1, <2>2 DEF Waiting
  <2>4. \A j \in 1 .. n : waiters[j].call # c
    BY <1>1, <2>1 DEF Waiting
  <2>5. \A j, k \in DOMAIN waiters' :
          waiters'[j].call = waiters'[k].call => j = k
    <3> TAKE j, k \in DOMAIN waiters'
    <3>1. \A m \in 1 .. n + 1 : m \in 1 .. n \/ m = n + 1
      BY <2>1
    <3> QED
      BY <2>1, <2>2, <2>4, <3>1 DEF WaitersInv, WaitersMatch
  <2>6. call' \in [Calls -> Verdicts]
    BY <1>2 DEF WaitersInv, Verdicts
  <2>7. \A d \in Calls : call'[d] = IF d = c THEN "pending" ELSE call[d]
    BY <1>2 DEF WaitersInv
  <2>8. Waiting' = {d \in Calls : call'[d] = "pending"}
    BY <2>3, <2>7 DEF WaitersInv, WaitersMatch
  <2> QED
    BY <2>2, <2>5, <2>6, <2>8 DEF WaitersInv, WaitersMatch
<1>3. CASE call' = [call EXCEPT ![c] = "rejected"] /\ UNCHANGED waiters
  <2>1. call' \in [Calls -> Verdicts]
    BY <1>3 DEF WaitersInv, Verdicts
  <2>2. \A d \in Calls : call'[d] = IF d = c THEN "rejected" ELSE call[d]
    BY <1>3 DEF WaitersInv
  <2>3. Waiting' = Waiting
    BY <1>3 DEF Waiting
  <2>4. Waiting' = {d \in Calls : call'[d] = "pending"}
    BY <1>1, <2>2, <2>3 DEF WaitersInv, WaitersMatch
  <2> QED
    BY <1>3, <2>1, <2>4 DEF WaitersInv, WaitersMatch
<1> QED
  BY <1>2, <1>3 DEF SetPlan

\* Every step keeps the waiters in step with the open promises.
LEMMA WaitersStep ==
  ASSUME WaitersInv, [Next]_vars
  PROVE  WaitersInv'
<1> USE DEF StopBody, FailStart, Die
<1>1. ASSUME UNCHANGED <<waiters, call>> PROVE WaitersInv'
  BY <1>1 DEF WaitersInv, WaitersMatch, Waiting
<1>2. ASSUME RejectWaiters PROVE WaitersInv'
  BY <1>2, RejectKeepsWaiters
<1>3. ASSUME NEW h, NEW rest, Die(h, rest) PROVE WaitersInv'
  BY <1>1, <1>2, <1>3
<1>4. CASE CallStart \/ ListenFails \/ ReadStatus \/ ConnectionClosed
  BY <1>1, <1>4 DEF CallStart, ListenFails, ReadStatus, ConnectionClosed
<1>5. CASE Listening \/ StartTimeout
  BY <1>1, <1>2, <1>5 DEF Listening, StartTimeout
<1>6. CASE ReadApplied
  BY <1>1, <1>6, AnswerKeepsWaiters DEF ReadApplied, AnswersHead
<1>7. CASE ReadGarbage \/ CloseTimeout \/ SpawnErrorReported
  BY <1>3, <1>7 DEF ReadGarbage, CloseTimeout, SpawnErrorReported
<1>8. CASE HealthTimeout
  BY <1>1, <1>3, <1>8 DEF HealthTimeout
<1>9. CASE ExitReported
  BY <1>1, <1>3, <1>9 DEF ExitReported, shared
<1>10. ASSUME NEW c \in Calls, NEW plan \in Plans, SetPlan(c, plan)
       PROVE  WaitersInv'
  BY <1>10, SetPlanKeepsWaiters
<1>11. ASSUME NEW c \in Calls, ApplyTimeout(c) PROVE WaitersInv'
  BY <1>11, DropKeepsWaiters DEF ApplyTimeout
<1>12. ASSUME NEW s \in Closers, CallStop(s) PROVE WaitersInv'
  BY <1>2, <1>12 DEF CallStop
<1>13. ASSUME NEW s \in Stoppers, GraceTimeout(s) \/ StopReturns(s)
       PROVE  WaitersInv'
  BY <1>1, <1>13 DEF GraceTimeout, StopReturns
<1>14. CASE EngineNext
  BY <1>1, <1>14 DEF EngineNext, EngineConnects, EngineSends, EngineHangsUp,
     EngineWedges, EngineExits, shared
<1>15. CASE UNCHANGED vars
  BY <1>1, <1>15 DEF vars, shared
<1> QED
  BY <1>4, <1>5, <1>6, <1>7, <1>8, <1>9, <1>10, <1>11, <1>12, <1>13, <1>14,
     <1>15 DEF Next, ClientNext

-----------------------------------------------------------------------------
(* The connection.                                                         *)

LinkTyped == /\ link \in {"none", "up", "down", "gone"}
             /\ inbox \in Seq(Frames)

\* Every step leaves a sequence of frames in the inbox.
LEMMA LinkStep ==
  ASSUME LinkTyped, [Next]_vars
  PROVE  LinkTyped'
<1> USE DEF LinkTyped
<1>0. <<>> \in Seq(Frames) /\ (inbox # <<>> => Tail(inbox) \in Seq(Frames))
  BY HeadTailProperties
<1>1. ASSUME UNCHANGED <<link, inbox>> PROVE LinkTyped'
  BY <1>1
<1>2. ASSUME NEW s, Teardown(s) PROVE LinkTyped'
  BY <1>0, <1>2 DEF Teardown
<1>3. ASSUME NEW s, NEW h, NEW rest \in Seq(Frames), StopBody(s, h, rest)
      PROVE  LinkTyped'
  BY <1>2, <1>3 DEF StopBody
<1>4. ASSUME NEW h, NEW rest \in Seq(Frames), Die(h, rest) PROVE LinkTyped'
  BY <1>3, <1>4 DEF Die, FailStart
<1>5. CASE CallStart \/ ListenFails
  BY <1>1, <1>5 DEF CallStart, ListenFails
<1>6. CASE ReadStatus \/ ReadApplied
  BY <1>0, <1>6 DEF ReadStatus, ReadApplied
<1>7. CASE Listening \/ StartTimeout
  BY <1>1, <1>3, <1>7 DEF Listening, StartTimeout, FailStart
<1>8. CASE ReadGarbage
  BY <1>0, <1>4, <1>8 DEF ReadGarbage
<1>9. CASE CloseTimeout \/ SpawnErrorReported
  BY <1>4, <1>9 DEF CloseTimeout, SpawnErrorReported
<1>10. CASE HealthTimeout
  BY <1>1, <1>4, <1>10 DEF HealthTimeout
<1>11. CASE ExitReported
  BY <1>1, <1>2, <1>4, <1>11 DEF ExitReported, shared
<1>12. ASSUME NEW c, NEW plan, SetPlan(c, plan) \/ ApplyTimeout(c)
       PROVE  LinkTyped'
  BY <1>1, <1>12 DEF SetPlan, ApplyTimeout
<1>13. ASSUME NEW s, CallStop(s) \/ GraceTimeout(s) \/ StopReturns(s)
       PROVE  LinkTyped'
  BY <1>1, <1>2, <1>3, <1>13 DEF CallStop, GraceTimeout, StopReturns
<1>14. CASE ConnectionClosed \/ EngineConnects \/ EngineHangsUp
            \/ EngineWedges \/ EngineExits
  BY <1>14 DEF ConnectionClosed, EngineConnects, EngineHangsUp, EngineWedges,
     EngineExits, shared
<1>15. ASSUME NEW frame \in Frames, EngineSends(frame) PROVE LinkTyped'
  BY <1>15, AppendProperties DEF EngineSends
<1>16. CASE UNCHANGED vars
  BY <1>16 DEF vars, shared
<1> QED
  BY <1>5, <1>6, <1>7, <1>8, <1>9, <1>10, <1>11, <1>12, <1>13, <1>14, <1>15,
     <1>16 DEF Next, ClientNext, EngineNext

-----------------------------------------------------------------------------
(* The theorems.                                                           *)

IndInv == ControlInv /\ WaitersInv /\ LinkTyped

\* The three parts are inductive together, for every number of callers and
\* stoppers and however many frames are under way.
LEMMA ClientInductive == Spec => []IndInv
<1>1. Init => IndInv
  <2> SUFFICES ASSUME Init PROVE IndInv
    OBVIOUS
  <2>0. "start" \in Stoppers
    BY DEF Stoppers
  <2>1. ControlInv
    <3>1. Scalars
      BY DEF Init, Scalars
    <3>2. StopsAreStops
      BY <2>0 DEF Init, StopsAreStops
    <3>3. UnbornUntilSpawned /\ ChildIsHeld /\ OneVerdict /\ SilenceIsTimed
      BY DEF Init, UnbornUntilSpawned, Unborn, ChildIsHeld, OneVerdict,
         SilenceIsTimed
    <3> QED
      BY <3>1, <3>2, <3>3 DEF ControlInv
  <2>2. WaitersInv
    BY DEF Init, WaitersInv, WaitersMatch, Waiting, Verdicts
  <2>3. LinkTyped
    BY DEF Init, LinkTyped
  <2> QED
    BY <2>1, <2>2, <2>3 DEF IndInv
<1>2. IndInv /\ [Next]_vars => IndInv'
  <2> SUFFICES ASSUME IndInv, [Next]_vars PROVE IndInv'
    OBVIOUS
  <2>1. CASE UNCHANGED vars
    BY <2>1, WaitersStep, LinkStep DEF IndInv, ControlInv, Scalars,
       UnbornUntilSpawned, Unborn, StopsAreStops, ChildIsHeld, OneVerdict,
       SilenceIsTimed, vars, shared
  <2> QED
    BY <2>1, ControlStep, WaitersStep, LinkStep DEF IndInv
<1> QED
  BY <1>1, <1>2, PTL DEF Spec

\* The client's state stays well typed (engine-client.js:109-122).
THEOREM ClientTypeCorrect == Spec => []TypeOK
<1>1. IndInv => TypeOK
  BY DEF IndInv, ControlInv, Scalars, WaitersInv, Waiter, Verdicts, LinkTyped,
     TypeOK
<1> QED
  BY <1>1, ClientInductive, PTL

\* A death is reported at most once, through onFatal only after start() has
\* resolved (#die, engine-client.js:440-457).
THEOREM OneVerdictAlways == Spec => []OneVerdict
<1>1. IndInv => OneVerdict
  BY DEF IndInv, ControlInv
<1> QED
  BY <1>1, ClientInductive, PTL

\* Every open setPlan() promise has exactly one waiter (engine-client.js
\* 211-227 and the three places that settle one).
THEOREM NoCallForgotten == Spec => []WaitersMatch
<1>1. IndInv => WaitersMatch
  BY DEF IndInv, WaitersInv
<1> QED
  BY <1>1, ClientInductive, PTL

\* A resolved, living client has its silence timer armed (engine-client.js
\* 399-405 and 423-437).
THEOREM SilenceAlwaysTimed == Spec => []SilenceIsTimed
<1>1. IndInv => SilenceIsTimed
  BY DEF IndInv, ControlInv
<1> QED
  BY <1>1, ClientInductive, PTL

\* When every stop() has returned there is no connection, no child, and no
\* engine that has not been sent SIGKILL (engine-client.js:236-258).
THEOREM StopReleases == Spec => []StoppedIsReleased
<1>1. IndInv => StoppedIsReleased
  BY DEF IndInv, ControlInv, ChildIsHeld, StoppedIsReleased
<1> QED
  BY <1>1, ClientInductive, PTL

\* onFatal is never called for a requested stop (engine-client.js:104, 441).
THEOREM RequestedStopIsQuiet == Spec => NoFatalOnStop
<1> DEFINE Quiet == fatal' # fatal => \A s \in Stoppers : stopPc[s] = "idle"
<1>1. IndInv /\ [Next]_vars => [Quiet]_vars
  <2> SUFFICES ASSUME IndInv, Next, fatal' # fatal
               PROVE  \A s \in Stoppers : stopPc[s] = "idle"
    OBVIOUS
  <2>1. ~stopping
    BY DEF Next, ClientNext, EngineNext, CallStart, Listening, ListenFails,
       StartTimeout, ReadStatus, ReadApplied, ReadGarbage, SetPlan,
       ApplyTimeout, HealthTimeout, ConnectionClosed, CloseTimeout,
       ExitReported, SpawnErrorReported, CallStop, GraceTimeout, StopReturns,
       EngineConnects, EngineSends, EngineHangsUp, EngineWedges, EngineExits,
       Die, MayDie, shared
  <2> QED
    BY <2>1 DEF IndInv, ControlInv, StopsAreStops
<1> QED
  BY <1>1, ClientInductive, PTL DEF Spec, NoFatalOnStop

=============================================================================
