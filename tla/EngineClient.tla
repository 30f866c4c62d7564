---------------------------- MODULE EngineClient ----------------------------
(***************************************************************************)
(* driver/engine-client.js: one EngineClient supervising one engine        *)
(* process over a Unix socket.                                             *)
(*                                                                         *)
(* The client is JavaScript: a callback runs to its end, with the promise  *)
(* continuations it makes runnable, before the next event.  So one action  *)
(* is one event - a socket, process or timer callback, or a call from the  *)
(* adapter - with everything that runs before the next one.  The engine,   *)
(* the operating system and the timers choose the order of the events.     *)
(*                                                                         *)
(* The engine process is outside: it may connect, send anything, hang up,  *)
(* exit, or wedge in a USB call, at any moment.                            *)
(***************************************************************************)
EXTENDS Integers, Sequences

CONSTANTS
  Calls,     \* the setPlan() calls the adapter makes
  Plans,     \* the plans they send
  Announced, \* a plan the engine reports unasked, as it does at startup
  Closers,   \* the stop() calls from outside
  MaxInbox   \* bound: frames on their way from the engine

\* start() stops the client itself when the engine does not come up.
Stoppers == Closers \cup {"start"}

Frames == {"status", "bad"} \cup Plans \cup {Announced}

ASSUME ClientAssumption ==
  /\ "start" \notin Closers
  /\ MaxInbox \in Nat \ {0}

VARIABLES
  startPc,    \* where start() is
  server,     \* #server: the listening socket
  child,      \* #child is set
  conn,       \* #conn is set
  stopping,   \* #stopping
  dead,       \* #dead
  health,     \* #healthTimer is armed
  closeTimer, \* the 150 ms between a lost connection and #die
  waiters,    \* #applyWaiters, oldest first: the call and the plan it sent
  call,       \* the promise of each setPlan() call
  stopPc,     \* where each stop() call is
  fatal,      \* times onFatal was called
  proc,       \* the engine process, and what Node reported of it
  wedged,     \* the engine hangs in a USB call
  killed,     \* SIGKILL was sent
  link,       \* the engine's end of the socket
  inbox       \* frames sent and not yet read, oldest first

\* Touched by #die and stop(), and by little else.
shared == <<startPc, server, child, conn, stopping, dead, health, waiters,
            call, stopPc, fatal, killed, link, inbox>>
vars == <<shared, closeTimer, proc, wedged>>

Init == /\ startPc = "idle"
        /\ server = FALSE
        /\ child = FALSE
        /\ conn = FALSE
        /\ stopping = FALSE
        /\ dead = FALSE
        /\ health = FALSE
        /\ closeTimer = FALSE
        /\ waiters = <<>>
        /\ call = [c \in Calls |-> "new"]
        /\ stopPc = [s \in Stoppers |-> "idle"]
        /\ fatal = 0
        /\ proc = "none"
        /\ wedged = FALSE
        /\ killed = FALSE
        /\ link = "none"
        /\ inbox = <<>>

\* child.exitCode and child.signalCode are still null.
Unreported == proc \in {"running", "exited"}

Waiting == {waiters[i].call : i \in DOMAIN waiters}

-----------------------------------------------------------------------------
(* What the events share.                                                  *)

\* Mutant: the waiters are rejected and left in the list.
RejectWaitersUnspliced ==
  /\ UNCHANGED waiters
  /\ call' = [c \in Calls |-> IF c \in Waiting THEN "rejected" ELSE call[c]]

RejectWaiters ==
  /\ waiters' = <<>>
  /\ call' = [c \in Calls |-> IF c \in Waiting THEN "rejected" ELSE call[c]]

\* The end of stop(): the connection is destroyed, the server told to close.
\* Frames still unread are never read.
Teardown(s) == /\ conn' = FALSE
               /\ link' = IF conn THEN "gone" ELSE link
               /\ inbox' = <<>>
               /\ server' = FALSE
               /\ stopPc' = [stopPc EXCEPT ![s] = "closing"]

\* stop() up to its first await.  `rest` is what is left to read.
StopBody(s, hasChild, rest) ==
  /\ stopping' = TRUE
  /\ health' = FALSE
  /\ RejectWaiters
  /\ child' = FALSE
  /\ \/ /\ hasChild /\ Unreported
        /\ stopPc' = [stopPc EXCEPT ![s] = "grace"]
        /\ inbox' = rest
        /\ UNCHANGED <<conn, link, server>>
     \/ /\ ~(hasChild /\ Unreported)
        /\ Teardown(s)

\* start()'s catch block: stop, then rethrow.
FailStart(hasChild, rest) == /\ startPc' = "failing"
                             /\ StopBody("start", hasChild, rest)

\* Mutants: a death is reported again and again, or while stop() runs.
DiesWhenDead == ~stopping
DiesWhenStopping == ~dead

\* #die is a one-way door, and shut once the engine is being stopped.
MayDie == ~stopping /\ ~dead

\* #die, with start()'s catch block when it is the startup that died.
Die(hasChild, rest) ==
  \/ /\ ~MayDie
     /\ inbox' = rest
     /\ child' = hasChild
     /\ UNCHANGED <<startPc, server, conn, stopping, dead, health, waiters,
                    call, stopPc, fatal, killed, link>>
  \/ /\ MayDie
     /\ dead' = TRUE
     /\ killed' = (killed \/ (hasChild /\ Unreported))
     /\ \/ /\ startPc = "waiting"
           /\ FailStart(hasChild, rest)
           /\ UNCHANGED fatal
        \/ /\ startPc # "waiting"
           /\ fatal' = fatal + 1
           /\ health' = FALSE
           /\ RejectWaiters
           /\ child' = hasChild
           /\ inbox' = rest
           /\ UNCHANGED <<startPc, server, conn, stopping, stopPc, link>>

-----------------------------------------------------------------------------
(* start(), called once, before anything else.                             *)

\* Up to `await this.#listen()`; a missing binary is refused at once.
CallStart == /\ startPc = "idle"
             /\ startPc' \in {"listening", "rejected"}
             /\ UNCHANGED <<server, child, conn, stopping, dead, health,
                            waiters, call, stopPc, fatal, killed, link, inbox,
                            closeTimer, proc, wedged>>

\* Mutant: the #stopping flag is not looked at again.
SpawnAnyway == FALSE

\* stop() came while the socket was being set up.
StartAborted == stopping

\* The socket listens.  A stop() that came meanwhile makes start() throw,
\* otherwise the engine is spawned: the program runs, or turns out not to be
\* runnable, which Node reports later, or spawn() throws.
Listening ==
  /\ startPc = "listening"
  /\ \/ /\ StartAborted
        /\ server' = TRUE
        /\ startPc' = "rejected"
        /\ UNCHANGED <<child, conn, stopping, health, waiters, call, stopPc,
                       link, inbox, proc>>
     \/ /\ ~StartAborted
        /\ server' = TRUE
        /\ startPc' = "waiting"
        /\ child' = TRUE
        /\ proc' \in {"running", "unstartable"}
        /\ UNCHANGED <<conn, stopping, health, waiters, call, stopPc, link,
                       inbox>>
     \/ /\ ~StartAborted
        /\ FailStart(FALSE, inbox)
        /\ UNCHANGED proc
  /\ UNCHANGED <<dead, fatal, killed, closeTimer, wedged>>

ListenFails == /\ startPc = "listening"
               /\ startPc' = "rejected"
               /\ UNCHANGED <<server, child, conn, stopping, dead, health,
                              waiters, call, stopPc, fatal, killed, link,
                              inbox, closeTimer, proc, wedged>>

\* Mutant: the timer only waits for a connection.
StartTimeoutUnconnected ==
  /\ startPc = "waiting" /\ ~conn
  /\ FailStart(child, inbox)
  /\ UNCHANGED <<dead, fatal, killed, closeTimer, proc, wedged>>

\* No status within STARTUP_TIMEOUT_MS.
StartTimeout == /\ startPc = "waiting"
                /\ FailStart(child, inbox)
                /\ UNCHANGED <<dead, fatal, killed, closeTimer, proc, wedged>>

-----------------------------------------------------------------------------
(* Frames.                                                                 *)

\* Mutant: the first status, which resolves start(), arms no timer.
ReadStatusUnarmed ==
  /\ conn /\ inbox # <<>> /\ Head(inbox) = "status"
  /\ inbox' = Tail(inbox)
  /\ health' = (startPc # "waiting")
  /\ startPc' = IF startPc = "waiting" THEN "resolved" ELSE startPc
  /\ UNCHANGED <<server, child, conn, stopping, dead, waiters, call, stopPc,
                 fatal, killed, link, closeTimer, proc, wedged>>

\* A status re-arms the silence timer and, the first time, resolves start().
ReadStatus == /\ conn /\ inbox # <<>> /\ Head(inbox) = "status"
              /\ inbox' = Tail(inbox)
              /\ health' = TRUE
              /\ startPc' = IF startPc = "waiting" THEN "resolved" ELSE startPc
              /\ UNCHANGED <<server, child, conn, stopping, dead, waiters,
                             call, stopPc, fatal, killed, link, closeTimer,
                             proc, wedged>>

\* answers(): the echo carries the plan that the oldest waiter sent.
AnswersHead(plan) == waiters # <<>> /\ Head(waiters).plan = plan

\* An applied frame settles the oldest waiter, if it answers its plan.
ReadApplied ==
  /\ conn /\ inbox # <<>> /\ Head(inbox) \notin {"status", "bad"}
  /\ inbox' = Tail(inbox)
  /\ \/ /\ AnswersHead(Head(inbox))
        /\ waiters' = Tail(waiters)
        /\ call' = [call EXCEPT ![Head(waiters).call] = "resolved"]
     \/ /\ ~AnswersHead(Head(inbox))
        /\ UNCHANGED <<waiters, call>>
  /\ UNCHANGED <<startPc, server, child, conn, stopping, dead, health, stopPc,
                 fatal, killed, link, closeTimer, proc, wedged>>

\* The reassembler gives up on the stream.
ReadGarbage == /\ conn /\ inbox # <<>> /\ Head(inbox) = "bad"
               /\ Die(child, Tail(inbox))
               /\ UNCHANGED <<closeTimer, proc, wedged>>

-----------------------------------------------------------------------------
(* setPlan().                                                              *)

SetPlan(c, plan) ==
  /\ startPc # "idle"
  /\ call[c] = "new"
  /\ \/ /\ conn
        /\ call' = [call EXCEPT ![c] = "pending"]
        /\ waiters' = Append(waiters, [call |-> c, plan |-> plan])
     \/ /\ ~conn
        /\ call' = [call EXCEPT ![c] = "rejected"]
        /\ UNCHANGED waiters
  /\ UNCHANGED <<startPc, server, child, conn, stopping, dead, health, stopPc,
                 fatal, killed, link, inbox, closeTimer, proc, wedged>>

\* A call waits at most once: this takes its waiter out of the list.
DropWaiter(c) ==
  \E i \in DOMAIN waiters :
    /\ waiters[i].call = c
    /\ waiters' = SubSeq(waiters, 1, i - 1)
                  \o SubSeq(waiters, i + 1, Len(waiters))

\* Mutant: the timer is forgotten with the connection.
ApplyTimeoutConnected(c) ==
  /\ conn
  /\ DropWaiter(c)
  /\ call' = [call EXCEPT ![c] = "rejected"]
  /\ UNCHANGED <<startPc, server, child, conn, stopping, dead, health, stopPc,
                 fatal, killed, link, inbox, closeTimer, proc, wedged>>

\* APPLY_TIMEOUT_MS without an answer.
ApplyTimeout(c) ==
  /\ DropWaiter(c)
  /\ call' = [call EXCEPT ![c] = "rejected"]
  /\ UNCHANGED <<startPc, server, child, conn, stopping, dead, health, stopPc,
                 fatal, killed, link, inbox, closeTimer, proc, wedged>>

-----------------------------------------------------------------------------
(* What ends the engine's life in the client's eyes.                       *)

HealthTimeout == /\ health
                 /\ \/ /\ ~MayDie
                       /\ health' = FALSE
                       /\ UNCHANGED <<startPc, server, child, conn, stopping,
                                      dead, waiters, call, stopPc, fatal,
                                      killed, link, inbox>>
                    \/ /\ MayDie
                       /\ Die(child, inbox)
                 /\ UNCHANGED <<closeTimer, proc, wedged>>

\* The socket's 'close': everything sent before it has been read.
ConnectionClosed == /\ conn /\ link = "down" /\ inbox = <<>>
                    /\ conn' = FALSE
                    /\ link' = "gone"
                    /\ closeTimer' = TRUE
                    /\ UNCHANGED <<startPc, server, child, stopping, dead,
                                   health, waiters, call, stopPc, fatal,
                                   killed, inbox, proc, wedged>>

CloseTimeout == /\ closeTimer
                /\ closeTimer' = FALSE
                /\ Die(child, inbox)
                /\ UNCHANGED <<proc, wedged>>

\* The child's 'exit'.  A stop() in its grace period goes on to its end; with
\* no stop() under way it is news.
ExitReported ==
  /\ proc = "exited"
  /\ proc' = "reaped"
  /\ \/ \E s \in Stoppers :
          /\ stopPc[s] = "grace"
          /\ Teardown(s)
          /\ UNCHANGED <<startPc, child, stopping, dead, health, waiters,
                         call, fatal, killed>>
     \/ /\ child
        /\ Die(FALSE, inbox)
     \/ /\ ~child
        /\ \A s \in Stoppers : stopPc[s] # "grace"
        /\ UNCHANGED shared
  /\ UNCHANGED <<closeTimer, wedged>>

\* The child's 'error': there never was a process.
SpawnErrorReported == /\ proc = "unstartable"
                      /\ proc' = "void"
                      /\ Die(child, inbox)
                      /\ UNCHANGED <<closeTimer, wedged>>

-----------------------------------------------------------------------------
(* stop().                                                                 *)

CallStop(s) == /\ startPc # "idle"
               /\ stopPc[s] = "idle"
               /\ StopBody(s, child, inbox)
               /\ UNCHANGED <<startPc, dead, fatal, killed, closeTimer, proc,
                              wedged>>

\* Mutant: an engine that ignores the shutdown command is left alone.
GraceTimeoutUnkilled(s) ==
  /\ stopPc[s] = "grace"
  /\ Teardown(s)
  /\ UNCHANGED <<startPc, child, stopping, dead, health, waiters, call, fatal,
                 killed, closeTimer, proc, wedged>>

\* SHUTDOWN_GRACE_MS is over and the engine is still there.
GraceTimeout(s) == /\ stopPc[s] = "grace"
                   /\ killed' = TRUE
                   /\ Teardown(s)
                   /\ UNCHANGED <<startPc, child, stopping, dead, health,
                                  waiters, call, fatal, closeTimer, proc,
                                  wedged>>

\* The server is closed, or a second has gone by; files are unlinked.
StopReturns(s) ==
  /\ stopPc[s] = "closing"
  /\ stopPc' = [stopPc EXCEPT ![s] = "done"]
  /\ startPc' = IF s = "start" THEN "rejected" ELSE startPc
  /\ UNCHANGED <<server, child, conn, stopping, dead, health, waiters, call,
                 fatal, killed, link, inbox, closeTimer, proc, wedged>>

-----------------------------------------------------------------------------
(* The engine process.                                                     *)

Active == proc = "running" /\ ~wedged

EngineConnects == /\ Active /\ server /\ ~conn /\ link = "none"
                  /\ conn' = TRUE
                  /\ link' = "up"
                  /\ UNCHANGED <<startPc, server, child, stopping, dead,
                                 health, waiters, call, stopPc, fatal, killed,
                                 inbox, closeTimer, proc, wedged>>

EngineSends(frame) == /\ Active /\ link = "up" /\ Len(inbox) < MaxInbox
                      /\ inbox' = Append(inbox, frame)
                      /\ UNCHANGED <<startPc, server, child, conn, stopping,
                                     dead, health, waiters, call, stopPc,
                                     fatal, killed, link, closeTimer, proc,
                                     wedged>>

EngineHangsUp == /\ Active /\ link = "up"
                 /\ link' = "down"
                 /\ UNCHANGED <<startPc, server, child, conn, stopping, dead,
                                health, waiters, call, stopPc, fatal, killed,
                                inbox, closeTimer, proc, wedged>>

EngineWedges == /\ Active
                /\ wedged' = TRUE
                /\ UNCHANGED <<shared, closeTimer, proc>>

\* By itself, or by SIGKILL, which works on a wedged engine too.
EngineExits == /\ Active \/ (proc = "running" /\ killed)
               /\ proc' = "exited"
               /\ link' = IF link = "up" THEN "down" ELSE link
               /\ UNCHANGED <<startPc, server, child, conn, stopping, dead,
                              health, waiters, call, stopPc, fatal, killed,
                              inbox, closeTimer, wedged>>

-----------------------------------------------------------------------------
ClientNext == \/ CallStart \/ Listening \/ ListenFails \/ StartTimeout
              \/ ReadStatus \/ ReadApplied \/ ReadGarbage
              \/ \E c \in Calls, plan \in Plans : SetPlan(c, plan)
              \/ \E c \in Calls : ApplyTimeout(c)
              \/ HealthTimeout \/ ConnectionClosed \/ CloseTimeout
              \/ ExitReported \/ SpawnErrorReported
              \/ \E s \in Closers : CallStop(s)
              \/ \E s \in Stoppers : GraceTimeout(s) \/ StopReturns(s)

EngineNext == \/ EngineConnects
              \/ \E frame \in Frames : EngineSends(frame)
              \/ EngineHangsUp \/ EngineWedges \/ EngineExits

Next == ClientNext \/ EngineNext

Spec == Init /\ [][Next]_vars

(***************************************************************************)
(* Fairness.  Node runs every callback that is due, and a timer that is    *)
(* not cleared fires.  The silence timer is due only if no status comes    *)
(* any more.  SIGKILL takes effect.  The engine owes nothing: it may never *)
(* connect, answer, or obey a shutdown.                                    *)
(***************************************************************************)
Silent == inbox = <<>> /\ ~(Active /\ link = "up")

Fairness == /\ WF_vars(Listening \/ ListenFails)
            /\ WF_vars(StartTimeout)
            /\ WF_vars(ReadStatus \/ ReadApplied \/ ReadGarbage)
            /\ \A c \in Calls : WF_vars(ApplyTimeout(c))
            /\ WF_vars(Silent /\ HealthTimeout)
            /\ WF_vars(ConnectionClosed)
            /\ WF_vars(CloseTimeout)
            /\ WF_vars(ExitReported)
            /\ WF_vars(SpawnErrorReported)
            /\ \A s \in Stoppers : WF_vars(GraceTimeout(s)) /\ WF_vars(StopReturns(s))
            /\ WF_vars(killed /\ EngineExits)

FairSpec == Spec /\ Fairness

-----------------------------------------------------------------------------
(* Properties.                                                             *)

\* The state is well typed.
TypeOK == /\ startPc \in {"idle", "listening", "waiting", "failing",
                          "resolved", "rejected"}
          /\ server \in BOOLEAN /\ child \in BOOLEAN /\ conn \in BOOLEAN
          /\ stopping \in BOOLEAN /\ dead \in BOOLEAN
          /\ health \in BOOLEAN /\ closeTimer \in BOOLEAN
          /\ wedged \in BOOLEAN /\ killed \in BOOLEAN
          /\ waiters \in Seq([call : Calls, plan : Plans])
          /\ call \in [Calls -> {"new", "pending", "resolved", "rejected"}]
          /\ stopPc \in [Stoppers -> {"idle", "grace", "closing", "done"}]
          /\ fatal \in Nat
          /\ proc \in {"none", "running", "exited", "reaped", "unstartable",
                       "void"}
          /\ link \in {"none", "up", "down", "gone"}
          /\ inbox \in Seq(Frames)

\* A dying engine is reported once and in one way: as start()'s rejection
\* until the engine has reported a device, through onFatal afterwards.
OneVerdict == fatal <= 1 /\ (fatal = 1 => dead /\ startPc = "resolved")

\* onFatal is never called once stop() has been: not during its grace period,
\* not by a timer or an exit that was already under way.
NoFatalOnStop ==
  [][fatal' # fatal => \A s \in Stoppers : stopPc[s] = "idle"]_vars

\* The waiters are exactly the calls whose promise is open, each once: no call
\* is settled twice or forgotten.
WaitersMatch ==
  /\ Waiting = {c \in Calls : call[c] = "pending"}
  /\ \A i, j \in DOMAIN waiters :
       waiters[i].call = waiters[j].call => i = j

\* Once start() has resolved there is no moment, until the engine is stopped
\* or pronounced dead, at which its silence would go unnoticed.
SilenceIsTimed == startPc = "resolved" /\ ~stopping /\ ~dead => health

\* A client that is through with its stop() calls has no connection and no
\* child, and the engine it started is gone or about to be killed.
StoppedIsReleased ==
  (/\ \A s \in Stoppers : stopPc[s] \in {"idle", "done"}
   /\ stopping
   /\ startPc # "listening")
  => ~conn /\ ~child /\ (proc = "running" => killed)

(* What makes the invariants inductive.                                    *)

Unborn == /\ ~child /\ ~conn /\ ~health /\ ~closeTimer /\ ~dead
          /\ fatal = 0
          /\ proc = "none"

\* Nothing is under way before start() has spawned, or if it never does.
UnbornUntilSpawned ==
  startPc \in {"idle", "listening"} \/ (startPc = "rejected" /\ ~stopping)
    => Unborn

\* #stopping is set by the first stop(), and start()'s own comes only after
\* its failure.
StopsAreStops ==
  /\ stopping <=> \E s \in Stoppers : stopPc[s] # "idle"
  /\ startPc = "failing" => stopping
  /\ stopPc["start"] # "idle" => startPc \in {"failing", "rejected"}

\* stop() has the only reference to the child once it begins, and when no
\* stop() waits for it any more it is gone or has been sent SIGKILL.
ChildIsHeld ==
  /\ ~stopping /\ proc = "running" => child
  /\ stopping /\ startPc # "listening" => ~child
  /\ (/\ stopping /\ startPc # "listening"
      /\ \A s \in Stoppers : stopPc[s] # "grace")
     => ~conn /\ (proc = "running" => killed /\ ~server)

ClientInv == /\ TypeOK
             /\ UnbornUntilSpawned
             /\ StopsAreStops
             /\ ChildIsHeld
             /\ OneVerdict
             /\ SilenceIsTimed

\* An engine that exits, wedges or drops its connection after start() has
\* resolved is reported, if nobody stops it first.
LossIsReported ==
  (startPc = "resolved" /\ (wedged \/ proc = "exited" \/ link = "down"))
    ~> (fatal = 1 \/ stopping)

\* No engine outlives a stop() or its own death in the client's eyes, whatever
\* state it is in: nothing keeps the radio.
StopEndsEngine == (stopping \/ dead) ~> proc # "running"

\* start() and setPlan() always settle.
StartSettles == (startPc = "listening") ~> (startPc \in {"resolved", "rejected"})
CallsSettle == \A c \in Calls : (call[c] = "pending") ~> (call[c] # "pending")
=============================================================================
