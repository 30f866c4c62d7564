-------------------------- MODULE CapturePipeline --------------------------
(***************************************************************************)
(* engine/src/engine.cpp: how the windows of a sweep are cut from the      *)
(* stream.  The ctl thread tunes the radio and asks for captures ahead of  *)
(* time; the rx thread puts what it receives into the chunk ring; the dsp  *)
(* thread matches the two by the radio's clock.  Both rings are queues     *)
(* (SpscRing implements BoundedFifo).                                      *)
(*                                                                         *)
(* Time is the radio's, counted in samples.  It advances a chunk at a      *)
(* time, and a sample carries what the radio was tuned to when it was      *)
(* taken: the LO position's number and the window within it.               *)
(***************************************************************************)
EXTENDS Integers, Sequences

CONSTANTS
  ChunkLength,     \* Chunk::kSamples
  Window,          \* samplesPerWindow
  MinSamples,      \* samplesNeeded(fftN, 1)
  Guard,           \* guardMs, after an LO hop
  DdcGuard,        \* ddcGuardMs, after a timed retune
  Slack,           \* dsp gives a capture up so long after its end: 0.25 s
  Patience,        \* ctl gives it up so long after its end: captureTimeoutS
  RetunePatience,  \* how long ctl waits for a free timed command: 0.1 s
  Positions,       \* LO positions of a sweep
  Windows,         \* windows at each position
  RingSlots,       \* slots of ring_
  RequestSlots,    \* slots of requests_
  None,            \* no request
  MaxTime,         \* bound: the radio's clock
  MaxSweeps,       \* bound: sweeps
  MaxEpochs,       \* bound: times the clock is set back
  MaxFaults        \* bound: samples lost or muted

ASSUME CaptureAssumption ==
  /\ {ChunkLength, Window, Positions, Windows} \subseteq Nat \ {0}
  /\ {MinSamples, Guard, DdcGuard, Slack, Patience, RetunePatience, RingSlots,
      RequestSlots, MaxTime, MaxSweeps, MaxEpochs, MaxFaults} \subseteq Nat
  /\ MinSamples <= Window

CaptureRequest == [id : Nat, epoch : Nat, sweep : Nat, place : Nat \X Nat,
                   tune : Nat \X Nat, start : Nat, n : Nat, end : Nat,
                   punctual : BOOLEAN]
StreamSample == [at : Nat, tune : Nat \X Nat]
CaptureResult == [request : CaptureRequest, samples : Seq(StreamSample),
                  valid : BOOLEAN]

ASSUME NoneAssumption == None \notin CaptureRequest /\ None \notin CaptureResult

VARIABLES
  now,       \* the radio's clock
  epoch,     \* times it was set back
  timed,     \* timed retunes accepted: when, to which window
  ring,      \* ring_, oldest chunk first
  requests,  \* requests_, oldest first
  ctl,       \* where the ctl thread is: at a "hop", or asking and "waiting"
  sweep,     \* sweepId_
  hops,      \* LO hops so far
  position,  \* the LO position
  window,    \* kidx
  start,     \* tStart0
  since,     \* when the ctl thread's wait began
  asked,     \* nextReqId_
  awaited,   \* lastId
  gaveUp,    \* the last wait for a position's captures ended by timeout
  captured,  \* capturedId_
  cur,       \* the capture under way
  got,       \* its samples so far
  result,    \* the capture being processed
  segments,  \* what grid_ holds: the windows added since beginSweep()
  trace,     \* the windows of the last complete trace
  refused,   \* history: a request met a full ring
  faults,    \* times samples were lost or muted
  overdue,   \* history: a window was asked for after its retune was due
  stranded   \* history: the clock was set back under captures not answered

radio   == <<now, epoch, timed>>
control == <<ctl, sweep, hops, position, window, start, since, asked, awaited,
             gaveUp>>
dsp     == <<captured, cur, got, result>>
grid    == <<segments, trace>>
history == <<refused, faults, overdue, stranded>>
vars == <<radio, ring, requests, control, dsp, grid, history>>

Init == /\ now = 0 /\ epoch = 0 /\ timed = {}
        /\ ring = <<>>
        /\ requests = <<>>
        /\ ctl = "hop"
        /\ sweep = 0 /\ hops = 0
        /\ position = Positions /\ window = 0
        /\ start = 0 /\ since = 0
        /\ asked = 0 /\ awaited = 0
        /\ gaveUp = FALSE
        /\ captured = 0
        /\ cur = None /\ got = <<>> /\ result = None
        /\ segments = <<>> /\ trace = <<>>
        /\ refused = FALSE /\ overdue = FALSE /\ stranded = FALSE
        /\ faults = 0

-----------------------------------------------------------------------------
(* The radio and the rx thread.                                            *)

\* A retune that comes too late for its time is done at once.
TuneAt(t) ==
  LET due == {c.window : c \in {c \in timed : c.at <= t}} IN
  <<hops, IF due = {} THEN 0 ELSE CHOOSE w \in due : \A v \in due : v <= w>>

Sample(t) == [at |-> t, tune |-> TuneAt(t)]

Chunk(samples, overflow) ==
  [at |-> now, samples |-> samples, overflow |-> overflow]

Fault == faults < MaxFaults /\ faults' = faults + 1

\* A chunk's worth of samples: received, received by a full ring, or lost on
\* the way and reported as an overflow, which needs a slot as well.
Receive ==
  /\ now + ChunkLength <= MaxTime
  /\ now' = now + ChunkLength
  /\ \/ /\ Len(ring) < RingSlots
        /\ ring' = Append(ring, Chunk([i \in 1 .. ChunkLength |->
                                         Sample(now + i - 1)], FALSE))
        /\ UNCHANGED faults
     \/ /\ Len(ring) < RingSlots
        /\ ring' = Append(ring, Chunk(<<>>, TRUE))
        /\ Fault
     \/ /\ Len(ring) >= RingSlots
        /\ Fault
        /\ UNCHANGED ring
  /\ UNCHANGED <<epoch, timed, requests, control, dsp, grid, refused, overdue,
                 stranded>>

-----------------------------------------------------------------------------
(* The ctl thread.                                                         *)

\* The next LO position, or the first one of the next sweep, also when this
\* one was stopped: runSweep() tunes, and reads the clock.  The call queues
\* behind timed commands the radio has not executed.
Hop ==
  /\ ctl = "hop"
  /\ \A c \in timed : c.at <= now
  /\ \/ /\ position < Positions
        /\ position' = position + 1
        /\ UNCHANGED sweep
     \/ /\ sweep < MaxSweeps
        /\ position' = 1
        /\ sweep' = sweep + 1
  /\ hops' = hops + 1
  /\ timed' = {}
  /\ start' = now + Guard
  /\ since' = now
  /\ window' = 0
  /\ awaited' = 0
  /\ ctl' = "waiting"
  /\ UNCHANGED <<now, epoch, ring, requests, asked, gaveUp, dsp, grid, history>>

WindowStartWithoutGuard == start + window * Window
WindowStart == start + window * (Window + DdcGuard)

\* The radio takes two timed commands at a time: ctl waits for the window
\* before the last, but not for ever.
RetuneIsFree == window < 2 \/ captured >= asked - 1
RetuneIsLate == ~RetuneIsFree /\ now >= since + 2 * Window + RetunePatience

Request == [id       |-> asked + 1,
            epoch    |-> epoch,
            sweep    |-> sweep,
            place    |-> <<position, window>>,
            tune     |-> <<hops, window>>,
            start    |-> WindowStart,
            n        |-> Window,
            end      |-> WindowStart + Window,
            punctual |-> now <= WindowStart - DdcGuard]

\* Retune for the next window and ask for its capture.  With no slot left the
\* rest of the position is given up.
Ask ==
  /\ ctl = "waiting" /\ window < Windows
  /\ RetuneIsFree \/ RetuneIsLate
  /\ timed' = IF window = 0 THEN timed
              ELSE timed \cup {[at     |-> WindowStart - DdcGuard,
                                window |-> window]}
  /\ since' = now
  /\ \/ /\ Len(requests) < RequestSlots
        /\ requests' = Append(requests, Request)
        /\ asked' = asked + 1
        /\ awaited' = asked + 1
        /\ window' = window + 1
        /\ overdue' = (overdue \/ now > WindowStart - DdcGuard)
        /\ UNCHANGED refused
     \/ /\ Len(requests) >= RequestSlots
        /\ window' = Windows
        /\ refused' = TRUE
        /\ UNCHANGED <<requests, asked, awaited, overdue>>
  /\ UNCHANGED <<now, epoch, ring, ctl, sweep, hops, position, start, gaveUp,
                 dsp, grid, faults, stranded>>

LastWasTaken == captured >= awaited - 1
LastIsAnswered == captured >= awaited

\* The position's last capture is there ...
Captured ==
  /\ ctl = "waiting" /\ window = Windows
  /\ LastIsAnswered
  /\ ctl' = "hop"
  /\ gaveUp' = FALSE
  /\ UNCHANGED <<radio, ring, requests, sweep, hops, position, window, start,
                 since, asked, awaited, dsp, grid, history>>

\* ... or is waited for no longer.
GiveUp ==
  /\ ctl = "waiting" /\ window = Windows
  /\ ~LastIsAnswered
  /\ now >= since + Guard + Windows * (Window + DdcGuard) + Patience
  /\ ctl' = "hop"
  /\ gaveUp' = TRUE
  /\ UNCHANGED <<radio, ring, requests, sweep, hops, position, window, start,
                 since, asked, awaited, dsp, grid, history>>

\* The captures asked for and not yet answered, oldest first.
Outstanding == IF cur = None THEN requests ELSE <<cur>> \o requests

\* Between sweeps: pauseRx() empties the chunk ring, reconfigure() sets the
\* clock back.  The requests stay where they are.
Reconfigure ==
  /\ ctl = "hop"
  /\ epoch < MaxEpochs
  /\ epoch' = epoch + 1
  /\ now' = 0
  /\ timed' = {}
  /\ ring' = <<>>
  /\ stranded' = (stranded \/ Outstanding # <<>>)
  /\ UNCHANGED <<requests, control, dsp, grid, refused, faults, overdue>>

-----------------------------------------------------------------------------
(* The dsp thread: one round of dspLoop() is one action, and processing a  *)
(* finished capture another.                                               *)

Idle == result = None /\ ring # <<>>

\* commitRead() and what the round leaves in `cur` and `got`.
Release == ring' = Tail(ring)

Continue(r, samples) == /\ cur' = r
                        /\ got' = samples
                        /\ UNCHANGED <<captured, result>>

\* capturedId_ is published before the capture is processed.
CompleteValidOnly(r, samples, valid) ==
  /\ captured' = IF valid THEN r.id ELSE captured
  /\ result' = [request |-> r, samples |-> samples,
                valid |-> valid /\ Len(samples) >= MinSamples]
  /\ cur' = None
  /\ got' = <<>>

Complete(r, samples, valid) ==
  /\ captured' = r.id
  /\ result' = [request |-> r, samples |-> samples,
                valid |-> valid /\ Len(samples) >= MinSamples]
  /\ cur' = None
  /\ got' = <<>>

\* What a capture leaves of a chunk, the next one begins in.
ReleaseAlways(taken, available) == Release
ReleaseConsumed(taken, available) ==
  IF taken = available THEN Release ELSE UNCHANGED ring

\* Take what the capture needs from the chunk, `offset` samples into it, or
\* find zeros there: the receiver was muted, and the capture starts again.
Take(r, samples, offset) ==
  LET chunk == Head(ring)
      available == Len(chunk.samples) - offset
      needed == r.n - Len(samples)
      taken == IF available < needed THEN available ELSE needed
      all == samples \o SubSeq(chunk.samples, offset + 1, offset + taken)
  IN \/ /\ Release
        /\ Continue([r EXCEPT !.start = chunk.at + Len(chunk.samples) + Guard],
                    <<>>)
        /\ Fault
     \/ /\ ReleaseConsumed(taken, available)
        /\ IF Len(all) = r.n THEN Complete(r, all, TRUE) ELSE Continue(r, all)
        /\ UNCHANGED faults

\* A capture that begins late still ends on schedule.
Shorten(r, late) == [r EXCEPT !.n = @ - late, !.start = @ + late]

\* A chunk met by a capture that has not begun.
Begin(r) ==
  LET chunk == Head(ring)
      late == chunk.at - r.start
  IN \/ /\ chunk.at + Len(chunk.samples) <= r.start
        /\ Release
        /\ Continue(r, <<>>)
        /\ UNCHANGED faults
     \/ /\ late <= 1
        /\ chunk.at + Len(chunk.samples) > r.start
        /\ Take(r, <<>>, IF late < 0 THEN -late ELSE 0)
     \/ /\ late > 1 /\ late < r.n
        /\ Take(Shorten(r, late), <<>>, 0)
     \/ /\ late > 1 /\ late >= r.n
        /\ Release
        /\ Complete(r, <<>>, FALSE)
        /\ UNCHANGED faults

Examine(r, samples) ==
  LET chunk == Head(ring) IN
  \/ /\ chunk.overflow
     /\ Release
     /\ IF samples # <<>> THEN Complete(r, samples, FALSE)
                          ELSE Continue(r, samples)
     /\ UNCHANGED faults
  \/ /\ ~chunk.overflow /\ chunk.at > r.end + Slack
     /\ Release
     /\ Complete(r, samples, FALSE)
     /\ UNCHANGED faults
  \/ /\ ~chunk.overflow /\ chunk.at <= r.end + Slack
     /\ IF samples = <<>> THEN Begin(r) ELSE Take(r, samples, 0)

\* Nobody wants the chunk.
Discard == /\ Idle /\ cur = None /\ requests = <<>>
           /\ Release
           /\ UNCHANGED <<radio, requests, control, dsp, grid, history>>

\* The next request meets the chunk.
TakeRequest == /\ Idle /\ cur = None /\ requests # <<>>
               /\ requests' = Tail(requests)
               /\ Examine(Head(requests), <<>>)
               /\ UNCHANGED <<radio, control, grid, refused, overdue, stranded>>

\* The capture under way meets it.
Proceed == /\ Idle /\ cur # None
           /\ Examine(cur, got)
           /\ UNCHANGED <<radio, requests, control, grid, refused, overdue,
                          stranded>>

\* beginSweep() with the sweep's first window.
NeverBegun(place) == segments
BeginSweep(place) == IF place = <<1, 0>> THEN <<>> ELSE segments

\* processCapture(): the window joins its sweep, which the last one ends.
Process ==
  /\ result # None
  /\ LET place == result.request.place
         all == Append(BeginSweep(place),
                     [sweep |-> result.request.sweep, place |-> place])
     IN /\ segments' = all
        /\ trace' = IF place = <<Positions, Windows - 1>> THEN all ELSE trace
  /\ result' = None
  /\ UNCHANGED <<radio, ring, requests, control, captured, cur, got, history>>

-----------------------------------------------------------------------------
Ctl == Hop \/ Ask \/ Captured \/ GiveUp \/ Reconfigure
Dsp == Discard \/ TakeRequest \/ Proceed \/ Process
Next == Receive \/ Ctl \/ Dsp

Spec == Init /\ [][Next]_vars

-----------------------------------------------------------------------------
(* Properties.                                                             *)

Places == (1 .. Positions) \X (0 .. Windows - 1)

IsRequest(r) == /\ r \in CaptureRequest
                /\ r.id \in 1 .. asked
                /\ r.epoch \in 0 .. epoch
                /\ r.sweep \in 1 .. sweep
                /\ r.place \in Places
                /\ r.n \in 1 .. Window

\* The state is well typed, and the capture buffer, sized for a window, is
\* never asked to hold more: lateness shortens a capture, never to nothing.
TypeOK == /\ now \in 0 .. MaxTime /\ epoch \in 0 .. MaxEpochs
          /\ Len(ring) <= RingSlots /\ Len(requests) <= RequestSlots
          /\ ctl \in {"hop", "waiting"}
          /\ position \in 1 .. Positions /\ window \in 0 .. Windows
          /\ captured \in 0 .. asked /\ awaited \in 0 .. asked
          /\ \A i \in DOMAIN requests : IsRequest(requests[i])
          /\ cur # None => IsRequest(cur) /\ Len(got) < cur.n
          /\ result # None => /\ IsRequest(result.request)
                              /\ Len(result.samples) <= result.request.n

\* Every capture is answered once and in order, however the stream behaves.
Service == INSTANCE CaptureService WITH answered <- captured
AnswersInOrder == Service!Spec

\* The radio is not taken to the next LO position under a capture, unless ctl
\* lost patience with it, or found no slot for the position's first request.
DrainedOnHop == ctl = "hop" /\ ~gaveUp /\ awaited # 0 => Outstanding = <<>>

\* A capture of good samples only: each taken with the radio tuned to its own
\* window, as long as its retune was not late and it ended on schedule.
Times == {result.samples[i].at : i \in DOMAIN result.samples}
PunctualIsOwn ==
  (/\ result # None /\ result.valid
   /\ result.request.punctual /\ result.request.epoch = epoch
   /\ \A t \in Times : t < result.request.end)
  => \A i \in DOMAIN result.samples :
       result.samples[i].tune = result.request.tune

\* As long as nothing is lost, muted or late, and the clock is not set back
\* under a capture, every window is captured whole and to the sample: neither
\* the chunk it begins in nor the rest of the one it ends in is given away.
ExactOnFlawlessStream ==
  faults = 0 /\ ~overdue /\ ~stranded /\ result # None
  => /\ result.valid
     /\ result.samples = [i \in 1 .. Window |->
                            [at |-> result.request.start + i - 1,
                             tune |-> result.request.tune]]

\* A complete trace is made of all the windows of one sweep, in order.
TraceIsOneSweep ==
  ~refused /\ trace # <<>>
  => trace = [i \in 1 .. Positions * Windows |->
                [sweep |-> trace[1].sweep,
                 place |-> <<(i - 1) \div Windows + 1, (i - 1) % Windows>>]]

\* "Shorten the capture so it still ends on schedule; otherwise its tail would
\* ... hold the next sub-window's spectrum": no capture of good samples holds
\* the spectrum of another window than its own, its retune not being late.
TailIsOwn ==
  (result # None /\ result.valid /\ result.request.punctual)
  => \A i \in DOMAIN result.samples :
       result.samples[i].tune = result.request.tune
=============================================================================
