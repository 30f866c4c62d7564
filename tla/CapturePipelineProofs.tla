----------------------- MODULE CapturePipelineProofs -----------------------
(***************************************************************************)
(* For every length of window, chunk and ring, every number of LO          *)
(* positions and windows, and every guard and patience:                    *)
(*  - captures are answered once and in order, none is asked for more      *)
(*    samples than its buffer has, none is outstanding when the radio hops *)
(*    (CaptureInv; Numbered carries the argument: the captures not yet     *)
(*    answered bear the numbers that follow capturedId_, up to             *)
(*    nextReqId_);                                                         *)
(*  - a complete trace is one sweep's (TraceInv: from the last window in   *)
(*    the grid over the captures in flight to what ctl asks for next, each *)
(*    window follows the one before it, or begins a sweep);                *)
(*  - the samples of a punctual capture are its own window's (OwnInv: the  *)
(*    retunes and the requests of the position keep to one timetable, so   *)
(*    that in a window's time the last retune due is the window's);        *)
(*  - of a flawless stream every window is cut to the sample (ExactInv:    *)
(*    the next sample dsp will see is the next one its capture lacks).     *)
(***************************************************************************)
EXTENDS CapturePipeline, WellFoundedInduction, TLAPS

-----------------------------------------------------------------------------
(* Sequences of samples and of chunks, whose elements need no type.        *)

IsSeq(s) == \E S : s \in Seq(S)

\* A sequence stays one when an element is added to it or taken from it.
LEMMA QueueFacts ==
  ASSUME NEW s, IsSeq(s)
  PROVE  /\ Len(s) \in Nat
         /\ \A e : /\ IsSeq(Append(s, e))
                   /\ Len(Append(s, e)) = Len(s) + 1
                   /\ \A i \in 1 .. Len(s) : Append(s, e)[i] = s[i]
                   /\ Append(s, e)[Len(s) + 1] = e
         /\ s # <<>> => /\ IsSeq(Tail(s))
                        /\ Len(s) >= 1
                        /\ Len(Tail(s)) = Len(s) - 1
                        /\ \A i \in 1 .. Len(s) - 1 : Tail(s)[i] = s[i + 1]
                        /\ Head(s) = s[1]
<1>1. PICK S : s \in Seq(S)
  BY DEF IsSeq
<1>2. ASSUME NEW e
      PROVE  /\ IsSeq(Append(s, e))
             /\ Len(Append(s, e)) = Len(s) + 1
             /\ \A i \in 1 .. Len(s) : Append(s, e)[i] = s[i]
             /\ Append(s, e)[Len(s) + 1] = e
  <2> DEFINE T == S \cup {e}
  <2>1. s \in Seq(T) /\ e \in T
    BY <1>1
  <2>2. Append(s, e) \in Seq(T)
    BY <2>1
  <2>3. IsSeq(Append(s, e))
    BY <2>2 DEF IsSeq
  <2>4. /\ Len(Append(s, e)) = Len(s) + 1
        /\ \A i \in 1 .. Len(s) : Append(s, e)[i] = s[i]
        /\ Append(s, e)[Len(s) + 1] = e
    BY <2>1
  <2> QED
    BY <2>3, <2>4
<1>3. ASSUME s # <<>>
      PROVE  /\ IsSeq(Tail(s))
             /\ Len(s) >= 1
             /\ Len(Tail(s)) = Len(s) - 1
             /\ \A i \in 1 .. Len(s) - 1 : Tail(s)[i] = s[i + 1]
             /\ Head(s) = s[1]
  <2>1. Tail(s) \in Seq(S)
    BY <1>1, <1>3
  <2>2. IsSeq(Tail(s))
    BY <2>1 DEF IsSeq
  <2>3. /\ Len(s) >= 1
        /\ Len(Tail(s)) = Len(s) - 1
        /\ \A i \in 1 .. Len(s) - 1 : Tail(s)[i] = s[i + 1]
        /\ Head(s) = s[1]
    BY <1>1, <1>3
  <2> QED
    BY <2>2, <2>3
<1> QED
  BY <1>1, <1>2, <1>3

LEMMA TailDiffers == ASSUME NEW s, IsSeq(s), s # <<>> PROVE s # Tail(s)
<1>1. PICK n \in Nat : n = Len(s) /\ Len(Tail(s)) = n - 1 BY QueueFacts
<1>2. n # n - 1 BY <1>1
<1> QED BY <1>1, <1>2

\* Samples copied from a chunk: as many more as were copied.
Joined(s, t, m, k) == s \o SubSeq(t, m + 1, m + k)
IsJoined(u, s, t, m, k) == /\ u \in Seq(StreamSample) /\ Len(u) = Len(s) + k
                           /\ \A i \in 1 .. Len(s) : u[i] = s[i]
                           /\ \A i \in 1 .. k : u[Len(s) + i] = t[m + i]

LEMMA ConcatFacts ==
  ASSUME NEW s \in Seq(StreamSample), NEW t \in Seq(StreamSample)
  PROVE  /\ s \o t \in Seq(StreamSample) /\ Len(s \o t) = Len(s) + Len(t)
         /\ \A i \in 1 .. Len(s) : (s \o t)[i] = s[i]
         /\ \A i \in 1 .. Len(t) : (s \o t)[Len(s) + i] = t[i]
<1>1. s \o t \in Seq(StreamSample) /\ Len(s \o t) = Len(s) + Len(t) OBVIOUS
<1>2. ASSUME NEW i \in 1 .. Len(s) PROVE (s \o t)[i] = s[i] OBVIOUS
<1>3. ASSUME NEW i \in 1 .. Len(t) PROVE (s \o t)[Len(s) + i] = t[i] OBVIOUS
<1> QED BY <1>1, <1>2, <1>3

LEMMA JoinedFacts ==
  ASSUME NEW s \in Seq(StreamSample), NEW t \in Seq(StreamSample),
         NEW m \in Nat, NEW k \in Nat, m + k <= Len(t)
  PROVE  IsJoined(Joined(s, t, m, k), s, t, m, k)
<1> DEFINE copied == SubSeq(t, m + 1, m + k)
<1>1. Len(copied) = k /\ \A i \in 1 .. k : copied[i] = t[m + i] OBVIOUS
<1>s. copied \in Seq(StreamSample) OBVIOUS
<1>2. Joined(s, t, m, k) = s \o copied
  BY DEF Joined
<1> HIDE DEF copied
<1>3. /\ s \o copied \in Seq(StreamSample) /\ Len(s \o copied) = Len(s) + k
      /\ \A i \in 1 .. Len(s) : (s \o copied)[i] = s[i]
      /\ \A i \in 1 .. k : (s \o copied)[Len(s) + i] = copied[i]
  <2>1. /\ s \o copied \in Seq(StreamSample)
        /\ Len(s \o copied) = Len(s) + Len(copied)
        /\ \A i \in 1 .. Len(s) : (s \o copied)[i] = s[i]
        /\ \A i \in 1 .. Len(copied) : (s \o copied)[Len(s) + i] = copied[i]
    BY <1>s, ConcatFacts, Zenon
  <2> QED BY <1>1, <2>1
<1> QED
  BY <1>1, <1>2, <1>3 DEF IsJoined

\* Of finitely many naturals one is the last.
LEMMA LastExists ==
  ASSUME NEW n \in Nat, NEW S \in SUBSET (0 .. n), S # {}
  PROVE  \E w \in S : \A v \in S : v <= w
<1> DEFINE T == {n - i : i \in S}
<1>1. T \in SUBSET Nat /\ T # {}
  <2>1. \A i \in S : i \in 0 .. n /\ n - i \in Nat
    OBVIOUS
  <2> QED
    BY <2>1
<1>2. PICK R : IsWellFoundedOn(R, Nat) /\ \A x, y \in Nat : <<y, x>> \in R <=> y < x
  <2>1. \A x, y \in Nat : <<y, x>> \in OpToRel(<, Nat) <=> y < x
    BY DEF OpToRel
  <2> QED
    BY <2>1, NatLessThanWellFounded
<1>3. PICK x \in T : \A y \in T : <<y, x>> \notin R
  BY <1>1, <1>2, WFMin
<1>4. PICK w \in S : x = n - w
  BY DEF T
<1>5. ASSUME NEW v \in S PROVE v <= w
  <2>1. n - v \in T /\ n - v \in Nat /\ x \in Nat
    BY <1>1
  <2>2. ~(n - v < x)
    BY <1>2, <1>3, <2>1
  <2> QED
    BY <1>4, <2>2
<1> QED
  BY <1>5

\* The constants one by one.
LEMMA Bounds ==
  /\ MaxTime \in Nat /\ MaxEpochs \in Nat /\ RingSlots \in Nat
  /\ RequestSlots \in Nat /\ Guard \in Nat /\ DdcGuard \in Nat
  /\ Windows \in Nat \ {0} /\ Positions \in Nat \ {0}
  /\ Window \in Nat \ {0} /\ ChunkLength \in Nat \ {0}
BY CaptureAssumption

-----------------------------------------------------------------------------
(* The invariant.                                                          *)

ControlTyped ==
  /\ now \in 0 .. MaxTime /\ epoch \in 0 .. MaxEpochs
  /\ ctl \in {"hop", "waiting"}
  /\ position \in 1 .. Positions /\ window \in 0 .. Windows
  /\ sweep \in Nat /\ hops \in Nat /\ start \in Nat
  /\ sweep = 0 => ctl = "hop" /\ position = Positions
  /\ asked \in Nat /\ captured \in Nat
  /\ awaited \in {0, asked}
  /\ \A c \in timed : c.window \in 0 .. Windows

IsChunk(c) == c.at \in Nat /\ c.samples \in Seq(StreamSample)

RingTyped == /\ IsSeq(ring) /\ Len(ring) <= RingSlots
             /\ \A i \in 1 .. Len(ring) : IsChunk(ring[i])

RequestsTyped == /\ requests \in Seq(CaptureRequest)
                 /\ Len(requests) <= RequestSlots
                 /\ \A i \in 1 .. Len(requests) : IsRequest(requests[i])

\* A capture under way lacks samples, and a finished one has no more than it
\* was cut down to.
CaptureTyped ==
  /\ cur # None => /\ IsRequest(cur)
                   /\ got \in Seq(StreamSample) /\ Len(got) < cur.n
  /\ result # None => /\ result \in CaptureResult /\ IsRequest(result.request)
                      /\ Len(result.samples) <= result.request.n

\* The number before the oldest request's.
Base == IF cur = None THEN captured ELSE captured + 1

Numbered == /\ cur # None => cur.id = captured + 1
            /\ Len(requests) = asked - Base
            /\ \A i \in 1 .. Len(requests) : requests[i].id = Base + i

CaptureInv == /\ ControlTyped /\ RingTyped /\ RequestsTyped /\ CaptureTyped
              /\ Numbered /\ DrainedOnHop

\* A fresh request is typed, and not None.
LEMMA RequestFacts ==
  ASSUME ControlTyped, ctl = "waiting", window < Windows
  PROVE  /\ Request \in CaptureRequest
         /\ Request.id = asked + 1 /\ Request.epoch = epoch
         /\ Request.sweep \in 1 .. sweep
         /\ Request.place \in Places
         /\ Request.n \in 1 .. Window
<1>1. /\ Window \in Nat \ {0} /\ Windows \in Nat \ {0}
      /\ Positions \in Nat \ {0} /\ DdcGuard \in Nat
  BY Bounds
<1>2. /\ asked + 1 \in Nat /\ epoch \in Nat /\ sweep \in 1 .. sweep
      /\ position \in 1 .. Positions /\ window \in 0 .. Windows - 1
      /\ position \in Nat /\ hops \in Nat
  BY <1>1 DEF ControlTyped
<1>3. WindowStart \in Nat
  <2>1. Window + DdcGuard \in Nat /\ window \in Nat /\ start \in Nat
    BY <1>1 DEF ControlTyped
  <2>2. \A a, b \in Nat : a * b \in Nat
    OBVIOUS
  <2>3. window * (Window + DdcGuard) \in Nat
    BY <2>1, <2>2
  <2> QED
    BY <2>1, <2>3 DEF WindowStart
<1>4. WindowStart + Window \in Nat /\ Window \in 1 .. Window
  BY <1>1, <1>3
<1>5. (now <= WindowStart - DdcGuard) \in BOOLEAN
  OBVIOUS
<1> QED
  BY <1>1, <1>2, <1>3, <1>4, <1>5 DEF Request, CaptureRequest, Places

-----------------------------------------------------------------------------
(* What a round of dspLoop() does to the capture it works on.              *)

\* The same capture, begun later or cut down.
Kin(q, r) == /\ q.id = r.id /\ q.epoch = r.epoch /\ q.sweep = r.sweep
             /\ q.place = r.place /\ q.tune = r.tune /\ q.end = r.end
             /\ q.punctual = r.punctual

\* The round leaves the capture unfinished, or answers it.
Unfinished(r) == /\ IsRequest(cur') /\ Kin(cur', r)
                 /\ got' \in Seq(StreamSample) /\ Len(got') < cur'.n
                 /\ UNCHANGED <<captured, result>>

Answered(r) == /\ cur' = None
               /\ captured' = r.id
               /\ result' \in CaptureResult
               /\ IsRequest(result'.request) /\ Kin(result'.request, r)
               /\ Len(result'.samples) <= result'.request.n

Round(r) == /\ ring' = ring \/ ring' = Tail(ring)
            /\ Unfinished(r) \/ Answered(r)

\* What a round works on.
Workable(r, samples) == /\ IsRequest(r)
                        /\ samples \in Seq(StreamSample) /\ Len(samples) < r.n

LEMMA NoSamples == IsSeq(<<>>) /\ <<>> \in Seq(StreamSample) /\ Len(<<>>) = 0
BY DEF IsSeq

\* A capture completed with the samples it has is answered.
LEMMA CompleteRound ==
  ASSUME NEW r, IsRequest(r), NEW samples \in Seq(StreamSample),
         Len(samples) <= r.n, NEW valid \in BOOLEAN, Complete(r, samples, valid)
  PROVE  Answered(r)
BY CaptureAssumption DEF Complete, Answered, Kin, CaptureResult, IsRequest

\* One continued with the samples it has is unfinished.
LEMMA ContinueRound ==
  ASSUME NEW r, NEW samples, Workable(r, samples), Continue(r, samples)
  PROVE  Unfinished(r)
BY DEF Continue, Unfinished, Workable, Kin

\* Take() never copies more than the capture lacks, nor than the chunk has.
LEMMA TakeRound ==
  ASSUME RingTyped, ring # <<>>,
         NEW r, NEW samples, Workable(r, samples),
         NEW offset \in Nat, offset <= Len(Head(ring).samples),
         Take(r, samples, offset)
  PROVE  Round(r)
<1> DEFINE chunk == Head(ring)
           available == Len(chunk.samples) - offset
           needed == r.n - Len(samples)
           taken == IF available < needed THEN available ELSE needed
           all == samples \o SubSeq(chunk.samples, offset + 1, offset + taken)
           again == [r EXCEPT !.start = chunk.at + Len(chunk.samples) + Guard]
<1>1. IsChunk(chunk)
  BY QueueFacts DEF RingTyped
<1>2. /\ Len(chunk.samples) \in Nat /\ chunk.at \in Nat
      /\ Len(samples) \in Nat /\ r.n \in 1 .. Window /\ Guard \in Nat
      /\ Window \in Nat
  BY <1>1, QueueFacts, Bounds DEF IsChunk, Workable, IsRequest
<1> HIDE DEF chunk
<1>3. taken \in Nat /\ offset + taken <= Len(chunk.samples)
      /\ taken <= needed
  <2>1. available \in Nat /\ needed \in Nat
    BY <1>2 DEF chunk, Workable
  <2>2. available = Len(chunk.samples) - offset
    OBVIOUS
  <2> HIDE DEF available, needed
  <2>3. taken \in Nat /\ taken <= available /\ taken <= needed
    BY <2>1
  <2> QED
    BY <1>2, <2>2, <2>3
<1>4. all \in Seq(StreamSample) /\ Len(all) = Len(samples) + taken /\ Len(all) <= r.n
  <2>1. samples \in Seq(StreamSample) /\ chunk.samples \in Seq(StreamSample)
    BY <1>1 DEF Workable, IsChunk
  <2> HIDE DEF taken
  <2>2. all = Joined(samples, chunk.samples, offset, taken)
    BY DEF Joined
  <2> HIDE DEF all
  <2>3. all \in Seq(StreamSample) /\ Len(all) = Len(samples) + taken
    BY <1>3, <2>1, <2>2, JoinedFacts DEF IsJoined
  <2> QED
    BY <1>2, <1>3, <2>3
<1> HIDE DEF all, taken
<1>5. \/ Release /\ Continue(again, <<>>)
      \/ /\ ReleaseConsumed(taken, available)
         /\ IF Len(all) = r.n THEN Complete(r, all, TRUE) ELSE Continue(r, all)
  BY DEF Take, chunk, taken, all
<1>6. CASE Release /\ Continue(again, <<>>)
  <2>1. chunk.at + Len(chunk.samples) + Guard \in Nat
    BY <1>2
  <2>2. IsRequest(again) /\ Kin(again, r) /\ again.n = r.n
    BY <2>1 DEF Workable, IsRequest, CaptureRequest, Kin
  <2>3. Workable(again, <<>>)
    BY <1>2, <2>2, NoSamples DEF Workable
  <2> HIDE DEF again
  <2>4. Unfinished(again)
    BY <1>6, <2>3, ContinueRound
  <2> QED
    BY <1>6, <2>2, <2>4 DEF Round, Unfinished, Release, Kin
<1>7. CASE /\ ReleaseConsumed(taken, available)
           /\ IF Len(all) = r.n THEN Complete(r, all, TRUE)
                                ELSE Continue(r, all)
  <2>1. ring' = ring \/ ring' = Tail(ring)
    BY <1>7 DEF ReleaseConsumed, Release
  <2>2. CASE Len(all) = r.n
    BY <1>4, <1>7, <2>1, <2>2, CompleteRound DEF Round, Workable
  <2>3. CASE Len(all) # r.n
    <3>1. Len(all) < r.n
      BY <1>2, <1>3, <1>4, <2>3
    <3>2. Workable(r, all)
      BY <1>4, <3>1 DEF Workable
    <3> QED
      BY <1>7, <2>1, <2>3, <3>2, ContinueRound DEF Round
  <2> QED
    BY <2>2, <2>3
<1> QED
  BY <1>5, <1>6, <1>7

\* A request shortened by less than it asks for asks for something.
LEMMA ShortenFacts ==
  ASSUME NEW r, IsRequest(r), NEW late \in Nat, late < r.n
  PROVE  /\ Kin(Shorten(r, late), r) /\ Workable(Shorten(r, late), <<>>)
         /\ Shorten(r, late).start = r.start + late
         /\ Shorten(r, late).n = r.n - late
<1>1. r.n \in 1 .. Window /\ r.start \in Nat /\ Window \in Nat
  BY Bounds DEF IsRequest, CaptureRequest
<1>2. r.n - late \in 1 .. Window /\ r.start + late \in Nat
  BY <1>1
<1>4. Shorten(r, late) = [r EXCEPT !.n = r.n - late, !.start = r.start + late]
  BY DEF Shorten
<1> DEFINE q == Shorten(r, late)
<1>5. /\ IsRequest(q) /\ Kin(q, r) /\ q.n = r.n - late /\ q.start = r.start + late
  <2>1. PICK n, t : n = r.n - late /\ t = r.start + late OBVIOUS
  <2>2. n \in 1 .. Window /\ t \in Nat BY <1>2, <2>1, Zenon
  <2>3. q = [r EXCEPT !.n = n, !.start = t] BY <1>4, <2>1
  <2> HIDE DEF q
  <2>4. n \in Nat /\ r \in CaptureRequest BY <1>1, <2>2 DEF IsRequest
  <2>5. q.n = n /\ q.start = t BY <2>3, <2>4 DEF CaptureRequest
  <2>6. Kin(q, r) BY <2>3, <2>4 DEF CaptureRequest, Kin
  <2>7. IsRequest(q)
    <3>1. q \in CaptureRequest BY <2>2, <2>3, <2>4 DEF CaptureRequest
    <3> QED BY <2>2, <2>5, <2>6, <3>1 DEF IsRequest, Kin
  <2> QED
    BY <2>1, <2>5, <2>6, <2>7
<1>6. Len(<<>>) < q.n
  BY <1>2, <1>5, NoSamples
<1> QED
  BY <1>5, <1>6, NoSamples DEF Workable

\* Begin() hands Take() an offset inside the chunk, and a request shortened
\* to something.
LEMMA BeginRound ==
  ASSUME RingTyped, ring # <<>>, NEW r, IsRequest(r), Begin(r)
  PROVE  Round(r)
<1> DEFINE chunk == Head(ring)
           late == chunk.at - r.start
<1>1. IsChunk(chunk)
  BY QueueFacts DEF RingTyped
<1>2. /\ Len(chunk.samples) \in Nat /\ chunk.at \in Nat
      /\ r.start \in Nat /\ r.n \in 1 .. Window /\ Window \in Nat
  BY <1>1, QueueFacts, Bounds
  DEF IsChunk, IsRequest, CaptureRequest
<1>3. Workable(r, <<>>)
  BY <1>2, NoSamples DEF Workable
<1>4. CASE Release /\ Continue(r, <<>>)
  BY <1>3, <1>4, ContinueRound DEF Round, Release
<1>5. CASE /\ late <= 1
           /\ chunk.at + Len(chunk.samples) > r.start
           /\ Take(r, <<>>, IF late < 0 THEN -late ELSE 0)
  <2> DEFINE offset == IF late < 0 THEN -late ELSE 0
  <2>1. offset \in Nat /\ offset <= Len(chunk.samples)
    BY <1>2, <1>5
  <2> HIDE DEF offset, late
  <2>2. Take(r, <<>>, offset)
    BY <1>5 DEF offset
  <2> QED
    BY <1>3, <2>1, <2>2, TakeRound
<1>6. CASE late > 1 /\ late < r.n /\ Take(Shorten(r, late), <<>>, 0)
  <2>1. late \in Nat /\ late < r.n
    BY <1>2, <1>6
  <2> HIDE DEF late
  <2>2. Kin(Shorten(r, late), r) /\ Workable(Shorten(r, late), <<>>)
    BY <2>1, ShortenFacts
  <2>4. 0 \in Nat /\ 0 <= Len(chunk.samples)
    BY <1>2
  <2>5. Round(Shorten(r, late))
    BY <1>6, <2>2, <2>4, TakeRound
  <2> QED
    BY <2>2, <2>5 DEF Round, Unfinished, Answered, Kin
<1>7. CASE Release /\ Complete(r, <<>>, FALSE)
  <2>1. Len(<<>>) <= r.n /\ <<>> \in Seq(StreamSample)
    BY <1>2, NoSamples
  <2> QED
    BY <1>7, <2>1, CompleteRound DEF Round, Release
<1> QED
  BY <1>4, <1>5, <1>6, <1>7 DEF Begin

\* Whatever the chunk, a round answers the capture or leaves it unfinished.
LEMMA ExamineRound ==
  ASSUME RingTyped, ring # <<>>,
         NEW r, NEW samples, Workable(r, samples), Examine(r, samples)
  PROVE  Round(r)
<1>1. /\ IsRequest(r) /\ Len(samples) <= r.n /\ samples \in Seq(StreamSample)
      /\ 0 \in Nat /\ 0 <= Len(Head(ring).samples)
  <2>1. r.n \in 1 .. Window /\ Window \in Nat
    BY Bounds DEF Workable, IsRequest
  <2>2. Len(samples) \in Nat /\ Len(samples) < r.n
    BY QueueFacts DEF Workable
  <2>3. Len(Head(ring).samples) \in Nat
    BY QueueFacts DEF RingTyped, IsChunk
  <2> QED
    BY <2>1, <2>2, <2>3 DEF Workable
<1>2. CASE Release /\ Complete(r, samples, FALSE)
  BY <1>1, <1>2, CompleteRound DEF Round, Release
<1>3. CASE Release /\ Continue(r, samples)
  BY <1>3, ContinueRound DEF Round, Release
<1>4. CASE Begin(r)
  BY <1>1, <1>4, BeginRound
<1>5. CASE Take(r, samples, 0)
  BY <1>1, <1>5, TakeRound
<1> QED
  BY <1>2, <1>3, <1>4, <1>5 DEF Examine

-----------------------------------------------------------------------------
(* Every action keeps the invariant.                                       *)

\* What the dsp thread's rounds leave alone.
LEMMA RoundKeeps ==
  ASSUME RingTyped, ring # <<>>, ring' = ring \/ ring' = Tail(ring)
  PROVE  RingTyped'
<1>1. CASE ring' = ring
  BY <1>1 DEF RingTyped, IsChunk
<1>2. CASE ring' = Tail(ring)
  <2>1. /\ IsSeq(ring') /\ Len(ring') = Len(ring) - 1 /\ Len(ring) \in Nat
        /\ \A i \in 1 .. Len(ring) - 1 : ring'[i] = ring[i + 1]
    BY <1>2, QueueFacts DEF RingTyped
  <2>2. ASSUME NEW i \in 1 .. Len(ring')
        PROVE  IsChunk(ring'[i])
    <3>1. i + 1 \in 1 .. Len(ring) /\ ring'[i] = ring[i + 1]
      BY <2>1
    <3> QED
      BY <3>1 DEF RingTyped
  <2>3. Len(ring') <= RingSlots
    <3>1. Len(ring) <= RingSlots /\ RingSlots \in Nat
      BY Bounds DEF RingTyped
    <3> QED
      BY <2>1, <3>1
  <2> QED
    BY <2>1, <2>2, <2>3 DEF RingTyped, IsChunk
<1> QED
  BY <1>1, <1>2

LEMMA InitInv == Init => CaptureInv
<1> SUFFICES ASSUME Init PROVE CaptureInv
  OBVIOUS
<1> USE DEF Init
<1>1. ControlTyped
  BY Bounds DEF ControlTyped
<1>2. RingTyped /\ RequestsTyped
  BY NoSamples, Bounds DEF RingTyped, RequestsTyped
<1>3. CaptureTyped /\ Numbered
  BY DEF CaptureTyped, Numbered, Base
<1>4. DrainedOnHop
  BY DEF DrainedOnHop
<1> QED
  BY <1>1, <1>2, <1>3, <1>4 DEF CaptureInv

\* Some window is the last to be retuned to.
LEMMA SampleTyped ==
  ASSUME ControlTyped, NEW t \in Nat
  PROVE  Sample(t) \in StreamSample
<1> DEFINE due == {c.window : c \in {c \in timed : c.at <= t}}
<1>1. due \subseteq 0 .. Windows /\ Windows \in Nat /\ hops \in Nat
  BY Bounds DEF ControlTyped
<1> HIDE DEF due
<1>2. due # {} => (CHOOSE w \in due : \A v \in due : v <= w) \in due
  BY <1>1, LastExists
<1>3. TuneAt(t) = <<hops, IF due = {} THEN 0
                          ELSE CHOOSE w \in due : \A v \in due : v <= w>>
  BY DEF TuneAt, due
<1> DEFINE last == CHOOSE w \in due : \A v \in due : v <= w
           w == IF due = {} THEN 0 ELSE last
<1> HIDE DEF last
<1>9. w \in Nat
  <2>1. due # {} => last \in 0 .. Windows
    BY <1>1, <1>2 DEF last
  <2> QED
    BY <1>1, <2>1
<1>4. TuneAt(t) \in Nat \X Nat
  <2>1. TuneAt(t) = <<hops, w>>
    BY <1>3 DEF last
  <2> HIDE DEF w
  <2> QED
    BY <1>1, <1>9, <2>1
<1> QED
  BY <1>4 DEF Sample, StreamSample

LEMMA ReceiveStep == CaptureInv /\ Receive => CaptureInv'
<1> SUFFICES ASSUME CaptureInv, Receive PROVE CaptureInv'
  OBVIOUS
<1> USE DEF CaptureInv
<1>1. UNCHANGED <<epoch, requests, control, dsp>>
  BY DEF Receive
<1>2. ControlTyped'
  <2>1. now' \in 0 .. MaxTime
    <3>1. now \in Nat /\ ChunkLength \in Nat /\ MaxTime \in Nat
      BY Bounds DEF ControlTyped
    <3> QED
      BY <3>1 DEF Receive
  <2> QED
    BY <1>1, <2>1 DEF ControlTyped, control, dsp, Receive
<1>3. RingTyped'
  <2>1. CASE UNCHANGED ring
    BY <2>1 DEF RingTyped, IsChunk
  <2>2. ASSUME NEW samples \in Seq(StreamSample), NEW overflow,
               Len(ring) < RingSlots,
               ring' = Append(ring, Chunk(samples, overflow))
        PROVE  RingTyped'
    <3> DEFINE c == Chunk(samples, overflow)
    <3>1. IsChunk(c)
      BY <2>2, Bounds DEF IsChunk, Chunk, ControlTyped
    <3> HIDE DEF c
    <3>2. /\ IsSeq(ring') /\ Len(ring') = Len(ring) + 1 /\ Len(ring) \in Nat
          /\ \A i \in 1 .. Len(ring) : ring'[i] = ring[i]
          /\ ring'[Len(ring) + 1] = c
      BY <2>2, QueueFacts DEF RingTyped, c
    <3>3. \A i \in 1 .. Len(ring') : IsChunk(ring'[i])
      BY <3>1, <3>2 DEF RingTyped
    <3>4. Len(ring') <= RingSlots
      <4>1. Len(ring) < RingSlots /\ RingSlots \in Nat
        BY <2>2, Bounds
      <4> QED
        BY <3>2, <4>1
    <3> QED
      BY <3>2, <3>3, <3>4 DEF RingTyped
  <2>3. [i \in 1 .. ChunkLength |-> Sample(now + i - 1)] \in Seq(StreamSample)
    <3>1. ChunkLength \in Nat /\ now \in Nat
      BY Bounds DEF ControlTyped
    <3>2. \A i \in 1 .. ChunkLength : now + i - 1 \in Nat
      BY <3>1
    <3>3. \A i \in 1 .. ChunkLength : Sample(now + i - 1) \in StreamSample
      BY <3>2, SampleTyped
    <3> QED
      BY <3>1, <3>3
  <2> QED
    BY <2>1, <2>2, <2>3, NoSamples DEF Receive
<1>4. RequestsTyped' /\ CaptureTyped'
  BY <1>1 DEF RequestsTyped, CaptureTyped, IsRequest, control, dsp
<1>5. Numbered' /\ DrainedOnHop'
  BY <1>1 DEF Numbered, Base, DrainedOnHop, Outstanding, control, dsp
<1> QED
  BY <1>2, <1>3, <1>4, <1>5

LEMMA HopStep == CaptureInv /\ Hop => CaptureInv'
<1> SUFFICES ASSUME CaptureInv, Hop PROVE CaptureInv'
  OBVIOUS
<1> USE DEF CaptureInv
<1>1. UNCHANGED <<now, epoch, ring, requests, asked, gaveUp, dsp>>
  BY DEF Hop
<1>2. sweep' \in Nat /\ sweep' >= sweep /\ sweep' # 0
  BY Bounds DEF Hop, ControlTyped
<1>3. ControlTyped'
  BY <1>1, <1>2, Bounds DEF Hop, ControlTyped, dsp
<1>4. RingTyped'
  BY <1>1 DEF RingTyped, IsChunk
<1>5. \A r : IsRequest(r) => IsRequest(r)'
  BY <1>1, <1>2 DEF IsRequest, ControlTyped
<1>6. RequestsTyped' /\ CaptureTyped'
  BY <1>1, <1>5 DEF RequestsTyped, CaptureTyped, dsp
<1>7. Numbered' /\ DrainedOnHop'
  BY <1>1 DEF Hop, Numbered, Base, DrainedOnHop, dsp
<1> QED
  BY <1>3, <1>4, <1>6, <1>7

\* The new request takes the next number.
LEMMA AskStep == CaptureInv /\ Ask => CaptureInv'
<1> SUFFICES ASSUME CaptureInv, Ask PROVE CaptureInv'
  OBVIOUS
<1> USE DEF CaptureInv
<1>1. UNCHANGED <<now, epoch, ring, ctl, sweep, hops, position, start, gaveUp,
                  dsp>>
  BY DEF Ask
<1>2. ctl = "waiting" /\ window < Windows
  BY DEF Ask
<1>3. RingTyped'
  BY <1>1 DEF RingTyped, IsChunk
<1>4. \A r : IsRequest(r) => IsRequest(r)'
  <2>1. asked' \in {asked, asked + 1}
    BY DEF Ask
  <2>2. asked \in Nat
    BY DEF ControlTyped
  <2> QED
    BY <1>1, <2>1, <2>2 DEF IsRequest
<1>5. CaptureTyped' /\ DrainedOnHop'
  BY <1>1, <1>2, <1>4 DEF CaptureTyped, DrainedOnHop, dsp
<1>8. \A c \in timed' : c.window \in 0 .. Windows
  <2>1. \A c \in timed : c.window \in 0 .. Windows
    BY DEF ControlTyped
  <2>2. window \in 0 .. Windows
    BY DEF ControlTyped
  <2>3. timed' \subseteq timed \cup {[at |-> WindowStart - DdcGuard, window |-> window]}
    BY DEF Ask
  <2> QED
    BY <2>1, <2>2, <2>3
<1>6. CASE /\ Len(requests) < RequestSlots
           /\ requests' = Append(requests, Request)
           /\ asked' = asked + 1 /\ awaited' = asked + 1
           /\ window' = window + 1
  <2>1. ControlTyped'
    <3>1. window' \in 0 .. Windows
      <4>1. window \in 0 .. Windows /\ Windows \in Nat
        BY Bounds DEF ControlTyped
      <4> QED
        BY <1>2, <1>6, <4>1
    <3> QED
      BY <1>1, <1>6, <1>8, <3>1 DEF ControlTyped, dsp
  <2>2. \A q : /\ q \in CaptureRequest /\ q.id = asked + 1 /\ q.epoch = epoch
               /\ q.sweep \in 1 .. sweep /\ q.place \in Places
               /\ q.n \in 1 .. Window
               => IsRequest(q)'
    BY <1>1, <1>6 DEF IsRequest, ControlTyped, Places
  <2>3. /\ Request \in CaptureRequest /\ Request.id = asked + 1
        /\ Request.epoch = epoch /\ Request.sweep \in 1 .. sweep
        /\ Request.place \in Places /\ Request.n \in 1 .. Window
    BY <1>2, RequestFacts
  <2>4. PICK r : r = Request
    OBVIOUS
  <2>5. r \in CaptureRequest /\ r.id = asked + 1 /\ IsRequest(r)'
    BY <2>2, <2>3, <2>4
  <2>6. /\ requests' \in Seq(CaptureRequest)
        /\ Len(requests') = Len(requests) + 1
        /\ \A i \in 1 .. Len(requests) : requests'[i] = requests[i]
        /\ requests'[Len(requests) + 1] = r
    BY <1>6, <2>4, <2>5 DEF RequestsTyped
  <2>7. Len(requests) \in Nat
    BY DEF RequestsTyped
  <2>8. RequestsTyped'
    <3>1. ASSUME NEW i \in 1 .. Len(requests')
          PROVE  IsRequest(requests[i])'
      <4>1. CASE i \in 1 .. Len(requests)
        BY <1>4, <2>6, <4>1 DEF RequestsTyped
      <4>2. CASE i = Len(requests) + 1
        BY <2>5, <2>6, <4>2
      <4> QED
        BY <2>6, <2>7, <4>1, <4>2
    <3>2. Len(requests') <= RequestSlots
      <4>1. RequestSlots \in Nat
        BY Bounds
      <4> QED
        BY <1>6, <2>6, <2>7, <4>1
    <3> QED
      BY <2>6, <3>1, <3>2 DEF RequestsTyped
  <2>9. Numbered'
    <3>1. Base \in Nat /\ Base' = Base /\ asked \in Nat
      BY <1>1 DEF Base, ControlTyped, dsp
    <3>2. Len(requests') = asked' - Base'
      BY <1>6, <2>6, <3>1 DEF Numbered
    <3>3. \A i \in 1 .. Len(requests') : requests'[i].id = Base' + i
      <4>1. \A i \in 1 .. Len(requests) : requests[i].id = Base + i
        BY DEF Numbered
      <4>2. Len(requests) = asked - Base /\ r.id = asked + 1
        BY <2>5 DEF Numbered
      <4>3. ASSUME NEW i \in 1 .. Len(requests')
            PROVE  requests'[i].id = Base + i
        <5>1. CASE i \in 1 .. Len(requests)
          BY <2>6, <4>1, <5>1
        <5>2. CASE i = Len(requests) + 1
          BY <2>6, <3>1, <4>2, <5>2
        <5> QED
          BY <2>6, <2>7, <5>1, <5>2
      <4> QED
        BY <3>1, <4>3
    <3>4. (cur # None => cur.id = captured + 1)'
      BY <1>1 DEF Numbered, dsp
    <3> QED
      BY <3>2, <3>3, <3>4 DEF Numbered
  <2> QED
    BY <1>3, <1>5, <2>1, <2>8, <2>9
<1>7. CASE /\ window' = Windows
           /\ UNCHANGED <<requests, asked, awaited>>
  <2>1. ControlTyped'
    BY <1>1, <1>7, <1>8, Bounds DEF ControlTyped, dsp
  <2>2. RequestsTyped' /\ Numbered'
    BY <1>1, <1>4, <1>7 DEF RequestsTyped, Numbered, Base, dsp
  <2> QED
    BY <1>3, <1>5, <2>1, <2>2
<1> QED
  BY <1>6, <1>7 DEF Ask

\* Everything asked for has been answered when the last one has.
LEMMA CapturedStep == CaptureInv /\ Captured => CaptureInv'
<1> SUFFICES ASSUME CaptureInv, Captured PROVE CaptureInv'
  OBVIOUS
<1> USE DEF CaptureInv
<1>1. /\ UNCHANGED <<radio, ring, requests, sweep, hops, position, window,
                     start, since, asked, awaited, dsp>>
      /\ ctl' = "hop" /\ ctl = "waiting" /\ captured >= awaited
  BY DEF Captured, LastIsAnswered
<1>2. ControlTyped'
  BY <1>1 DEF ControlTyped, radio, dsp
<1>3. RingTyped' /\ RequestsTyped' /\ CaptureTyped' /\ Numbered'
  BY <1>1 DEF RingTyped, IsChunk, RequestsTyped, CaptureTyped, IsRequest,
              Numbered, Base, radio, dsp
<1>4. ASSUME awaited # 0
      PROVE  Outstanding = <<>>
  <2>1. captured >= asked /\ asked \in Nat /\ captured \in Nat
    BY <1>1, <1>4 DEF ControlTyped
  <2>2. Len(requests) \in Nat
    BY DEF RequestsTyped
  <2>3. cur = None /\ Len(requests) = 0
    BY <2>1, <2>2 DEF Numbered, Base
  <2>4. requests = <<>>
    BY <2>3 DEF RequestsTyped
  <2> QED
    BY <2>3, <2>4 DEF Outstanding
<1>5. DrainedOnHop'
  BY <1>1, <1>4 DEF DrainedOnHop, Outstanding, dsp
<1> QED
  BY <1>2, <1>3, <1>5

LEMMA GiveUpStep == CaptureInv /\ GiveUp => CaptureInv'
<1> SUFFICES ASSUME CaptureInv, GiveUp PROVE CaptureInv'
  OBVIOUS
<1> USE DEF CaptureInv
<1>1. /\ UNCHANGED <<radio, ring, requests, sweep, hops, position, window,
                     start, since, asked, awaited, dsp>>
      /\ ctl' = "hop" /\ ctl = "waiting" /\ gaveUp' = TRUE
  BY DEF GiveUp
<1>2. ControlTyped'
  BY <1>1 DEF ControlTyped, radio, dsp
<1>3. RingTyped' /\ RequestsTyped' /\ CaptureTyped' /\ Numbered'
  BY <1>1 DEF RingTyped, IsChunk, RequestsTyped, CaptureTyped, IsRequest,
              Numbered, Base, radio, dsp
<1>4. DrainedOnHop'
  BY <1>1 DEF DrainedOnHop
<1> QED
  BY <1>2, <1>3, <1>4

LEMMA ReconfigureStep == CaptureInv /\ Reconfigure => CaptureInv'
<1> SUFFICES ASSUME CaptureInv, Reconfigure PROVE CaptureInv'
  OBVIOUS
<1> USE DEF CaptureInv
<1>1. /\ UNCHANGED <<requests, control, dsp>>
      /\ now' = 0 /\ epoch' = epoch + 1 /\ epoch < MaxEpochs /\ ring' = <<>>
  BY DEF Reconfigure
<1>2. ControlTyped'
  <2>1. now' \in 0 .. MaxTime /\ epoch' \in 0 .. MaxEpochs
    <3>1. epoch \in 0 .. MaxEpochs /\ MaxEpochs \in Nat /\ MaxTime \in Nat
      BY Bounds DEF ControlTyped
    <3> QED
      BY <1>1, <3>1
  <2> QED
    BY <1>1, <2>1 DEF ControlTyped, control, dsp, Reconfigure
<1>3. RingTyped'
  BY <1>1, NoSamples, Bounds DEF RingTyped
<1>4. \A r : IsRequest(r) => IsRequest(r)'
  <2>1. epoch \in Nat
    BY Bounds DEF ControlTyped
  <2> QED
    BY <1>1, <2>1 DEF IsRequest, control
<1>5. RequestsTyped' /\ CaptureTyped'
  BY <1>1, <1>4 DEF RequestsTyped, CaptureTyped, dsp
<1>6. Numbered' /\ DrainedOnHop'
  BY <1>1 DEF Numbered, Base, DrainedOnHop, Outstanding, control, dsp
<1> QED
  BY <1>2, <1>3, <1>5, <1>6

LEMMA DiscardStep == CaptureInv /\ Discard => CaptureInv'
<1> SUFFICES ASSUME CaptureInv, Discard PROVE CaptureInv'
  OBVIOUS
<1> USE DEF CaptureInv
<1>1. /\ UNCHANGED <<radio, requests, control, dsp, grid, history>>
      /\ ring' = Tail(ring) /\ ring # <<>>
  BY DEF Discard, Idle, Release
<1>2. RingTyped'
  BY <1>1, RoundKeeps
<1>3. ControlTyped' /\ RequestsTyped' /\ CaptureTyped' /\ Numbered'
      /\ DrainedOnHop'
  BY <1>1 DEF ControlTyped, RequestsTyped, CaptureTyped, IsRequest, Numbered,
              Base, DrainedOnHop, Outstanding, radio, control, dsp
<1> QED
  BY <1>2, <1>3

AnswersOneAtMost == \/ captured' = captured
                    \/ captured < asked /\ captured' = captured + 1

\* A round on a capture whose number is next, the requests behind it being
\* numbered on from there: answered or not, the numbers still fit.
LEMMA RoundStep ==
  ASSUME CaptureInv, Idle, UNCHANGED <<radio, control>>,
         NEW r, NEW samples, Workable(r, samples), Examine(r, samples),
         r.id = captured + 1,
         requests' \in Seq(CaptureRequest), Len(requests') <= RequestSlots,
         \A i \in 1 .. Len(requests') : IsRequest(requests'[i]),
         Len(requests') = asked - (captured + 1),
         \A i \in 1 .. Len(requests') : requests'[i].id = captured + 1 + i
  PROVE  CaptureInv' /\ AnswersOneAtMost
<1> USE DEF CaptureInv
<1>1. Round(r)
  BY ExamineRound DEF Idle
<1>2. RingTyped'
  BY <1>1, RoundKeeps DEF Round, Idle
<1>3. UNCHANGED <<now, epoch, timed, ctl, position, window, sweep, hops, start,
                  asked, awaited, gaveUp>>
  BY DEF radio, control
<1>4. \A q : IsRequest(q)' <=> IsRequest(q)
  BY <1>3 DEF IsRequest
<1>5. RequestsTyped'
  BY <1>4 DEF RequestsTyped
<1>6. r # None /\ IsRequest(r)
  BY NoneAssumption DEF Workable, IsRequest
<1>7. asked \in Nat /\ captured \in Nat /\ Len(requests') \in Nat
  BY DEF ControlTyped
<1>8. captured + 1 <= asked
  BY <1>7
<1>9. CASE Unfinished(r)
  <2>1. cur' # None /\ cur'.id = captured + 1 /\ UNCHANGED <<captured, result>>
    BY <1>9, NoneAssumption DEF Unfinished, IsRequest, Kin
  <2>2. ControlTyped'
    BY <1>3, <2>1 DEF ControlTyped
  <2>3. CaptureTyped'
    BY <1>4, <1>9, <2>1 DEF CaptureTyped, Unfinished
  <2>4. Numbered'
    BY <1>3, <2>1 DEF Numbered, Base
  <2>5. DrainedOnHop'
    <3>1. Outstanding # <<>>
      BY <1>7, <1>8 DEF Outstanding, Numbered, Base, RequestsTyped
    <3> QED
      BY <1>3, <3>1 DEF DrainedOnHop
  <2>6. captured' = captured
    BY <2>1
  <2>7. CaptureInv'
    BY <1>2, <1>5, <2>2, <2>3, <2>4, <2>5
  <2> QED
    BY <2>6, <2>7 DEF AnswersOneAtMost
<1>10. CASE Answered(r)
  <2>1. cur' = None /\ captured' = captured + 1
    BY <1>10 DEF Answered
  <2>2. ControlTyped'
    BY <1>3, <1>7, <2>1 DEF ControlTyped
  <2>3. CaptureTyped'
    BY <1>4, <1>10 DEF CaptureTyped, Answered
  <2>4. Numbered'
    BY <1>3, <2>1 DEF Numbered, Base
  <2>5. DrainedOnHop'
    <3>1. Outstanding # <<>>
      BY <1>7, <1>8 DEF Outstanding, Numbered, Base, RequestsTyped
    <3> QED
      BY <1>3, <3>1 DEF DrainedOnHop
  <2>6. captured < asked /\ captured' = captured + 1
    BY <1>7, <1>8, <2>1
  <2>7. CaptureInv'
    BY <1>2, <1>5, <2>2, <2>3, <2>4, <2>5
  <2> QED
    BY <2>6, <2>7 DEF AnswersOneAtMost
<1> QED
  BY <1>1, <1>9, <1>10 DEF Round

LEMMA TakeRequestStep ==
  CaptureInv /\ TakeRequest
  => CaptureInv' /\ AnswersOneAtMost
<1> SUFFICES ASSUME CaptureInv, TakeRequest
             PROVE  CaptureInv' /\ AnswersOneAtMost
  OBVIOUS
<1> USE DEF CaptureInv
<1>1. /\ Idle /\ cur = None /\ requests # <<>>
      /\ requests' = Tail(requests)
      /\ Examine(Head(requests), <<>>)
      /\ UNCHANGED <<radio, control>>
  BY DEF TakeRequest
<1> DEFINE r == Head(requests)
<1>2. /\ requests \in Seq(CaptureRequest) /\ Len(requests) \in Nat
      /\ Len(requests) >= 1
      /\ r = requests[1]
      /\ requests' \in Seq(CaptureRequest)
      /\ Len(requests') = Len(requests) - 1
      /\ \A i \in 1 .. Len(requests) - 1 : requests'[i] = requests[i + 1]
  BY <1>1 DEF RequestsTyped
<1>3. IsRequest(r) /\ r.id = captured + 1
  BY <1>1, <1>2 DEF RequestsTyped, Numbered, Base
<1>4. Workable(r, <<>>)
  <2>1. r.n \in Nat /\ r.n >= 1
    BY <1>3, Bounds DEF IsRequest, CaptureRequest
  <2> QED
    BY <1>3, <2>1, NoSamples DEF Workable
<1>5. Len(requests') <= RequestSlots
  <2>1. Len(requests) <= RequestSlots /\ RequestSlots \in Nat
    BY Bounds DEF RequestsTyped
  <2> QED
    BY <1>2, <2>1
<1>6. Len(requests') = asked - (captured + 1)
  BY <1>1, <1>2 DEF Numbered, Base, ControlTyped
<1>7. ASSUME NEW i \in 1 .. Len(requests')
      PROVE  IsRequest(requests'[i]) /\ requests'[i].id = captured + 1 + i
  <2>1. i + 1 \in 1 .. Len(requests) /\ requests'[i] = requests[i + 1]
    BY <1>2
  <2>2. IsRequest(requests[i + 1]) /\ requests[i + 1].id = captured + (i + 1)
    BY <1>1, <2>1 DEF RequestsTyped, Numbered, Base
  <2> QED
    BY <2>1, <2>2 DEF ControlTyped
<1> HIDE DEF r, CaptureInv
<1>8. Examine(r, <<>>)
  BY <1>1 DEF r
<1> QED
  BY <1>1, <1>2, <1>3, <1>4, <1>5, <1>6, <1>7, <1>8, RoundStep

LEMMA ProceedStep ==
  CaptureInv /\ Proceed
  => CaptureInv' /\ AnswersOneAtMost
<1> SUFFICES ASSUME CaptureInv, Proceed
             PROVE  CaptureInv' /\ AnswersOneAtMost
  OBVIOUS
<1>1. /\ Idle /\ cur # None /\ Examine(cur, got)
      /\ UNCHANGED <<radio, control>> /\ requests' = requests
  BY DEF Proceed
<1>2. Workable(cur, got)
  BY <1>1 DEF CaptureInv, CaptureTyped, Workable
<1>3. /\ cur.id = captured + 1
      /\ Len(requests) = asked - (captured + 1)
      /\ \A i \in 1 .. Len(requests) : requests[i].id = captured + 1 + i
  BY <1>1 DEF CaptureInv, Numbered, Base
<1>4. /\ requests' \in Seq(CaptureRequest) /\ Len(requests') <= RequestSlots
      /\ \A i \in 1 .. Len(requests') : IsRequest(requests'[i])
  BY <1>1 DEF CaptureInv, RequestsTyped
<1>5. /\ Len(requests') = asked - (captured + 1)
      /\ \A i \in 1 .. Len(requests') : requests'[i].id = captured + 1 + i
  BY <1>1, <1>3
<1> QED
  BY <1>1, <1>2, <1>3, <1>4, <1>5, RoundStep

LEMMA ProcessStep == CaptureInv /\ Process => CaptureInv'
<1> SUFFICES ASSUME CaptureInv, Process PROVE CaptureInv'
  OBVIOUS
<1> USE DEF CaptureInv
<1>1. UNCHANGED <<radio, ring, requests, control, captured, cur, got>>
      /\ result' = None
  BY DEF Process
<1>2. /\ ControlTyped' /\ RingTyped' /\ RequestsTyped' /\ CaptureTyped'
  BY <1>1 DEF ControlTyped, RingTyped, IsChunk, RequestsTyped, CaptureTyped,
              IsRequest, radio, control
<1>3. Numbered' /\ DrainedOnHop'
  BY <1>1 DEF Numbered, Base, DrainedOnHop, Outstanding, radio, control
<1> QED
  BY <1>2, <1>3

-----------------------------------------------------------------------------
(* The invariant holds.                                                    *)

LEMMA NextInv == CaptureInv /\ [Next]_vars => CaptureInv'
<1> SUFFICES ASSUME CaptureInv, [Next]_vars PROVE CaptureInv'
  OBVIOUS
<1>1. CASE UNCHANGED vars
  BY <1>1 DEF CaptureInv, ControlTyped, RingTyped, IsChunk, RequestsTyped,
              CaptureTyped, IsRequest, Numbered, Base, DrainedOnHop,
              Outstanding, vars, radio, control, dsp
<1> QED
  BY <1>1, ReceiveStep, HopStep, AskStep, CapturedStep, GiveUpStep,
     ReconfigureStep, DiscardStep, TakeRequestStep, ProceedStep, ProcessStep
  DEF Next, Ctl, Dsp

LEMMA Invariance == Spec => []CaptureInv
<1> QED
  BY InitInv, NextInv, PTL DEF Spec

-----------------------------------------------------------------------------
(* The windows of a sweep follow one another.                              *)

\* A window's number in its sweep.
Number(place) == (place[1] - 1) * Windows + place[2] + 1

\* b comes after a: it begins a sweep, or goes on with a's.
Link(a, b) == \/ b.place = <<1, 0>>
              \/ b.sweep = a.sweep /\ Number(b.place) = Number(a.place) + 1

\* The last window that was added to the grid; before the first nothing fits.
Done == IF segments = <<>> THEN [sweep |-> 0, place |-> <<1, 0>>]
        ELSE segments[Len(segments)]

\* The capture before the requests.
Ahead == IF cur # None THEN cur
         ELSE IF result # None THEN result.request ELSE Done

\* What ctl asks for next.
Upcoming == [sweep |-> sweep, place |-> <<position, window>>]

\* The requests with what is before the first and after the last of them.
Before(i) == IF i = 1 THEN Ahead ELSE requests[i - 1]
Item(i) == IF i = Len(requests) + 1 THEN Upcoming ELSE requests[i]

Chained == /\ cur # None \/ result # None => Link(Done, Ahead)
           /\ \A i \in 1 .. Len(requests) + 1 :
                i <= Len(requests) \/ sweep # 0 => Link(Before(i), Item(i))

\* The first so many windows of one sweep, in order.
OfOneSweep(s) == \A i \in 1 .. Len(s) :
                   /\ s[i] = [sweep |-> s[1].sweep, place |-> s[i].place]
                   /\ s[i].place \in Places /\ Number(s[i].place) = i
                   /\ s[i].sweep # 0

Total == Positions * Windows

\* What is in the grid begins a sweep, unless a request was refused.
TraceInv ==
  /\ result # None => cur = None
  /\ ctl = "hop" /\ sweep # 0 => window = Windows
  /\ IsSeq(segments) /\ IsSeq(trace)
  /\ ~refused => /\ Chained
                 /\ OfOneSweep(segments)
                 /\ OfOneSweep(trace)
                 /\ trace # <<>> => Len(trace) = Total

\* Link looks at sweeps and places only.
SameWindow(a, b) == a.sweep = b.sweep /\ a.place = b.place

LEMMA LinkSame ==
  ASSUME NEW a, NEW b, NEW c, NEW d, SameWindow(a, c), SameWindow(b, d), Link(a, b)
  PROVE  Link(c, d)
BY DEF Link, SameWindow

LEMMA PlaceNumbers ==
  ASSUME NEW p \in Nat, NEW w \in Nat
  PROVE  /\ Number(<<p, w>>) \in Int
         /\ Number(<<p, w + 1>>) = Number(<<p, w>>) + 1
         /\ Number(<<p + 1, 0>>) = Number(<<p, Windows>>)
         /\ Number(<<1, 0>>) = 1
         /\ Number(<<Positions, Windows - 1>>) = Total
<1>1. Windows \in Nat \ {0} /\ Positions \in Nat \ {0} BY Bounds
<1>2. \A a \in Int, b \in Int : /\ a * b \in Int
                                /\ (a + 1 - 1) * b = (a - 1) * b + b
                                /\ (1 - 1) * b = 0
  OBVIOUS
<1>3. (p - 1) * Windows \in Int /\ (p + 1 - 1) * Windows = (p - 1) * Windows + Windows
  BY <1>1, <1>2
<1>4. (Positions - 1) * Windows + Windows = Positions * Windows
  BY <1>1, <1>2
<1>5. /\ Number(<<p, w>>) = (p - 1) * Windows + w + 1
      /\ Number(<<p, w + 1>>) = (p - 1) * Windows + (w + 1) + 1
      /\ Number(<<p + 1, 0>>) = (p + 1 - 1) * Windows + 0 + 1
      /\ Number(<<p, Windows>>) = (p - 1) * Windows + Windows + 1
      /\ Number(<<1, 0>>) = (1 - 1) * Windows + 0 + 1
      /\ Number(<<Positions, Windows - 1>>)
           = (Positions - 1) * Windows + (Windows - 1) + 1
  BY DEF Number
<1>6. (1 - 1) * Windows = 0 BY <1>1, <1>2
<1>7. Number(<<p, w>>) \in Int /\ Number(<<p, w + 1>>) = Number(<<p, w>>) + 1
  <2> DEFINE x == (p - 1) * Windows
  <2> HIDE DEF x
  <2>1. x \in Int BY <1>3 DEF x
  <2>2. Number(<<p, w>>) = x + w + 1 /\ Number(<<p, w + 1>>) = x + (w + 1) + 1
    BY <1>5 DEF x
  <2> QED BY <2>1, <2>2
<1>8. Number(<<p + 1, 0>>) = Number(<<p, Windows>>)
  <2> DEFINE x == (p - 1) * Windows
             y == (p + 1 - 1) * Windows
  <2> HIDE DEF x, y
  <2>1. x \in Int /\ y = x + Windows BY <1>3 DEF x, y
  <2>2. Number(<<p + 1, 0>>) = y + 0 + 1 /\ Number(<<p, Windows>>) = x + Windows + 1
    BY <1>5 DEF x, y
  <2> QED BY <1>1, <2>1, <2>2
<1>9. Number(<<1, 0>>) = 1 BY <1>5, <1>6
<1>10. Number(<<Positions, Windows - 1>>) = Total
  <2> DEFINE x == (Positions - 1) * Windows
             y == Positions * Windows
  <2> HIDE DEF x, y
  <2>1. x \in Int /\ y = x + Windows BY <1>1, <1>2, <1>4 DEF x, y
  <2>2. Number(<<Positions, Windows - 1>>) = x + (Windows - 1) + 1 /\ Total = y
    BY <1>5 DEF x, y, Total
  <2> QED BY <1>1, <2>1, <2>2
<1> QED BY <1>7, <1>8, <1>9, <1>10

\* A place has the number it has, and no other place has it.
LEMMA PlaceOfNumber ==
  ASSUME NEW place \in Places
  PROVE  place = <<(Number(place) - 1) \div Windows + 1, (Number(place) - 1) % Windows>>
<1>1. Windows \in Nat \ {0} BY Bounds
<1>2. PICK p \in 1 .. Positions, w \in 0 .. Windows - 1 : place = <<p, w>>
  BY DEF Places
<1> DEFINE q == p - 1
           x == q * Windows + w
<1>3. q \in Nat /\ w \in Nat /\ w < Windows BY <1>1, <1>2, Bounds
<1>4. x \in Nat
  <2>1. \A a, b \in Nat : a * b \in Nat OBVIOUS
  <2>2. q * Windows \in Nat BY <1>1, <1>3, <2>1
  <2> QED BY <1>3, <2>2
<1>5. Number(place) - 1 = x
  <2>1. Number(place) = x + 1 BY <1>2 DEF Number
  <2> HIDE DEF x
  <2> QED BY <1>4, <2>1
<1> HIDE DEF x
<1>6. /\ x = Windows * (x \div Windows) + (x % Windows)
      /\ x \div Windows \in Int /\ x % Windows \in 0 .. Windows - 1
  BY <1>1, <1>4
<1> DEFINE d == x \div Windows
           m == x % Windows
<1> HIDE DEF d, m, q
<1>7. d = q /\ m = w
  <2>1. d \in Int /\ m \in 0 .. Windows - 1 /\ x = Windows * d + m BY <1>6 DEF d, m
  <2>2. Windows * d + m = Windows * q + w
    <3>1. \A a, b \in Int : a * b = b * a OBVIOUS
    <3> QED BY <1>1, <1>3, <2>1, <3>1 DEF x
  <2>3. \A a \in Int, b \in Nat : a >= 1 => b * a >= b
    <3>1. \A a \in Nat, b \in Nat : b * (a + 1) >= b
      <4>1. \A a \in Nat, b \in Nat : b * (a + 1) = b * a + b /\ b * a \in Nat OBVIOUS
      <4> QED BY <4>1
    <3>2. \A a \in Int : a >= 1 => a - 1 \in Nat /\ (a - 1) + 1 = a OBVIOUS
    <3> QED BY <3>1, <3>2
  <2>4. Windows * (d - q) = w - m
    <3>1. \A a, b, c \in Int : a * (b - c) = a * b - a * c /\ a * b \in Int OBVIOUS
    <3>2. Windows * (d - q) = Windows * d - Windows * q
          /\ Windows * d \in Int /\ Windows * q \in Int
      BY <1>1, <1>3, <2>1, <3>1
    <3> QED BY <1>1, <1>3, <2>1, <2>2, <3>2
  <2>5. Windows * (q - d) = m - w
    <3>1. \A a, b, c \in Int : a * (b - c) = a * b - a * c /\ a * b \in Int OBVIOUS
    <3>2. Windows * (q - d) = Windows * q - Windows * d
          /\ Windows * d \in Int /\ Windows * q \in Int
      BY <1>1, <1>3, <2>1, <3>1
    <3> QED BY <1>1, <1>3, <2>1, <2>2, <3>2
  <2>6. ~(d - q >= 1)
    <3>1. d - q >= 1 => w - m >= Windows BY <1>1, <1>3, <2>1, <2>3, <2>4
    <3> QED BY <1>1, <1>3, <2>1, <3>1
  <2>7. ~(q - d >= 1)
    <3>1. q - d >= 1 => m - w >= Windows BY <1>1, <1>3, <2>1, <2>3, <2>5
    <3> QED BY <1>1, <1>3, <2>1, <3>1
  <2>8. d = q BY <1>3, <2>1, <2>6, <2>7
  <2>9. Windows * q \in Int
    <3>1. \A a, b \in Int : a * b \in Int OBVIOUS
    <3> QED BY <1>1, <1>3, <3>1
  <2> QED BY <1>1, <1>3, <2>1, <2>2, <2>8, <2>9
<1>8. q + 1 = p /\ p \in Int BY <1>2 DEF q
<1>9. x \div Windows = d /\ x % Windows = m BY DEF d, m
<1> QED BY <1>2, <1>5, <1>7, <1>8, <1>9

\* What the rounds of dspLoop() do.
LEMMA TakenRound ==
  ASSUME CaptureInv, TakeRequest
  PROVE  /\ Round(requests[1]) /\ IsRequest(requests[1])
         /\ cur = None /\ result = None /\ ring # <<>>
         /\ Examine(requests[1], <<>>)
         /\ Len(requests) \in Nat /\ Len(requests) >= 1
         /\ Len(requests') = Len(requests) - 1
         /\ \A i \in 1 .. Len(requests) - 1 : requests'[i] = requests[i + 1]
         /\ UNCHANGED <<radio, control, grid, refused, overdue, stranded>>
<1>1. /\ Idle /\ cur = None /\ requests # <<>> /\ requests' = Tail(requests)
      /\ Examine(Head(requests), <<>>)
      /\ UNCHANGED <<radio, control, grid, refused, overdue, stranded>>
  BY DEF TakeRequest
<1>2. /\ requests \in Seq(CaptureRequest) /\ Len(requests) \in Nat
      /\ Len(requests) >= 1 /\ Head(requests) = requests[1]
      /\ Len(requests') = Len(requests) - 1
      /\ \A i \in 1 .. Len(requests) - 1 : requests'[i] = requests[i + 1]
  BY <1>1 DEF CaptureInv, RequestsTyped
<1>3. IsRequest(requests[1]) BY <1>2 DEF CaptureInv, RequestsTyped
<1>4. Workable(requests[1], <<>>)
  <2>1. requests[1].n \in Nat /\ requests[1].n >= 1
    BY <1>3, Bounds DEF IsRequest, CaptureRequest
  <2> QED BY <1>3, <2>1, NoSamples DEF Workable
<1>5. Round(requests[1]) BY <1>1, <1>2, <1>4, ExamineRound DEF CaptureInv, Idle
<1> QED BY <1>1, <1>2, <1>3, <1>5 DEF Idle

LEMMA ProceededRound ==
  ASSUME CaptureInv, Proceed
  PROVE  /\ Round(cur) /\ IsRequest(cur) /\ Examine(cur, got)
         /\ got \in Seq(StreamSample)
         /\ Len(got) < cur.n
         /\ cur # None /\ result = None /\ ring # <<>>
         /\ UNCHANGED <<radio, requests, control, grid, refused, overdue, stranded>>
<1>1. /\ Idle /\ cur # None /\ Examine(cur, got)
      /\ UNCHANGED <<radio, requests, control, grid, refused, overdue, stranded>>
  BY DEF Proceed
<1>2. Workable(cur, got) BY <1>1 DEF CaptureInv, CaptureTyped, Workable
<1>3. Round(cur) BY <1>1, <1>2, ExamineRound DEF CaptureInv, Idle
<1> QED BY <1>1, <1>2, <1>3 DEF Idle, Workable

\* After a round the capture it was of is ahead of the requests.
LEMMA RoundAhead ==
  ASSUME NEW r, IsRequest(r), Round(r), result = None
  PROVE  /\ result' # None => cur' = None
         /\ cur' # None \/ result' # None
         /\ SameWindow(r, Ahead')
<1>1. CASE Unfinished(r)
  <2>1. cur' # None BY <1>1, NoneAssumption DEF Unfinished, IsRequest
  <2> QED BY <1>1, <2>1 DEF Unfinished, Kin, SameWindow, Ahead
<1>2. CASE Answered(r)
  <2>1. result' # None BY <1>2, NoneAssumption DEF Answered
  <2> QED BY <1>2, <2>1 DEF Answered, Kin, SameWindow, Ahead
<1> QED BY <1>1, <1>2 DEF Round

LEMMA InitTrace == Init => TraceInv
<1> SUFFICES ASSUME Init PROVE TraceInv OBVIOUS
<1>1. /\ segments = <<>> /\ trace = <<>> /\ requests = <<>> /\ Len(requests) = 0
      /\ cur = None /\ result = None /\ sweep = 0
  BY DEF Init
<1>2. Chained BY <1>1 DEF Chained
<1>3. OfOneSweep(<<>>) BY DEF OfOneSweep
<1> QED BY <1>1, <1>2, <1>3, NoSamples DEF TraceInv

\* Steps that ask for nothing and process nothing.
LEMMA TraceKept ==
  ASSUME TraceInv,
         UNCHANGED <<cur, result, segments, trace, requests, sweep, position,
                     window, refused>>,
         ctl' = "hop" => ctl = "hop" \/ window = Windows
  PROVE  TraceInv'
BY DEF TraceInv, Chained, Link, Done, Ahead, Upcoming, Before, Item, OfOneSweep, Places

LEMMA HopTrace == CaptureInv /\ TraceInv /\ Hop => TraceInv'
<1> SUFFICES ASSUME CaptureInv, TraceInv, Hop PROVE TraceInv' OBVIOUS
<1>1. /\ UNCHANGED <<cur, result, segments, trace, requests, refused>>
      /\ ctl' = "waiting" /\ ctl = "hop" /\ window' = 0
      /\ \/ position < Positions /\ position' = position + 1 /\ sweep' = sweep
         \/ position' = 1
  BY DEF Hop, dsp, grid, history
<1>2. ASSUME ~refused
      PROVE  Chained'
  <2>1. Chained BY <1>2 DEF TraceInv
  <2>10. PICK n \in Nat : n = Len(requests) BY DEF CaptureInv, RequestsTyped
  <2>2. UNCHANGED <<Done, Ahead>> BY <1>1 DEF Done, Ahead
  <2>3. \A i : UNCHANGED Before(i) BY <1>1, <2>2 DEF Before
  <2>4. \A i \in 1 .. n : Item(i)' = Item(i)
    <3>1. \A i \in 1 .. n : i # n + 1 BY <2>10
    <3> QED BY <1>1, <2>10, <3>1 DEF Item
  <2>5. Link(Before(n + 1), Upcoming')
    <3>1. CASE position' = 1 BY <1>1, <3>1 DEF Link, Upcoming
    <3>2. CASE position < Positions /\ position' = position + 1 /\ sweep' = sweep
      <4>1. sweep # 0 /\ window = Windows /\ position \in Nat
        BY <1>1, <3>2, Bounds DEF CaptureInv, ControlTyped, TraceInv
      <4>2. Link(Before(n + 1), Upcoming)
        <5>2. n + 1 \in 1 .. n + 1 BY <2>10
        <5> QED BY <2>1, <2>10, <4>1, <5>2 DEF Chained, Item
      <4>3. Windows # 0 /\ 0 \in Nat BY Bounds
      <4>4. Upcoming.place = <<position, Windows>> /\ Upcoming.place # <<1, 0>>
        BY <4>1, <4>3 DEF Upcoming
      <4>5. Upcoming'.place = <<position + 1, 0>> /\ Upcoming'.sweep = Upcoming.sweep
        BY <1>1, <3>2 DEF Upcoming
      <4>6. Number(Upcoming.place) = Number(Upcoming'.place)
        BY <4>1, <4>3, <4>4, <4>5, PlaceNumbers
      <4> QED BY <4>2, <4>4, <4>5, <4>6 DEF Link
    <3> QED BY <1>1, <3>1, <3>2
  <2>6. Item(n + 1)' = Upcoming' BY <1>1, <2>10 DEF Item
  <2>7. \A i \in 1 .. n + 1 : i \in 1 .. n \/ i = n + 1 BY <2>10
  <2>8. \A i \in 1 .. n : i <= n /\ i \in 1 .. n + 1 BY <2>10
  <2>9. \A i \in 1 .. n + 1 : Link(Before(i), Item(i)')
    <3> SUFFICES ASSUME NEW i \in 1 .. n + 1 PROVE Link(Before(i), Item(i)')
      OBVIOUS
    <3>1. CASE i \in 1 .. n
      <4>1. Link(Before(i), Item(i)) BY <2>1, <2>8, <2>10, <3>1 DEF Chained
      <4>2. Item(i)' = Item(i) BY <2>4, <3>1
      <4> QED BY <4>1, <4>2
    <3>2. CASE i = n + 1 BY <2>5, <2>6, <3>2
    <3> QED BY <2>7, <3>1, <3>2
  <2> QED BY <1>1, <2>1, <2>2, <2>3, <2>9, <2>10 DEF Chained
<1> QED BY <1>1, <1>2 DEF TraceInv, OfOneSweep, Places

LEMMA AskTrace == CaptureInv /\ TraceInv /\ Ask => TraceInv'
<1> SUFFICES ASSUME CaptureInv, TraceInv, Ask PROVE TraceInv' OBVIOUS
<1>1. /\ UNCHANGED <<cur, result, segments, trace, sweep, position>>
      /\ ctl' = "waiting" /\ ctl = "waiting" /\ window < Windows
  BY DEF Ask, dsp, grid
<1>2. ASSUME ~refused'
      PROVE  ~refused /\ Chained'
  <2>1. /\ requests' = Append(requests, Request) /\ window' = window + 1
        /\ refused' = refused
    BY <1>2 DEF Ask
  <2>2. Chained BY <1>2, <2>1 DEF TraceInv
  <2>3. /\ Request \in CaptureRequest /\ Request.sweep \in 1 .. sweep
        /\ SameWindow(Upcoming, Request)
    <3>1. Request.sweep \in 1 .. sweep /\ Request \in CaptureRequest
      BY <1>1, RequestFacts DEF CaptureInv
    <3>2. SameWindow(Upcoming, Request) BY DEF Upcoming, Request, SameWindow
    <3> QED BY <3>1, <3>2
  <2>4. sweep # 0 /\ window \in Nat /\ position \in Nat
    BY <1>1, Bounds DEF CaptureInv, ControlTyped
  <2> DEFINE r == Request
  <2> HIDE DEF r
  <2>0. PICK n \in Nat : n = Len(requests) BY DEF CaptureInv, RequestsTyped
  <2>5. n \in Nat /\ requests \in Seq(CaptureRequest) BY DEF CaptureInv, RequestsTyped
  <2>6. /\ Len(requests') = n + 1
        /\ \A i \in 1 .. n : requests'[i] = requests[i]
        /\ requests'[n + 1] = r
    BY <2>0, <2>1, <2>3, <2>5 DEF r
  <2>7. UNCHANGED <<Done, Ahead>> BY <1>1 DEF Done, Ahead
  <2>8. \A i \in 1 .. n + 1 : Before(i)' = Before(i)
    <3>1. \A i \in 1 .. n + 1 : i = 1 \/ i - 1 \in 1 .. n BY <2>5
    <3> QED BY <2>6, <2>7, <3>1 DEF Before
  <2>9. \A i \in 1 .. n : Item(i)' = Item(i)
    <3>1. \A i \in 1 .. n : i # n + 1 /\ i # n + 2 /\ n + 1 + 1 = n + 2 BY <2>5
    <3>2. Len(requests) = n BY <2>0
    <3> QED BY <2>6, <3>1, <3>2 DEF Item
  <2>10. Item(n + 1)' = r /\ Item(n + 2)' = Upcoming' /\ Before(n + 2)' = r
    <3>1. n + 1 # n + 1 + 1 /\ n + 2 = n + 1 + 1 /\ n + 2 # 1 /\ n + 2 - 1 = n + 1 BY <2>5
    <3>2. Item(n + 1)' = r /\ Item(n + 2)' = Upcoming' BY <2>6, <3>1 DEF Item
    <3>3. Before(n + 2)' = r BY <2>6, <3>1 DEF Before
    <3> QED BY <3>2, <3>3
  <2>11. Link(Before(n + 1), r)
    <3>1. Len(requests) = n BY <2>0
    <3>2. n + 1 \in 1 .. n + 1 BY <2>5
    <3>3. Link(Before(n + 1), Upcoming) BY <2>2, <2>4, <3>1, <3>2 DEF Chained, Item
    <3>4. SameWindow(Before(n + 1), Before(n + 1)) BY DEF SameWindow
    <3> QED BY <2>3, <3>3, <3>4, LinkSame DEF r
  <2>12. Link(r, Upcoming')
    <3>1. r.sweep = sweep /\ r.place = <<position, window>> BY DEF r, Request
    <3>2. Upcoming'.sweep = sweep /\ Upcoming'.place = <<position, window + 1>>
      BY <1>1, <2>1 DEF Upcoming
    <3>3. Number(<<position, window + 1>>) = Number(<<position, window>>) + 1
      BY <2>4, PlaceNumbers
    <3> QED BY <3>1, <3>2, <3>3 DEF Link
  <2>13. \A i \in 1 .. n : Link(Before(i), Item(i))
    <3>1. Len(requests) = n BY <2>0
    <3>2. \A i \in 1 .. n : i \in 1 .. n + 1 /\ i <= n BY <2>5
    <3> QED BY <2>2, <3>1, <3>2 DEF Chained
  <2>14. \A i \in 1 .. n + 2 : i \in 1 .. n \/ i = n + 1 \/ i = n + 2 BY <2>5
  <2>15. \A i \in 1 .. n : i \in 1 .. n + 1 BY <2>5
  <2>16. n + 1 \in 1 .. n + 1 BY <2>5
  <2>17. \A i \in 1 .. n + 2 : Link(Before(i)', Item(i)')
    <3> SUFFICES ASSUME NEW i \in 1 .. n + 2 PROVE Link(Before(i)', Item(i)') OBVIOUS
    <3>1. CASE i \in 1 .. n
      <4>1. Before(i)' = Before(i) /\ Item(i)' = Item(i) BY <2>8, <2>9, <2>15, <3>1
      <4>2. Link(Before(i), Item(i)) BY <2>13, <3>1
      <4> QED BY <4>1, <4>2
    <3>2. CASE i = n + 1
      <4>1. Before(i)' = Before(n + 1) /\ Item(i)' = r BY <2>8, <2>10, <2>16, <3>2
      <4> QED BY <2>11, <4>1
    <3>3. CASE i = n + 2
      <4>1. Before(i)' = r /\ Item(i)' = Upcoming' BY <2>10, <3>3
      <4> QED BY <2>12, <4>1
    <3> QED BY <2>14, <3>1, <3>2, <3>3
  <2>18. Len(requests') + 1 = n + 2 BY <2>5, <2>6
  <2> QED BY <1>1, <2>1, <2>2, <2>7, <1>2, <2>17, <2>18 DEF Chained
<1> QED BY <1>1, <1>2 DEF TraceInv, OfOneSweep, Places

LEMMA RoundTrace == CaptureInv /\ TraceInv /\ (TakeRequest \/ Proceed) => TraceInv'
<1> SUFFICES ASSUME CaptureInv, TraceInv, TakeRequest \/ Proceed PROVE TraceInv' OBVIOUS
<1>1. CASE TakeRequest
  <2> DEFINE r == requests[1]
             n == Len(requests)
  <2>1. /\ Round(r) /\ IsRequest(r) /\ cur = None /\ result = None
        /\ n \in Nat /\ n >= 1 /\ Len(requests') = n - 1
        /\ \A i \in 1 .. n - 1 : requests'[i] = requests[i + 1]
        /\ UNCHANGED <<ctl, sweep, position, window, segments, trace, refused>>
    BY <1>1, TakenRound DEF control, grid
  <2>2. /\ result' # None => cur' = None
        /\ SameWindow(r, Ahead')
    BY <2>1, RoundAhead
  <2>3. ASSUME ~refused PROVE Chained'
    <3> HIDE DEF r, n
    <3>1. Chained /\ Len(requests) = n BY <2>3 DEF TraceInv, n
    <3>2. Done' = Done /\ Ahead = Done /\ Upcoming' = Upcoming
      BY <2>1 DEF Done, Ahead, Upcoming
    <3>3. Link(Done, r)
      <4>1. 1 \in 1 .. n + 1 /\ 1 <= n /\ 1 # n + 1 BY <2>1
      <4> QED BY <3>1, <3>2, <4>1 DEF Chained, Before, Item, r
    <3>4. Link(Done', Ahead')
      BY <2>2, <3>2, <3>3, LinkSame DEF SameWindow
    <3>5. ASSUME NEW i \in 1 .. n, i <= n - 1 \/ sweep # 0 PROVE Link(Before(i)', Item(i)')
      <4>1. Link(Before(i + 1), Item(i + 1))
        <5>1. i + 1 \in 1 .. n + 1 /\ (i + 1 <= n \/ sweep # 0) BY <2>1, <3>5
        <5> QED BY <3>1, <5>1 DEF Chained
      <4>2. SameWindow(Before(i + 1), Before(i)')
        <5>1. CASE i = 1 BY <2>2, <5>1 DEF Before, r
        <5>2. CASE i # 1
          <6>1. i - 1 \in 1 .. n - 1 /\ i + 1 # 1 /\ i + 1 - 1 = i /\ i - 1 + 1 = i
            BY <2>1, <5>2
          <6> QED BY <2>1, <5>2, <6>1 DEF Before, SameWindow
        <5> QED BY <5>1, <5>2
      <4>3. Item(i)' = Item(i + 1)
        <5>1. CASE i = n
          <6>1. i = n - 1 + 1 BY <2>1, <5>1
          <6> QED BY <2>1, <3>1, <3>2, <5>1, <6>1 DEF Item
        <5>2. CASE i # n
          <6>1. i \in 1 .. n - 1 /\ i # n - 1 + 1 /\ i + 1 # n + 1 BY <2>1, <5>2
          <6> QED BY <2>1, <3>1, <5>2, <6>1 DEF Item
        <5> QED BY <5>1, <5>2
      <4> QED BY <4>1, <4>2, <4>3, LinkSame DEF SameWindow
    <3>6. n - 1 + 1 = n BY <2>1
    <3>7. \A i \in 1 .. Len(requests') + 1 : i \in 1 .. n BY <2>1, <3>6
    <3> QED BY <2>1, <3>4, <3>5, <3>7 DEF Chained
  <2> QED BY <2>1, <2>2, <2>3 DEF TraceInv, OfOneSweep, Places
<1>2. CASE Proceed
  <2>1. /\ Round(cur) /\ IsRequest(cur) /\ cur # None /\ result = None
        /\ UNCHANGED <<ctl, sweep, position, window, segments, trace, refused, requests>>
    BY <1>2, ProceededRound DEF control, grid
  <2>2. /\ result' # None => cur' = None
        /\ SameWindow(cur, Ahead')
    BY <2>1, RoundAhead
  <2>3. ASSUME ~refused PROVE Chained'
    <3>1. Chained BY <2>3 DEF TraceInv
    <3>2. Done' = Done /\ Ahead = cur /\ (\A i : Item(i)' = Item(i))
      BY <2>1 DEF Done, Ahead, Upcoming, Item
    <3>3. Link(Done', Ahead')
      BY <2>1, <2>2, <3>1, <3>2, LinkSame DEF Chained, SameWindow
    <3>4. \A i : SameWindow(Before(i), Before(i)')
      BY <2>1, <2>2, <3>2 DEF Before, SameWindow
    <3>5. \A i : Link(Before(i), Item(i)) => Link(Before(i)', Item(i)')
      BY <3>2, <3>4, LinkSame DEF SameWindow
    <3> QED BY <2>1, <3>1, <3>3, <3>5 DEF Chained
  <2> QED BY <2>1, <2>2, <2>3 DEF TraceInv, OfOneSweep, Places
<1> QED BY <1>1, <1>2

LEMMA ProcessTrace == CaptureInv /\ TraceInv /\ Process => TraceInv'
<1> SUFFICES ASSUME CaptureInv, TraceInv, Process PROVE TraceInv' OBVIOUS
<1> DEFINE q == result.request
           tag == [sweep |-> q.sweep, place |-> q.place]
           all == Append(BeginSweep(q.place), tag)
<1>1. /\ result # None /\ result' = None /\ segments' = all
      /\ trace' = IF q.place = <<Positions, Windows - 1>> THEN all ELSE trace
      /\ UNCHANGED <<requests, cur, refused, ctl, sweep, position, window>>
  BY DEF Process, control, history
<1>2. /\ cur = None /\ IsSeq(segments) /\ IsSeq(trace) /\ q.place \in Places
      /\ q.sweep \in 1 .. sweep
  BY <1>1 DEF TraceInv, CaptureInv, CaptureTyped, IsRequest
<1>3. tag.sweep = q.sweep /\ tag.place = q.place /\ tag.sweep # 0
  BY <1>2 DEF CaptureInv, ControlTyped
<1> HIDE DEF q, tag
<1>4. IsSeq(BeginSweep(q.place)) /\ IsSeq(all) /\ all # <<>>
      /\ Len(all) = Len(BeginSweep(q.place)) + 1
      /\ Len(BeginSweep(q.place)) \in Nat
      /\ all[Len(all)] = tag
      /\ \A i \in 1 .. Len(BeginSweep(q.place)) : all[i] = BeginSweep(q.place)[i]
  <2>1. IsSeq(BeginSweep(q.place)) BY <1>2, NoSamples DEF BeginSweep
  <2>2. /\ IsSeq(all) /\ Len(all) = Len(BeginSweep(q.place)) + 1
        /\ Len(BeginSweep(q.place)) \in Nat
        /\ all[Len(BeginSweep(q.place)) + 1] = tag
        /\ \A i \in 1 .. Len(BeginSweep(q.place)) : all[i] = BeginSweep(q.place)[i]
    BY <2>1, QueueFacts
  <2>3. Len(all) # 0 BY <2>2
  <2>4. all # <<>> BY <2>3, NoSamples
  <2> QED BY <2>1, <2>2, <2>4
<1> HIDE DEF all
<1>5. ASSUME ~refused
      PROVE  Chained' /\ OfOneSweep(all) /\ Number(q.place) = Len(all)
  <2>1. Chained /\ OfOneSweep(segments) BY <1>5 DEF TraceInv
  <2>2. Ahead = q /\ Link(Done, q) BY <1>1, <1>2, <2>1 DEF Chained, Ahead, q
  <2>3. SameWindow(q, Done') /\ Ahead' = Done'
    <3>1. Done' = tag BY <1>1, <1>4 DEF Done
    <3> QED BY <1>1, <1>2, <1>3, <3>1 DEF SameWindow, Ahead
  <2>4. Chained'
    <3>1. \A i : SameWindow(Before(i), Before(i)')
      BY <1>1, <2>2, <2>3 DEF Before, SameWindow
    <3>2. \A i : Item(i)' = Item(i) BY <1>1 DEF Item, Upcoming
    <3>3. \A i : Link(Before(i), Item(i)) => Link(Before(i)', Item(i)')
      BY <3>1, <3>2, LinkSame DEF SameWindow
    <3> QED BY <1>1, <1>2, <2>1, <3>3 DEF Chained
  <2>5. CASE q.place = <<1, 0>>
    <3>1. BeginSweep(q.place) = <<>> BY <2>5 DEF BeginSweep
    <3>2. Len(all) = 1 /\ all[1] = tag BY <1>4, <3>1, NoSamples
    <3>3. Number(q.place) = 1 BY <2>5, PlaceNumbers
    <3>4. \A i \in 1 .. 1 : i = 1 OBVIOUS
    <3>5. tag = [sweep |-> tag.sweep, place |-> tag.place] BY DEF tag
    <3> QED BY <1>2, <1>3, <2>4, <3>2, <3>3, <3>4, <3>5 DEF OfOneSweep
  <2>6. CASE q.place # <<1, 0>>
    <3>1. BeginSweep(q.place) = segments BY <2>6 DEF BeginSweep
    <3>2. q.sweep = Done.sweep /\ Number(q.place) = Number(Done.place) + 1
      BY <2>2, <2>6 DEF Link
    <3>3. segments # <<>> /\ Done = segments[Len(segments)]
      BY <1>3, <3>2 DEF Done
    <3> DEFINE n == Len(segments)
    <3>4. n \in Nat /\ n >= 1 BY <1>2, <3>3, QueueFacts
    <3>5. n \in 1 .. n /\ 1 \in 1 .. n BY <3>4
    <3>6. Number(Done.place) = n /\ Done.sweep = segments[1].sweep
      <4>1. /\ segments[n] = [sweep |-> segments[1].sweep, place |-> segments[n].place]
            /\ Number(segments[n].place) = n
        BY <2>1, <3>5 DEF OfOneSweep
      <4> QED BY <3>3, <4>1
    <3>7. /\ Len(all) = n + 1 /\ all[n + 1] = tag
          /\ \A i \in 1 .. n : all[i] = segments[i]
      BY <1>4, <3>1
    <3> HIDE DEF n
    <3>8. all[1].sweep = tag.sweep /\ Number(q.place) = n + 1
      BY <1>3, <3>2, <3>5, <3>6, <3>7
    <3>9. ASSUME NEW i \in 1 .. n + 1
          PROVE  /\ all[i] = [sweep |-> all[1].sweep, place |-> all[i].place]
                 /\ all[i].place \in Places /\ Number(all[i].place) = i
                 /\ all[i].sweep # 0
      <4>1. CASE i \in 1 .. n
        <5>1. /\ segments[i] = [sweep |-> segments[1].sweep, place |-> segments[i].place]
              /\ segments[i].place \in Places /\ Number(segments[i].place) = i
              /\ segments[i].sweep # 0
          BY <2>1, <4>1 DEF OfOneSweep, n
        <5> QED BY <3>5, <3>7, <4>1, <5>1
      <4>2. CASE i = n + 1
        <5>1. tag = [sweep |-> tag.sweep, place |-> tag.place] BY DEF tag
        <5> QED BY <1>2, <1>3, <3>7, <3>8, <4>2, <5>1
      <4> QED BY <3>4, <4>1, <4>2
    <3> QED BY <2>4, <3>7, <3>8, <3>9 DEF OfOneSweep
  <2> QED BY <2>4, <2>5, <2>6
<1>6. ASSUME ~refused
      PROVE  OfOneSweep(trace') /\ (trace' # <<>> => Len(trace') = Total)
  <2>1. CASE q.place = <<Positions, Windows - 1>>
    <3>1. Number(q.place) = Total
      <4>1. 0 \in Nat OBVIOUS
      <4> QED BY <2>1, <4>1, PlaceNumbers
    <3> QED BY <1>1, <1>5, <1>6, <2>1, <3>1
  <2>2. CASE q.place # <<Positions, Windows - 1>>
    BY <1>1, <1>6, <2>2 DEF TraceInv
  <2> QED BY <2>1, <2>2
<1>7. IsSeq(segments') /\ IsSeq(trace') BY <1>1, <1>2, <1>4
<1>8. \A s : OfOneSweep(s)' <=> OfOneSweep(s) BY DEF OfOneSweep, Places, Number
<1>9. refused' = refused /\ UNCHANGED <<ctl, sweep, window>> BY <1>1
<1> QED BY <1>1, <1>5, <1>6, <1>7, <1>9 DEF TraceInv, OfOneSweep, Places, Number

LEMMA NextTrace == CaptureInv /\ TraceInv /\ [Next]_vars => TraceInv'
<1> SUFFICES ASSUME CaptureInv, TraceInv, [Next]_vars PROVE TraceInv' OBVIOUS
<1>1. CASE Receive \/ Discard \/ UNCHANGED vars
  BY <1>1, TraceKept
  DEF Receive, Discard, vars, control, dsp, grid, history
<1>2. CASE Captured \/ GiveUp
  BY <1>2, TraceKept DEF Captured, GiveUp, dsp, grid, history
<1>3. CASE Reconfigure
  BY <1>3, TraceKept DEF Reconfigure, control, dsp, grid
<1> QED
  BY <1>1, <1>2, <1>3, HopTrace, AskTrace, RoundTrace, ProcessTrace
  DEF Next, Ctl, Dsp
-----------------------------------------------------------------------------
(* A capture and the time it is of.                                        *)

\* Not answered yet.
Live(r) == (cur # None /\ r = cur) \/ \E i \in 1 .. Len(requests) : r = requests[i]

\* Chunks are of successive times, and their samples of successive instants.
End(c) == c.at + Len(c.samples)
Sampled == /\ \A i \in 1 .. Len(ring) :
                /\ End(ring[i]) <= now
                /\ \A k \in 1 .. Len(ring[i].samples) :
                     ring[i].samples[k].at = ring[i].at + (k - 1)
           /\ \A i \in 1 .. Len(ring), j \in 1 .. Len(ring) :
                i < j => End(ring[i]) <= ring[j].at

\* When the window w of the position is retuned to, and when it is over.
RetuneAt(w) == start + w * (Window + DdcGuard) - DdcGuard

\* The retunes of the position are in time with its windows.
Timetable == /\ since \in Nat
             /\ since <= now \/ ctl = "hop"
             /\ start <= since + Guard
             /\ ctl = "waiting" =>
                  \A c \in timed : c.window \in 1 .. Windows /\ c.at = RetuneAt(c.window)

\* A request is of the position, its retune being timed, or it is over.
Scheduled(r) ==
  /\ r.tune[1] <= hops
  /\ r.tune[1] = hops => awaited # 0
  /\ r.epoch = epoch =>
       IF r.tune[1] = hops /\ ctl = "waiting"
       THEN /\ r.tune[2] < window
            /\ r.end = RetuneAt(r.tune[2] + 1)
            /\ r.tune[2] # 0 =>
                 [at |-> RetuneAt(r.tune[2]), window |-> r.tune[2]] \in timed
       ELSE r.end <= now

\* A sample of the window's time was taken with the radio tuned to it.
Own(r, x) == r.end - Window <= x.at /\ x.at < r.end => x.tune = r.tune

\* The capture under way is of the window's time.
CurrentTimed ==
  cur # None /\ cur.epoch = epoch =>
    /\ cur.start >= cur.end - Window
    /\ got # <<>> => /\ now >= cur.start
                     /\ \A i \in 1 .. Len(ring) : ring[i].at >= cur.start

\* The samples in the ring, and a capture's, as far as they are of its time.
RingOwn(r) ==
  r.punctual /\ r.epoch = epoch =>
    \A i \in 1 .. Len(ring) :
      \A k \in 1 .. Len(ring[i].samples) : Own(r, ring[i].samples[k])

SamplesOwn(r, samples) ==
  r.punctual /\ r.epoch = epoch =>
    \A i \in 1 .. Len(samples) :
      samples[i].at >= r.end - Window /\ Own(r, samples[i])

\* Requests on schedule, and the samples of punctual ones, wherever they are.
OwnInv ==
  /\ Sampled /\ Timetable /\ CurrentTimed
  /\ \A r : Live(r) => Scheduled(r)
  /\ \A i \in 1 .. Len(requests) : requests[i].start = requests[i].end - Window
  /\ \A r : Live(r) => RingOwn(r)
  /\ cur # None => SamplesOwn(cur, got)
  /\ result # None => SamplesOwn(result.request, result.samples)

LEMMA RetuneGrows ==
  ASSUME start \in Nat, NEW a \in Nat, NEW b \in Nat
  PROVE  /\ RetuneAt(a) \in Int
         /\ RetuneAt(a + 1) = RetuneAt(a) + Window + DdcGuard
         /\ a <= b => RetuneAt(a) <= RetuneAt(b)
<1> DEFINE s == Window + DdcGuard
<1>1. s \in Nat /\ DdcGuard \in Nat /\ Window \in Nat BY Bounds
<1>2. \A x \in Nat : /\ RetuneAt(x) = start + x * s - DdcGuard
                     /\ RetuneAt(x + 1) = start + (x + 1) * s - DdcGuard
  BY DEF RetuneAt
<1>3. s = Window + DdcGuard OBVIOUS
<1> HIDE DEF s
<1>4. \A x, y \in Nat : /\ x * y \in Nat /\ (x + 1) * y = x * y + y
                        /\ \A z \in Nat : (x + z) * y = x * y + z * y
  OBVIOUS
<1>5. RetuneAt(a) \in Int /\ RetuneAt(a + 1) = RetuneAt(a) + Window + DdcGuard
  <2>1. a * s \in Nat /\ (a + 1) * s = a * s + s BY <1>1, <1>4
  <2>2. /\ RetuneAt(a) = start + a * s - DdcGuard
        /\ RetuneAt(a + 1) = start + (a + 1) * s - DdcGuard
    BY <1>2
  <2> QED BY <1>1, <1>3, <2>1, <2>2
<1>6. ASSUME a <= b PROVE RetuneAt(a) <= RetuneAt(b)
  <2>1. b - a \in Nat /\ a + (b - a) = b BY <1>6
  <2>2. b * s = a * s + (b - a) * s /\ a * s \in Nat /\ (b - a) * s \in Nat
    BY <1>1, <1>4, <2>1
  <2>3. /\ RetuneAt(a) = start + a * s - DdcGuard
        /\ RetuneAt(b) = start + b * s - DdcGuard
    BY <1>2
  <2> QED BY <1>1, <2>2, <2>3
<1> QED BY <1>5, <1>6

LEMMA LiveTyped ==
  ASSUME CaptureInv, NEW r, Live(r)
  PROVE  /\ r \in CaptureRequest /\ IsRequest(r) /\ r.epoch \in 0 .. epoch
         /\ r.tune \in Nat \X Nat /\ r.tune = <<r.tune[1], r.tune[2]>>
         /\ r.start \in Nat /\ r.end \in Nat
<1>1. IsRequest(r) BY DEF Live, CaptureInv, CaptureTyped, RequestsTyped
<1>2. r \in CaptureRequest /\ r.epoch \in 0 .. epoch BY <1>1 DEF IsRequest
<1>3. r.tune \in Nat \X Nat /\ r.start \in Nat /\ r.end \in Nat
  BY <1>2 DEF CaptureRequest
<1> QED BY <1>1, <1>2, <1>3

\* In a window's time the last retune that is due is its own.
LEMMA TuneIsOwn ==
  ASSUME CaptureInv, Timetable, NEW r, Live(r), Scheduled(r), r.epoch = epoch,
         NEW t \in Nat, now <= t, r.end - Window <= t, t < r.end
  PROVE  TuneAt(t) = r.tune
<1> DEFINE w == r.tune[2]
           due == {c.window : c \in {c \in timed : c.at <= t}}
<1>1. /\ r.tune = <<r.tune[1], w>> /\ w \in Nat /\ r.end \in Nat
      /\ now \in Nat /\ start \in Nat /\ hops \in Nat
      /\ Window \in Nat /\ DdcGuard \in Nat
  BY LiveTyped, Bounds DEF CaptureInv, ControlTyped
<1>2. ~(r.end <= now) BY <1>1
<1>3. /\ r.tune[1] = hops /\ ctl = "waiting"
      /\ r.end = RetuneAt(w + 1)
      /\ w # 0 => [at |-> RetuneAt(w), window |-> w] \in timed
  BY <1>2 DEF Scheduled
<1>4. \A c \in timed : c.window \in Nat /\ c.window # 0 /\ c.at = RetuneAt(c.window)
  BY <1>3, Bounds DEF Timetable
<1> HIDE DEF w
<1>5. RetuneAt(w) <= t
  <2>1. RetuneAt(w + 1) = RetuneAt(w) + Window + DdcGuard /\ RetuneAt(w) \in Int
    BY <1>1, RetuneGrows
  <2> QED BY <1>1, <1>3, <2>1
<1>6. ASSUME NEW c \in timed, c.at <= t PROVE c.window <= w
  <2>1. c.window \in Nat /\ c.at = RetuneAt(c.window) BY <1>4
  <2>2. w + 1 \in Nat BY <1>1
  <2>3. w + 1 <= c.window => RetuneAt(w + 1) <= RetuneAt(c.window)
    BY <1>1, <2>1, <2>2, RetuneGrows
  <2>4. RetuneAt(c.window) \in Int BY <1>1, <2>1, RetuneGrows
  <2> QED BY <1>1, <1>3, <1>6, <2>1, <2>3, <2>4
<1>7. \A v \in due : v \in Nat /\ v # 0 /\ v <= w BY <1>4, <1>6
<1>8. w # 0 => w \in due
  <2> SUFFICES ASSUME w # 0 PROVE w \in due OBVIOUS
  <2> DEFINE c == [at |-> RetuneAt(w), window |-> w]
  <2>1. c \in timed /\ c.at <= t /\ c.window = w BY <1>3, <1>5
  <2> HIDE DEF c
  <2> QED BY <2>1
<1>9. TuneAt(t) = <<hops, IF due = {} THEN 0
                          ELSE CHOOSE v \in due : \A u \in due : u <= v>>
  BY DEF TuneAt
<1> HIDE DEF due
<1>10. CASE w = 0
  <2>1. due = {} BY <1>7, <1>10
  <2> QED BY <1>1, <1>3, <1>9, <1>10, <2>1
<1>11. CASE w # 0
  <2>1. (CHOOSE v \in due : \A u \in due : u <= v) = w
    <3>1. \A v \in due : (\A u \in due : u <= v) => v = w BY <1>1, <1>7, <1>8, <1>11
    <3>2. \A u \in due : u <= w BY <1>7
    <3> QED BY <1>8, <1>11, <3>1, <3>2
  <2> QED BY <1>1, <1>3, <1>8, <1>9, <1>11, <2>1
<1> QED BY <1>10, <1>11

\* Taking a chunk away keeps what is known of the others.
LEMMA TailKeeps ==
  ASSUME CaptureInv, Sampled, ring # <<>>, ring' = ring \/ ring' = Tail(ring), now' = now
  PROVE  /\ Sampled'
         /\ \A i \in 1 .. Len(ring') : \E j \in 1 .. Len(ring) : ring'[i] = ring[j]
         /\ ring' = Tail(ring) =>
              \A i \in 1 .. Len(ring') : End(ring[1]) <= ring'[i].at
<1>1. /\ Len(ring) \in Nat /\ Len(ring) >= 1 /\ Head(ring) = ring[1]
      /\ Len(Tail(ring)) = Len(ring) - 1
      /\ \A i \in 1 .. Len(ring) - 1 : Tail(ring)[i] = ring[i + 1]
  BY QueueFacts DEF CaptureInv, RingTyped
<1>2. CASE ring' = ring
  <2>1. Sampled' BY <1>2 DEF Sampled, End
  <2>2. \A i \in 1 .. Len(ring') : ring'[i] = ring[i] BY <1>2
  <2>3. ring' # Tail(ring) BY <1>2, TailDiffers DEF CaptureInv, RingTyped
  <2> QED BY <1>2, <2>1, <2>2, <2>3
<1>3. CASE ring' = Tail(ring)
  <2>1. Len(ring') = Len(ring) - 1 BY <1>1, <1>3
  <2>2. \A i \in 1 .. Len(ring') : i + 1 \in 1 .. Len(ring) /\ ring'[i] = ring[i + 1]
    BY <1>1, <1>3, <2>1
  <2>3. \A i, j \in 1 .. Len(ring') : i < j => i + 1 < j + 1 BY <1>1, <2>1
  <2>4. \A i \in 1 .. Len(ring') : 1 < i + 1 BY <1>1, <2>1
  <2>5. 1 \in 1 .. Len(ring) BY <1>1
  <2>6. \A i \in 1 .. Len(ring') : End(ring[1]) <= ring'[i].at
    BY <2>2, <2>4, <2>5 DEF Sampled
  <2>7. \A i \in 1 .. Len(ring') :
          /\ End(ring'[i]) <= now'
          /\ \A k \in 1 .. Len(ring'[i].samples) :
               ring'[i].samples[k].at = ring'[i].at + (k - 1)
    <3> SUFFICES ASSUME NEW i \in 1 .. Len(ring')
                 PROVE  /\ End(ring'[i]) <= now'
                        /\ \A k \in 1 .. Len(ring'[i].samples) :
                             ring'[i].samples[k].at = ring'[i].at + (k - 1)
      OBVIOUS
    <3>1. PICK j \in 1 .. Len(ring) : ring'[i] = ring[j] BY <2>2
    <3>2. /\ End(ring[j]) <= now
          /\ \A k \in 1 .. Len(ring[j].samples) :
               ring[j].samples[k].at = ring[j].at + (k - 1)
      BY DEF Sampled
    <3> QED BY <3>1, <3>2
  <2>8. \A i \in 1 .. Len(ring'), j \in 1 .. Len(ring') :
          i < j => End(ring'[i]) <= ring'[j].at
    BY <2>2, <2>3 DEF Sampled
  <2> QED BY <2>2, <2>6, <2>7, <2>8 DEF Sampled, End
<1> QED BY <1>2, <1>3

LEMMA RingOwnKept ==
  ASSUME NEW r, RingOwn(r), epoch' = epoch, NEW q, Kin(q, r),
         \A i \in 1 .. Len(ring') : \E j \in 1 .. Len(ring) : ring'[i] = ring[j]
  PROVE  RingOwn(q)'
<1>1. /\ q.punctual = r.punctual /\ q.epoch = r.epoch /\ q.end = r.end
      /\ q.tune = r.tune
  BY DEF Kin
<1> SUFFICES ASSUME r.punctual, r.epoch = epoch, NEW i \in 1 .. Len(ring'),
                    NEW k \in 1 .. Len(ring'[i].samples)
             PROVE  Own(q, ring'[i].samples[k])
  BY <1>1 DEF RingOwn, Own
<1>2. PICK j \in 1 .. Len(ring) : ring'[i] = ring[j] OBVIOUS
<1>3. Own(r, ring[j].samples[k]) BY <1>2 DEF RingOwn
<1> QED BY <1>1, <1>2, <1>3 DEF Own

LEMMA ScheduledKept ==
  ASSUME NEW r, Scheduled(r), NEW q, Kin(q, r),
         UNCHANGED <<now, epoch, timed, ctl, hops, window, start, awaited>>
  PROVE  Scheduled(q)'
BY DEF Scheduled, Kin, RetuneAt

\* What begins behind the chunk begins behind every place in it.
LEMMA AfterChunk ==
  ASSUME NEW a \in Nat, NEW l \in Nat, NEW o \in Nat, o <= l, NEW s \in Nat, s <= a + o,
         NEW g \in Nat, NEW e \in Nat, NEW w \in Nat, s >= e - w
  PROVE  a + l + g >= e - w
OBVIOUS

\* A sample of the chunk from the place on is not before the window.
LEMMA InsideChunk ==
  ASSUME NEW a \in Nat, NEW o \in Nat, NEW s \in Nat, s <= a + o, NEW k \in Nat, k >= 1,
         NEW e \in Nat, NEW w \in Nat, s >= e - w
  PROVE  a + (o + k - 1) >= e - w
OBVIOUS

\* Samples that a capture takes from a chunk at or after its start.
LEMMA TakeOwn ==
  ASSUME CaptureInv, Sampled, ring # <<>>, UNCHANGED <<now, epoch>>,
         NEW r, NEW samples, Workable(r, samples), r.epoch = epoch, RingOwn(r),
         SamplesOwn(r, samples), r.start >= r.end - Window, result = None,
         NEW offset \in Nat, offset <= Len(ring[1].samples),
         r.start <= ring[1].at + offset, Take(r, samples, offset)
  PROVE  /\ CurrentTimed'
         /\ cur' # None => SamplesOwn(cur, got)'
         /\ result' # None => SamplesOwn(result.request, result.samples)'
<1> DEFINE chunk == Head(ring)
           available == Len(chunk.samples) - offset
           needed == r.n - Len(samples)
           taken == IF available < needed THEN available ELSE needed
           all == samples \o SubSeq(chunk.samples, offset + 1, offset + taken)
           again == [r EXCEPT !.start = chunk.at + Len(chunk.samples) + Guard]
<1>1. /\ IsChunk(chunk) /\ chunk = ring[1] /\ 1 \in 1 .. Len(ring)
  BY QueueFacts DEF CaptureInv, RingTyped
<1> HIDE DEF chunk
<1>2. /\ Len(chunk.samples) \in Nat /\ chunk.at \in Nat
      /\ chunk.samples \in Seq(StreamSample) /\ samples \in Seq(StreamSample)
      /\ Len(samples) \in Nat /\ r.n \in 1 .. Window /\ Guard \in Nat
      /\ Window \in Nat /\ r.start \in Nat /\ r.end \in Nat
      /\ Len(samples) < r.n /\ r \in CaptureRequest /\ r # None
  <2>1. r \in CaptureRequest /\ r.n \in 1 .. Window BY DEF Workable, IsRequest
  <2>2. r.start \in Nat /\ r.end \in Nat /\ r # None
    BY <2>1, NoneAssumption DEF CaptureRequest
  <2>3. chunk.at \in Nat /\ chunk.samples \in Seq(StreamSample)
    BY <1>1 DEF IsChunk
  <2> QED BY <2>1, <2>2, <2>3, Bounds DEF Workable
<1>3. /\ End(chunk) <= now
      /\ \A k \in 1 .. Len(chunk.samples) : chunk.samples[k].at = chunk.at + (k - 1)
      /\ r.punctual => \A k \in 1 .. Len(chunk.samples) : Own(r, chunk.samples[k])
  BY <1>1 DEF Sampled, RingOwn
<1>4. End(chunk) = chunk.at + Len(chunk.samples) BY DEF End
<1>5. now \in Nat BY DEF CaptureInv, ControlTyped
<1>6. r.start <= chunk.at + offset /\ offset <= Len(chunk.samples) BY <1>1
<1>7. \/ /\ Release
         /\ Continue(again, <<>>)
      \/ /\ ReleaseConsumed(taken, available)
         /\ IF Len(all) = r.n THEN Complete(r, all, TRUE) ELSE Continue(r, all)
  BY DEF Take, chunk
<1>8. /\ taken \in Nat /\ offset + taken <= Len(chunk.samples) /\ taken <= needed
      /\ taken = available \/ taken = needed
  <2>1. available \in Nat /\ needed \in Nat BY <1>2, <1>6
  <2>2. available = Len(chunk.samples) - offset OBVIOUS
  <2> HIDE DEF available, needed
  <2>3. /\ taken \in Nat /\ taken <= available /\ taken <= needed
        /\ taken = available \/ taken = needed
    BY <2>1
  <2> QED BY <1>2, <2>2, <2>3
<1> HIDE DEF taken
<1>9. /\ all \in Seq(StreamSample) /\ Len(all) = Len(samples) + taken
      /\ \A i \in 1 .. Len(samples) : all[i] = samples[i]
      /\ \A i \in 1 .. taken : all[Len(samples) + i] = chunk.samples[offset + i]
  <2>1. all = Joined(samples, chunk.samples, offset, taken) BY DEF Joined
  <2>2. /\ samples \in Seq(StreamSample) /\ chunk.samples \in Seq(StreamSample)
        /\ taken \in Nat /\ offset + taken <= Len(chunk.samples)
    BY <1>2, <1>8
  <2> HIDE DEF all
  <2>3. IsJoined(all, samples, chunk.samples, offset, taken)
    BY <2>1, <2>2, JoinedFacts, Zenon
  <2> QED BY <2>3 DEF IsJoined
<1> HIDE DEF all
<1>10. SamplesOwn(r, all)
  <2> SUFFICES ASSUME r.punctual, NEW i \in 1 .. Len(all)
               PROVE  all[i].at >= r.end - Window /\ Own(r, all[i])
    BY DEF SamplesOwn
  <2>1. CASE i \in 1 .. Len(samples) BY <1>9, <2>1 DEF SamplesOwn
  <2>2. CASE ~(i \in 1 .. Len(samples))
    <3>1. PICK k \in 1 .. taken : i = Len(samples) + k
      <4>1. i - Len(samples) \in 1 .. taken /\ i = Len(samples) + (i - Len(samples))
        BY <1>2, <1>8, <1>9, <2>2
      <4> QED BY <4>1
    <3>2. offset + k \in 1 .. Len(chunk.samples) BY <1>2, <1>8
    <3>3. all[i] = chunk.samples[offset + k] BY <1>9, <3>1
    <3>4. all[i].at = chunk.at + (offset + k - 1) /\ Own(r, all[i])
      BY <1>3, <3>2, <3>3
    <3>5. all[i].at >= r.end - Window
      <4>1. k \in Nat /\ k >= 1 BY <1>8, <3>1
      <4>2. PICK a, s, e, w, o : /\ a = chunk.at /\ s = r.start /\ e = r.end
                                 /\ w = Window /\ o = offset
        OBVIOUS
      <4>3. /\ a \in Nat /\ s \in Nat /\ e \in Nat /\ w \in Nat /\ o \in Nat
            /\ s >= e - w /\ s <= a + o
        BY <1>2, <1>6, <4>2
      <4>4. a + (o + k - 1) >= e - w BY <4>1, <4>3, InsideChunk, Zenon
      <4> QED BY <3>4, <4>2, <4>4
    <3> QED BY <3>4, <3>5
  <2> QED BY <2>1, <2>2
<1>11. ring' = Tail(ring) => \A i \in 1 .. Len(ring') : End(chunk) <= ring'[i].at
  BY <1>1, TailKeeps
<1>12. ring' = Tail(ring) => \A i \in 1 .. Len(ring') : ring'[i].at \in Nat
  BY RoundKeeps DEF CaptureInv, RingTyped, IsChunk
<1>13. CASE Release /\ Continue(again, <<>>)
  <2> HIDE DEF again
  <2>1. /\ again.start = chunk.at + Len(chunk.samples) + Guard
        /\ again.end = r.end /\ again.epoch = r.epoch
    BY <1>2 DEF again, CaptureRequest
  <2>2. cur' = again /\ got' = <<>> /\ result' = None BY <1>13 DEF Continue
  <2>3. again.start >= r.end - Window
    <3>1. PICK a, s, e, w, o, l : /\ a = chunk.at /\ s = r.start /\ e = r.end
                                  /\ w = Window /\ o = offset
                                  /\ l = Len(chunk.samples)
      OBVIOUS
    <3>2. /\ a \in Nat /\ s \in Nat /\ e \in Nat /\ w \in Nat /\ o \in Nat /\ l \in Nat
          /\ s >= e - w /\ s <= a + o /\ o <= l /\ Guard \in Nat
      BY <1>2, <1>6, <3>1
    <3>3. a + l + Guard >= e - w BY <3>2, AfterChunk, Zenon
    <3> QED BY <2>1, <3>1, <3>3
  <2>4. CurrentTimed' BY <2>1, <2>2, <2>3 DEF CurrentTimed
  <2>5. SamplesOwn(cur, got)' BY <2>2 DEF SamplesOwn
  <2> QED BY <2>2, <2>4, <2>5
<1>14. CASE Len(all) = r.n /\ Complete(r, all, TRUE)
  <2>1. /\ cur' = None /\ result'.request = r /\ result'.samples = all
    BY <1>14 DEF Complete
  <2>2. SamplesOwn(result.request, result.samples)'
    BY <1>10, <2>1 DEF SamplesOwn, Own
  <2> QED BY <2>1, <2>2 DEF CurrentTimed
<1>15. CASE /\ Len(all) # r.n /\ Continue(r, all)
            /\ ReleaseConsumed(taken, available)
  <2>1. cur' = r /\ got' = all /\ result' = None BY <1>15 DEF Continue
  <2>2. taken = available
    <3>1. taken # needed BY <1>2, <1>9, <1>15
    <3> QED BY <1>8, <3>1
  <2>3. ring' = Tail(ring) BY <1>15, <2>2 DEF ReleaseConsumed, Release
  <2>4. End(chunk) >= r.start BY <1>2, <1>4, <1>6
  <2>5. now >= r.start BY <1>2, <1>3, <1>4, <1>5, <2>4
  <2>6. \A i \in 1 .. Len(ring') : ring'[i].at >= r.start
    <3> SUFFICES ASSUME NEW i \in 1 .. Len(ring') PROVE ring'[i].at >= r.start
      OBVIOUS
    <3>1. End(chunk) <= ring'[i].at /\ ring'[i].at \in Nat BY <1>11, <1>12, <2>3
    <3>2. End(chunk) \in Nat BY <1>2, <1>4
    <3> QED BY <1>2, <2>4, <3>1, <3>2
  <2>7. CurrentTimed' BY <2>1, <2>5, <2>6 DEF CurrentTimed
  <2>8. SamplesOwn(cur, got)' BY <1>10, <2>1 DEF SamplesOwn, Own
  <2> QED BY <2>1, <2>7, <2>8
<1> QED BY <1>7, <1>13, <1>14, <1>15

\* A capture that goes on as it was, without samples, or that is answered with
\* the samples it has.
LEMMA PlainOwn ==
  ASSUME UNCHANGED <<now, epoch>>, NEW r, NEW samples, result = None,
         SamplesOwn(r, samples), r.epoch = epoch => r.start >= r.end - Window,
         \/ Continue(r, <<>>)
         \/ Complete(r, samples, FALSE)
  PROVE  /\ CurrentTimed'
         /\ cur' # None => SamplesOwn(cur, got)'
         /\ result' # None => SamplesOwn(result.request, result.samples)'
<1>1. CASE Continue(r, <<>>)
  <2>1. cur' = r /\ got' = <<>> /\ result' = None BY <1>1 DEF Continue
  <2>2. CurrentTimed' BY <2>1 DEF CurrentTimed
  <2>3. SamplesOwn(cur, got)'
    <3>1. ~(\E i \in 1 .. Len(<<>>) : TRUE) BY NoSamples
    <3> QED BY <2>1, <3>1 DEF SamplesOwn
  <2> QED BY <2>1, <2>2, <2>3
<1>2. CASE Complete(r, samples, FALSE)
  <2>1. cur' = None /\ result'.request = r /\ result'.samples = samples
    BY <1>2 DEF Complete
  <2>2. SamplesOwn(result.request, result.samples)'
    BY <2>1 DEF SamplesOwn, Own
  <2> QED BY <2>1, <2>2 DEF CurrentTimed
<1> QED BY <1>1, <1>2

\* What a capture begins with is of its window's time.
LEMMA BeginOwn ==
  ASSUME CaptureInv, Sampled, ring # <<>>, UNCHANGED <<now, epoch>>,
         NEW r, IsRequest(r), r.epoch = epoch, RingOwn(r),
         r.start >= r.end - Window, result = None, Begin(r)
  PROVE  /\ CurrentTimed'
         /\ cur' # None => SamplesOwn(cur, got)'
         /\ result' # None => SamplesOwn(result.request, result.samples)'
<1> DEFINE chunk == Head(ring)
           late == chunk.at - r.start
           offset == IF late < 0 THEN -late ELSE 0
<1>1. IsChunk(chunk) /\ chunk = ring[1]
  BY QueueFacts DEF CaptureInv, RingTyped
<1>2. /\ Len(chunk.samples) \in Nat /\ chunk.at \in Nat
      /\ r.start \in Nat /\ r.end \in Nat /\ r.n \in 1 .. Window /\ Window \in Nat
  BY <1>1, QueueFacts, Bounds DEF IsChunk, IsRequest, CaptureRequest
<1>3. Workable(r, <<>>)
  BY <1>2, NoSamples DEF Workable
<1>4. \A q : SamplesOwn(q, <<>>)
  <2>1. ~(\E i \in 1 .. Len(<<>>) : TRUE) BY NoSamples
  <2> QED BY <2>1 DEF SamplesOwn
<1>5. \/ Continue(r, <<>>)
      \/ late <= 1 /\ chunk.at + Len(chunk.samples) > r.start /\ Take(r, <<>>, offset)
      \/ late > 1 /\ late < r.n /\ Take(Shorten(r, late), <<>>, 0)
      \/ Complete(r, <<>>, FALSE)
  BY DEF Begin
<1>6. CASE Continue(r, <<>>) \/ Complete(r, <<>>, FALSE)
  BY <1>4, <1>6, PlainOwn
<1>7. CASE late <= 1 /\ chunk.at + Len(chunk.samples) > r.start /\ Take(r, <<>>, offset)
  <2> HIDE DEF chunk
  <2>1. /\ offset \in Nat /\ offset <= Len(chunk.samples)
        /\ r.start <= chunk.at + offset
    BY <1>2, <1>7
  <2> HIDE DEF late, offset
  <2> QED BY <1>1, <1>3, <1>4, <1>7, <2>1, TakeOwn
<1>8. CASE late > 1 /\ late < r.n /\ Take(Shorten(r, late), <<>>, 0)
  <2> HIDE DEF chunk
  <2>1. late \in Nat /\ late < r.n /\ r.start + late = chunk.at BY <1>2, <1>8
  <2> HIDE DEF late
  <2> DEFINE q == Shorten(r, late)
  <2>2. Kin(q, r) /\ Workable(q, <<>>) /\ q.start = chunk.at
    BY <2>1, ShortenFacts
  <2>3. Take(q, <<>>, 0) BY <1>8
  <2> HIDE DEF q
  <2>4. q.epoch = epoch /\ q.end = r.end /\ RingOwn(q)
    BY <2>2 DEF Kin, RingOwn, Own
  <2>5. q.start >= q.end - Window BY <1>2, <2>1, <2>2, <2>4
  <2>6. q.start <= chunk.at + 0 /\ 0 \in Nat /\ 0 <= Len(chunk.samples)
    BY <1>2, <2>2
  <2> QED BY <1>1, <1>4, <2>2, <2>3, <2>4, <2>5, <2>6, TakeOwn
<1> QED BY <1>5, <1>6, <1>7, <1>8

\* A round keeps to the window's time.
LEMMA ExamineOwn ==
  ASSUME CaptureInv, Sampled, ring # <<>>, UNCHANGED <<now, epoch>>,
         NEW r, NEW samples, Workable(r, samples), RingOwn(r),
         SamplesOwn(r, samples), result = None, Examine(r, samples),
         r.epoch = epoch => /\ r.start >= r.end - Window
                            /\ samples # <<>> => ring[1].at >= r.start
  PROVE  /\ CurrentTimed'
         /\ cur' # None => SamplesOwn(cur, got)'
         /\ result' # None => SamplesOwn(result.request, result.samples)'
<1>1. CASE r.epoch # epoch
  <2>1. Unfinished(r) \/ Answered(r) BY ExamineRound DEF CaptureInv, Round
  <2>2. CASE Unfinished(r)
    <3>1. cur'.epoch # epoch' /\ result' = None BY <1>1, <2>2 DEF Unfinished, Kin
    <3> QED BY <3>1 DEF CurrentTimed, SamplesOwn
  <2>3. CASE Answered(r)
    <3>1. cur' = None /\ result'.request.epoch # epoch' BY <1>1, <2>3 DEF Answered, Kin
    <3> QED BY <3>1 DEF CurrentTimed, SamplesOwn
  <2> QED BY <2>1, <2>2, <2>3
<1>2. CASE r.epoch = epoch
  <2>1. \/ Continue(r, <<>>)
        \/ Complete(r, samples, FALSE)
        \/ samples = <<>> /\ Begin(r)
        \/ samples # <<>> /\ Take(r, samples, 0)
    BY DEF Examine
  <2>2. CASE Continue(r, <<>>) \/ Complete(r, samples, FALSE)
    BY <1>2, <2>2, PlainOwn
  <2>3. CASE samples = <<>> /\ Begin(r)
    BY <1>2, <2>3, BeginOwn DEF Workable
  <2>4. CASE samples # <<>> /\ Take(r, samples, 0)
    <3>1. IsChunk(ring[1]) BY QueueFacts DEF CaptureInv, RingTyped
    <3>2. /\ 0 \in Nat /\ Len(ring[1].samples) \in Nat /\ ring[1].at \in Nat
          /\ r.start \in Nat
      BY <3>1, QueueFacts DEF IsChunk, Workable, IsRequest, CaptureRequest
    <3>3. 0 <= Len(ring[1].samples) /\ r.start <= ring[1].at + 0 BY <1>2, <2>4, <3>2
    <3> QED BY <1>2, <2>4, <3>2, <3>3, TakeOwn
  <2> QED BY <2>1, <2>2, <2>3, <2>4
<1> QED BY <1>1, <1>2

LEMMA InitOwn == Init => OwnInv
<1> SUFFICES ASSUME Init PROVE OwnInv OBVIOUS
<1>1. /\ ring = <<>> /\ requests = <<>> /\ cur = None /\ result = None
      /\ Len(ring) = 0 /\ Len(requests) = 0
      /\ since = 0 /\ start = 0 /\ ctl = "hop"
  BY DEF Init
<1>2. \A r : ~Live(r) BY <1>1 DEF Live
<1>3. Sampled BY <1>1 DEF Sampled
<1>4. Timetable BY <1>1, Bounds DEF Timetable
<1>5. CurrentTimed BY <1>1 DEF CurrentTimed
<1> QED BY <1>1, <1>2, <1>3, <1>4, <1>5 DEF OwnInv

\* Steps that touch neither the stream nor the captures.
LEMMA OwnKept ==
  ASSUME OwnInv, UNCHANGED <<now, epoch, timed, ring, requests, cur, got, result,
                             since, start, ctl, hops, window, awaited>>
  PROVE  OwnInv'
BY DEF OwnInv, Sampled, Timetable, CurrentTimed, Scheduled, RingOwn, SamplesOwn, Own,
       Live, End, RetuneAt

LEMMA ReceiveOwn == CaptureInv /\ OwnInv /\ Receive => OwnInv'
<1> SUFFICES ASSUME CaptureInv, OwnInv, Receive PROVE OwnInv' OBVIOUS
<1>1. /\ now' = now + ChunkLength
      /\ UNCHANGED <<epoch, timed, requests, cur, got, result, since, start, ctl,
                     hops, window, awaited>>
  BY DEF Receive, control, dsp
<1>2. now \in Nat /\ now' \in Nat /\ now <= now' /\ ChunkLength \in Nat
  BY <1>1, Bounds DEF CaptureInv, ControlTyped
<1>3. \A r : Live(r)' <=> Live(r) BY <1>1 DEF Live
<1>4. Timetable' BY <1>1, <1>2 DEF OwnInv, Timetable, RetuneAt
<1>5. ASSUME NEW r, Live(r) PROVE Scheduled(r)'
  <2>1. Scheduled(r) /\ r.end \in Nat BY <1>5, LiveTyped DEF OwnInv
  <2> QED BY <1>1, <1>2, <2>1 DEF Scheduled, RetuneAt
<1>6. /\ \A i \in 1 .. Len(requests') : requests'[i].start = requests'[i].end - Window
      /\ cur' # None => SamplesOwn(cur, got)'
      /\ result' # None => SamplesOwn(result.request, result.samples)'
  BY <1>1 DEF OwnInv, SamplesOwn, Own
<1>7. CASE ring' = ring
  <2>1. Sampled'
    <3>1. \A i \in 1 .. Len(ring) : End(ring[i]) \in Int
      BY QueueFacts DEF CaptureInv, RingTyped, IsChunk, End
    <3>2. \A i \in 1 .. Len(ring) : End(ring[i]) <= now'
      BY <1>2, <3>1 DEF OwnInv, Sampled
    <3> QED BY <1>7, <3>2 DEF OwnInv, Sampled, End
  <2>2. CurrentTimed'
    <3>1. cur # None => cur.start \in Nat
      <4>1. cur # None => Live(cur) BY DEF Live
      <4> QED BY <4>1, LiveTyped
    <3> QED BY <1>1, <1>2, <1>7, <3>1 DEF OwnInv, CurrentTimed
  <2>3. \A r : Live(r) => RingOwn(r)' BY <1>1, <1>7 DEF OwnInv, RingOwn, Own
  <2> QED BY <1>3, <1>4, <1>5, <1>6, <2>1, <2>2, <2>3 DEF OwnInv
<1>8. ASSUME NEW c, ring' = Append(ring, c), c.at = now,
             \/ c.samples = <<>>
             \/ c.samples = [i \in 1 .. ChunkLength |-> Sample(now + i - 1)]
      PROVE  OwnInv'
  <2>0. PICK n \in Nat : n = Len(ring) BY QueueFacts DEF CaptureInv, RingTyped
  <2>1. /\ Len(ring') = n + 1 /\ ring'[n + 1] = c
        /\ \A i \in 1 .. n : ring'[i] = ring[i]
    BY <1>8, <2>0, QueueFacts DEF CaptureInv, RingTyped
  <2>2. /\ Len(c.samples) = 0 \/ Len(c.samples) = ChunkLength
        /\ \A k \in 1 .. Len(c.samples) : c.samples[k] = Sample(now + k - 1)
    BY <1>2, <1>8, NoSamples
  <2>3. \A k \in 1 .. Len(c.samples) :
          c.samples[k].at = c.at + (k - 1) /\ now + k - 1 \in Nat /\ now <= now + k - 1
    <3> SUFFICES ASSUME NEW k \in 1 .. Len(c.samples)
                 PROVE  /\ c.samples[k].at = c.at + (k - 1)
                        /\ now + k - 1 \in Nat /\ now <= now + k - 1
      OBVIOUS
    <3>1. k \in Nat /\ k >= 1 BY <1>2, <2>2
    <3>2. \A t : Sample(t).at = t BY DEF Sample
    <3>3. c.samples[k].at = now + k - 1 BY <2>2, <3>2
    <3> QED BY <1>2, <1>8, <3>1, <3>3
  <2>4. End(c) <= now' BY <1>1, <1>2, <1>8, <2>2 DEF End
  <2>5. \A i \in 1 .. n : End(ring[i]) \in Int /\ End(ring[i]) <= now
    <3>1. \A i \in 1 .. n : End(ring[i]) \in Int
      BY <2>0, QueueFacts DEF CaptureInv, RingTyped, IsChunk, End
    <3> QED BY <2>0, <3>1 DEF OwnInv, Sampled
  <2>6. \A i \in 1 .. n + 1 : i \in 1 .. n \/ i = n + 1 BY <2>0
  <2>7. Sampled'
    <3>1. \A i \in 1 .. n : End(ring[i]) <= now' BY <1>2, <2>5
    <3>2. \A i \in 1 .. n + 1 :
            /\ End(ring'[i]) <= now'
            /\ \A k \in 1 .. Len(ring'[i].samples) :
                 ring'[i].samples[k].at = ring'[i].at + (k - 1)
      <4> SUFFICES ASSUME NEW i \in 1 .. n + 1
                   PROVE  /\ End(ring'[i]) <= now'
                          /\ \A k \in 1 .. Len(ring'[i].samples) :
                               ring'[i].samples[k].at = ring'[i].at + (k - 1)
        OBVIOUS
      <4>1. CASE i \in 1 .. n BY <2>0, <2>1, <3>1, <4>1 DEF OwnInv, Sampled
      <4>2. CASE i = n + 1 BY <2>1, <2>3, <2>4, <4>2
      <4> QED BY <2>6, <4>1, <4>2
    <3>3. \A i \in 1 .. n + 1, j \in 1 .. n + 1 : i < j => End(ring'[i]) <= ring'[j].at
      <4> SUFFICES ASSUME NEW i \in 1 .. n + 1, NEW j \in 1 .. n + 1, i < j
                   PROVE  End(ring'[i]) <= ring'[j].at
        OBVIOUS
      <4>1. i \in 1 .. n BY <2>0
      <4>2. CASE j \in 1 .. n BY <2>0, <2>1, <4>1, <4>2 DEF OwnInv, Sampled
      <4>3. CASE j = n + 1 BY <1>8, <2>1, <2>5, <4>1, <4>3
      <4> QED BY <2>6, <4>2, <4>3
    <3> QED BY <2>1, <3>2, <3>3 DEF Sampled, End
  <2>8. CurrentTimed'
    <3>1. cur # None => cur.start \in Nat
      <4>1. cur # None => Live(cur) BY DEF Live
      <4> QED BY <4>1, LiveTyped
    <3>2. ASSUME cur # None, cur.epoch = epoch, got # <<>>
          PROVE  now' >= cur.start /\ \A i \in 1 .. n + 1 : ring'[i].at >= cur.start
      <4>1. now >= cur.start /\ \A i \in 1 .. n : ring[i].at >= cur.start
        BY <2>0, <3>2 DEF OwnInv, CurrentTimed
      <4>2. now' >= cur.start BY <1>2, <3>1, <3>2, <4>1
      <4> QED BY <1>8, <2>1, <2>6, <4>1, <4>2
    <3> QED BY <1>1, <2>1, <3>2 DEF OwnInv, CurrentTimed
  <2>9. ASSUME NEW r, Live(r) PROVE RingOwn(r)'
    <3>1. Scheduled(r) /\ RingOwn(r) /\ Timetable BY <2>9 DEF OwnInv
    <3> SUFFICES ASSUME r.punctual, r.epoch = epoch,
                        NEW i \in 1 .. n + 1, NEW k \in 1 .. Len(ring'[i].samples)
                 PROVE  Own(r, ring'[i].samples[k])
      BY <1>1, <2>1 DEF RingOwn, Own
    <3>2. CASE i \in 1 .. n BY <2>0, <2>1, <3>1, <3>2 DEF RingOwn
    <3>3. CASE i = n + 1
      <4> DEFINE t == now + k - 1
      <4>1. k \in 1 .. Len(c.samples) /\ ring'[i].samples[k] = c.samples[k]
        BY <2>1, <3>3
      <4>2. c.samples[k] = Sample(t) /\ t \in Nat /\ now <= t BY <2>2, <2>3, <4>1
      <4> HIDE DEF t
      <4>3. r.end - Window <= t /\ t < r.end => TuneAt(t) = r.tune
        BY <2>9, <3>1, <4>2, TuneIsOwn
      <4> QED BY <4>1, <4>2, <4>3 DEF Own, Sample
    <3> QED BY <2>6, <3>2, <3>3
  <2> QED BY <1>3, <1>4, <1>5, <1>6, <2>7, <2>8, <2>9 DEF OwnInv
<1>9. \/ ring' = ring
      \/ ring' = Append(ring, Chunk([i \in 1 .. ChunkLength |-> Sample(now + i - 1)], FALSE))
      \/ ring' = Append(ring, Chunk(<<>>, TRUE))
  BY DEF Receive
<1> QED BY <1>7, <1>8, <1>9 DEF Chunk

LEMMA HopOwn == CaptureInv /\ OwnInv /\ Hop => OwnInv'
<1> SUFFICES ASSUME CaptureInv, OwnInv, Hop PROVE OwnInv' OBVIOUS
<1>1. /\ UNCHANGED <<now, epoch, ring, requests, cur, got, result>>
      /\ ctl = "hop" /\ ctl' = "waiting" /\ hops' = hops + 1 /\ timed' = {}
      /\ start' = now + Guard /\ since' = now
  BY DEF Hop, dsp
<1>2. now \in Nat /\ hops \in Nat /\ Guard \in Nat
  BY Bounds DEF CaptureInv, ControlTyped
<1>3. Sampled' /\ CurrentTimed' BY <1>1 DEF OwnInv, Sampled, CurrentTimed, End
<1>4. Timetable' BY <1>1, <1>2 DEF Timetable
<1>5. \A r : Live(r)' => Live(r) /\ RingOwn(r)'
  BY <1>1 DEF OwnInv, Live, RingOwn, Own
<1>6. ASSUME NEW r, Live(r) PROVE Scheduled(r)'
  <2>1. Scheduled(r) /\ r.tune[1] \in Nat BY <1>6, LiveTyped DEF OwnInv
  <2>2. r.tune[1] <= hops' /\ r.tune[1] # hops' BY <1>1, <1>2, <2>1 DEF Scheduled
  <2> QED BY <1>1, <2>1, <2>2 DEF Scheduled
<1>7. /\ \A i \in 1 .. Len(requests') : requests'[i].start = requests'[i].end - Window
      /\ cur' # None => SamplesOwn(cur, got)'
      /\ result' # None => SamplesOwn(result.request, result.samples)'
  BY <1>1 DEF OwnInv, SamplesOwn, Own
<1> QED BY <1>3, <1>4, <1>5, <1>6, <1>7 DEF OwnInv

\* What is asked for, in the terms of the timetable.
LEMMA RequestTimes ==
  ASSUME CaptureInv, ctl = "waiting", window < Windows
  PROVE  /\ window \in Nat /\ WindowStart \in Nat
         /\ WindowStart - DdcGuard = RetuneAt(window)
         /\ WindowStart + Window = RetuneAt(window + 1)
         /\ Request.end = RetuneAt(window + 1)
         /\ Request.start = Request.end - Window
         /\ Request.n = Window /\ Request.end = Request.start + Window
         /\ Request.tune = <<hops, window>> /\ Request.start = WindowStart
         /\ Request.punctual = (now <= RetuneAt(window))
         /\ Request.epoch = epoch /\ Request \in CaptureRequest
<1>1. /\ window \in Nat /\ start \in Nat /\ Window \in Nat /\ DdcGuard \in Nat
  BY Bounds DEF CaptureInv, ControlTyped
<1>2. Request \in CaptureRequest /\ Request.epoch = epoch BY RequestFacts DEF CaptureInv
<1>3. /\ Request.start = WindowStart /\ Request.end = WindowStart + Window
      /\ Request.n = Window /\ Request.tune = <<hops, window>>
      /\ Request.punctual = (now <= WindowStart - DdcGuard)
  BY DEF Request
<1>4. WindowStart \in Nat
  <2>1. PICK q \in CaptureRequest : q = Request BY <1>2
  <2>2. q.start \in Nat BY DEF CaptureRequest
  <2> QED BY <1>3, <2>1, <2>2
<1>5. WindowStart - DdcGuard = RetuneAt(window)
  <2> DEFINE x == window * (Window + DdcGuard)
  <2>1. RetuneAt(window) = start + x - DdcGuard BY DEF RetuneAt
  <2>2. WindowStart = start + x BY DEF WindowStart
  <2>3. x \in Nat
    <3>1. \A a, b \in Nat : a * b \in Nat OBVIOUS
    <3>2. Window + DdcGuard \in Nat BY <1>1
    <3> QED BY <1>1, <3>1, <3>2
  <2> HIDE DEF x
  <2> QED BY <1>1, <2>1, <2>2, <2>3
<1>6. RetuneAt(window + 1) = RetuneAt(window) + Window + DdcGuard
      /\ RetuneAt(window) \in Int
  BY <1>1, RetuneGrows
<1>7. WindowStart + Window = RetuneAt(window + 1) BY <1>1, <1>4, <1>5, <1>6
<1> QED BY <1>1, <1>2, <1>3, <1>4, <1>5, <1>7

LEMMA AskOwn == CaptureInv /\ OwnInv /\ Ask => OwnInv'
<1> SUFFICES ASSUME CaptureInv, OwnInv, Ask PROVE OwnInv' OBVIOUS
<1>1. /\ UNCHANGED <<now, epoch, ring, cur, got, result, ctl, hops, start>>
      /\ ctl = "waiting" /\ window < Windows
      /\ since' = now
      /\ timed' = IF window = 0 THEN timed
                  ELSE timed \cup {[at |-> WindowStart - DdcGuard, window |-> window]}
  BY DEF Ask, dsp
<1>2. /\ now \in Nat /\ hops \in Nat /\ Guard \in Nat /\ window \in Nat
      /\ start \in Nat /\ Windows \in Nat /\ asked \in Nat
  BY Bounds DEF CaptureInv, ControlTyped
<1>3. \A t : RetuneAt(t)' = RetuneAt(t) BY <1>1 DEF RetuneAt
<1>4. /\ WindowStart - DdcGuard = RetuneAt(window)
      /\ WindowStart + Window = RetuneAt(window + 1)
  BY <1>1, RequestTimes
<1>5. Sampled' /\ CurrentTimed' BY <1>1 DEF OwnInv, Sampled, CurrentTimed, End
<1>6. Timetable'
  <2>1. start' <= since' + Guard
    <3>1. since <= now /\ start <= since + Guard /\ since \in Nat
      BY <1>1 DEF OwnInv, Timetable
    <3> QED BY <1>1, <1>2, <3>1
  <2>2. ASSUME NEW c \in timed' PROVE c.window \in 1 .. Windows /\ c.at = RetuneAt(c.window)
    <3>1. CASE c \in timed BY <1>1, <3>1 DEF OwnInv, Timetable
    <3>2. CASE window # 0 /\ c = [at |-> RetuneAt(window), window |-> window]
      BY <1>1, <1>2, <3>2
    <3> QED BY <1>1, <1>4, <2>2, <3>1, <3>2
  <2> QED BY <1>1, <1>2, <1>3, <2>1, <2>2 DEF Timetable
<1>7. /\ cur' # None => SamplesOwn(cur, got)'
      /\ result' # None => SamplesOwn(result.request, result.samples)'
  BY <1>1 DEF OwnInv, SamplesOwn, Own
<1>8. ASSUME NEW r, Live(r), awaited' # 0 \/ awaited' = awaited,
             window' \in Nat, window <= window'
      PROVE  Scheduled(r)' /\ RingOwn(r)'
  <2>1. Scheduled(r) /\ RingOwn(r) BY <1>8 DEF OwnInv
  <2>2. r.tune[2] \in Nat BY <1>8, LiveTyped
  <2>3. r.tune[2] < window => r.tune[2] < window' BY <1>2, <1>8, <2>2
  <2>4. \A c \in timed : c \in timed' BY <1>1
  <2>5. Scheduled(r)' BY <1>1, <1>3, <1>8, <2>1, <2>3, <2>4 DEF Scheduled
  <2> QED BY <1>1, <2>1, <2>5 DEF RingOwn, Own
<1>9. CASE /\ requests' = Append(requests, Request)
           /\ awaited' = asked + 1 /\ window' = window + 1
  <2>0. PICK q : q = Request OBVIOUS
  <2>1. /\ q \in CaptureRequest /\ q.epoch = epoch /\ q.end = RetuneAt(window + 1)
        /\ q.start = q.end - Window /\ q.tune = <<hops, window>>
        /\ q.punctual = (now <= RetuneAt(window))
    BY <1>1, <2>0, RequestTimes
  <2>2. /\ Len(requests') = Len(requests) + 1 /\ requests'[Len(requests) + 1] = q
        /\ \A i \in 1 .. Len(requests) : requests'[i] = requests[i]
    BY <1>9, <2>0, <2>1 DEF CaptureInv, RequestsTyped
  <2>3. PICK n \in Nat : n = Len(requests) BY DEF CaptureInv, RequestsTyped
  <2>4. \A i \in 1 .. n + 1 : i \in 1 .. n \/ i = n + 1 BY <2>3
  <2>5. \A r : Live(r)' => Live(r) \/ r = q BY <1>1, <2>2, <2>3, <2>4 DEF Live
  <2>6. Scheduled(q)'
    <3>1. /\ q.tune[1] = hops /\ q.tune[2] = window /\ hops <= hops
          /\ awaited' # 0 /\ window < window'
      BY <1>2, <1>9, <2>1
    <3>2. window # 0 => [at |-> RetuneAt(window), window |-> window] \in timed'
      BY <1>1, <1>4
    <3> QED BY <1>1, <1>3, <2>1, <3>1, <3>2 DEF Scheduled
  <2>7. RingOwn(q)'
    <3> SUFFICES ASSUME now <= RetuneAt(window), NEW i \in 1 .. Len(ring),
                        NEW k \in 1 .. Len(ring[i].samples)
                 PROVE  Own(q, ring[i].samples[k])
      BY <1>1, <2>1 DEF RingOwn, Own
    <3>1. /\ ring[i].samples[k].at = ring[i].at + (k - 1)
          /\ ring[i].at + Len(ring[i].samples) <= now
      BY DEF OwnInv, Sampled, End
    <3>2. ring[i].at \in Nat /\ Len(ring[i].samples) \in Nat
      BY QueueFacts DEF CaptureInv, RingTyped, IsChunk
    <3>3. ring[i].samples[k].at < now BY <1>2, <3>1, <3>2
    <3>4. ring[i].samples[k].at \in Int BY <3>1, <3>2
    <3>5. RetuneAt(window) <= q.end - Window /\ RetuneAt(window) \in Int
          /\ q.end - Window \in Int
      <4>1. RetuneAt(window + 1) = RetuneAt(window) + Window + DdcGuard
            /\ RetuneAt(window) \in Int
        BY <1>2, RetuneGrows
      <4> QED BY <2>1, <4>1, Bounds
    <3>6. ~(q.end - Window <= ring[i].samples[k].at)
      BY <1>2, <3>3, <3>4, <3>5
    <3> QED BY <3>6 DEF Own
  <2>8. \A r : Live(r)' => Scheduled(r)' /\ RingOwn(r)'
    <3>1. awaited' # 0 /\ window' \in Nat /\ window <= window' BY <1>2, <1>9
    <3> QED BY <1>8, <2>5, <2>6, <2>7, <3>1
  <2>9. \A i \in 1 .. Len(requests') : requests'[i].start = requests'[i].end - Window
    BY <2>1, <2>2, <2>3, <2>4 DEF OwnInv
  <2> QED BY <1>5, <1>6, <1>7, <2>8, <2>9 DEF OwnInv
<1>10. CASE window' = Windows /\ UNCHANGED <<requests, awaited>>
  <2>1. \A r : Live(r)' => Live(r) BY <1>1, <1>10 DEF Live
  <2>2. \A r : Live(r)' => Scheduled(r)' /\ RingOwn(r)'
    <3>1. window' \in Nat /\ window <= window' BY <1>1, <1>2, <1>10
    <3> QED BY <1>8, <1>10, <2>1, <3>1
  <2> QED BY <1>5, <1>6, <1>7, <1>10, <2>2 DEF OwnInv
<1> QED BY <1>9, <1>10 DEF Ask

\* Nothing is outstanding: nothing is under way, or asked for.
LEMMA NoneOutstanding ==
  ASSUME CaptureInv, Outstanding = <<>>
  PROVE  cur = None /\ requests = <<>> /\ Len(requests) = 0
<1>1. requests \in Seq(CaptureRequest) BY DEF CaptureInv, RequestsTyped
<1>2. ASSUME cur # None PROVE FALSE
  <2>1. cur \in CaptureRequest BY <1>2 DEF CaptureInv, CaptureTyped, IsRequest
  <2>2. <<cur>> \in Seq(CaptureRequest) /\ Len(<<cur>>) = 1 BY <2>1
  <2>3. Len(<<cur>> \o requests) = 1 + Len(requests) /\ Len(requests) \in Nat
    BY <1>1, <2>2
  <2>4. Len(Outstanding) # 0 BY <1>2, <2>3 DEF Outstanding
  <2> QED BY <2>4, NoSamples
<1> QED BY <1>2, NoSamples DEF Outstanding

\* What the ctl thread no longer waits for has been answered, or is over.
LEMMA WaitedOwn == CaptureInv /\ OwnInv /\ (Captured \/ GiveUp) => OwnInv'
<1> SUFFICES ASSUME CaptureInv, OwnInv, Captured \/ GiveUp PROVE OwnInv' OBVIOUS
<1>1. /\ UNCHANGED <<now, epoch, timed, ring, requests, cur, got, result, hops,
                     start, since, window, awaited>>
      /\ ctl = "waiting" /\ ctl' = "hop" /\ window = Windows
  BY DEF Captured, GiveUp, radio, dsp
<1>2. Sampled' /\ CurrentTimed' /\ Timetable'
  BY <1>1 DEF OwnInv, Sampled, CurrentTimed, Timetable, End
<1>3. /\ \A r : Live(r)' => Live(r) /\ RingOwn(r)'
      /\ \A i \in 1 .. Len(requests') : requests'[i].start = requests'[i].end - Window
      /\ cur' # None => SamplesOwn(cur, got)'
      /\ result' # None => SamplesOwn(result.request, result.samples)'
  <2>1. \A r : Live(r)' => Live(r) BY <1>1 DEF Live
  <2>2. \A r : RingOwn(r) => RingOwn(r)' BY <1>1 DEF RingOwn, Own
  <2>3. \A i \in 1 .. Len(requests') : requests'[i].start = requests'[i].end - Window
    BY <1>1 DEF OwnInv
  <2>4. cur' # None => SamplesOwn(cur, got)' BY <1>1 DEF OwnInv, SamplesOwn, Own
  <2>5. result' # None => SamplesOwn(result.request, result.samples)'
    BY <1>1 DEF OwnInv, SamplesOwn, Own
  <2> QED BY <2>1, <2>2, <2>3, <2>4, <2>5 DEF OwnInv
<1>4. ASSUME NEW r, Live(r), r.epoch = epoch, r.tune[1] = hops PROVE r.end <= now
  <2>1. awaited # 0 /\ r.tune[2] < window /\ r.end = RetuneAt(r.tune[2] + 1)
    BY <1>1, <1>4 DEF OwnInv, Scheduled
  <2>2. CASE Captured
    <3>1. awaited' # 0 /\ ctl' = "hop" /\ ~gaveUp' BY <1>1, <2>1, <2>2 DEF Captured
    <3>2. Outstanding' = <<>> BY <2>2, <3>1, CapturedStep DEF CaptureInv, DrainedOnHop
    <3>3. Outstanding = <<>> BY <1>1, <3>2 DEF Outstanding
    <3>4. cur = None /\ Len(requests) = 0 BY <3>3, NoneOutstanding
    <3> QED BY <1>4, <3>4 DEF Live
  <2>3. CASE GiveUp
    <3>1. now >= since + Guard + Windows * (Window + DdcGuard) + Patience BY <2>3 DEF GiveUp
    <3>2. start <= since + Guard /\ since \in Nat BY DEF OwnInv, Timetable
    <3>3. /\ r.tune[2] \in Nat /\ r.tune[2] + 1 \in Nat /\ Windows \in Nat /\ now \in Nat
          /\ Guard \in Nat /\ start \in Nat /\ DdcGuard \in Nat /\ Patience \in Nat
      BY <1>4, LiveTyped, Bounds, CaptureAssumption DEF CaptureInv, ControlTyped
    <3>4. r.tune[2] + 1 <= Windows BY <1>1, <2>1, <3>3
    <3>5. RetuneAt(r.tune[2] + 1) <= RetuneAt(Windows) /\ RetuneAt(r.tune[2] + 1) \in Int
      BY <3>3, <3>4, RetuneGrows
    <3> DEFINE x == Windows * (Window + DdcGuard)
    <3>6. x \in Nat
      <4>1. \A a, b \in Nat : a * b \in Nat OBVIOUS
      <4>2. Window + DdcGuard \in Nat BY Bounds
      <4> QED BY <3>3, <4>1, <4>2
    <3>7. RetuneAt(Windows) = start + x - DdcGuard BY DEF RetuneAt
    <3>8. now >= since + Guard + x + Patience BY <3>1
    <3> HIDE DEF x
    <3>9. RetuneAt(Windows) <= now BY <3>2, <3>3, <3>6, <3>7, <3>8
    <3>10. RetuneAt(Windows) \in Int BY <3>3, <3>6, <3>7
    <3> QED BY <2>1, <3>3, <3>5, <3>9, <3>10
  <2> QED BY <2>2, <2>3
<1>5. ASSUME NEW r, Live(r) PROVE Scheduled(r)'
  <2>1. Scheduled(r) BY <1>5 DEF OwnInv
  <2> QED BY <1>1, <1>4, <1>5, <2>1 DEF Scheduled
<1> QED BY <1>2, <1>3, <1>5 DEF OwnInv

\* What was asked for before the clock was set back is of another time.
LEMMA ReconfigureOwn == CaptureInv /\ OwnInv /\ Reconfigure => OwnInv'
<1> SUFFICES ASSUME CaptureInv, OwnInv, Reconfigure PROVE OwnInv' OBVIOUS
<1>1. /\ UNCHANGED <<requests, cur, got, result, hops, start, since, awaited, ctl>>
      /\ ctl = "hop" /\ epoch' = epoch + 1 /\ now' = 0 /\ timed' = {} /\ ring' = <<>>
  BY DEF Reconfigure, control, dsp
<1>2. Len(ring') = 0 BY <1>1
<1>3. \A e \in 0 .. epoch : e # epoch' BY <1>1 DEF CaptureInv, ControlTyped
<1>4. ASSUME NEW r, Live(r)' PROVE Live(r) /\ r.epoch # epoch' /\ Scheduled(r)' /\ RingOwn(r)'
  <2>1. Live(r) BY <1>1, <1>4 DEF Live
  <2>2. r.epoch # epoch' BY <1>3, <2>1, LiveTyped
  <2>3. Scheduled(r)' BY <1>1, <2>1, <2>2 DEF OwnInv, Scheduled
  <2> QED BY <2>1, <2>2, <2>3 DEF RingOwn
<1>5. Sampled' /\ Timetable' BY <1>1, <1>2 DEF OwnInv, Sampled, Timetable
<1>6. CurrentTimed' /\ (cur' # None => SamplesOwn(cur, got)')
  <2>1. cur' # None => Live(cur)' BY DEF Live
  <2> QED BY <1>4, <2>1 DEF CurrentTimed, SamplesOwn
<1>7. result' # None => SamplesOwn(result.request, result.samples)'
  <2>1. result # None => result.request.epoch \in 0 .. epoch
    BY DEF CaptureInv, CaptureTyped, IsRequest
  <2> QED BY <1>1, <1>3, <2>1 DEF SamplesOwn
<1>8. \A i \in 1 .. Len(requests') : requests'[i].start = requests'[i].end - Window
  BY <1>1 DEF OwnInv
<1> QED BY <1>4, <1>5, <1>6, <1>7, <1>8 DEF OwnInv

LEMMA DiscardOwn == CaptureInv /\ OwnInv /\ Discard => OwnInv'
<1> SUFFICES ASSUME CaptureInv, OwnInv, Discard PROVE OwnInv' OBVIOUS
<1>1. /\ UNCHANGED <<now, epoch, timed, requests, cur, got, result, hops, start,
                     since, awaited, ctl, window>>
      /\ ring # <<>> /\ ring' = Tail(ring) /\ cur = None /\ requests = <<>>
      /\ result = None
  BY DEF Discard, Idle, Release, radio, control, dsp
<1>2. Sampled' BY <1>1, TailKeeps DEF OwnInv
<1>3. Len(requests') = 0 /\ \A r : ~Live(r)' BY <1>1, NoSamples DEF Live
<1>4. Timetable' BY <1>1 DEF OwnInv, Timetable, RetuneAt
<1> QED BY <1>1, <1>2, <1>3, <1>4 DEF OwnInv, CurrentTimed

LEMMA ProcessOwn == CaptureInv /\ OwnInv /\ Process => OwnInv'
<1> SUFFICES ASSUME CaptureInv, OwnInv, Process PROVE OwnInv' OBVIOUS
<1>1. /\ UNCHANGED <<now, epoch, timed, ring, requests, cur, got, hops, start,
                     since, awaited, ctl, window>>
      /\ result' = None
  BY DEF Process, radio, control
<1> QED BY <1>1 DEF OwnInv, Sampled, Timetable, CurrentTimed, Scheduled, RingOwn,
                    SamplesOwn, Own, Live, End, RetuneAt

\* After a round, what is not answered was not before it.
LEMMA RoundLive ==
  ASSUME CaptureInv, TakeRequest \/ Proceed, NEW q, Live(q)'
  PROVE  \E r : Live(r) /\ Kin(q, r)
<1>1. \A r : Kin(r, r) BY DEF Kin
<1>2. CASE TakeRequest
  <2>1. /\ Round(requests[1]) /\ Len(requests) \in Nat /\ Len(requests) >= 1
        /\ Len(requests') = Len(requests) - 1
        /\ \A i \in 1 .. Len(requests) - 1 : requests'[i] = requests[i + 1]
    BY <1>2, TakenRound
  <2>2. CASE cur' # None /\ q = cur'
    <3>1. Kin(q, requests[1]) BY <2>1, <2>2 DEF Round, Unfinished, Answered
    <3>2. 1 \in 1 .. Len(requests) BY <2>1
    <3> QED BY <3>1, <3>2 DEF Live
  <2>3. CASE \E i \in 1 .. Len(requests') : q = requests'[i]
    <3>1. PICK i \in 1 .. Len(requests') : q = requests'[i] BY <2>3
    <3>2. i + 1 \in 1 .. Len(requests) /\ q = requests[i + 1] BY <2>1, <3>1
    <3> QED BY <1>1, <3>2 DEF Live
  <2> QED BY <2>2, <2>3 DEF Live
<1>3. CASE Proceed
  <2>1. Round(cur) /\ requests' = requests /\ cur # None BY <1>3, ProceededRound
  <2>2. CASE cur' # None /\ q = cur'
    <3>1. Kin(q, cur) BY <2>1, <2>2 DEF Round, Unfinished, Answered
    <3> QED BY <2>1, <3>1 DEF Live
  <2>3. CASE \E i \in 1 .. Len(requests') : q = requests'[i]
    BY <1>1, <2>1, <2>3 DEF Live
  <2> QED BY <2>2, <2>3 DEF Live
<1> QED BY <1>2, <1>3

LEMMA RoundOwn == CaptureInv /\ OwnInv /\ (TakeRequest \/ Proceed) => OwnInv'
<1> SUFFICES ASSUME CaptureInv, OwnInv, TakeRequest \/ Proceed PROVE OwnInv' OBVIOUS
<1>1. /\ UNCHANGED <<now, epoch, timed, hops, start, since, awaited, ctl, window>>
      /\ ring # <<>> /\ result = None
  BY TakenRound, ProceededRound DEF radio, control
<1>2. ring' = ring \/ ring' = Tail(ring) BY TakenRound, ProceededRound DEF Round
<1>3. /\ Sampled'
      /\ \A i \in 1 .. Len(ring') : \E j \in 1 .. Len(ring) : ring'[i] = ring[j]
  BY <1>1, <1>2, TailKeeps DEF OwnInv
<1>4. Timetable' BY <1>1 DEF OwnInv, Timetable, RetuneAt
<1>5. ASSUME NEW q, Live(q)' PROVE Scheduled(q)' /\ RingOwn(q)'
  <2>1. PICK r : Live(r) /\ Kin(q, r) BY <1>5, RoundLive
  <2>2. Scheduled(r) /\ RingOwn(r) BY <2>1 DEF OwnInv
  <2> QED BY <1>1, <1>3, <2>1, <2>2, ScheduledKept, RingOwnKept
<1>6. /\ CurrentTimed'
      /\ cur' # None => SamplesOwn(cur, got)'
      /\ result' # None => SamplesOwn(result.request, result.samples)'
      /\ \A i \in 1 .. Len(requests') : requests'[i].start = requests'[i].end - Window
  <2>1. CASE TakeRequest
    <3> DEFINE r == requests[1]
    <3>1. /\ IsRequest(r) /\ Examine(r, <<>>) /\ Len(requests) \in Nat
          /\ 1 \in 1 .. Len(requests) /\ Len(requests') = Len(requests) - 1
          /\ \A i \in 1 .. Len(requests) - 1 : requests'[i] = requests[i + 1]
      BY <2>1, TakenRound
    <3>2. Live(r) BY <3>1 DEF Live
    <3>3. r.n \in Nat /\ r.n > 0 /\ r.start \in Nat /\ r.end \in Nat /\ Window \in Nat
      BY <3>1, Bounds DEF IsRequest, CaptureRequest
    <3>4. RingOwn(r) /\ r.start = r.end - Window BY <3>1, <3>2 DEF OwnInv
    <3>5. SamplesOwn(r, <<>>)
      <4>1. ~(\E i \in 1 .. Len(<<>>) : TRUE) BY NoSamples
      <4> QED BY <4>1 DEF SamplesOwn
    <3>6. Workable(r, <<>>) BY <3>1, <3>3, NoSamples DEF Workable
    <3>7. r.start >= r.end - Window BY <3>3, <3>4
    <3> HIDE DEF r
    <3>8. /\ CurrentTimed'
          /\ cur' # None => SamplesOwn(cur, got)'
          /\ result' # None => SamplesOwn(result.request, result.samples)'
      BY <1>1, <3>1, <3>4, <3>5, <3>6, <3>7, ExamineOwn DEF OwnInv
    <3>9. ASSUME NEW i \in 1 .. Len(requests')
          PROVE  requests'[i].start = requests'[i].end - Window
      <4>1. i + 1 \in 1 .. Len(requests) /\ requests'[i] = requests[i + 1] BY <3>1
      <4> QED BY <4>1 DEF OwnInv
    <3> QED BY <3>8, <3>9
  <2>2. CASE Proceed
    <3>1. /\ IsRequest(cur) /\ Examine(cur, got) /\ got \in Seq(StreamSample)
          /\ Len(got) < cur.n /\ cur # None /\ requests' = requests
      BY <2>2, ProceededRound
    <3>2. Live(cur) /\ Workable(cur, got) BY <3>1 DEF Live, Workable
    <3>3. RingOwn(cur) /\ SamplesOwn(cur, got) BY <3>1, <3>2 DEF OwnInv
    <3>4. 1 \in 1 .. Len(ring)
      <4>1. Len(ring) \in Nat /\ Len(ring) >= 1
        BY <1>1, QueueFacts DEF CaptureInv, RingTyped
      <4> QED BY <4>1
    <3>5. cur.epoch = epoch => /\ cur.start >= cur.end - Window
                               /\ got # <<>> => ring[1].at >= cur.start
      BY <3>1, <3>4 DEF OwnInv, CurrentTimed
    <3>6. /\ CurrentTimed'
          /\ cur' # None => SamplesOwn(cur, got)'
          /\ result' # None => SamplesOwn(result.request, result.samples)'
      BY <1>1, <3>1, <3>2, <3>3, <3>5, ExamineOwn DEF OwnInv
    <3> QED BY <3>1, <3>6 DEF OwnInv
  <2> QED BY <2>1, <2>2
<1> QED BY <1>3, <1>4, <1>5, <1>6 DEF OwnInv

LEMMA NextOwn == CaptureInv /\ OwnInv /\ [Next]_vars => OwnInv'
<1> SUFFICES ASSUME CaptureInv, OwnInv, [Next]_vars PROVE OwnInv' OBVIOUS
<1>1. CASE UNCHANGED vars
  BY <1>1, OwnKept DEF vars, radio, control, dsp
<1> QED
  BY <1>1, ReceiveOwn, HopOwn, AskOwn, WaitedOwn, ReconfigureOwn, DiscardOwn,
     RoundOwn, ProcessOwn
  DEF Next, Ctl, Dsp
-----------------------------------------------------------------------------
(* A flawless stream.                                                      *)

Flawless == faults = 0 /\ ~overdue /\ ~stranded

\* The time of the next sample the dsp thread will see.
NextAt == IF ring = <<>> THEN now ELSE ring[1].at

\* Nothing is missing from the stream.
Contiguous ==
  \A i \in 1 .. Len(ring) :
    /\ ~ring[i].overflow /\ Len(ring[i].samples) = ChunkLength
    /\ End(ring[i]) = IF i = Len(ring) THEN now ELSE ring[i + 1].at

Whole(r) == r.epoch = epoch /\ r.punctual /\ r.n = Window /\ r.end = r.start + Window

\* The samples the capture is to have, as far as there are any.
Cut(r, samples) == \A i \in 1 .. Len(samples) :
                     samples[i] = [at |-> r.start + (i - 1), tune |-> r.tune]

\* As long as the stream is flawless, what is asked for is in the order of
\* time, and begins where or after the stream goes on.
ExactInv ==
  /\ faults \in Nat
  /\ Flawless =>
       /\ Contiguous
       /\ \A i \in 1 .. Len(requests) : Whole(requests[i])
       /\ \A i, j \in 1 .. Len(requests) : i < j => requests[i].end <= requests[j].start
       /\ cur = None => \A i \in 1 .. Len(requests) : NextAt <= requests[i].start
       /\ cur # None =>
            /\ Whole(cur) /\ Cut(cur, got)
            /\ \A i \in 1 .. Len(requests) : cur.end <= requests[i].start
            /\ IF got = <<>> THEN NextAt <= cur.start ELSE NextAt = cur.start + Len(got)
       /\ result # None => /\ result.valid /\ Len(result.samples) = Window
                           /\ Cut(result.request, result.samples)

\* The stream goes on after a chunk where the chunk ends.
LEMMA NextFacts ==
  ASSUME CaptureInv, Sampled
  PROVE  /\ NextAt \in Nat /\ NextAt <= now
         /\ ring # <<>> =>
              /\ NextAt = ring[1].at /\ 1 \in 1 .. Len(ring)
              /\ Head(ring) = ring[1] /\ IsChunk(ring[1])
<1>1. now \in Nat BY DEF CaptureInv, ControlTyped
<1>2. CASE ring = <<>> BY <1>1, <1>2 DEF NextAt
<1>3. CASE ring # <<>>
  <2>1. Len(ring) \in Nat /\ Len(ring) >= 1 /\ Head(ring) = ring[1]
    BY <1>3, QueueFacts DEF CaptureInv, RingTyped
  <2>2. 1 \in 1 .. Len(ring) BY <2>1
  <2>3. IsChunk(ring[1]) BY <2>2 DEF CaptureInv, RingTyped
  <2>4. End(ring[1]) <= now BY <2>2 DEF Sampled
  <2>5. ring[1].at \in Nat /\ Len(ring[1].samples) \in Nat BY <2>3, QueueFacts DEF IsChunk
  <2>6. ring[1].at <= now BY <1>1, <2>4, <2>5 DEF End
  <2> QED BY <1>3, <2>1, <2>2, <2>3, <2>5, <2>6 DEF NextAt
<1> QED BY <1>2, <1>3

LEMMA TailContiguous ==
  ASSUME CaptureInv, Sampled, Contiguous, ring # <<>>, ring' = Tail(ring), now' = now
  PROVE  Contiguous' /\ NextAt' = End(ring[1])
<1>0. PICK n \in Nat : n = Len(ring) BY QueueFacts DEF CaptureInv, RingTyped
<1>1. /\ n >= 1 /\ Len(ring') = n - 1 /\ IsSeq(ring')
      /\ \A i \in 1 .. n - 1 : ring'[i] = ring[i + 1]
  BY <1>0, QueueFacts DEF CaptureInv, RingTyped
<1>2. \A i \in 1 .. n :
        /\ ~ring[i].overflow /\ Len(ring[i].samples) = ChunkLength
        /\ End(ring[i]) = IF i = n THEN now ELSE ring[i + 1].at
  BY <1>0 DEF Contiguous
<1>3. ASSUME NEW i \in 1 .. n - 1
      PROVE  /\ ~ring'[i].overflow /\ Len(ring'[i].samples) = ChunkLength
             /\ End(ring'[i]) = IF i = n - 1 THEN now ELSE ring'[i + 1].at
  <2>1. i + 1 \in 1 .. n /\ ring'[i] = ring[i + 1] /\ (i + 1 = n <=> i = n - 1) BY <1>1
  <2>2. i # n - 1 => i + 1 \in 1 .. n - 1 BY <1>1
  <2>3. i # n - 1 => ring'[i + 1] = ring[i + 1 + 1] BY <1>1, <2>2
  <2> QED BY <1>2, <2>1, <2>3
<1>4. Contiguous' BY <1>1, <1>3 DEF Contiguous, End
<1>5. NextAt' = End(ring[1])
  <2>1. 1 \in 1 .. n BY <1>1
  <2>2. CASE n = 1
    <3>1. Len(ring') = 0 BY <1>1, <2>2
    <3>2. ring' = <<>>
      <4>1. PICK S : ring' \in Seq(S) BY <1>1 DEF IsSeq
      <4> QED BY <3>1, <4>1
    <3>3. End(ring[1]) = now BY <1>2, <2>1, <2>2
    <3> QED BY <3>2, <3>3 DEF NextAt
  <2>3. CASE n # 1
    <3>1. 1 \in 1 .. n - 1 /\ n - 1 # 0 BY <1>1, <2>3
    <3>2. ring' # <<>> BY <1>1, <3>1, NoSamples
    <3>3. ring'[1] = ring[1 + 1] BY <1>1, <3>1
    <3>4. End(ring[1]) = ring[1 + 1].at BY <1>2, <2>1, <2>3
    <3> QED BY <3>2, <3>3, <3>4 DEF NextAt
  <2> QED BY <2>2, <2>3
<1> QED BY <1>4, <1>5

\* What a round makes of a capture of a flawless stream.
Exactly(r) ==
  /\ Contiguous' /\ NextAt' \in Nat
  /\ \/ /\ cur' = r /\ result' = None /\ Cut(r, got')
        /\ IF got' = <<>> THEN NextAt' <= r.start ELSE NextAt' = r.start + Len(got')
     \/ /\ cur' = None /\ NextAt' <= r.end
        /\ result'.valid /\ result'.request = r
        /\ Len(result'.samples) = Window /\ Cut(r, result'.samples)

\* The place in the chunk where the capture goes on.
GoesOn(r, samples, offset) == /\ offset <= Len(ring[1].samples)
                              /\ ring[1].at + offset = r.start + Len(samples)

\* It takes the samples that are next, until it has them all.
LEMMA TakeExact ==
  ASSUME CaptureInv, Sampled, Contiguous, ring # <<>>, UNCHANGED <<now, epoch>>,
         faults' = faults, faults = 0,
         NEW r, NEW samples, Workable(r, samples), Whole(r), RingOwn(r), Cut(r, samples),
         result = None, NEW offset \in Nat, GoesOn(r, samples, offset),
         Take(r, samples, offset)
  PROVE  Exactly(r)
<1> DEFINE chunk == Head(ring)
           available == Len(chunk.samples) - offset
           needed == r.n - Len(samples)
           taken == IF available < needed THEN available ELSE needed
           all == samples \o SubSeq(chunk.samples, offset + 1, offset + taken)
<1>1. IsChunk(chunk) /\ chunk = ring[1] /\ 1 \in 1 .. Len(ring) /\ NextAt = chunk.at
  BY NextFacts
<1> HIDE DEF chunk
<1>2. /\ Len(chunk.samples) \in Nat /\ chunk.at \in Nat
      /\ chunk.samples \in Seq(StreamSample) /\ samples \in Seq(StreamSample)
      /\ Len(samples) \in Nat /\ Window \in Nat /\ r.n = Window
      /\ r.start \in Nat /\ r.end = r.start + Window /\ r.end - Window = r.start
      /\ Len(samples) < r.n /\ r # None
      /\ MinSamples \in Nat /\ MinSamples <= Window
  <2>1. r \in CaptureRequest BY DEF Workable, IsRequest
  <2>2. r.start \in Nat /\ r # None BY <2>1, NoneAssumption DEF CaptureRequest
  <2>3. chunk.at \in Nat /\ chunk.samples \in Seq(StreamSample) BY <1>1 DEF IsChunk
  <2>4. Window \in Nat /\ MinSamples \in Nat /\ MinSamples <= Window
    BY CaptureAssumption
  <2>5. r.n = Window /\ r.end = r.start + Window BY DEF Whole
  <2>6. r.end - Window = r.start BY <2>2, <2>4, <2>5
  <2> QED BY <2>2, <2>3, <2>4, <2>5, <2>6 DEF Workable
<1>3. /\ End(chunk) = chunk.at + Len(chunk.samples)
      /\ \A k \in 1 .. Len(chunk.samples) :
           chunk.samples[k].at = chunk.at + (k - 1) /\ Own(r, chunk.samples[k])
  BY <1>1 DEF Sampled, RingOwn, Whole, End
<1>4. chunk.at + offset = r.start + Len(samples) /\ offset <= Len(chunk.samples)
  BY <1>1 DEF GoesOn
<1>5. /\ ReleaseConsumed(taken, available)
      /\ IF Len(all) = r.n THEN Complete(r, all, TRUE) ELSE Continue(r, all)
  <2>1. ~Fault BY DEF Fault
  <2> QED BY <2>1 DEF Take, chunk
<1>6. /\ available \in Nat /\ available = Len(chunk.samples) - offset
      /\ taken \in Nat /\ offset + taken <= Len(chunk.samples)
      /\ taken <= needed /\ taken <= available
      /\ taken = available \/ taken = needed
  <2>1. available \in Nat /\ needed \in Nat BY <1>2, <1>4
  <2>2. available = Len(chunk.samples) - offset OBVIOUS
  <2> HIDE DEF available, needed
  <2>3. /\ taken \in Nat /\ taken <= available /\ taken <= needed
        /\ taken = available \/ taken = needed
    BY <2>1
  <2> QED BY <1>2, <2>1, <2>2, <2>3
<1> HIDE DEF taken, available
<1>7. /\ all \in Seq(StreamSample) /\ Len(all) = Len(samples) + taken
      /\ \A i \in 1 .. Len(samples) : all[i] = samples[i]
      /\ \A i \in 1 .. taken : all[Len(samples) + i] = chunk.samples[offset + i]
  <2>1. all = Joined(samples, chunk.samples, offset, taken) BY DEF Joined
  <2>2. /\ samples \in Seq(StreamSample) /\ chunk.samples \in Seq(StreamSample)
        /\ taken \in Nat /\ offset + taken <= Len(chunk.samples)
    BY <1>2, <1>6
  <2> HIDE DEF all
  <2>3. IsJoined(all, samples, chunk.samples, offset, taken)
    BY <2>1, <2>2, JoinedFacts, Zenon
  <2> QED BY <2>3 DEF IsJoined
<1> HIDE DEF all
<1>8. /\ Len(all) <= Window /\ Len(all) = Len(samples) + taken
      /\ Len(samples) \in Nat /\ taken \in Nat /\ offset \in Nat /\ chunk.at \in Nat
      /\ r.start \in Nat
  BY <1>2, <1>6, <1>7
<1>9. Cut(r, all)
  <2> SUFFICES ASSUME NEW i \in 1 .. Len(all)
               PROVE  all[i] = [at |-> r.start + (i - 1), tune |-> r.tune]
    BY DEF Cut
  <2>1. CASE i \in 1 .. Len(samples) BY <1>7, <2>1 DEF Cut
  <2>2. CASE ~(i \in 1 .. Len(samples))
    <3>1. PICK k \in 1 .. taken : i = Len(samples) + k
      <4>1. i - Len(samples) \in 1 .. taken /\ i = Len(samples) + (i - Len(samples))
        BY <1>8, <2>2
      <4> QED BY <4>1
    <3>2. offset + k \in 1 .. Len(chunk.samples) BY <1>2, <1>6
    <3>3. all[i] = chunk.samples[offset + k] BY <1>7, <3>1
    <3>4. all[i].at = chunk.at + (offset + k - 1) /\ Own(r, all[i]) BY <1>3, <3>2, <3>3
    <3>5. all[i].at = r.start + (i - 1)
      <4>1. k \in Nat BY <1>8
      <4>2. chunk.at + (offset + k - 1) = r.start + (Len(samples) + k - 1)
        <5>1. PICK a, o, c, m : /\ a = chunk.at /\ o = offset /\ c = r.start
                                /\ m = Len(samples)
          OBVIOUS
        <5>2. /\ a \in Nat /\ o \in Nat /\ c \in Nat /\ m \in Nat /\ a + o = c + m
          BY <1>4, <1>8, <5>1
        <5>3. a + (o + k - 1) = c + (m + k - 1) BY <4>1, <5>2
        <5> QED BY <5>1, <5>3
      <4> QED BY <3>1, <3>4, <4>2
    <3>6. r.end - Window <= all[i].at /\ all[i].at < r.end
      BY <1>2, <1>7, <1>8, <3>5
    <3>7. all[i].tune = r.tune BY <3>4, <3>6 DEF Own
    <3>8. all[i] \in StreamSample BY <1>7
    <3>9. all[i] = [at |-> all[i].at, tune |-> all[i].tune] BY <3>8 DEF StreamSample
    <3> QED BY <3>5, <3>7, <3>9
  <2> QED BY <2>1, <2>2
<1>10. CASE taken = available
  <2>1. ring' = Tail(ring) BY <1>5, <1>10 DEF ReleaseConsumed, Release
  <2>2. Contiguous' /\ NextAt' = End(chunk) BY <1>1, <2>1, TailContiguous
  <2>3. NextAt' = r.start + Len(all)
    <3>1. /\ End(chunk) = chunk.at + Len(chunk.samples) /\ Len(chunk.samples) \in Nat
          /\ taken = Len(chunk.samples) - offset
      BY <1>2, <1>3, <1>6, <1>10
    <3>2. chunk.at + Len(chunk.samples) = r.start + (Len(samples) + taken)
      <4>1. PICK a, o, c, m, l : /\ a = chunk.at /\ o = offset /\ c = r.start
                                 /\ m = Len(samples) /\ l = Len(chunk.samples)
        OBVIOUS
      <4>2. /\ a \in Nat /\ o \in Nat /\ c \in Nat /\ m \in Nat /\ l \in Nat
            /\ a + o = c + m /\ taken \in Nat /\ taken = l - o
        BY <1>4, <1>8, <3>1, <4>1
      <4>3. a + l = c + (m + taken) BY <4>2
      <4> QED BY <4>1, <4>3
    <3> QED BY <1>8, <2>2, <3>1, <3>2
  <2>4. NextAt' \in Nat BY <1>8, <2>3
  <2>5. CASE Len(all) = r.n
    <3>1. Complete(r, all, TRUE) BY <1>5, <2>5
    <3>2. /\ cur' = None /\ result'.request = r /\ result'.samples = all
          /\ result'.valid = (Len(all) >= MinSamples)
      BY <3>1 DEF Complete
    <3>3. NextAt' <= r.end /\ Len(all) >= MinSamples BY <1>2, <2>3, <2>5
    <3> QED BY <1>2, <1>9, <2>2, <2>4, <2>5, <3>2, <3>3 DEF Exactly
  <2>6. CASE Len(all) # r.n
    <3>1. cur' = r /\ got' = all /\ result' = None BY <1>5, <2>6 DEF Continue
    <3>2. all = <<>> => NextAt' <= r.start BY <1>2, <2>3, NoSamples
    <3> QED BY <1>9, <2>2, <2>3, <2>4, <3>1, <3>2 DEF Exactly
  <2> QED BY <2>5, <2>6
<1>11. CASE taken # available
  <2>1. Len(all) = r.n
    <3>1. taken = r.n - Len(samples) BY <1>6, <1>11 DEF needed
    <3> QED BY <1>2, <1>7, <3>1
  <2>2. Complete(r, all, TRUE) BY <1>5, <2>1
  <2>3. /\ cur' = None /\ result'.request = r /\ result'.samples = all
        /\ result'.valid = (Len(all) >= MinSamples)
    BY <2>2 DEF Complete
  <2>4. ring' = ring BY <1>5, <1>11 DEF ReleaseConsumed
  <2>5. Contiguous' BY <2>4 DEF Contiguous, End
  <2>6. NextAt' = chunk.at BY <1>1, <2>4 DEF NextAt
  <2>7. NextAt' <= r.end /\ Len(all) >= MinSamples BY <1>2, <1>4, <2>1, <2>6
  <2> QED BY <1>2, <1>9, <2>1, <2>3, <2>5, <2>6, <2>7 DEF Exactly
<1> QED BY <1>10, <1>11

\* It is neither late nor past its time.
LEMMA ExamineExact ==
  ASSUME CaptureInv, Sampled, Contiguous, ring # <<>>, UNCHANGED <<now, epoch>>,
         faults' = 0, faults \in Nat, faults = 0,
         NEW r, NEW samples, Workable(r, samples), Whole(r), RingOwn(r), Cut(r, samples),
         result = None, Examine(r, samples),
         IF samples = <<>> THEN NextAt <= r.start ELSE NextAt = r.start + Len(samples)
  PROVE  Exactly(r)
<1> DEFINE chunk == Head(ring)
           late == chunk.at - r.start
<1>1. IsChunk(chunk) /\ chunk = ring[1] /\ 1 \in 1 .. Len(ring) /\ NextAt = chunk.at
  BY NextFacts
<1>2. ~chunk.overflow /\ Len(chunk.samples) = ChunkLength BY <1>1 DEF Contiguous
<1>3. /\ chunk.at \in Nat /\ ChunkLength \in Nat /\ Window \in Nat /\ Slack \in Nat
      /\ r.start \in Nat /\ r.end = r.start + Window /\ Len(samples) \in Nat
      /\ Len(samples) < Window /\ r # None
  <2>1. r \in CaptureRequest BY DEF Workable, IsRequest
  <2>2. r.start \in Nat /\ r # None BY <2>1, NoneAssumption DEF CaptureRequest
  <2>3. chunk.at \in Nat BY <1>1 DEF IsChunk
  <2> QED BY <2>2, <2>3, CaptureAssumption DEF Workable, Whole
<1>4. samples = <<>> => Len(samples) = 0 BY NoSamples
<1>5. chunk.at <= r.start + Len(samples) BY <1>1, <1>3, <1>4
<1>6. IF samples = <<>> THEN Begin(r) ELSE Take(r, samples, 0)
  <2>1. ~(chunk.at > r.end + Slack) BY <1>3, <1>5
  <2> QED BY <1>2, <2>1 DEF Examine
<1>7. faults' = faults OBVIOUS
<1>8. CASE samples # <<>>
  <2>1. Take(r, samples, 0) BY <1>6, <1>8
  <2>2. 0 \in Nat /\ 0 <= Len(ring[1].samples) /\ ring[1].at + 0 = r.start + Len(samples)
    BY <1>1, <1>2, <1>3, <1>8
  <2> QED BY <1>7, <2>1, <2>2, TakeExact DEF GoesOn
<1>9. CASE samples = <<>>
  <2>1. chunk.at <= r.start BY <1>1, <1>9
  <2>2. ~(late > 1) BY <1>3, <2>1
  <2>3. CASE chunk.at + Len(chunk.samples) <= r.start /\ Release /\ Continue(r, <<>>)
    <3>1. ring' = Tail(ring) /\ cur' = r /\ got' = <<>> /\ result' = None
      BY <2>3 DEF Release, Continue
    <3>2. Contiguous' /\ NextAt' = End(chunk) BY <1>1, <3>1, TailContiguous
    <3>3. NextAt' <= r.start BY <2>3, <3>2 DEF End
    <3>4. NextAt' \in Nat BY <1>2, <1>3, <3>2 DEF End
    <3> QED BY <1>9, <3>1, <3>2, <3>3, <3>4 DEF Exactly
  <2>4. CASE /\ late <= 1
             /\ chunk.at + Len(chunk.samples) > r.start
             /\ Take(r, <<>>, IF late < 0 THEN -late ELSE 0)
    <3> DEFINE offset == IF late < 0 THEN -late ELSE 0
    <3> HIDE DEF chunk
    <3>1. /\ offset \in Nat /\ chunk.at + offset = r.start
          /\ offset <= Len(chunk.samples)
      BY <1>2, <1>3, <2>1, <2>4
    <3>2. r.start = r.start + Len(samples) BY <1>3, <1>4, <1>9
    <3>3. Take(r, samples, offset) BY <1>9, <2>4
    <3> HIDE DEF offset, late
    <3>4. ring[1].at + offset = r.start + Len(samples) /\ offset <= Len(ring[1].samples)
      BY <1>1, <3>1, <3>2
    <3> QED BY <1>7, <3>1, <3>3, <3>4, TakeExact DEF GoesOn
  <2> QED BY <1>6, <1>9, <2>2, <2>3, <2>4 DEF Begin
<1> QED BY <1>8, <1>9

LEMMA InitExact == Init => ExactInv
<1> SUFFICES ASSUME Init PROVE ExactInv OBVIOUS
<1>1. /\ ring = <<>> /\ requests = <<>> /\ cur = None /\ result = None /\ faults = 0
      /\ Len(ring) = 0 /\ Len(requests) = 0
  BY DEF Init
<1> QED BY <1>1 DEF ExactInv, Contiguous

\* Steps that touch neither the stream nor the captures.
LEMMA ExactKept ==
  ASSUME ExactInv, UNCHANGED <<now, epoch, ring, requests, cur, got, faults, overdue,
                               stranded>>,
         result' = result \/ result' = None
  PROVE  ExactInv'
<1>1. ASSUME Flawless' PROVE Flawless BY <1>1 DEF Flawless
<1> QED BY <1>1 DEF ExactInv, Contiguous, End, NextAt, Whole, Cut

LEMMA ReceiveExact == CaptureInv /\ OwnInv /\ ExactInv /\ Receive => ExactInv'
<1> SUFFICES ASSUME CaptureInv, OwnInv, ExactInv, Receive PROVE ExactInv' OBVIOUS
<1>1. /\ now' = now + ChunkLength
      /\ UNCHANGED <<epoch, requests, cur, got, result, overdue, stranded>>
      /\ faults' = faults \/ faults' = faults + 1
  BY DEF Receive, dsp, Fault
<1>2. now \in Nat /\ ChunkLength \in Nat /\ faults \in Nat /\ faults' \in Nat
  <2>1. now \in Nat BY Bounds DEF CaptureInv, ControlTyped
  <2>2. faults \in Nat BY DEF ExactInv
  <2> QED BY <1>1, <2>1, <2>2, Bounds
<1> SUFFICES ASSUME Flawless' PROVE ExactInv' BY <1>2 DEF ExactInv
<1>3. Flawless /\ ~Fault /\ faults' = 0 BY <1>1, <1>2 DEF Flawless, Fault
<1> DEFINE samples == [i \in 1 .. ChunkLength |-> Sample(now + i - 1)]
<1>4. PICK c : /\ ring' = Append(ring, c) /\ c.at = now /\ ~c.overflow
               /\ Len(c.samples) = ChunkLength
  <2>1. ring' = Append(ring, Chunk(samples, FALSE)) BY <1>3 DEF Receive
  <2>2. Len(samples) = ChunkLength BY <1>2
  <2> HIDE DEF samples
  <2> QED BY <2>1, <2>2 DEF Chunk
<1> HIDE DEF samples
<1>5. PICK n \in Nat : n = Len(ring) BY QueueFacts DEF CaptureInv, RingTyped
<1>6. /\ Len(ring') = n + 1 /\ ring'[n + 1] = c
      /\ \A i \in 1 .. n : ring'[i] = ring[i]
      /\ ring # <<>> => n >= 1
  BY <1>4, <1>5, QueueFacts DEF CaptureInv, RingTyped
<1>7. Contiguous'
  <2> SUFFICES ASSUME NEW i \in 1 .. n + 1
               PROVE  /\ ~ring'[i].overflow /\ Len(ring'[i].samples) = ChunkLength
                      /\ End(ring'[i]) = IF i = n + 1 THEN now' ELSE ring'[i + 1].at
    BY <1>6 DEF Contiguous, End
  <2>1. CASE i = n + 1 BY <1>1, <1>4, <1>6, <2>1 DEF End
  <2>2. CASE i # n + 1
    <3>1. i \in 1 .. n /\ (i # n => i + 1 \in 1 .. n) BY <2>2
    <3>2. /\ ~ring[i].overflow /\ Len(ring[i].samples) = ChunkLength
          /\ End(ring[i]) = IF i = n THEN now ELSE ring[i + 1].at
      BY <1>3, <1>5, <3>1 DEF ExactInv, Contiguous
    <3>3. ring'[i] = ring[i] BY <1>6, <3>1
    <3>4. CASE i = n BY <1>4, <1>6, <2>2, <3>2, <3>3, <3>4
    <3>5. CASE i # n BY <1>6, <2>2, <3>1, <3>2, <3>3, <3>5
    <3> QED BY <3>4, <3>5
  <2> QED BY <2>1, <2>2
<1>8. NextAt' = NextAt
  <2>1. ring' # <<>>
    <3>1. n + 1 # 0 BY <1>5
    <3> QED BY <1>6, <3>1, NoSamples
  <2>2. CASE ring = <<>>
    <3>1. n = 0 BY <1>5, <2>2, NoSamples
    <3>2. ring'[1] = c BY <1>6, <3>1
    <3> QED BY <1>4, <2>1, <2>2, <3>2 DEF NextAt
  <2>3. CASE ring # <<>>
    <3>1. 1 \in 1 .. n BY <1>6, <2>3
    <3> QED BY <1>6, <2>1, <2>3, <3>1 DEF NextAt
  <2> QED BY <2>2, <2>3
<1> QED BY <1>1, <1>2, <1>3, <1>7, <1>8 DEF ExactInv, Whole, Cut

\* What is asked for in time begins after all that was asked for before.
LEMMA AskExact == CaptureInv /\ OwnInv /\ ExactInv /\ Ask => ExactInv'
<1> SUFFICES ASSUME CaptureInv, OwnInv, ExactInv, Ask PROVE ExactInv' OBVIOUS
<1>1. /\ UNCHANGED <<now, epoch, ring, cur, got, result, faults, stranded>>
      /\ ctl = "waiting" /\ window < Windows
  BY DEF Ask, dsp
<1>2. CASE UNCHANGED <<requests, overdue>> BY <1>1, <1>2, ExactKept
<1>3. CASE /\ requests' = Append(requests, Request)
           /\ overdue' = (overdue \/ now > WindowStart - DdcGuard)
  <2> SUFFICES ASSUME Flawless' PROVE ExactInv' BY <1>1 DEF ExactInv
  <2>1. Flawless /\ ~(now > WindowStart - DdcGuard) BY <1>1, <1>3 DEF Flawless
  <2>2. PICK q : q = Request OBVIOUS
  <2>3. /\ q \in CaptureRequest /\ q.epoch = epoch /\ q.start = WindowStart
        /\ q.n = Window /\ q.end = q.start + Window
        /\ q.punctual = (now <= RetuneAt(window)) /\ WindowStart \in Nat
        /\ window \in Nat /\ WindowStart - DdcGuard = RetuneAt(window)
    BY <1>1, <2>2, RequestTimes
  <2>4. now \in Nat /\ DdcGuard \in Nat /\ start \in Nat
    BY Bounds DEF CaptureInv, ControlTyped
  <2>5. now <= RetuneAt(window) /\ RetuneAt(window) <= q.start /\ RetuneAt(window) \in Int
        /\ q.start \in Nat
    BY <2>1, <2>3, <2>4
  <2>6. Whole(q) BY <2>3, <2>5 DEF Whole
  <2>7. ASSUME NEW r, Live(r), Whole(r) PROVE r.end <= q.start
    <3>1. Scheduled(r) /\ r.epoch = epoch BY <2>7 DEF OwnInv, Whole
    <3>2. r.tune[2] \in Nat /\ r.end \in Nat BY <2>7, LiveTyped
    <3>3. CASE r.end <= now BY <2>4, <2>5, <3>2, <3>3
    <3>4. CASE r.tune[2] < window /\ r.end = RetuneAt(r.tune[2] + 1)
      <4>1. r.tune[2] + 1 \in Nat /\ r.tune[2] + 1 <= window BY <2>3, <3>2, <3>4
      <4>2. RetuneAt(r.tune[2] + 1) <= RetuneAt(window) BY <2>3, <2>4, <4>1, RetuneGrows
      <4> QED BY <2>5, <3>2, <3>4, <4>2
    <3> QED BY <1>1, <3>1, <3>3, <3>4 DEF Scheduled
  <2>8. PICK n \in Nat : n = Len(requests) BY DEF CaptureInv, RequestsTyped
  <2>9. /\ Len(requests') = n + 1 /\ requests'[n + 1] = q
        /\ \A i \in 1 .. n : requests'[i] = requests[i]
    BY <1>3, <2>2, <2>3, <2>8 DEF CaptureInv, RequestsTyped
  <2>10. \A i \in 1 .. n + 1 : i \in 1 .. n \/ i = n + 1 BY <2>8
  <2>11. \A i \in 1 .. n : Whole(requests[i]) /\ requests[i].end <= q.start
    <3>1. \A i \in 1 .. n : Live(requests[i]) /\ Whole(requests[i])
      BY <2>1, <2>8 DEF Live, ExactInv
    <3> QED BY <2>7, <3>1
  <2>12. NextAt' = NextAt /\ NextAt <= q.start
    <3>1. NextAt \in Nat /\ NextAt <= now BY NextFacts DEF OwnInv
    <3>2. NextAt <= q.start BY <2>4, <2>5, <3>1
    <3> QED BY <1>1, <3>2 DEF NextAt
  <2>13. Contiguous' BY <1>1, <2>1 DEF ExactInv, Contiguous, End
  <2>14. \A i \in 1 .. n + 1 : Whole(requests[i])'
    <3> SUFFICES ASSUME NEW i \in 1 .. n + 1 PROVE Whole(requests'[i])
      BY <1>1 DEF Whole
    <3>1. CASE i \in 1 .. n BY <2>9, <2>11, <3>1
    <3>2. CASE i = n + 1 BY <2>6, <2>9, <3>2
    <3> QED BY <2>10, <3>1, <3>2
  <2>15. \A i, j \in 1 .. n + 1 : i < j => requests'[i].end <= requests'[j].start
    <3> SUFFICES ASSUME NEW i \in 1 .. n + 1, NEW j \in 1 .. n + 1, i < j
                 PROVE  requests'[i].end <= requests'[j].start
      OBVIOUS
    <3>1. i \in 1 .. n BY <2>8
    <3>2. CASE j \in 1 .. n BY <2>1, <2>8, <2>9, <3>1, <3>2 DEF ExactInv
    <3>3. CASE j = n + 1 BY <2>9, <2>11, <3>1, <3>3
    <3> QED BY <2>10, <3>2, <3>3
  <2>16. cur = None => \A i \in 1 .. n + 1 : NextAt <= requests'[i].start
    BY <2>1, <2>8, <2>9, <2>10, <2>12 DEF ExactInv
  <2>17. cur # None => /\ Whole(cur) /\ Cut(cur, got)
                       /\ \A i \in 1 .. n + 1 : cur.end <= requests'[i].start
                       /\ IF got = <<>> THEN NextAt <= cur.start
                                        ELSE NextAt = cur.start + Len(got)
    <3> SUFFICES ASSUME cur # None
                 PROVE  /\ Whole(cur) /\ Cut(cur, got)
                        /\ \A i \in 1 .. n + 1 : cur.end <= requests'[i].start
                        /\ IF got = <<>> THEN NextAt <= cur.start
                                         ELSE NextAt = cur.start + Len(got)
      OBVIOUS
    <3>1. /\ Whole(cur) /\ Cut(cur, got)
          /\ \A i \in 1 .. n : cur.end <= requests[i].start
          /\ IF got = <<>> THEN NextAt <= cur.start ELSE NextAt = cur.start + Len(got)
      BY <2>1, <2>8 DEF ExactInv
    <3>2. cur.end <= q.start
      <4>1. Live(cur) BY DEF Live
      <4> QED BY <2>7, <3>1, <4>1
    <3> QED BY <2>9, <2>10, <3>1, <3>2
  <2>18. faults' \in Nat
         /\ (result' # None => /\ result'.valid /\ Len(result'.samples) = Window
                               /\ Cut(result'.request, result'.samples))
    BY <1>1, <2>1 DEF ExactInv
  <2>19. (cur # None => Whole(cur))' BY <1>1, <2>17 DEF Whole
  <2> QED
    BY <1>1, <2>9, <2>12, <2>13, <2>14, <2>15, <2>16, <2>17, <2>18, <2>19
    DEF ExactInv, Cut
<1> QED BY <1>2, <1>3 DEF Ask

LEMMA ReconfigureExact == CaptureInv /\ ExactInv /\ Reconfigure => ExactInv'
<1> SUFFICES ASSUME CaptureInv, ExactInv, Reconfigure PROVE ExactInv' OBVIOUS
<1>1. /\ UNCHANGED <<requests, cur, got, result, faults, overdue>> /\ ring' = <<>>
      /\ stranded' = (stranded \/ Outstanding # <<>>)
  BY DEF Reconfigure, dsp
<1> SUFFICES ASSUME Flawless' PROVE ExactInv' BY <1>1 DEF ExactInv
<1>2. Flawless /\ Outstanding = <<>> BY <1>1 DEF Flawless
<1>3. cur = None /\ Len(requests) = 0 BY <1>2, NoneOutstanding
<1>4. Len(ring') = 0 BY <1>1
<1> QED BY <1>1, <1>2, <1>3, <1>4 DEF ExactInv, Contiguous, Cut

LEMMA DiscardExact == CaptureInv /\ OwnInv /\ ExactInv /\ Discard => ExactInv'
<1> SUFFICES ASSUME CaptureInv, OwnInv, ExactInv, Discard PROVE ExactInv' OBVIOUS
<1>1. /\ UNCHANGED <<now, requests, cur, result, faults, overdue, stranded>>
      /\ ring # <<>> /\ ring' = Tail(ring) /\ cur = None /\ requests = <<>>
      /\ result = None
  BY DEF Discard, Idle, Release, radio, dsp, history
<1> SUFFICES ASSUME Flawless' PROVE ExactInv' BY <1>1 DEF ExactInv
<1>2. Flawless BY <1>1 DEF Flawless
<1>3. Contiguous' BY <1>1, <1>2, TailContiguous DEF OwnInv, ExactInv
<1>4. Len(requests') = 0 BY <1>1, NoSamples
<1> QED BY <1>1, <1>2, <1>3, <1>4 DEF ExactInv

LEMMA RoundExact == CaptureInv /\ OwnInv /\ ExactInv /\ (TakeRequest \/ Proceed) => ExactInv'
<1> SUFFICES ASSUME CaptureInv, OwnInv, ExactInv, TakeRequest \/ Proceed PROVE ExactInv'
  OBVIOUS
<1>1. /\ UNCHANGED <<now, epoch, overdue, stranded>> /\ ring # <<>> /\ result = None
      /\ faults \in Nat
  BY TakenRound, ProceededRound DEF radio, ExactInv
<1>2. faults' \in Nat /\ (faults' = 0 => faults = 0)
  <2>1. faults' = faults \/ faults' = faults + 1
    BY TakenRound, ProceededRound DEF Examine, Begin, Take, Fault
  <2> QED BY <1>1, <2>1
<1> SUFFICES ASSUME Flawless' PROVE ExactInv' BY <1>2 DEF ExactInv
<1>3. Flawless /\ faults' = 0 /\ faults = 0 BY <1>1, <1>2 DEF Flawless
<1>4. Sampled /\ Contiguous BY <1>3 DEF OwnInv, ExactInv
\* The round's capture, and what is asked for after it.
<1>5. PICK r : /\ Exactly(r) /\ Whole(r) /\ r # None /\ IsRequest(r)
               /\ \A i \in 1 .. Len(requests') :
                    r.end <= requests'[i].start /\ Whole(requests'[i])
               /\ \A i, j \in 1 .. Len(requests') :
                    i < j => requests'[i].end <= requests'[j].start
  <2>1. CASE TakeRequest
    <3>1. /\ IsRequest(requests[1]) /\ Examine(requests[1], <<>>) /\ cur = None
          /\ Len(requests) \in Nat
          /\ 1 \in 1 .. Len(requests) /\ Len(requests') = Len(requests) - 1
          /\ \A i \in 1 .. Len(requests) - 1 : requests'[i] = requests[i + 1]
      BY <2>1, TakenRound
    <3>2. PICK r : r = requests[1] OBVIOUS
    <3>3. Live(r) /\ Whole(r) /\ NextAt <= r.start
      BY <1>3, <3>1, <3>2 DEF Live, ExactInv
    <3>4. RingOwn(r) BY <3>3 DEF OwnInv
    <3>5. Cut(r, <<>>)
      <4>1. ~(\E i \in 1 .. Len(<<>>) : TRUE) BY NoSamples
      <4> QED BY <4>1 DEF Cut
    <3>6. Workable(r, <<>>) /\ r # None
      <4>1. IsRequest(r) BY <3>1, <3>2
      <4>2. r.n \in Nat /\ r.n > 0 BY <4>1, Bounds DEF IsRequest, CaptureRequest
      <4> QED BY <4>1, <4>2, NoSamples, NoneAssumption DEF Workable, IsRequest
    <3>7. Exactly(r)
      BY <1>1, <1>3, <1>4, <3>1, <3>2, <3>3, <3>4, <3>5, <3>6, ExamineExact
    <3>8. \A i \in 1 .. Len(requests') : i + 1 \in 1 .. Len(requests) /\ 1 < i + 1
      BY <3>1
    <3>9. \A i \in 1 .. Len(requests') :
            r.end <= requests'[i].start /\ Whole(requests'[i])
      BY <1>3, <3>1, <3>2, <3>8 DEF ExactInv
    <3>10. ASSUME NEW i \in 1 .. Len(requests'), NEW j \in 1 .. Len(requests'), i < j
           PROVE  requests'[i].end <= requests'[j].start
      <4>1. i + 1 < j + 1 BY <3>1, <3>10
      <4>2. requests'[i] = requests[i + 1] /\ requests'[j] = requests[j + 1] BY <3>1
      <4> QED BY <1>3, <3>8, <4>1, <4>2 DEF ExactInv
    <3> QED BY <3>1, <3>2, <3>3, <3>6, <3>7, <3>9, <3>10
  <2>2. CASE Proceed
    <3>1. /\ IsRequest(cur) /\ Examine(cur, got) /\ got \in Seq(StreamSample)
          /\ Len(got) < cur.n /\ cur # None /\ requests' = requests
      BY <2>2, ProceededRound
    <3>2. Live(cur) /\ Workable(cur, got) BY <3>1 DEF Live, Workable
    <3>3. RingOwn(cur) BY <3>2 DEF OwnInv
    <3>4. /\ Whole(cur) /\ Cut(cur, got)
          /\ IF got = <<>> THEN NextAt <= cur.start ELSE NextAt = cur.start + Len(got)
      BY <1>3, <3>1 DEF ExactInv
    <3>5. Exactly(cur)
      BY <1>1, <1>3, <1>4, <3>1, <3>2, <3>3, <3>4, ExamineExact
    <3>6. PICK r : r = cur OBVIOUS
    <3> HIDE DEF Exactly
    <3>7. Exactly(r) BY <3>5, <3>6 DEF Exactly
    <3> QED BY <1>3, <3>1, <3>4, <3>6, <3>7 DEF ExactInv
  <2> QED BY <2>1, <2>2
<1>6. /\ Contiguous'
      /\ \A i \in 1 .. Len(requests') : Whole(requests[i])'
      /\ Whole(r)'
  BY <1>1, <1>5 DEF Exactly, Whole
<1>7. CASE /\ cur' = r /\ result' = None /\ Cut(r, got')
           /\ IF got' = <<>> THEN NextAt' <= r.start ELSE NextAt' = r.start + Len(got')
  BY <1>2, <1>5, <1>6, <1>7 DEF ExactInv, Cut, Whole
<1>8. CASE /\ cur' = None /\ NextAt' <= r.end
           /\ result'.valid /\ result'.request = r
           /\ Len(result'.samples) = Window /\ Cut(r, result'.samples)
  <2>1. NextAt' \in Nat BY <1>5 DEF Exactly
  <2>2. ASSUME NEW i \in 1 .. Len(requests') PROVE NextAt' <= requests'[i].start
    <3>1. r.end <= requests'[i].start /\ NextAt' <= r.end BY <1>5, <1>8
    <3>2. requests'[i].start \in Nat /\ r.end \in Nat
      <4>1. CaptureInv' BY TakeRequestStep, ProceedStep
      <4>2. requests'[i] \in CaptureRequest /\ r \in CaptureRequest
        BY <1>5, <4>1 DEF CaptureInv, RequestsTyped, IsRequest
      <4> QED BY <4>2 DEF CaptureRequest
    <3> QED BY <2>1, <3>1, <3>2
  <2> QED BY <1>2, <1>5, <1>6, <1>8, <2>2 DEF ExactInv, Cut
<1> QED BY <1>5, <1>7, <1>8 DEF Exactly

LEMMA NextExact == CaptureInv /\ OwnInv /\ ExactInv /\ [Next]_vars => ExactInv'
<1> SUFFICES ASSUME CaptureInv, OwnInv, ExactInv, [Next]_vars PROVE ExactInv' OBVIOUS
<1>1. CASE UNCHANGED vars \/ Hop \/ Captured \/ GiveUp \/ Process
  BY <1>1, ExactKept
  DEF vars, radio, dsp, history, Hop, Captured, GiveUp, Process
<1> QED
  BY <1>1, ReceiveExact, AskExact, ReconfigureExact, DiscardExact, RoundExact
  DEF Next, Ctl, Dsp
-----------------------------------------------------------------------------
(* The theorems.                                                           *)

\* A capture is never cut down to nothing, nor given more samples than it was
\* cut down to; the rings keep to their slots.
THEOREM TypeCorrect == Spec => []TypeOK
<1>1. CaptureInv => TypeOK
  <2> SUFFICES ASSUME CaptureInv PROVE TypeOK
    OBVIOUS
  <2>1. captured \in 0 .. asked /\ awaited \in 0 .. asked
    <3>1. asked \in Nat /\ captured \in Nat /\ awaited \in {0, asked}
          /\ Len(requests) \in Nat /\ Len(requests) = asked - Base
      BY DEF CaptureInv, ControlTyped, RequestsTyped, Numbered
    <3>2. Base = captured \/ Base = captured + 1
      BY DEF Base
    <3> QED
      BY <3>1, <3>2
  <2>2. DOMAIN requests = 1 .. Len(requests)
    BY DEF CaptureInv, RequestsTyped
  <2> QED
    BY <2>1, <2>2 DEF CaptureInv, ControlTyped, RingTyped, RequestsTyped,
                      CaptureTyped, TypeOK
<1> QED
  BY <1>1, Invariance, PTL

\* The ctl thread does not take the radio away under a capture it waits for.
THEOREM HopsDrained == Spec => []DrainedOnHop
<1>1. CaptureInv => DrainedOnHop
  BY DEF CaptureInv
<1> QED
  BY <1>1, Invariance, PTL

\* Chunks lost, muted or late, a clock set back, a wait given up: a capture
\* asked for is still answered once, and in its turn.
THEOREM ServiceImplemented == Spec => AnswersInOrder
<1>1. Init => Service!Init
  BY DEF Init, Service!Init
<1>2. CaptureInv /\ [Next]_vars
      => [Service!Ask \/ Service!Answer]_(Service!vars)
  <2> SUFFICES ASSUME CaptureInv, [Next]_vars
               PROVE  [Service!Ask \/ Service!Answer]_(Service!vars)
    OBVIOUS
  <2> USE DEF Service!vars
  <2>1. CASE Ask
    BY <2>1 DEF Ask, dsp, Service!Ask
  <2>2. CASE TakeRequest \/ Proceed
    <3>1. asked' = asked
      BY <2>2 DEF TakeRequest, Proceed, control
    <3> QED
      BY <2>2, <3>1, TakeRequestStep, ProceedStep
         DEF AnswersOneAtMost, Service!Answer
  <2>3. CASE asked' = asked /\ captured' = captured
    BY <2>3
  <2> QED
    BY <2>1, <2>2, <2>3
    DEF Next, Ctl, Dsp, Receive, Hop, Captured, GiveUp, Reconfigure, Discard,
        Process, vars, control, dsp
<1> QED
  BY <1>1, <1>2, Invariance, PTL DEF Spec, AnswersInOrder, Service!Spec

\* A trace that is sent holds every window of one sweep, each in its place,
\* for any number of LO positions and windows, whatever the stream loses and
\* whichever waits are given up, unless a request was refused.
THEOREM TraceAlwaysOneSweep == Spec => []TraceIsOneSweep
<1>1. TraceInv => TraceIsOneSweep
  <2> SUFFICES ASSUME TraceInv, ~refused, trace # <<>>
               PROVE  trace = [i \in 1 .. Positions * Windows |->
                                 [sweep |-> trace[1].sweep,
                                  place |-> <<(i - 1) \div Windows + 1,
                                              (i - 1) % Windows>>]]
    BY DEF TraceIsOneSweep
  <2>1. IsSeq(trace) /\ OfOneSweep(trace) /\ Len(trace) = Total BY DEF TraceInv
  <2>2. PICK S : trace \in Seq(S) BY <2>1 DEF IsSeq
  <2>3. trace = [i \in 1 .. Total |-> trace[i]] BY <2>1, <2>2
  <2>4. ASSUME NEW i \in 1 .. Total
        PROVE  trace[i] = [sweep |-> trace[1].sweep,
                           place |-> <<(i - 1) \div Windows + 1, (i - 1) % Windows>>]
    <3>1. /\ trace[i] = [sweep |-> trace[1].sweep, place |-> trace[i].place]
          /\ trace[i].place \in Places /\ Number(trace[i].place) = i
      BY <2>1, <2>4 DEF OfOneSweep
    <3>2. trace[i].place = <<(i - 1) \div Windows + 1, (i - 1) % Windows>>
      BY <3>1, PlaceOfNumber
    <3> QED BY <3>1, <3>2
  <2> QED BY <2>3, <2>4 DEF Total
<1>2. Spec => []TraceInv
  BY InitInv, NextInv, InitTrace, NextTrace, PTL DEF Spec
<1> QED
  BY <1>1, <1>2, PTL

\* For any guards, windows and chunks, whatever is lost, muted or late: of a
\* capture asked for in time, no sample of good ones before its end was taken
\* with the radio tuned to another window.
THEOREM PunctualAlwaysOwn == Spec => []PunctualIsOwn
<1>1. CaptureInv /\ OwnInv => PunctualIsOwn
  <2> SUFFICES ASSUME CaptureInv, OwnInv, result # None, result.request.punctual,
                      result.request.epoch = epoch,
                      \A t \in Times : t < result.request.end,
                      NEW i \in DOMAIN result.samples
               PROVE  result.samples[i].tune = result.request.tune
    BY DEF PunctualIsOwn
  <2>1. result.samples \in Seq(StreamSample)
    BY DEF CaptureInv, CaptureTyped, CaptureResult
  <2>2. i \in 1 .. Len(result.samples) BY <2>1
  <2>3. /\ result.samples[i].at >= result.request.end - Window
        /\ Own(result.request, result.samples[i])
    BY <2>2 DEF OwnInv, SamplesOwn
  <2>4. result.samples[i].at < result.request.end BY DEF Times
  <2>5. result.samples[i].at \in Nat /\ result.request.end - Window \in Int
    <3>1. result.samples[i] \in StreamSample BY <2>1
    <3>2. result.request.end \in Nat
      BY DEF CaptureInv, CaptureTyped, IsRequest, CaptureRequest
    <3> QED BY <3>1, <3>2, Bounds DEF StreamSample
  <2> QED BY <2>3, <2>4, <2>5 DEF Own
<1>2. Spec => []OwnInv
  BY InitInv, NextInv, InitOwn, NextOwn, PTL DEF Spec
<1> QED
  BY <1>1, <1>2, Invariance, PTL

\* For any length of chunk and window: while nothing is lost, muted or late,
\* a finished capture has all the samples of its window, in order, each taken
\* with the radio tuned to it.
THEOREM ExactAlways == Spec => []ExactOnFlawlessStream
<1>1. CaptureInv /\ ExactInv => ExactOnFlawlessStream
  <2> SUFFICES ASSUME CaptureInv, ExactInv, Flawless, result # None
               PROVE  /\ result.valid
                      /\ result.samples = [i \in 1 .. Window |->
                           [at |-> result.request.start + i - 1,
                            tune |-> result.request.tune]]
    BY DEF ExactOnFlawlessStream, Flawless
  <2>1. /\ result.valid /\ Len(result.samples) = Window
        /\ Cut(result.request, result.samples)
    BY DEF ExactInv
  <2>2. result.samples \in Seq(StreamSample)
    BY DEF CaptureInv, CaptureTyped, CaptureResult
  <2>3. result.samples = [i \in 1 .. Window |-> result.samples[i]] BY <2>1, <2>2
  <2>4. \A i \in 1 .. Window :
          result.samples[i] = [at   |-> result.request.start + i - 1,
                               tune |-> result.request.tune]
    BY <2>1 DEF Cut
  <2> QED BY <2>1, <2>3, <2>4
<1>2. Spec => []OwnInv
  BY InitInv, NextInv, InitOwn, NextOwn, PTL DEF Spec
<1>3. Spec => []ExactInv
  BY <1>2, InitExact, NextExact, Invariance, PTL DEF Spec
<1> QED
  BY <1>1, <1>3, Invariance, PTL
=============================================================================
