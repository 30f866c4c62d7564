----------------------------- MODULE FrameStream -----------------------------
(***************************************************************************)
(* driver/frames.js and the way of a sweep through it: frames encoded into *)
(* length-prefixed records, cut up by the socket, put together again by    *)
(* FrameReassembler, decoded, and drawn as the points of TraceGeometry.    *)
(*                                                                         *)
(* A byte is a unit, a number below Base.  A word (the prefix, a value,    *)
(* the mask's padding) is two units instead of four bytes, and the header  *)
(* has only the fields that are read.                                      *)
(***************************************************************************)
EXTENDS TraceGeometry, SequencesExt

CONSTANTS
  Base,      \* units are 0..Base-1
  Streams,   \* the sequences of records the engine may send
  Detectors, \* the detectors that may be set
  MaxPieces, \* bound: chunks a stream is cut into
  MaxFrame   \* maxFrameBytes

Unit == 0..(Base - 1)
Word == 2
Header == 8      \* HEADER_BYTES
TraceHeader == 2 \* TRACE_HEADER_BYTES
Magic == 3
Version == 1

\* MsgType.
Complete == 1
Partial == 2
Status == 3
Log == 4
IsJsonType(type) == type \in {Status, Log}

\* TraceKind.
LiveAvg == 0
LivePeak == 1
Mask == 5
LiveMin == 6
LiveSample == 7

\* LIVE_KIND_FOR_DETECTOR.
LiveKindForDetector == [rms |-> LiveAvg, peak |-> LivePeak, min |-> LiveMin,
                        sample |-> LiveSample]

PadToWord(n) == CeilDiv(n, Word) * Word
Units(v) == <<v % Base, v \div Base>>
WordAt(units, k) == units[k] + Base * units[k + 1]

-----------------------------------------------------------------------------
(* encodeFrame() and lengthPrefixed().                                     *)

EncodeTrace(t, binCount) ==
  <<t.kind, 0>> \o
  (IF t.kind = Mask
   THEN t.mask \o [i \in 1..(PadToWord(binCount) - binCount) |-> 0]
   ELSE FlattenSeq([i \in 1..binCount |-> Units(t.values[i])]))

EncodeBody(f) ==
  IF IsJsonType(f.msgType) THEN f.json
  ELSE FlattenSeq([t \in 1..Len(f.traces) |-> EncodeTrace(f.traces[t], f.binCount)])

EncodeFrame(f) ==
  LET body == EncodeBody(f)
  IN <<Magic, Version, f.msgType, Len(f.traces), f.binCount, f.kDbm>>
       \o Units(Header + Len(body)) \o body

\* What is sent, the faults of an engine that is not this one's included.
Skipped == {"version", "overrun"}
Fatal == {"magic", "short", "long", "mismatch"}

Record(r) ==
  LET raw == EncodeFrame(r.frame)
      length == CASE r.fault = "short" -> <<Header - 1, 0>>
                  [] r.fault = "long" -> <<1, Base - 1>>
                  [] r.fault = "mismatch" -> Units(Len(raw) - 1)
                  [] OTHER -> Units(Len(raw))
      sent == CASE r.fault = "version" -> [raw EXCEPT ![2] = 0]
                [] r.fault = "overrun" -> [raw EXCEPT ![4] = @ + 1]
                [] r.fault = "magic" -> [raw EXCEPT ![1] = 0]
                [] OTHER -> raw
  IN length \o sent

\* What is sent as records.
Cells(t) == IF t.kind = Mask THEN t.mask ELSE t.values
TraceSet == [kind : {Mask}, mask : Seq(Unit)]
              \cup [kind : Unit \ {Mask}, values : Seq(0..(Base * Base - 1))]
FrameSet == [msgType : {Complete, Partial, Status, Log}, binCount : Unit, kDbm : Unit,
             traces : Seq(TraceSet), json : Seq(Unit)]
RecordSet == [frame : FrameSet, fault : {"none"} \cup Skipped \cup Fatal]

\* A frame is no longer than the reader allows; JSON does not begin with 0; every
\* trace of a sweep has its cells.
CanSend(r) ==
  LET f == r.frame
  IN /\ Header + Len(EncodeBody(f)) <= MaxFrame
     /\ IF IsJsonType(f.msgType)
        THEN /\ f.binCount = 0 /\ f.traces = <<>> /\ r.fault # "overrun"
             /\ f.json = <<>> \/ Head(f.json) # 0
        ELSE /\ f.binCount >= 2 /\ f.json = <<>>
             /\ \A i \in DOMAIN f.traces : Len(Cells(f.traces[i])) = f.binCount

ASSUME StreamAssumption ==
  /\ Base \in Nat \ {0} /\ MaxPieces \in Nat /\ NaN = Base * Base - 1
  /\ MaxFrame \in Nat /\ MaxFrame <= Base * (Base - 1)
  /\ Detectors \subseteq DOMAIN LiveKindForDetector /\ MaxPoints >= 2
  /\ \A s \in Streams : /\ s \in Seq(RecordSet)
                         /\ \A i \in 1..Len(s) : CanSend(s[i])

-----------------------------------------------------------------------------
(* decodeFrame().                                                          *)

PayloadSize(kind, binCount) ==
  IF kind = Mask THEN PadToWord(binCount) ELSE Word * binCount

\* Where the trace block from off on ends, or a place past the record's end when
\* it overruns that.
BlockEnd(raw, off, binCount) ==
  off + TraceHeader +
    (IF off + TraceHeader > Len(raw) THEN 0 ELSE PayloadSize(raw[off + 1], binCount))

\* The end of each block, of as many as the header says.
BlockEnds(raw) ==
  LET end[i \in 0..raw[4]] == IF i = 0 THEN Header ELSE BlockEnd(raw, end[i - 1], raw[5])
  IN end

DecodeTrace(raw, off, binCount) ==
  LET kind == raw[off + 1]
      data == off + TraceHeader
  IN IF kind = Mask
     THEN [kind |-> kind, mask |-> SubSeq(raw, data + 1, data + binCount)]
     ELSE [kind |-> kind,
           values |-> [i \in 1..binCount |-> WordAt(raw, data + Word * i - 1)]]

\* One frame, or none where the code throws.  A body that starts with 0 is no
\* JSON.  frameLength is the buffer's, as the reassembler has checked.
DecodeFrame(raw) ==
  LET end == BlockEnds(raw)
      body == SubSeq(raw, Header + 1, Len(raw))
      json == IsJsonType(raw[3])
      Throws == \/ raw[2] # Version
                \/ json /\ body # <<>> /\ Head(body) = 0
                \/ ~json /\ end[raw[4]] > Len(raw)
  IN IF Throws THEN <<>>
     ELSE <<[msgType |-> raw[3], binCount |-> raw[5], kDbm |-> raw[6],
             traces |-> IF json THEN <<>>
                        ELSE [i \in 1..raw[4] |-> DecodeTrace(raw, end[i - 1], raw[5])],
             json |-> IF json THEN body ELSE <<>>]>>

IsValue(t) == t.kind # Mask
FirstOf(traces, among) == IF among = {} THEN <<>> ELSE <<traces[Min(among)]>>

\* liveTrace(): at most one, as a sequence.
LiveTrace(f, detector) ==
  LET values == {i \in DOMAIN f.traces : IsValue(f.traces[i])}
      wanted == {i \in values : f.traces[i].kind = LiveKindForDetector[detector]}
      usual == {i \in values : f.traces[i].kind <= LivePeak}
  IN FirstOf(f.traces, IF wanted # {} THEN wanted ELSE IF usual # {} THEN usual ELSE values)

\* maskOf(): no mask at all is the empty one.
MaskOf(f) ==
  LET found == FirstOf(f.traces, {i \in DOMAIN f.traces : f.traces[i].kind = Mask})
  IN IF found = <<>> THEN <<>> ELSE Head(found).mask

-----------------------------------------------------------------------------
(* FrameReassembler.                                                       *)

\* #peekU32(): the word at the front, over the ends of chunks.
Peek(r) == WordAt(FlattenSeq(r.chunks), r.head + 1)

\* Mutant: #take() copies from a chunk's start.
PieceFromStart(chunk, head, want) == SubSeq(chunk, 1, want)

\* The part of a chunk that #take() copies.
Piece(chunk, head, want) == SubSeq(chunk, head + 1, head + want)

\* Mutant: a chunk that is used up to its last unit stays.
UsesUpMore(r, n) == Len(Head(r.chunks)) - r.head < n

\* The first chunk is used up and shifted out.
UsesUp(r, n) == Len(Head(r.chunks)) - r.head <= n

\* One turn of #skip() and #take(), which still need t.need units.
TakeTurn(t) ==
  LET c == Head(t.r.chunks)
      want == Smaller(Len(c) - t.r.head, t.need)
  IN IF t.need = 0 THEN t
     ELSE [r |-> IF UsesUp(t.r, t.need)
                 THEN [chunks |-> Tail(t.r.chunks), head |-> 0,
                       buffered |-> t.r.buffered - want]
                 ELSE [t.r EXCEPT !.head = @ + want, !.buffered = @ - want],
           need |-> t.need - want,
           raw |-> t.raw \o Piece(c, t.r.head, want)]

\* n units off the front.
Take(r, n) ==
  LET turn[i \in 0..Len(r.chunks)] ==
        IF i = 0 THEN [r |-> r, need |-> n, raw |-> <<>>] ELSE TakeTurn(turn[i - 1])
  IN turn[Len(r.chunks)]

Empty == [chunks |-> <<>>, head |-> 0, buffered |-> 0]

-----------------------------------------------------------------------------
(* What push() does to the reassembler (r) and, through #onFrame(), to the *)
(* client and the adapter.                                                 *)

\* The grid the engine measured a frame's cells on: that of a span which ends
\* within the first and the last step, asked for backwards.
GridOf(f) == SnapToGrid(MaxStepHz * (f.binCount - 2) + 1, MaxStepHz - 1, MaxStepHz)

\* #onSweep(): the points of one frame, the empty sequence for none.
PointsOf(f, det) ==
  LET live == LiveTrace(f, det)
  IN IF live = <<>> THEN <<>>
     ELSE TraceToPoints(f.kDbm, Head(live).values, MaskOf(f),
                        NativeGeometry(GridOf(f)), ReducerFor(det))

\* #onFrame().
OnFrame(s, raw, det) ==
  LET frames == DecodeFrame(raw)
      sweep == frames # <<>> /\ Head(frames).msgType = Complete
  IN [s EXCEPT !.warned = IF frames = <<>> THEN @ + 1 ELSE @,
               !.seen = @ \o frames,
               !.points = IF sweep THEN Append(@, PointsOf(Head(frames), det)) ELSE @]

\* One turn of the loop: the record at the front, if it is there.
Turn(s, det) ==
  LET len == Peek(s.r)
      taken == Take(Take(s.r, Word).r, len)
      Throw == [s EXCEPT !.r = Empty, !.threw = TRUE]
  IN IF s.r.buffered < Word THEN s
     ELSE IF len < Header \/ len > MaxFrame THEN Throw
     ELSE IF s.r.buffered < Word + len THEN s
     ELSE IF taken.raw[1] # Magic \/ WordAt(taken.raw, 7) # len THEN Throw
     ELSE OnFrame([s EXCEPT !.r = taken.r], taken.raw, det)

\* push(), to the turn from which on nothing happens.
Push(s, chunk, det) ==
  LET more == [s EXCEPT !.r.chunks = Append(@, chunk), !.r.buffered = @ + Len(chunk)]
      last == more.r.buffered \div Header + 1
      turn[i \in 0..last] == IF i = 0 THEN more ELSE Turn(turn[i - 1], det)
  IN turn[last]

-----------------------------------------------------------------------------
VARIABLES
  stream,   \* what the engine sends: a sequence of [frame, fault]
  detector, \* this.detector, of the adapter
  onWire,   \* the units that did not arrive yet
  pieces,   \* how many chunks arrived
  parts,    \* #chunks, #headOffset and #buffered
  died,     \* #die() has destroyed the socket
  warned,   \* frames skipped with a warning
  seen,     \* what #onFrame() made of each frame
  points    \* the points handed on, for each sweep seen

vars == <<stream, detector, onWire, pieces, parts, died, warned, seen, points>>

Sent(records) == FlattenSeq([i \in 1..Len(records) |-> Record(records[i])])

TypeOK == /\ stream \in Streams /\ detector \in Detectors
          /\ pieces \in 0..MaxPieces
          /\ died \in BOOLEAN /\ warned \in Nat
          /\ parts.head < (IF parts.chunks = <<>> THEN 1 ELSE Len(Head(parts.chunks)))
          /\ parts.buffered = Len(FlattenSeq(parts.chunks)) - parts.head

Init == /\ stream \in Streams
        /\ detector \in Detectors
        /\ onWire = Sent(stream)
        /\ pieces = 0 /\ parts = Empty
        /\ died = FALSE /\ warned = 0
        /\ seen = <<>> /\ points = <<>>

\* The socket's 'data': #push() and #onFrame() of every frame it completes.
\* The last piece allowed is all that is left.
Data(n) ==
  /\ ~died /\ pieces < MaxPieces
  /\ n \in 1..Len(onWire) /\ (pieces = MaxPieces - 1 => n = Len(onWire))
  /\ pieces' = pieces + 1
  /\ onWire' = SubSeq(onWire, n + 1, Len(onWire))
  /\ LET now == [r |-> parts, threw |-> died, warned |-> warned, seen |-> seen,
                 points |-> points]
         next == Push(now, SubSeq(onWire, 1, n), detector)
     IN /\ parts' = next.r /\ died' = next.threw /\ warned' = next.warned
        /\ seen' = next.seen /\ points' = next.points
  /\ UNCHANGED <<stream, detector>>

Next == \E n \in 1..Len(onWire) : Data(n)

Spec == Init /\ [][Next]_vars

-----------------------------------------------------------------------------
(* Properties.                                                             *)

\* How many records arrived whole, up to the first that is fatal.
Came ==
  LET arrived == Len(Sent(stream)) - Len(onWire)
      Fine(k) == \A i \in 1..k : stream[i].fault \notin Fatal
  IN Max({k \in 0..Len(stream) : Len(Sent(SubSeq(stream, 1, k))) <= arrived /\ Fine(k)})

\* The frames among them that can be decoded, and the sweeps among frames.
GoodFrames(records) ==
  FlattenSeq([i \in 1..Len(records) |->
                IF records[i].fault = "none" THEN <<records[i].frame>> ELSE <<>>])
Sweeps(frames) ==
  FlattenSeq([i \in 1..Len(frames) |->
                IF frames[i].msgType = Complete THEN <<frames[i]>> ELSE <<>>])

\* However the socket cuts the stream, each frame is handed on once, in order,
\* as it was sent, and as soon as its last byte is there; a frame that cannot
\* be decoded costs itself only, and the first record that makes the rest of
\* the stream meaningless ends it (frames.js:310-339, engine-client.js:384).
FramesAsSent == /\ Len(seen) + warned = Came
                /\ seen = GoodFrames(SubSeq(stream, 1, Came))

\* Every sweep that has a measured cell is drawn with the points that were
\* promised, each the strongest (or weakest) level among the cells the
\* spectrum's axis assigns to it, and a sweep without one is not drawn
\* (plan.js:127-133 and 149-152).
PointsAreMeasured ==
  LET sweeps == Sweeps(seen)
  IN /\ Len(points) = Len(sweeps)
     /\ \A i \in DOMAIN points :
          LET f == sweeps[i]
              live == LiveTrace(f, detector)
              drawable == live # <<>> /\ \E j \in 1..f.binCount :
                                 IsValid(Head(live).values, MaskOf(f), j)
          IN IF drawable
             THEN PointsAreOf(GridOf(f), f.kDbm, Head(live).values, MaskOf(f),
                              ReducerFor(detector), points[i])
             ELSE points[i] = <<>>
=============================================================================
