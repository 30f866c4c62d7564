--------------------------- MODULE SpscRingProofs ---------------------------
(***************************************************************************)
(* The ring's properties, for every number of slots and every cursor width *)
(* that the slots divide.                                                  *)
(***************************************************************************)
EXTENDS SpscRing, SequenceTheorems, TLAPS

-----------------------------------------------------------------------------
(* Arithmetic of the cursors.                                              *)

LEMMA WrapBounds == Wrap \in Nat /\ Wrap >= 2 * Slots /\ Wrap > Slots
<1>1. Slots \in Nat /\ Slots >= 1
  BY SlotsAssumption
<1>2. Laps \in Nat /\ Laps >= 2
  BY LapsAssumption
<1>3. Laps * Slots \in Nat /\ Laps * Slots >= 2 * Slots
  BY <1>1, <1>2
<1> QED
  BY <1>1, <1>3 DEF Wrap

\* The remainder of a number less than two wraps.
LEMMA ModOnce ==
  ASSUME NEW x \in Nat, x < 2 * Wrap
  PROVE  x % Wrap = IF x < Wrap THEN x ELSE x - Wrap
<1>0. Wrap \in Nat /\ Wrap > 0
  BY WrapBounds, SlotsAssumption
<1>1. CASE x < Wrap
  BY <1>0, <1>1
<1>2. CASE x >= Wrap
  BY <1>0, <1>2
<1> QED
  BY <1>0, <1>1, <1>2

LEMMA AdvanceLinear ==
  ASSUME NEW c \in 0 .. Wrap - 1
  PROVE  Advance(c) = IF c = Wrap - 1 THEN 0 ELSE c + 1
<1>1. c + 1 \in Nat /\ c + 1 < 2 * Wrap
  BY WrapBounds, SlotsAssumption
<1> QED
  BY <1>1, ModOnce, WrapBounds DEF Advance

LEMMA DistanceLinear ==
  ASSUME NEW h \in 0 .. Wrap - 1, NEW t \in 0 .. Wrap - 1
  PROVE  Distance(h, t) = IF h >= t THEN h - t ELSE h - t + Wrap
<1>0. Wrap \in Nat /\ Wrap > 0
  BY WrapBounds, SlotsAssumption
<1>1. CASE h >= t
  BY <1>0, <1>1 DEF Distance
<1>2. CASE h < t
  BY <1>0, <1>2 DEF Distance
<1> QED
  BY <1>0, <1>1, <1>2

LEMMA NoMultipleBetween ==
  ASSUME NEW m \in Int
  PROVE  ~(0 < m * Slots /\ m * Slots < Slots)
<1>1. Slots \in Nat /\ Slots >= 1
  BY SlotsAssumption
<1>2. CASE m <= 0
  BY <1>1, <1>2
<1>3. CASE m >= 1
  BY <1>1, <1>3
<1> QED
  BY <1>2, <1>3

\* Two cursors less than a ring apart use different slots.
LEMMA SlotsDiffer ==
  ASSUME NEW x \in 0 .. Wrap - 1, NEW y \in 0 .. Wrap - 1,
         Distance(x, y) \in 1 .. Slots - 1
  PROVE  SlotOf(x) # SlotOf(y)
<1>0. Slots \in Nat /\ Slots >= 1 /\ Laps \in Nat
  BY SlotsAssumption, LapsAssumption
<1>1. x \in Nat /\ y \in Nat
  BY WrapBounds
<1> DEFINE qx == x \div Slots
           qy == y \div Slots
<1>2. /\ qx \in Int /\ qy \in Int
      /\ x = Slots * qx + SlotOf(x)
      /\ y = Slots * qy + SlotOf(y)
      /\ SlotOf(x) \in Int /\ SlotOf(y) \in Int
  BY <1>0, <1>1 DEF SlotOf
<1> SUFFICES ASSUME SlotOf(x) = SlotOf(y) PROVE FALSE
  OBVIOUS
<1> HIDE DEF qx, qy
<1>3. CASE x >= y
  <2>1. Distance(x, y) = x - y
    BY <1>3, DistanceLinear
  <2>2. x - y = (qx - qy) * Slots
    BY <1>0, <1>2
  <2>3. qx - qy \in Int
    BY <1>2
  <2>4. ~(0 < (qx - qy) * Slots /\ (qx - qy) * Slots < Slots)
    BY <2>3, NoMultipleBetween
  <2> QED
    BY <1>0, <2>1, <2>2, <2>4
<1>4. CASE x < y
  <2>1. Distance(x, y) = x - y + Laps * Slots
    BY <1>1, <1>4, DistanceLinear DEF Wrap
  <2>2. x - y + Laps * Slots = (qx - qy + Laps) * Slots
    <3>1. x - y = (qx - qy) * Slots
      BY <1>0, <1>2
    <3>2. \A d \in Int : d * Slots + Laps * Slots = (d + Laps) * Slots
      BY <1>0
    <3> QED
      BY <1>2, <3>1, <3>2
  <2>3. qx - qy + Laps \in Int
    BY <1>0, <1>2
  <2>4. ~(0 < (qx - qy + Laps) * Slots /\ (qx - qy + Laps) * Slots < Slots)
    BY <2>3, NoMultipleBetween
  <2> QED
    BY <1>0, <2>1, <2>2, <2>4
<1> QED
  BY <1>1, <1>3, <1>4

-----------------------------------------------------------------------------
(* Positions: the d-th cursor after the tail.                              *)

LEMMA PositionLinear ==
  ASSUME NEW t \in 0 .. Wrap - 1, NEW d \in 0 .. Slots
  PROVE  /\ (t + d) % Wrap = IF t + d < Wrap THEN t + d ELSE t + d - Wrap
         /\ (t + d) % Wrap \in 0 .. Wrap - 1
<1>1. Wrap \in Nat /\ Wrap > Slots /\ Slots \in Nat
  BY WrapBounds, SlotsAssumption
<1>2. t + d \in Nat /\ t + d < 2 * Wrap
  BY <1>1
<1> DEFINE x == t + d
<1>3. x \in Nat /\ x < 2 * Wrap
  BY <1>2
<1> HIDE DEF x
<1>4. x % Wrap = IF x < Wrap THEN x ELSE x - Wrap
  BY <1>3, ModOnce
<1>5. x = t + d
  BY DEF x
<1> QED
  BY <1>1, <1>2, <1>4, <1>5

LEMMA PositionDistance ==
  ASSUME NEW h \in 0 .. Wrap - 1, NEW t \in 0 .. Wrap - 1,
         Distance(h, t) \in 0 .. Slots, NEW d \in 0 .. Distance(h, t)
  PROVE  Distance(h, (t + d) % Wrap) =
           IF d = Distance(h, t) THEN 0 ELSE Distance(h, t) - d
<1>1. Wrap \in Nat /\ Wrap > Slots /\ Slots \in Nat
  BY WrapBounds, SlotsAssumption
<1>2. d \in 0 .. Slots
  BY <1>1
<1> DEFINE p == (t + d) % Wrap
<1>3. /\ p = IF t + d < Wrap THEN t + d ELSE t + d - Wrap
      /\ p \in 0 .. Wrap - 1
  BY <1>2, PositionLinear
<1>4. Distance(h, p) = IF h >= p THEN h - p ELSE h - p + Wrap
  BY <1>3, DistanceLinear
<1>5. Distance(h, t) = IF h >= t THEN h - t ELSE h - t + Wrap
  BY DistanceLinear
<1> QED
  BY <1>1, <1>2, <1>3, <1>4, <1>5

\* The position after the last stored item is the producer's.
LEMMA PositionOfHead ==
  ASSUME NEW h \in 0 .. Wrap - 1, NEW t \in 0 .. Wrap - 1,
         Distance(h, t) \in 0 .. Slots
  PROVE  (t + Distance(h, t)) % Wrap = h
<1>1. Wrap \in Nat /\ Wrap > Slots /\ Slots \in Nat
  BY WrapBounds, SlotsAssumption
<1>2. Distance(h, t) = IF h >= t THEN h - t ELSE h - t + Wrap
  BY DistanceLinear
<1>3. (t + Distance(h, t)) % Wrap =
        IF t + Distance(h, t) < Wrap THEN t + Distance(h, t)
        ELSE t + Distance(h, t) - Wrap
  BY PositionLinear
<1> QED
  BY <1>1, <1>2, <1>3

LEMMA DistanceAfterWrite ==
  ASSUME NEW h \in 0 .. Wrap - 1, NEW t \in 0 .. Wrap - 1,
         Distance(h, t) \in 0 .. Slots - 1
  PROVE  /\ Advance(h) \in 0 .. Wrap - 1
         /\ Distance(Advance(h), t) = Distance(h, t) + 1
<1>1. Wrap \in Nat /\ Wrap > Slots /\ Slots \in Nat
  BY WrapBounds, SlotsAssumption
<1>2. Advance(h) = IF h = Wrap - 1 THEN 0 ELSE h + 1
  BY AdvanceLinear
<1>3. Advance(h) \in 0 .. Wrap - 1
  BY <1>1, <1>2
<1>4. Distance(h, t) = IF h >= t THEN h - t ELSE h - t + Wrap
  BY DistanceLinear
<1>5. Distance(Advance(h), t) =
        IF Advance(h) >= t THEN Advance(h) - t ELSE Advance(h) - t + Wrap
  BY <1>3, DistanceLinear
<1> QED
  BY <1>1, <1>2, <1>3, <1>4, <1>5

LEMMA DistanceAfterRead ==
  ASSUME NEW h \in 0 .. Wrap - 1, NEW t \in 0 .. Wrap - 1, h # t,
         Distance(h, t) \in 0 .. Slots
  PROVE  /\ Advance(t) \in 0 .. Wrap - 1
         /\ Distance(h, t) >= 1
         /\ Distance(h, Advance(t)) = Distance(h, t) - 1
<1>1. Wrap \in Nat /\ Wrap > Slots /\ Slots \in Nat
  BY WrapBounds, SlotsAssumption
<1>2. Advance(t) = IF t = Wrap - 1 THEN 0 ELSE t + 1
  BY AdvanceLinear
<1>3. Advance(t) \in 0 .. Wrap - 1
  BY <1>1, <1>2
<1>4. Distance(h, t) = IF h >= t THEN h - t ELSE h - t + Wrap
  BY DistanceLinear
<1>5. Distance(h, Advance(t)) =
        IF h >= Advance(t) THEN h - Advance(t) ELSE h - Advance(t) + Wrap
  BY <1>3, DistanceLinear
<1> QED
  BY <1>1, <1>2, <1>3, <1>4, <1>5

\* Releasing a slot renumbers the positions and moves none.
LEMMA PositionAfterRead ==
  ASSUME NEW t \in 0 .. Wrap - 1, NEW d \in 0 .. Slots - 1
  PROVE  (Advance(t) + d) % Wrap = (t + (d + 1)) % Wrap
<1>1. Wrap \in Nat /\ Wrap > Slots /\ Slots \in Nat
  BY WrapBounds, SlotsAssumption
<1>2. Advance(t) = IF t = Wrap - 1 THEN 0 ELSE t + 1
  BY AdvanceLinear
<1>3. Advance(t) \in 0 .. Wrap - 1 /\ d \in 0 .. Slots /\ d + 1 \in 0 .. Slots
  BY <1>1, <1>2
<1>4. (Advance(t) + d) % Wrap =
        IF Advance(t) + d < Wrap THEN Advance(t) + d ELSE Advance(t) + d - Wrap
  BY <1>3, PositionLinear
<1>5. (t + (d + 1)) % Wrap =
        IF t + (d + 1) < Wrap THEN t + (d + 1) ELSE t + (d + 1) - Wrap
  BY <1>3, PositionLinear
<1> QED
  BY <1>1, <1>2, <1>3, <1>4, <1>5

LEMMA SlotOfType ==
  ASSUME NEW c \in 0 .. Wrap - 1
  PROVE  SlotOf(c) \in 0 .. Slots - 1
BY SlotsAssumption, WrapBounds DEF SlotOf

-----------------------------------------------------------------------------
(* The inductive invariant.                                                *)

\* The slot being filled is none of those that hold a stored chunk.
LEMMA FillTouchesNoChunk ==
  ASSUME TypeOK, Distance(head, tail) \in 0 .. Slots - 1,
         NEW d \in 0 .. Distance(head, tail) - 1
  PROVE  /\ (tail + d) % Wrap \in 0 .. Wrap - 1
         /\ SlotOf((tail + d) % Wrap) # SlotOf(head)
<1>1. Slots \in Nat /\ Slots >= 1
  BY SlotsAssumption
<1>2. head \in 0 .. Wrap - 1 /\ tail \in 0 .. Wrap - 1
  BY DEF TypeOK
<1>3. d \in 0 .. Slots /\ d \in 0 .. Distance(head, tail)
  BY <1>1
<1>4. (tail + d) % Wrap \in 0 .. Wrap - 1
  BY <1>2, <1>3, PositionLinear
<1>5. Distance(head, tail) \in 0 .. Slots
  BY <1>1
<1>6. Distance(head, (tail + d) % Wrap) = Distance(head, tail) - d
  BY <1>2, <1>3, <1>5, PositionDistance
<1>7. Distance(head, (tail + d) % Wrap) \in 1 .. Slots - 1
  BY <1>1, <1>6
<1> QED
  BY <1>2, <1>4, <1>7, SlotsDiffer

\* The oldest chunk is the one the consumer's cursor points at.
LEMMA OldestIsAtTail ==
  ASSUME TypeOK
  PROVE  (tail + 0) % Wrap = tail
<1>1. tail \in 0 .. Wrap - 1 /\ 0 \in 0 .. Slots
  BY SlotsAssumption DEF TypeOK
<1>2. (tail + 0) % Wrap = IF tail + 0 < Wrap THEN tail + 0 ELSE tail + 0 - Wrap
  BY <1>1, PositionLinear
<1> QED
  BY <1>1, <1>2, WrapBounds

LEMMA InitInv == Init => RingInv
<1> SUFFICES ASSUME Init PROVE RingInv
  OBVIOUS
<1>1. Wrap \in Nat /\ Wrap > Slots /\ Slots \in Nat /\ Slots >= 1
  BY WrapBounds, SlotsAssumption
<1>2. TypeOK
  BY <1>1 DEF Init, TypeOK
<1>3. Distance(head, tail) = 0
  BY <1>1, <1>2, DistanceLinear DEF Init, TypeOK
<1> QED
  BY <1>1, <1>2, <1>3 DEF Init, RingInv, CursorsInStep, HeldIsOldest

LEMMA NextInv == RingInv /\ [Next]_vars => RingInv'
<1> SUFFICES ASSUME RingInv, [Next]_vars PROVE RingInv'
  OBVIOUS
<1>0. /\ TypeOK
      /\ Distance(head, tail) \in 0 .. Slots
      /\ head \in 0 .. Wrap - 1
      /\ tail \in 0 .. Wrap - 1
  BY DEF RingInv, CursorsInStep, TypeOK
<1>s. Slots \in Nat /\ Slots >= 1
  BY SlotsAssumption
<1>h. SlotOf(head) \in 0 .. Slots - 1 /\ SlotOf(tail) \in 0 .. Slots - 1
  BY <1>0, SlotOfType
<1>n. Torn \notin Items /\ Nothing \notin Items
  BY ItemsAssumption
\* Writing into the slot at head while there is room.
<1>f. ASSUME NEW v \in Items \cup {Torn}, Distance(head, tail) < Slots,
             buf' = [buf EXCEPT ![SlotOf(head)] = v],
             UNCHANGED <<head, tail, reader, held, released>>
      PROVE  /\ TypeOK!3' /\ CursorsInStep' /\ HeldIsOldest'
             /\ reader' # "idle" => head' # tail'
             /\ \A d \in 0 .. Distance(head, tail)' - 1 :
                  buf'[SlotOf((tail' + d) % Wrap)] \in Items
  <2>1. TypeOK!3'
    BY <1>f, <1>h DEF RingInv, TypeOK
  <2>2. CursorsInStep'
    BY <1>f DEF RingInv, CursorsInStep, Distance
  <2>3. Distance(head, tail) \in 0 .. Slots - 1
    BY <1>0, <1>s, <1>f
  <2>4. ASSUME NEW d \in 0 .. Distance(head, tail) - 1
        PROVE  /\ buf'[SlotOf((tail + d) % Wrap)] = buf[SlotOf((tail + d) % Wrap)]
               /\ buf[SlotOf((tail + d) % Wrap)] \in Items
    <3>1. /\ (tail + d) % Wrap \in 0 .. Wrap - 1
          /\ SlotOf((tail + d) % Wrap) # SlotOf(head)
      BY <1>0, <2>3, FillTouchesNoChunk
    <3>2. SlotOf((tail + d) % Wrap) \in 0 .. Slots - 1
      BY <3>1, SlotOfType
    <3>3. buf[SlotOf((tail + d) % Wrap)] \in Items
      BY DEF RingInv
    <3> QED
      BY <1>f, <1>h, <3>1, <3>2, <3>3 DEF RingInv, TypeOK
  <2>5. HeldIsOldest'
    <3> SUFFICES ASSUME reader = "done"
                 PROVE  held \in Items /\ held = buf'[SlotOf(tail)]
      BY <1>f DEF HeldIsOldest
    <3>1. head # tail /\ held \in Items /\ held = buf[SlotOf(tail)]
      BY DEF RingInv, HeldIsOldest
    <3>2. 0 \in 0 .. Distance(head, tail) - 1
      BY <1>0, <1>s, <3>1, DistanceAfterRead
    <3>3. (tail + 0) % Wrap = tail
      BY <1>0, OldestIsAtTail
    <3> QED
      BY <2>4, <3>1, <3>2, <3>3
  <2>6. reader' # "idle" => head' # tail'
    BY <1>f DEF RingInv
  <2>7. \A d \in 0 .. Distance(head, tail)' - 1 :
          buf'[SlotOf((tail' + d) % Wrap)] \in Items
    BY <1>f, <2>4 DEF Distance
  <2> QED
    BY <2>1, <2>2, <2>5, <2>6, <2>7
<1>1. CASE BeginWrite
  <2>1. /\ TypeOK!3' /\ CursorsInStep' /\ HeldIsOldest'
        /\ reader' # "idle" => head' # tail'
        /\ \A d \in 0 .. Distance(head, tail)' - 1 :
             buf'[SlotOf((tail' + d) % Wrap)] \in Items
    BY <1>1, <1>f DEF BeginWrite
  <2>2. writer' = "filling" /\ Distance(head, tail)' < Slots
    BY <1>1 DEF BeginWrite, Distance
  <2> QED
    BY <1>1, <2>1, <2>2 DEF BeginWrite, RingInv, TypeOK
<1>2. ASSUME NEW item \in Items, Fill(item) PROVE RingInv'
  <2>0. Distance(head, tail) < Slots
    BY <1>2 DEF Fill, RingInv
  <2>1. /\ TypeOK!3' /\ CursorsInStep' /\ HeldIsOldest'
        /\ reader' # "idle" => head' # tail'
        /\ \A d \in 0 .. Distance(head, tail)' - 1 :
             buf'[SlotOf((tail' + d) % Wrap)] \in Items
    BY <1>2, <1>f, <2>0 DEF Fill
  <2>2. writer' = "filled" /\ Distance(head, tail)' < Slots
    BY <1>2, <2>0 DEF Fill, Distance
  <2>3. buf'[SlotOf(head')] \in Items
    BY <1>2, <1>h DEF Fill, RingInv, TypeOK, SlotOf
  <2> QED
    BY <1>2, <2>1, <2>2, <2>3 DEF Fill, RingInv, TypeOK
<1>3. CASE Abandon
  BY <1>3 DEF Abandon, RingInv, TypeOK, CursorsInStep, HeldIsOldest, Distance, SlotOf
<1>4. CASE CommitWrite
  <2>1. Distance(head, tail) \in 0 .. Slots - 1
    BY <1>0, <1>4, <1>s DEF CommitWrite, RingInv
  <2>2. head' \in 0 .. Wrap - 1 /\ Distance(head', tail) = Distance(head, tail) + 1
    BY <1>0, <1>4, <2>1, DistanceAfterWrite DEF CommitWrite
  <2>3. Distance(head, tail)' = Distance(head', tail)
    BY <1>4 DEF CommitWrite, Distance
  <2>4. TypeOK'
    BY <1>4, <2>2 DEF CommitWrite, RingInv, TypeOK
  <2>5. CursorsInStep'
    BY <1>s, <2>1, <2>2, <2>3 DEF CursorsInStep
  <2>6. reader' # "idle" => head' # tail'
    <3>1. Distance(tail, tail) = 0
      BY <1>0, DistanceLinear
    <3> QED
      BY <1>4, <2>1, <2>2, <3>1 DEF CommitWrite
  <2>7. \A d \in 0 .. Distance(head, tail)' - 1 :
          buf'[SlotOf((tail' + d) % Wrap)] \in Items
    <3> SUFFICES ASSUME NEW d \in 0 .. Distance(head, tail)
                 PROVE  buf[SlotOf((tail + d) % Wrap)] \in Items
      BY <1>4, <2>1, <2>2, <2>3 DEF CommitWrite
    <3>1. CASE d = Distance(head, tail)
      BY <1>0, <1>4, <3>1, PositionOfHead DEF CommitWrite, RingInv
    <3>2. CASE d # Distance(head, tail)
      BY <2>1, <3>2 DEF RingInv
    <3> QED
      BY <3>1, <3>2
  <2>8. writer' = "idle"
    BY <1>4 DEF CommitWrite
  <2>9. HeldIsOldest'
    BY <1>4 DEF CommitWrite, RingInv, HeldIsOldest
  <2> QED
    BY <2>4, <2>5, <2>6, <2>7, <2>8, <2>9 DEF RingInv
<1>5. CASE PeekRead
  BY <1>5 DEF PeekRead, RingInv, TypeOK, CursorsInStep, HeldIsOldest, Distance, SlotOf
<1>6. CASE ReadSlot
  <2>1. head # tail
    BY <1>6 DEF ReadSlot, RingInv
  <2>2. 0 \in 0 .. Distance(head, tail) - 1
    BY <1>0, <1>s, <2>1, DistanceAfterRead
  <2>3. buf[SlotOf(tail)] \in Items
    BY <1>0, <2>2, OldestIsAtTail DEF RingInv
  <2> QED
    BY <1>6, <2>1, <2>3
       DEF ReadSlot, RingInv, TypeOK, CursorsInStep, HeldIsOldest, Distance, SlotOf
<1>7. CASE Keep
  BY <1>7 DEF Keep, RingInv, TypeOK, CursorsInStep, HeldIsOldest, Distance, SlotOf
<1>8. CASE CommitRead
  <2>1. head # tail
    BY <1>8 DEF CommitRead, RingInv
  <2>2. /\ tail' \in 0 .. Wrap - 1
        /\ Distance(head, tail) >= 1
        /\ Distance(head, tail') = Distance(head, tail) - 1
    BY <1>0, <1>8, <2>1, DistanceAfterRead DEF CommitRead
  <2>3. Distance(head, tail)' = Distance(head, tail')
    BY <1>8 DEF CommitRead, Distance
  <2>4. TypeOK'
    BY <1>8, <2>2 DEF CommitRead, RingInv, TypeOK
  <2>5. CursorsInStep'
    BY <1>0, <1>s, <2>2, <2>3 DEF CursorsInStep
  <2>6. \A d \in 0 .. Distance(head, tail)' - 1 :
          buf'[SlotOf((tail' + d) % Wrap)] \in Items
    <3> SUFFICES ASSUME NEW d \in 0 .. Distance(head, tail) - 2
                 PROVE  buf[SlotOf((tail' + d) % Wrap)] \in Items
      BY <1>0, <1>8, <2>2, <2>3 DEF CommitRead
    <3>1. d \in 0 .. Slots - 1 /\ d + 1 \in 0 .. Distance(head, tail) - 1
      BY <1>0, <1>s
    <3>2. (tail' + d) % Wrap = (tail + (d + 1)) % Wrap
      BY <1>0, <1>8, <3>1, PositionAfterRead DEF CommitRead
    <3> QED
      BY <3>1, <3>2 DEF RingInv
  <2>7. (writer' # "idle" => Distance(head, tail)' < Slots)
        /\ (writer' = "filled" => buf'[SlotOf(head')] \in Items)
    BY <1>0, <1>8, <1>s, <2>2, <2>3 DEF CommitRead, RingInv
  <2>8. reader' = "idle" /\ HeldIsOldest'
    BY <1>8 DEF CommitRead, HeldIsOldest
  <2> QED
    BY <2>4, <2>5, <2>6, <2>7, <2>8 DEF RingInv
<1>9. CASE UNCHANGED vars
  BY <1>9 DEF vars, RingInv, TypeOK, CursorsInStep, HeldIsOldest, Distance, SlotOf
<1> QED
  BY <1>1, <1>2, <1>3, <1>4, <1>5, <1>6, <1>7, <1>8, <1>9 DEF Next, Producer, Consumer

\* RingInv holds in every reachable state of the ring, whatever the number of
\* slots.
THEOREM RingInvariant == Spec => []RingInv
  BY InitInv, NextInv, PTL DEF Spec

\* The slot the producer writes and the slot the consumer reads differ.
LEMMA InvExclusive == RingInv => SlotExclusive
<1> SUFFICES ASSUME RingInv, writer # "idle", reader # "idle"
             PROVE  SlotOf(head) # SlotOf(tail)
  BY DEF SlotExclusive
<1>1. head \in 0 .. Wrap - 1 /\ tail \in 0 .. Wrap - 1
  BY DEF RingInv, TypeOK
<1>2. Distance(head, tail) \in 0 .. Slots /\ Slots \in Nat
  BY SlotsAssumption DEF RingInv, CursorsInStep
<1>3. head # tail /\ Distance(head, tail) < Slots
  BY DEF RingInv
<1>4. Distance(head, tail) >= 1
  BY <1>1, <1>2, <1>3, DistanceAfterRead
<1>5. Distance(head, tail) \in 1 .. Slots - 1
  BY <1>2, <1>3, <1>4
<1> QED
  BY <1>1, <1>5, SlotsDiffer

\* ring.hpp: beginWrite and peekRead hand out slots that the other thread is
\* not working on.
THEOREM NoSlotRace == Spec => []SlotExclusive
  BY RingInvariant, InvExclusive, PTL

\* ring.hpp: the tail never passes the head, on either side of a wrap.
THEOREM CursorsStayInStep == Spec => []CursorsInStep
<1>1. RingInv => CursorsInStep
  BY DEF RingInv
<1> QED
  BY <1>1, RingInvariant, PTL

\* ring.hpp: what peekRead returned stays a whole, current chunk until it is
\* released.
THEOREM HeldStaysOldest == Spec => []HeldIsOldest
<1>1. RingInv => HeldIsOldest
  BY DEF RingInv
<1> QED
  BY <1>1, RingInvariant, PTL

\* The state of the ring is well typed.
THEOREM TypeCorrect == Spec => []TypeOK
<1>1. RingInv => TypeOK
  BY DEF RingInv
<1> QED
  BY <1>1, RingInvariant, PTL

-----------------------------------------------------------------------------
(* The ring implements the bounded queue.                                  *)

\* The stored items are a sequence of as many items as the cursors span.
LEMMA StoredSeq ==
  ASSUME RingInv
  PROVE  /\ Stored \in Seq(Items)
         /\ Len(Stored) = Distance(head, tail)
         /\ \A i \in 1 .. Distance(head, tail) :
              Stored[i] = buf[SlotOf((tail + i - 1) % Wrap)]
<1>1. Distance(head, tail) \in 0 .. Slots /\ Slots \in Nat
  BY SlotsAssumption DEF RingInv, CursorsInStep
<1>t. tail \in Nat
  BY WrapBounds DEF RingInv, TypeOK
<1>2. ASSUME NEW i \in 1 .. Distance(head, tail)
      PROVE  buf[SlotOf((tail + i - 1) % Wrap)] \in Items
  <2>1. i - 1 \in 0 .. Distance(head, tail) - 1
    BY <1>1
  <2>2. tail + i - 1 = tail + (i - 1)
    BY <1>1, <1>t
  <2> QED
    BY <2>1, <2>2 DEF RingInv
<1>3. Stored \in [1 .. Distance(head, tail) -> Items]
  BY <1>2 DEF Stored
<1>4. Stored \in Seq(Items) /\ Len(Stored) = Distance(head, tail)
  BY <1>1, <1>3
<1> QED
  BY <1>4 DEF Stored

\* A step of the ring puts, takes, or leaves the queue alone.
LEMMA NextRefines == RingInv /\ RingInv' /\ [Next]_vars => [Fifo!Next]_Fifo!vars
<1> SUFFICES ASSUME RingInv, RingInv', [Next]_vars
             PROVE  [Fifo!Next]_Fifo!vars
  OBVIOUS
<1>0. /\ TypeOK
      /\ Distance(head, tail) \in 0 .. Slots
      /\ head \in 0 .. Wrap - 1
      /\ tail \in 0 .. Wrap - 1
  BY DEF RingInv, CursorsInStep, TypeOK
<1>s. Slots \in Nat /\ Slots >= 1
  BY SlotsAssumption
<1>h. SlotOf(head) \in 0 .. Slots - 1
  BY <1>0, SlotOfType
<1>q. /\ Stored \in Seq(Items)
      /\ Len(Stored) = Distance(head, tail)
      /\ \A i \in 1 .. Distance(head, tail) :
           Stored[i] = buf[SlotOf((tail + i - 1) % Wrap)]
  BY StoredSeq
\* Filling the slot at head leaves the stored items as they are.
<1>f. ASSUME NEW v \in Items \cup {Torn}, Distance(head, tail) < Slots,
             buf' = [buf EXCEPT ![SlotOf(head)] = v],
             UNCHANGED <<head, tail, released>>
      PROVE  UNCHANGED Fifo!vars
  <2>1. Distance(head, tail) \in 0 .. Slots - 1
    BY <1>0, <1>s, <1>f
  <2>2. ASSUME NEW i \in 1 .. Distance(head, tail)
        PROVE  buf'[SlotOf((tail + i - 1) % Wrap)] = buf[SlotOf((tail + i - 1) % Wrap)]
    <3>1. i - 1 \in 0 .. Distance(head, tail) - 1 /\ tail + i - 1 = tail + (i - 1)
      BY <1>0, <1>s
    <3>2. /\ (tail + i - 1) % Wrap \in 0 .. Wrap - 1
          /\ SlotOf((tail + i - 1) % Wrap) # SlotOf(head)
      BY <1>0, <2>1, <3>1, FillTouchesNoChunk
    <3>3. SlotOf((tail + i - 1) % Wrap) \in 0 .. Slots - 1
      BY <3>2, SlotOfType
    <3> QED
      BY <1>f, <1>h, <3>2, <3>3 DEF RingInv, TypeOK
  <2>3. Stored' = Stored
    BY <1>f, <2>2 DEF Stored, Distance
  <2> QED
    BY <1>f, <2>3 DEF Fifo!vars
<1>1. CASE BeginWrite
  BY <1>1, <1>f DEF BeginWrite
<1>2. ASSUME NEW item \in Items, Fill(item) PROVE UNCHANGED Fifo!vars
  BY <1>2, <1>f DEF Fill, RingInv
<1>3. CASE CommitWrite
  <2>1. Distance(head, tail) \in 0 .. Slots - 1
    BY <1>0, <1>3, <1>s DEF CommitWrite, RingInv
  <2>2. Distance(head, tail)' = Distance(head, tail) + 1
    BY <1>0, <1>3, <2>1, DistanceAfterWrite DEF CommitWrite, Distance
  <2> DEFINE item == buf[SlotOf(head)]
  <2>3. item \in Items
    BY <1>3 DEF CommitWrite, RingInv
  <2>4. /\ Stored' \in Seq(Items)
        /\ Len(Stored') = Distance(head, tail) + 1
        /\ \A i \in 1 .. Distance(head, tail) + 1 :
             Stored'[i] = buf[SlotOf((tail + i - 1) % Wrap)]
    <3>1. Stored' = [i \in 1 .. Distance(head, tail) + 1 |->
                       buf[SlotOf((tail + i - 1) % Wrap)]]
      BY <1>3, <2>2 DEF CommitWrite, Stored, SlotOf
    <3>2. ASSUME NEW i \in 1 .. Distance(head, tail) + 1
          PROVE  buf[SlotOf((tail + i - 1) % Wrap)] \in Items
      <4>1. CASE i = Distance(head, tail) + 1
        <5>1. tail + i - 1 = tail + Distance(head, tail)
          BY <1>0, <1>s, <4>1
        <5> QED
          BY <1>0, <2>3, <5>1, PositionOfHead
      <4>2. CASE i # Distance(head, tail) + 1
        <5>1. i - 1 \in 0 .. Distance(head, tail) - 1 /\ tail + i - 1 = tail + (i - 1)
          BY <1>0, <1>s, <4>2
        <5> QED
          BY <5>1 DEF RingInv
      <4> QED
        BY <4>1, <4>2
    <3>3. Stored' \in [1 .. Distance(head, tail) + 1 -> Items]
      BY <3>1, <3>2
    <3>4. Distance(head, tail) + 1 \in Nat
      BY <1>0, <1>s
    <3>5. Stored' \in Seq(Items) /\ Len(Stored') = Distance(head, tail) + 1
      BY <3>3, <3>4
    <3> QED
      BY <3>1, <3>5
  <2>5. Stored'[Distance(head, tail) + 1] = item
    <3>1. tail + (Distance(head, tail) + 1) - 1 = tail + Distance(head, tail)
      BY <1>0, <1>s
    <3> QED
      BY <1>0, <1>s, <2>4, <3>1, PositionOfHead, SMTT(30)
  <2>6. Stored' = Append(Stored, item)
    BY <1>q, <1>0, <1>s, <2>3, <2>4, <2>5, SMTT(30)
  <2>7. Fifo!Put(item)
    <3>1. Len(Stored) < Slots
      BY <1>q, <1>s, <2>1
    <3>2. released' = released
      BY <1>3 DEF CommitWrite
    <3> HIDE DEF item
    <3> QED
      BY <2>6, <3>1, <3>2 DEF Fifo!Put
  <2> QED
    BY <2>3, <2>7 DEF Fifo!Next
<1>4. CASE CommitRead
  <2>1. head # tail /\ held \in Items /\ held = buf[SlotOf(tail)]
    BY <1>4 DEF CommitRead, RingInv, HeldIsOldest
  <2>2. /\ Distance(head, tail) >= 1
        /\ Distance(head, tail)' = Distance(head, tail) - 1
    BY <1>0, <1>4, <2>1, DistanceAfterRead DEF CommitRead, Distance
  <2>3. ASSUME NEW i \in 1 .. Distance(head, tail) - 1
        PROVE  (tail' + i - 1) % Wrap = (tail + (i + 1) - 1) % Wrap
    <3>1. i - 1 \in 0 .. Slots - 1
      BY <1>0, <1>s
    <3>2. (Advance(tail) + (i - 1)) % Wrap = (tail + ((i - 1) + 1)) % Wrap
      BY <1>0, <3>1, PositionAfterRead
    <3>3. Advance(tail) \in Int
      BY <1>0, <2>1, DistanceAfterRead
    <3>4. /\ Advance(tail) + (i - 1) = Advance(tail) + i - 1
          /\ tail + ((i - 1) + 1) = tail + (i + 1) - 1
      BY <1>0, <1>s, <3>3
    <3> QED
      BY <1>4, <3>2, <3>4 DEF CommitRead
  <2>4. Stored' = [i \in 1 .. Distance(head, tail) - 1 |->
                     buf[SlotOf((tail + (i + 1) - 1) % Wrap)]]
    BY <1>4, <2>2, <2>3 DEF CommitRead, Stored
  <2>5. Stored' = [i \in 1 .. Distance(head, tail) - 1 |-> Stored[i + 1]]
    <3>1. \A i \in 1 .. Distance(head, tail) - 1 : i + 1 \in 1 .. Distance(head, tail)
      BY <1>0, <1>s
    <3> QED
      BY <1>q, <2>4, <3>1
  <2>6. Stored # <<>> /\ Stored' = Tail(Stored)
    <3>1. Stored # <<>>
      BY <1>0, <1>s, <1>q, <2>2
    <3>2. /\ Tail(Stored) \in Seq(Items)
          /\ Len(Tail(Stored)) = Distance(head, tail) - 1
          /\ \A i \in 1 .. Len(Tail(Stored)) : Tail(Stored)[i] = Stored[i + 1]
      BY <1>q, <3>1, HeadTailProperties
    <3>3. Stored' \in [1 .. Distance(head, tail) - 1 -> Items]
      <4>1. ASSUME NEW i \in 1 .. Distance(head, tail) - 1 PROVE Stored[i + 1] \in Items
        BY <1>0, <1>s, <1>q
      <4> QED
        BY <2>5, <4>1
    <3>4. Distance(head, tail) - 1 \in Nat
      BY <1>0, <1>s, <2>2
    <3>5. Stored' \in Seq(Items) /\ Len(Stored') = Distance(head, tail) - 1
      BY <3>3, <3>4
    <3>6. \A i \in 1 .. Len(Stored') : Stored'[i] = Tail(Stored)[i]
      BY <2>5, <3>2, <3>5
    <3>7. Stored' = Tail(Stored)
      BY <3>2, <3>5, <3>6, SeqEqual
    <3> QED
      BY <3>1, <3>7
  <2>7. Head(Stored) = held
    <3>1. 1 \in 1 .. Distance(head, tail)
      BY <1>0, <1>s, <2>2
    <3>2. Stored[1] = buf[SlotOf((tail + 1 - 1) % Wrap)]
      BY <1>q, <3>1
    <3>3. (tail + 1 - 1) % Wrap = tail
      <4>1. tail + 1 - 1 = tail + 0
        BY <1>0
      <4> QED
        BY <1>0, <4>1, OldestIsAtTail
    <3> QED
      BY <1>q, <2>1, <2>6, <3>2, <3>3
  <2>8. Fifo!Take
    BY <1>4, <2>6, <2>7 DEF Fifo!Take, CommitRead
  <2> QED
    BY <2>8 DEF Fifo!Next
<1>5. CASE Abandon \/ PeekRead \/ ReadSlot \/ Keep \/ UNCHANGED vars
  <2>1. UNCHANGED <<head, tail, buf, released>>
    BY <1>5 DEF Abandon, PeekRead, ReadSlot, Keep, vars
  <2> QED
    BY <2>1 DEF Fifo!vars, Stored, Distance, SlotOf
<1> QED
  BY <1>1, <1>2, <1>3, <1>4, <1>5 DEF Next, Producer, Consumer

LEMMA InitRefines == Init => Fifo!Init
<1> SUFFICES ASSUME Init PROVE Fifo!Init
  OBVIOUS
<1>1. RingInv
  BY InitInv
<1>2. Distance(head, tail) = 0
  BY <1>1, DistanceLinear DEF Init, RingInv, TypeOK
<1>3. Stored = <<>>
  BY <1>1, <1>2, StoredSeq
<1> QED
  BY <1>3 DEF Init, Fifo!Init

\* ring.hpp: a ring used by one producer and one consumer is a bounded
\* first-in first-out queue.
THEOREM RingIsFifo == Spec => ImplementsFifo
<1>1. Spec => Fifo!Init
  BY InitRefines DEF Spec
<1>2. Spec => [][Fifo!Next]_Fifo!vars
  BY RingInvariant, NextRefines, PTL DEF Spec
<1> QED
  BY <1>1, <1>2 DEF ImplementsFifo, Fifo!Spec
=============================================================================
