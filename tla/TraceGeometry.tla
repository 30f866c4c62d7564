--------------------------- MODULE TraceGeometry ---------------------------
(***************************************************************************)
(* driver/plan.js: an engine sweep as the points SoundBase draws.          *)
(*                                                                         *)
(* Cells and points are sequences; the JavaScript counts them from zero.   *)
(* Levels are whole hundredths of a dB, NaN a number that is no level, and *)
(* frequencies whole multiples of a hertz.                                 *)
(***************************************************************************)
EXTENDS Integers, Sequences, FiniteSetsExt

CONSTANTS MaxPoints, MaxStepHz, NaN

ASSUME GeometryAssumption == MaxPoints \in Nat \ {0} /\ MaxStepHz \in Nat \ {0}

Hole == 1 \* MaskBit.hole

CeilDiv(a, b) == -((-a) \div b)
Larger(a, b) == IF a > b THEN a ELSE b
Smaller(a, b) == IF a < b THEN a ELSE b

-----------------------------------------------------------------------------
(* The grid, and the trace that is promised for it.                        *)

\* snapToGrid().
SnapToGrid(from, to, rbw) ==
  LET step  == Smaller(MaxStepHz, rbw)
      start == (Smaller(from, to) \div step) * step
      end   == CeilDiv(Larger(from, to), step) * step
      stop  == IF end <= start THEN start + step ELSE end
  IN [startHz |-> start, stopHz |-> stop, stepHz |-> step,
      binCount |-> (stop - start) \div step + 1]

\* Pulled in to the last point.
StopOfPoints(grid, pointCount, step) == grid.startHz + (pointCount - 1) * step

\* nativeGeometry().
NativeGeometry(grid) ==
  LET factor == Larger(1, CeilDiv(grid.binCount, MaxPoints))
      count  == Larger(2, CeilDiv(grid.binCount, factor))
      step   == grid.stepHz * factor
  IN [startHz |-> grid.startHz, stopHz |-> StopOfPoints(grid, count, step),
      stepHz |-> step, pointCount |-> count, factor |-> factor]

-----------------------------------------------------------------------------
(* Filling the gaps.                                                       *)

\* A cell with a level that is no hole.  No mask at all is an empty one.
IsValid(values, mask, i) ==
  values[i] # NaN /\ ~(i \in DOMAIN mask /\ mask[i] % 2 = Hole)

ValidCells(values, mask) == {i \in DOMAIN values : IsValid(values, mask, i)}

\* leftIdx and rightIdx: the last valid cell up to each of n, and the first from
\* it on, 0 for none.
LeftIdx(valid, n) ==
  LET left[i \in 0..n] ==
        IF i = 0 THEN 0 ELSE IF i \in valid THEN i ELSE left[i - 1]
  IN left
RightIdx(valid, n) ==
  LET right[i \in 1..(n + 1)] ==
        IF i > n THEN 0 ELSE IF i \in valid THEN i ELSE right[i + 1]
  IN right

\* Mutant: a tie goes to the higher frequency.
NearerAbove(l, r, i) == i - l < r - i

Nearer(l, r, i) == i - l <= r - i

\* The cell that cell i takes its level from.
Source(l, r, i) ==
  IF l = 0 THEN r ELSE IF r = 0 THEN l ELSE IF Nearer(l, r, i) THEN l ELSE r

\* fillGaps().  A sweep without a valid cell is the empty sequence, the code's
\* null.
FillGaps(values, mask) ==
  LET n == Len(values)
      valid == ValidCells(values, mask)
      left == LeftIdx(valid, n)
      right == RightIdx(valid, n)
  IN IF left[n] = 0 THEN <<>>
     ELSE [i \in 1..n |-> values[Source(left[i], right[i], i)]]

-----------------------------------------------------------------------------
(* Points.                                                                 *)

ReducerFor(detector) == IF detector = "min" THEN "min" ELSE "max"

\* Math.round(v * 10) / 10: hundredths to tenths, halves upwards.
Round1(v) == (v + 5) \div 10

\* decimate(): the last point may have fewer cells.
Decimate(values, factor, reducer) ==
  LET n == Len(values)
      Block(j) == {values[i] : i \in (factor * (j - 1) + 1)..Smaller(n, factor * j)}
  IN [j \in 1..CeilDiv(n, factor) |->
        Round1(IF reducer = "min" THEN Min(Block(j)) ELSE Max(Block(j)))]

\* traceToPoints(): nothing is the empty sequence.
TraceToPoints(kDbm, values, mask, geometry, reducer) ==
  LET filled == FillGaps(values, mask)
      dbm    == [i \in DOMAIN filled |-> filled[i] + kDbm]
      points == Decimate(dbm, geometry.factor, reducer)
  IN IF filled # <<>> /\ Len(points) = geometry.pointCount THEN points ELSE <<>>

-----------------------------------------------------------------------------
(* References, for the definitions above to be checked against.            *)

\* The valid cell nearest to i, the lower of two.
NearestValid(values, mask, i) ==
  LET valid == ValidCells(values, mask)
      Far(j) == IF j < i THEN i - j ELSE j - i
  IN CHOOSE j \in valid : \A k \in valid : Far(j) < Far(k) \/ (Far(j) = Far(k) /\ j <= k)

\* The frequencies SoundBase reconstructs from an echo: point j of a geometry.
AxisHz(g, j) == g.startHz + ((j - 1) * (g.stopHz - g.startHz)) \div (g.pointCount - 1)

\* The cells a point stands for are those from its frequency to the next's.
CellsOf(grid, g, j) ==
  {i \in 1..grid.binCount :
     LET f == grid.startHz + (i - 1) * grid.stepHz
     IN AxisHz(g, j) <= f /\ f < AxisHz(g, j) + g.stepHz}

\* What is promised of a sweep: each point is the strongest (or the weakest)
\* level measured in its cells, or next to a cell that was not measured.
PointsAreOf(grid, kDbm, values, mask, reducer, points) ==
  LET g == NativeGeometry(grid)
      Level(i) == values[NearestValid(values, mask, i)] + kDbm
      Levels(j) == {Level(i) : i \in CellsOf(grid, g, j)}
  IN /\ Len(points) = g.pointCount
     /\ \A j \in 1..g.pointCount :
          points[j] = Round1(IF reducer = "min" THEN Min(Levels(j)) ELSE Max(Levels(j)))
=============================================================================
