---------------------------- MODULE MCFrameStream ----------------------------
(* Streams for FrameStream: one sweep of every shape, or two records.      *)
EXTENDS FrameStream

Levels == {91, 99, NaN}

Sweep(type, n, kDbm, traces) ==
  [msgType |-> type, binCount |-> n, kDbm |-> kDbm, traces |-> traces, json |-> <<>>]
Json(type, body) ==
  [msgType |-> type, binCount |-> 0, kDbm |-> 0, traces |-> <<>>, json |-> body]

Values(kind, v) == [kind |-> kind, values |-> v]
Masked(m) == [kind |-> Mask, mask |-> m]

\* Every level in three cells, with and without holes and an interpolated cell
\* that is none (2).
Masks == {<<0, 0, 0>>, <<1, 0, 0>>, <<0, 1, 2>>, <<1, 0, 1>>, <<1, 1, 1>>}
ThreeCells ==
  {Sweep(Complete, 3, 3, <<Values(LiveAvg, v), Values(LiveMin, Reverse(v)), Masked(m)>>) :
     v \in [1..3 -> Levels], m \in Masks}

\* Five cells on two points, where the last point has fewer; as many cells as
\* points.
OtherCells ==
  {Sweep(Complete, 5, 0, <<Values(LiveMin, v)>>) : v \in [1..5 -> {94, NaN}]}
    \cup {Sweep(Complete, 5, 0, <<Values(LiveAvg, <<94, 120, 95, 130, 94>>)>>),
          Sweep(Complete, 2, 0, <<Values(LiveAvg, <<94, 120>>)>>)}
Shapes == ThreeCells \cup OtherCells

\* Kinds of record that may stand before or after another.
Small == Sweep(Complete, 2, 1, <<Values(LiveAvg, <<94, 120>>)>>)
Good == {Small, [Small EXCEPT !.msgType = Partial],
         Sweep(Complete, 3, 0, <<Masked(<<1, 0, 0>>), Values(LivePeak, <<94, 95, 120>>)>>),
         Sweep(Complete, 2, 0, <<>>), Json(Status, <<>>), Json(Log, <<7>>)}
Records == {[frame |-> f, fault |-> "none"] : f \in Good}
  \cup {[frame |-> Small, fault |-> x] :
          x \in {"version", "overrun", "magic", "short", "long", "mismatch"}}

MCStreams == {<<[frame |-> f, fault |-> "none"]>> : f \in Shapes} \cup (Records \X Records)
=============================================================================
