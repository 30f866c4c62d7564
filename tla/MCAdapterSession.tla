-------------------------- MODULE MCAdapterSession --------------------------
(* Instances of AdapterSession for TLC. *)
EXTENDS AdapterSession, TLC

DefaultPlan == [span |-> 1, rbw |-> 20, vbw |-> 2, img |-> FALSE]

\* Nothing, fields alone, and fields that interact.  An RBW of 20 or 40 has
\* the same grid, and a video bandwidth of 40 is over the RBW.
AllRequests ==
  {Nothing, [span |-> 2, avg |-> 1], [vbw |-> 40, img |-> FALSE],
   [rbw |-> 40, span |-> 1], "rbw" :> 10}
=============================================================================
