--------------------------- MODULE CaptureService ---------------------------
(***************************************************************************)
(* What the dsp thread promises the ctl thread: every capture asked for is *)
(* answered once, and in the order they were asked for.                    *)
(***************************************************************************)
EXTENDS Naturals

VARIABLES asked,     \* the number of the last capture asked for
          answered   \* the number of the last one answered

vars == <<asked, answered>>

Init == asked = 0 /\ answered = 0

Ask == /\ asked' = asked + 1
       /\ UNCHANGED answered

Answer == /\ answered < asked
          /\ answered' = answered + 1
          /\ UNCHANGED asked

Spec == Init /\ [][Ask \/ Answer]_vars
=============================================================================
