-------------------------- MODULE MCEngineControl --------------------------
(***************************************************************************)
(* EngineControl with two profiles: the default plan is one of them, so a  *)
(* plan with the other reconfigures the radio.                             *)
(***************************************************************************)
EXTENDS EngineControl

CONSTANTS p1, p2, s1, s2

MCFirstPlan == [profile |-> p1, span |-> s1]
MCLinePlan == [profile |-> p2, span |-> s1]
=============================================================================
