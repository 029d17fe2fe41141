------------------------------ MODULE MCFanOut ------------------------------
(***************************************************************************)
(* FanOut for TLC, on its own: what a group promises follows from its      *)
(* actions.                                                                *)
(***************************************************************************)
EXTENDS FanOut

CONSTANTS t1, t2, t3, v1, v2
=============================================================================
