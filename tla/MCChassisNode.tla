---------------------------- MODULE MCChassisNode ----------------------------
(***************************************************************************)
(* Small instances of ChassisNode for TLC.                                 *)
(***************************************************************************)
EXTENDS ChassisNode

Slow == {1, 2}
BothWays == {-2, 1}
=============================================================================
