------------------------- MODULE MCFourWheelVehicle -------------------------
(***************************************************************************)
(* Small instances of FourWheelVehicle for TLC.                            *)
(***************************************************************************)
EXTENDS FourWheelVehicle, TLC

CONSTANTS app, helper, loop1, loop2

OneApp == {app}
TwoApps == {app, helper}
OneLoop == {loop1}
TwoLoops == {loop1, loop2}
FullSpeed == {2}
ForwardOnly == {0, 2}
BothWays == {-2, 0, 2}

AllCalls == {"connect", "close", "set", "stop", "estop", "ease", "clear", "move"}
HelperCalls == {"connect", "close", "set", "stop", "estop", "move"}
LiveCalls == {"connect", "close", "set", "estop", "ease", "move"}
CoreCalls == {"connect", "close", "set", "stop", "estop", "clear"}

LoopSymmetry == Permutations(TwoLoops)
=============================================================================
