--------------------------- MODULE MotionContract ---------------------------
(***************************************************************************)
(* What the vehicle SDK promises its callers about motion, whatever its    *)
(* threads do: the command and the ramped speed are still while the        *)
(* emergency stop is latched; the speed only follows the ramp towards the  *)
(* target or is cut to zero; a new command is accepted only on a connected *)
(* and unlatched vehicle; and the latch is only released into stillness.   *)
(* FourWheelVehicle implements this module, ChassisNode builds on it.      *)
(***************************************************************************)
EXTENDS Ramp

CONSTANTS
  Commands     \* the motion commands callers issue: signed speed levels

ASSUME CommandsAreSpeeds == Commands \subseteq Int

VARIABLES
  connected,   \* GatewayClient.is_connected
  estop,       \* FourWheelVehicle._estop_latched
  target,      \* FourWheelVehicle._target
  current      \* FourWheelVehicle._current, the ramped speed

vars == <<connected, estop, target, current>>

Init ==
  /\ connected = FALSE
  /\ estop = TRUE
  /\ target = 0
  /\ current = 0

LinkUp ==
  /\ connected' = TRUE
  /\ UNCHANGED <<estop, target, current>>

LinkDown ==
  /\ connected' = FALSE
  /\ UNCHANGED <<estop, target, current>>

\* emergency_stop, close and the reaction to a failed send.
Latch ==
  /\ estop' = TRUE
  /\ target' = 0
  /\ current' = 0
  /\ UNCHANGED connected

\* The last step of connect: the latch opens on a vehicle set to stand still.
Arm ==
  /\ estop' = FALSE
  /\ target' = 0
  /\ current' = 0
  /\ UNCHANGED connected

\* clear_emergency_stop: the latch opens, no speed is touched.
Unlatch ==
  /\ estop' = FALSE
  /\ UNCHANGED <<connected, target, current>>

Command(v) ==
  /\ connected
  /\ ~estop
  /\ target' = v
  /\ UNCHANGED <<connected, estop, current>>

\* stop
Halt ==
  /\ target' = 0
  /\ current' = 0
  /\ UNCHANGED <<connected, estop>>

\* smooth_stop
Ease ==
  /\ target' = 0
  /\ UNCHANGED <<connected, estop, current>>

\* One period of the control loop: the watchdog or the latch cuts the speed,
\* otherwise it takes one step of the ramp.
Approach ==
  /\ ~estop
  /\ current' = RampStep(current, target)
  /\ UNCHANGED <<connected, estop, target>>

Cut ==
  /\ current' = 0
  /\ UNCHANGED <<connected, estop, target>>

Next ==
  \/ LinkUp \/ LinkDown
  \/ Latch \/ Arm \/ Unlatch
  \/ \E v \in Commands : Command(v)
  \/ Halt \/ Ease
  \/ Approach \/ Cut

Spec == Init /\ [][Next]_vars
=============================================================================
