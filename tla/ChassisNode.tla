----------------------------- MODULE ChassisNode -----------------------------
(***************************************************************************)
(* The ROS 2 chassis node (vehicle_bringup/chassis_node.py) on top of the  *)
(* vehicle SDK, which is seen through MotionContract: the callbacks of one *)
(* single-threaded executor interleave with the steps of the vehicle's own *)
(* threads, with lost links and with the publishers of /cmd_vel.           *)
(*                                                                         *)
(* A Twist is one signed speed level.  connect() blocks the executor while *)
(* it dials and sends its unlock burst; messages queue up meanwhile.       *)
(***************************************************************************)
EXTENDS MotionContract, Sequences

CONSTANTS
  Depth,       \* of the /cmd_vel subscription (10 in the code)
  Limit,       \* the node's own watchdog, 0.5 s, in ticks
  OdomBound    \* the odometer is followed this far (model bound)

ASSUME NodeAssumption == Depth \in Nat \ {0} /\ Limit \in Nat /\ OdomBound \in Nat

VARIABLES
  car,         \* self.car: "none" in simulation mode, "made" once constructed
  pc,          \* what the executor is doing
  queue,       \* /cmd_vel messages that wait for the executor
  last,        \* last_cmd_linear/angular, which the odometry integrates
  age,         \* ticks since last_cmd_time, counted up to Limit + 1
  odom         \* the integrated pose

nodeVars == <<car, pc, queue, last, age, odom>>
allVars == <<vars, nodeVars>>

Silent == age > Limit
Ready == connected /\ ~estop       \* FourWheelVehicle._require_ready

NodeInit ==
  /\ Init
  /\ car = "none" /\ pc = "init"
  /\ queue = <<>> /\ last = 0 /\ age = 0 /\ odom = 0
-----------------------------------------------------------------------------
(* Connecting: _init_sdk, _check_connection                                *)

\* The import of the SDK fails: the node runs in simulation mode.
SdkMissing ==
  /\ pc \in {"init", "spin"} /\ car = "none"
  /\ pc' = "spin"
  /\ UNCHANGED <<vars, car, queue, last, age, odom>>

InitSdk ==
  /\ pc \in {"init", "spin"} /\ car = "none"
  /\ car' = "made" /\ pc' = "dialing"
  /\ UNCHANGED <<vars, queue, last, age, odom>>

\* Mutant: connect() without close().
CheckWithoutClose ==
  /\ pc = "spin" /\ car = "made" /\ ~connected
  /\ pc' = "dialing"
  /\ UNCHANGED <<vars, car, queue, last, age, odom>>

\* Mutant: only a missing SDK is retried.
CheckMissingOnly == FALSE /\ UNCHANGED allVars

\* Every 2 s: a car that is not connected is closed, which latches and zeroes
\* it, and dialled again.
CheckConnection ==
  /\ pc = "spin" /\ car = "made" /\ ~connected
  /\ Latch
  /\ pc' = "dialing"
  /\ UNCHANGED <<car, queue, last, age, odom>>

DialFails ==
  /\ pc = "dialing"
  /\ pc' = "spin"
  /\ UNCHANGED <<vars, car, queue, last, age, odom>>

Dial ==
  /\ pc = "dialing"
  /\ LinkUp
  /\ pc' = "burst"
  /\ UNCHANGED <<car, queue, last, age, odom>>

\* The unlock burst is sent and connect() arms the vehicle, or it fails and
\* connect() closes the client.
BurstEnds ==
  /\ pc = "burst"
  /\ Arm \/ LinkDown
  /\ pc' = "spin"
  /\ UNCHANGED <<car, queue, last, age, odom>>
-----------------------------------------------------------------------------
(* Callbacks.  set_motion raises unless the vehicle is ready; every caller *)
(* swallows the exception.                                                 *)

SetMotion(v) ==
  IF car = "made" /\ Ready THEN Command(v) ELSE UNCHANGED vars

\* A publisher of /cmd_vel; a full queue drops its oldest message.
Publish(v) ==
  /\ pc \in {"spin", "dialing", "burst"}
  /\ queue' = IF Len(queue) < Depth THEN Append(queue, v) ELSE Append(Tail(queue), v)
  /\ UNCHANGED <<vars, car, pc, last, age, odom>>

CmdCallback ==
  /\ pc = "spin" /\ queue # <<>>
  /\ queue' = Tail(queue)
  /\ age' = 0
  /\ last' = Head(queue)
  /\ SetMotion(Head(queue))
  /\ UNCHANGED <<car, pc, odom>>

Keepalive ==
  /\ pc = "spin" /\ car = "made" /\ connected
  /\ SetMotion(0)
  /\ UNCHANGED nodeVars

\* Mutant: the watchdog stops the car and lets the odometry run on.
WatchdogCarOnly ==
  /\ pc = "spin" /\ Silent
  /\ SetMotion(0)
  /\ UNCHANGED nodeVars

WatchdogCheck ==
  /\ pc = "spin" /\ Silent
  /\ SetMotion(0)
  /\ last' = 0
  /\ UNCHANGED <<car, pc, queue, age, odom>>

PublishOdom ==
  /\ pc = "spin"
  /\ odom' = odom + last
  /\ odom' \in -OdomBound..OdomBound
  /\ UNCHANGED <<vars, car, pc, queue, last, age>>

\* Ctrl-C ends spin or interrupts connect(); destroy_node stops and closes the
\* car, but an exception of set_motion skips close().
Destroy ==
  /\ pc \in {"spin", "dialing", "burst"}
  /\ pc' = "gone"
  /\ IF car = "made" /\ Ready
     THEN connected' = FALSE /\ estop' = TRUE /\ target' = 0 /\ current' = 0
     ELSE UNCHANGED vars
  /\ UNCHANGED <<car, queue, last, age, odom>>

Clock ==
  /\ age <= Limit
  /\ age' = age + 1
  /\ UNCHANGED <<vars, car, pc, queue, last, odom>>
-----------------------------------------------------------------------------
\* The vehicle's own threads and the gateway.
VehicleStep ==
  /\ car = "made"
  /\ Approach \/ Cut \/ Latch \/ LinkDown
  /\ UNCHANGED nodeVars

Callback == CmdCallback \/ Keepalive \/ WatchdogCheck \/ PublishOdom

NodeNext ==
  \/ SdkMissing \/ InitSdk \/ CheckConnection \/ Dial \/ DialFails \/ BurstEnds
  \/ \E v \in Commands : Publish(v)
  \/ Callback
  \/ Destroy
  \/ VehicleStep
  \/ Clock

\* The executor serves every timer and the subscription again and again, and
\* time passes.  The gateway is reachable again and again while it is dialled.
NodeFairness ==
  /\ WF_allVars(InitSdk \/ SdkMissing)
  /\ WF_allVars(CheckConnection) /\ WF_allVars(Dial \/ DialFails) /\ SF_allVars(Dial)
  /\ WF_allVars(BurstEnds)
  /\ SF_allVars(CmdCallback) /\ SF_allVars(WatchdogCheck)
  /\ WF_allVars(Clock)

NodeSpec == NodeInit /\ [][NodeNext]_allVars
FairNodeSpec == NodeSpec /\ NodeFairness
-----------------------------------------------------------------------------
\* Types; the /cmd_vel queue never outgrows the depth of the subscription.
NodeTypeOK ==
  /\ connected \in BOOLEAN /\ estop \in BOOLEAN
  /\ target \in Commands \cup {0} /\ current \in Int
  /\ car \in {"none", "made"}
  /\ pc \in {"init", "spin", "dialing", "burst", "gone"}
  /\ queue \in Seq(Commands) /\ Len(queue) <= Depth
  /\ last \in Commands \cup {0}
  /\ age \in 0..Limit + 1
  /\ odom \in -OdomBound..OdomBound

\* What a connected vehicle is told to do is what the odometry integrates: no
\* command of an earlier session survives a reconnection.
DrivesLastCommand == connected /\ target # 0 => target = last

\* A node whose publishers fall silent stops the car and its odometry (the
\* 0.5 s watchdog: "stop if no /cmd_vel was received").
SilenceStops ==
  Silent /\ queue = <<>> ~>
    \/ last = 0 /\ (connected => target = 0)
    \/ queue # <<>> \/ ~Silent \/ pc = "gone"

\* A car that was made is connected again after every loss, as long as the
\* gateway answers now and then (_check_connection heals by itself).
Heals == car = "made" /\ ~connected ~> connected \/ pc = "gone"
=============================================================================
