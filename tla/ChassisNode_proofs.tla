------------------------- MODULE ChassisNode_proofs -------------------------
(***************************************************************************)
(* Proofs that the chassis node never drives a command of an earlier       *)
(* session and that its state is well typed, for every set of commands,    *)
(* queue depth and watchdog limit.                                         *)
(***************************************************************************)
EXTENDS ChassisNode, SequenceTheorems, TLAPS

\* A vehicle that is latched, not yet constructed or being connected has no
\* target; while connected it follows the command the node remembers.
DriveInv ==
  /\ car \in {"none", "made"}
  /\ estop => target = 0
  /\ car = "none" => target = 0 /\ ~connected
  /\ pc \in {"init", "dialing", "burst"} => target = 0
  /\ pc \in {"dialing", "burst"} => car = "made"
  /\ DrivesLastCommand

\* Only _check_connection dials a car again, and it closes the car first; so a
\* link comes up on a vehicle without a target.
THEOREM DrivesLastHolds == NodeSpec => []DrivesLastCommand
<1> USE DEF DriveInv, DrivesLastCommand
<1>1. NodeInit => DriveInv
  BY DEF NodeInit, Init
<1>2. DriveInv /\ [NodeNext]_allVars => DriveInv'
  <2> SUFFICES ASSUME DriveInv, [NodeNext]_allVars PROVE DriveInv'
    OBVIOUS
  <2>1. CASE SdkMissing \/ InitSdk
    BY <2>1 DEF SdkMissing, InitSdk, vars
  <2>2. CASE CheckConnection
    BY <2>2 DEF CheckConnection, Latch
  <2>3. CASE Dial \/ DialFails
    BY <2>3 DEF Dial, DialFails, LinkUp, vars
  <2>4. CASE BurstEnds
    BY <2>4 DEF BurstEnds, Arm, LinkDown
  <2>5. ASSUME NEW v \in Commands, Publish(v) PROVE DriveInv'
    BY <2>5 DEF Publish, vars
  <2>6. CASE CmdCallback
    <3>1. CASE car = "made" /\ Ready
      BY <2>6, <3>1 DEF CmdCallback, SetMotion, Command
    <3>2. CASE ~(car = "made" /\ Ready)
      <4>1. connected => target = 0 BY <3>2 DEF Ready
      <4>2. UNCHANGED vars /\ UNCHANGED <<car, pc>> BY <2>6, <3>2 DEF CmdCallback, SetMotion
      <4>3. QED BY <4>1, <4>2 DEF vars
    <3>3. QED BY <3>1, <3>2
  <2>7. CASE Keepalive
    BY <2>7 DEF Keepalive, SetMotion, Ready, Command, vars, nodeVars
  <2>8. CASE WatchdogCheck
    <3>1. CASE car = "made" /\ Ready
      BY <2>8, <3>1 DEF WatchdogCheck, SetMotion, Command
    <3>2. CASE ~(car = "made" /\ Ready)
      <4>1. connected => target = 0 BY <3>2 DEF Ready
      <4>2. UNCHANGED vars /\ UNCHANGED <<car, pc>> BY <2>8, <3>2 DEF WatchdogCheck, SetMotion
      <4>3. QED BY <4>1, <4>2 DEF vars
    <3>3. QED BY <3>1, <3>2
  <2>9. CASE PublishOdom \/ Clock
    BY <2>9 DEF PublishOdom, Clock, vars
  <2>10. CASE Destroy
    BY <2>10 DEF Destroy, vars
  <2>11. CASE VehicleStep
    BY <2>11 DEF VehicleStep, Approach, Cut, Latch, LinkDown, nodeVars
  <2>12. CASE UNCHANGED allVars
    BY <2>12 DEF allVars, vars, nodeVars
  <2>13. QED
    BY <2>1, <2>2, <2>3, <2>4, <2>5, <2>6, <2>7, <2>8, <2>9, <2>10, <2>11, <2>12
    DEF NodeNext, Callback
<1>3. DriveInv => DrivesLastCommand
  OBVIOUS
<1>4. QED
  BY <1>1, <1>2, <1>3, PTL DEF NodeSpec
-----------------------------------------------------------------------------
\* A queue of bounded depth that drops its oldest message stays bounded.
LEMMA DepthHolds ==
  ASSUME queue \in Seq(Commands), Len(queue) <= Depth, NEW v \in Commands, Publish(v)
  PROVE  queue' \in Seq(Commands) /\ Len(queue') <= Depth
<1>1. Len(queue) \in Nat /\ Depth \in Nat \ {0}
  BY NodeAssumption DEF NodeAssumption
<1>2. CASE Len(queue) < Depth
  <2>1. Append(queue, v) \in Seq(Commands) /\ Len(Append(queue, v)) = Len(queue) + 1
    BY AppendProperties
  <2>2. QED BY <1>1, <1>2, <2>1 DEF Publish
<1>3. CASE ~(Len(queue) < Depth)
  <2>1. queue # <<>>
    BY <1>1, <1>3, EmptySeq
  <2>2. Tail(queue) \in Seq(Commands) /\ Len(Tail(queue)) = Len(queue) - 1
    BY <2>1, HeadTailProperties
  <2>3. /\ Append(Tail(queue), v) \in Seq(Commands)
        /\ Len(Append(Tail(queue), v)) = Len(Tail(queue)) + 1
    BY <2>2, AppendProperties
  <2>4. Len(Append(Tail(queue), v)) <= Depth
    BY <1>1, <2>2, <2>3
  <2>5. QED BY <1>3, <2>3, <2>4 DEF Publish
<1>4. QED BY <1>2, <1>3

LEMMA RampStepIsInt ==
  ASSUME NEW old \in Int, NEW new \in Int PROVE RampStep(old, new) \in Int
BY RatesArePositive DEF RampStep, Accelerating, Size

\* Every step of the contract keeps the types of the vehicle's motion.
LEMMA MotionTypes ==
  ASSUME NodeTypeOK,
         \/ SetMotion(0) \/ (\E v \in Commands : SetMotion(v))
         \/ LinkUp \/ LinkDown \/ Latch \/ Arm \/ Approach \/ Cut \/ UNCHANGED vars
  PROVE  /\ connected' \in BOOLEAN /\ estop' \in BOOLEAN
         /\ target' \in Commands \cup {0} /\ current' \in Int
<1> USE DEF NodeTypeOK
<1>1. ASSUME NEW v \in Commands \cup {0}, SetMotion(v)
      PROVE  /\ connected' \in BOOLEAN /\ estop' \in BOOLEAN
             /\ target' \in Commands \cup {0} /\ current' \in Int
  BY <1>1 DEF SetMotion, Command, vars
<1>2. CASE Approach
  <2>1. current \in Int /\ target \in Int
    BY CommandsAreSpeeds
  <2>2. RampStep(current, target) \in Int
    BY <2>1, RampStepIsInt
  <2>3. QED BY <1>2, <2>2 DEF Approach
<1>3. CASE LinkUp BY <1>3 DEF LinkUp
<1>4. CASE LinkDown BY <1>4 DEF LinkDown
<1>5. CASE Latch BY <1>5 DEF Latch
<1>6. CASE Arm
  <2>1. connected' \in BOOLEAN /\ estop' \in BOOLEAN BY <1>6, Zenon DEF Arm
  <2>2. target' \in Commands \cup {0} /\ current' \in Int BY <1>6 DEF Arm
  <2>3. QED BY <2>1, <2>2
<1>7. CASE Cut BY <1>7 DEF Cut
<1>8. CASE UNCHANGED vars BY <1>8 DEF vars
<1>9. QED BY <1>1, <1>2, <1>3, <1>4, <1>5, <1>6, <1>7, <1>8

\* Every state of the node is well typed; its /cmd_vel queue never outgrows the
\* depth of the subscription.
THEOREM NodeTypes == NodeSpec => []NodeTypeOK
<1>1. NodeInit => NodeTypeOK
  <2> SUFFICES ASSUME NodeInit PROVE NodeTypeOK
    OBVIOUS
  <2>1. queue \in Seq(Commands) /\ Len(queue) <= Depth
    BY NodeAssumption, EmptySeq DEF NodeInit
  <2>2. age \in 0..Limit + 1 /\ odom \in -OdomBound..OdomBound
    BY NodeAssumption DEF NodeInit
  <2>3. connected \in BOOLEAN /\ estop \in BOOLEAN
    BY Zenon DEF NodeInit, Init
  <2>4. target \in Commands \cup {0} /\ current \in Int
    BY DEF NodeInit, Init
  <2>5. QED BY <2>1, <2>2, <2>3, <2>4 DEF NodeInit, NodeTypeOK
<1>2. NodeTypeOK /\ [NodeNext]_allVars => NodeTypeOK'
  <2> SUFFICES ASSUME NodeTypeOK, [NodeNext]_allVars PROVE NodeTypeOK'
    OBVIOUS
  <2> DEFINE Motion == /\ connected' \in BOOLEAN /\ estop' \in BOOLEAN
                       /\ target' \in Commands \cup {0} /\ current' \in Int
  <2>1. CASE SdkMissing \/ InitSdk
    <3>1. Motion BY <2>1, MotionTypes DEF SdkMissing, InitSdk
    <3>2. QED BY <2>1, <3>1 DEF SdkMissing, InitSdk, NodeTypeOK
  <2>2. CASE CheckConnection
    <3>1. Motion BY <2>2, MotionTypes DEF CheckConnection
    <3>2. QED BY <2>2, <3>1 DEF CheckConnection, NodeTypeOK
  <2>3. CASE Dial \/ DialFails
    <3>1. Motion BY <2>3, MotionTypes DEF Dial, DialFails
    <3>2. QED BY <2>3, <3>1 DEF Dial, DialFails, NodeTypeOK
  <2>4. CASE BurstEnds
    <3>1. Motion BY <2>4, MotionTypes DEF BurstEnds
    <3>2. QED BY <2>4, <3>1 DEF BurstEnds, NodeTypeOK
  <2>5. ASSUME NEW v \in Commands, Publish(v) PROVE NodeTypeOK'
    <3>1. Motion BY <2>5, MotionTypes DEF Publish
    <3>2. queue' \in Seq(Commands) /\ Len(queue') <= Depth
      BY <2>5, DepthHolds DEF NodeTypeOK
    <3>3. QED BY <2>5, <3>1, <3>2 DEF Publish, NodeTypeOK
  <2>6. CASE CmdCallback
    <3>1. queue # <<>> /\ queue' = Tail(queue) /\ UNCHANGED <<car, pc, odom>>
          /\ age' = 0 /\ last' = Head(queue) /\ SetMotion(Head(queue))
      BY <2>6 DEF CmdCallback
    <3>2. /\ Head(queue) \in Commands /\ Tail(queue) \in Seq(Commands)
          /\ Len(Tail(queue)) = Len(queue) - 1 /\ Len(queue) \in Nat
      BY <3>1, HeadTailProperties DEF NodeTypeOK
    <3>3. Motion BY <3>1, <3>2, MotionTypes
    <3>4. Len(queue') <= Depth BY <3>1, <3>2, NodeAssumption DEF NodeTypeOK
    <3>5. age' \in 0..Limit + 1 BY <3>1, NodeAssumption
    <3>6. QED BY <3>1, <3>2, <3>3, <3>4, <3>5 DEF NodeTypeOK
  <2>7. CASE Keepalive
    <3>1. Motion BY <2>7, MotionTypes DEF Keepalive
    <3>2. QED BY <2>7, <3>1 DEF Keepalive, nodeVars, NodeTypeOK
  <2>8. CASE WatchdogCheck
    <3>1. Motion BY <2>8, MotionTypes DEF WatchdogCheck
    <3>2. QED BY <2>8, <3>1 DEF WatchdogCheck, NodeTypeOK
  <2>9. CASE PublishOdom
    <3>1. Motion BY <2>9, MotionTypes DEF PublishOdom
    <3>2. QED BY <2>9, <3>1 DEF PublishOdom, NodeTypeOK
  <2>10. CASE Destroy
    <3>1. Motion
      <4>1. CASE car = "made" /\ Ready
        <5>1. connected' = FALSE /\ estop' = TRUE /\ target' = 0 /\ current' = 0
          BY <2>10, <4>1 DEF Destroy
        <5>2. connected' \in BOOLEAN /\ estop' \in BOOLEAN BY <5>1, Zenon
        <5>3. target' \in Commands \cup {0} /\ current' \in Int BY <5>1
        <5>4. QED BY <5>2, <5>3
      <4>2. CASE ~(car = "made" /\ Ready) BY <2>10, <4>2, MotionTypes DEF Destroy
      <4>3. QED BY <4>1, <4>2
    <3>2. QED BY <2>10, <3>1 DEF Destroy, NodeTypeOK
  <2>11. CASE VehicleStep
    <3>1. Motion BY <2>11, MotionTypes DEF VehicleStep
    <3>2. QED BY <2>11, <3>1 DEF VehicleStep, nodeVars, NodeTypeOK
  <2>12. CASE Clock
    <3>1. Motion BY <2>12, MotionTypes DEF Clock
    <3>2. age' \in 0..Limit + 1 BY <2>12, NodeAssumption DEF Clock, NodeTypeOK
    <3>3. QED BY <2>12, <3>1, <3>2 DEF Clock, NodeTypeOK
  <2>13. CASE UNCHANGED allVars
    BY <2>13 DEF allVars, vars, nodeVars, NodeTypeOK
  <2>14. QED
    BY <2>1, <2>2, <2>3, <2>4, <2>5, <2>6, <2>7, <2>8, <2>9, <2>10, <2>11, <2>12, <2>13
    DEF NodeNext, Callback
<1>3. QED BY <1>1, <1>2, PTL DEF NodeSpec
=============================================================================
