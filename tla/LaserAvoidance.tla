----------------------------- MODULE LaserAvoidance -----------------------------
(***************************************************************************)
(* The avoidance node (lidar_avoidance/laser_avoidance.py) between /scan   *)
(* and the chassis node: the LD19 driver publishes, scan_repub may forward *)
(* what it finds on /scan to /scan, the node turns each scan into a        *)
(* command, and the chassis node's heartbeat and watchdog stop the car.    *)
(*                                                                         *)
(* A scene is what the beams measure, in centimetres by bearing in degrees *)
(* (0 ahead, 90 left); 0 stands for a value out of range.  Scans of one    *)
(* lidar all begin at the same angle_min.                                  *)
(***************************************************************************)
EXTENDS Integers, SequencesExt, FiniteSetsExt

CONSTANTS
  Bearings, Scenes,
  ScanDepth,   \* of the avoider's subscription to /scan (10 in the code)
  RelayDepth,  \* of scan_repub's (5 in the code)
  Patient      \* the chassis node's watchdog, in ticks

ASSUME AvoidanceAssumption ==
  /\ Bearings \subseteq 0..359 /\ Scenes \subseteq [Bearings -> Nat]
  /\ {ScanDepth, RelayDepth} \subseteq Nat \ {0} /\ Patient \in Nat

VARIABLES
  angleMin,    \* of every scan: 0 or -180
  scene,       \* what is around the car
  lidar,       \* the driver publishes
  relay,       \* scan_repub runs
  toRelay,     \* scans on their way to scan_repub
  toNode,      \* and to the avoidance node
  avoiding,    \* the avoidance node runs
  motion,      \* what the chassis node was last told
  quiet        \* ticks since it was told anything

avoidanceVars == <<angleMin, scene, lidar, relay, toRelay, toNode, avoiding,
                   motion, quiet>>
setting == <<angleMin, relay>>
topic == <<toRelay, toNode>>

AvoidanceInit ==
  /\ angleMin \in {0, -180} /\ scene \in Scenes /\ relay \in BOOLEAN
  /\ lidar = TRUE /\ toRelay = <<>> /\ toNode = <<>> /\ avoiding = TRUE
  /\ motion = "stop" /\ quiet = 0
-----------------------------------------------------------------------------
(* sector_min and scan_callback                                            *)

\* The angle of a beam, as the scan counts it.
BeamAngle(from, b) == ((b - from) % 360) + from

\* Mutant: no normalisation.
Plain(d) == d

\* atan2(sin d, cos d), in degrees
Wrapped(d) == ((d + 180) % 360) - 180

Infinite == 100000

Nearest(s, from, centre, half) ==
  LET beams == {b \in Bearings :
                  s[b] # 0 /\ Wrapped(BeamAngle(from, b) - centre) \in -half..half}
  IN Min({s[b] : b \in beams} \cup {Infinite})

Decide(s, from) ==
  LET front == Nearest(s, from, 0, 25)
      left == Nearest(s, from, 90, 70)
      right == Nearest(s, from, -90, 70)
      side == Min({left, right})
  IN IF front = Infinite THEN "stop"
     ELSE IF front < 50 \/ side < 30
          THEN IF left > right THEN "left" ELSE "right"
     ELSE IF front < 100 THEN "slow"
     ELSE "forward"

\* Mutant: takes the oldest scan and drops the newest.
AvoidPeeks ==
  /\ avoiding /\ toNode # <<>>
  /\ toNode' = Front(toNode)
  /\ motion' = Decide(Head(toNode).seen, angleMin) /\ quiet' = 0
  /\ UNCHANGED <<setting, scene, lidar, toRelay, avoiding>>

AvoidScan ==
  /\ avoiding /\ toNode # <<>>
  /\ toNode' = Tail(toNode)
  /\ motion' = Decide(Head(toNode).seen, angleMin) /\ quiet' = 0
  /\ UNCHANGED <<setting, scene, lidar, toRelay, avoiding>>

\* Ctrl-C; the last zero is published unless the context is shut down by then.
LeaveNode ==
  /\ avoiding /\ avoiding' = FALSE
  /\ \/ motion' = "stop" /\ quiet' = 0
     \/ UNCHANGED <<motion, quiet>>
  /\ UNCHANGED <<setting, scene, lidar, topic>>
-----------------------------------------------------------------------------
(* /scan.  A full subscription drops its oldest message.                   *)

Into(queue, frame, depth) ==
  IF Len(queue) < depth THEN Append(queue, frame) ELSE Append(Tail(queue), frame)

LidarPublishes ==
  /\ lidar
  /\ LET frame == [seen |-> scene, relayed |-> FALSE]
     IN /\ toNode' = Into(toNode, frame, ScanDepth)
        /\ toRelay' = IF relay THEN Into(toRelay, frame, RelayDepth) ELSE toRelay
  /\ UNCHANGED <<setting, scene, lidar, avoiding, motion, quiet>>

\* scan_repub: its publisher and its subscription share topic and QoS, and a
\* node receives what it publishes itself.
Relay ==
  /\ relay /\ toRelay # <<>>
  /\ LET frame == [seen |-> Head(toRelay).seen, relayed |-> TRUE]
     IN /\ toNode' = Into(toNode, frame, ScanDepth)
        /\ toRelay' = Into(Tail(toRelay), frame, RelayDepth)
  /\ UNCHANGED <<setting, scene, lidar, avoiding, motion, quiet>>
-----------------------------------------------------------------------------
(* The chassis node, the surroundings, time                                *)

Told(m) ==
  /\ motion' = m
  /\ UNCHANGED <<setting, scene, lidar, topic, avoiding, quiet>>

ChassisHeartbeat == Told("stop")

\* Mutant: the watchdog asks for a motion ahead.
ForwardWatchdog == quiet > Patient /\ motion \in {"slow", "forward"} /\ Told("stop")

ChassisWatchdog == quiet > Patient /\ Told("stop")

\* Obstacles come and go, the lidar is unplugged and plugged in again.
Surroundings ==
  /\ \/ scene' \in Scenes /\ UNCHANGED lidar
     \/ lidar' = ~lidar /\ UNCHANGED scene
  /\ UNCHANGED <<setting, topic, avoiding, motion, quiet>>

AvoidanceTick ==
  /\ quiet <= Patient /\ quiet' = quiet + 1
  /\ UNCHANGED <<setting, scene, lidar, topic, avoiding, motion>>
-----------------------------------------------------------------------------
AvoidanceNext ==
  \/ AvoidScan \/ LeaveNode
  \/ LidarPublishes \/ Relay
  \/ ChassisHeartbeat \/ ChassisWatchdog
  \/ Surroundings \/ AvoidanceTick

\* The driver, the executors and the clock go on.
AvoidanceFairness ==
  /\ WF_avoidanceVars(AvoidScan) /\ WF_avoidanceVars(LidarPublishes)
  /\ WF_avoidanceVars(ChassisWatchdog) /\ WF_avoidanceVars(AvoidanceTick)

AvoidanceSpec ==
  AvoidanceInit /\ [][AvoidanceNext]_avoidanceVars /\ AvoidanceFairness
-----------------------------------------------------------------------------
\* "compatible with scans over 0..2pi and -pi..pi" (sector_min, line 76): where
\* angle_min lies makes no difference to the command.
EitherConvention == Decide(scene, 0) = Decide(scene, -180)

\* Something that is measured too near, ahead or at a side.
TooNear ==
  \E b \in Bearings :
    \/ scene[b] \in 1..49 /\ (b <= 25 \/ b >= 335)
    \/ scene[b] \in 1..29 /\ (b \in 20..160 \/ b \in 200..340)

\* An obstacle too near that stays and is measured keeps the car from driving on:
\* no older scan overrules it, if nobody forwards /scan.
ObstacleStops ==
  <>[](TooNear /\ lidar /\ ~relay) => <>[](motion \notin {"slow", "forward"})

\* Without scans, or without the node, the car comes to rest (watchdog_check of
\* the chassis node): nothing replays a command.
BlindStops ==
  <>[](~avoiding \/ (~lidar /\ ~relay)) => <>[](motion = "stop")
-----------------------------------------------------------------------------
(* A disagreement with the code's own claims                               *)

\* scan_repub forwards what the LD19 publishes (scan_repub.py line 2), not what
\* it has forwarded before.
ForwardsTheLidar == [][Relay => ~Head(toRelay).relayed]_avoidanceVars
=============================================================================
