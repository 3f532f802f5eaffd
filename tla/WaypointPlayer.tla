---------------------------- MODULE WaypointPlayer ----------------------------
(***************************************************************************)
(* The patrol (navigation/waypoint_player.py): a single thread drives a    *)
(* route point by point, either itself over /cmd_vel ("direct") or through *)
(* Nav2 goals, and reads odometry and scans only while it spins.  At the   *)
(* other end of /cmd_vel stands the chassis node with its heartbeat and    *)
(* its watchdog, here reduced to the motion it asks of a connected car.    *)
(*                                                                         *)
(* A pose is "there" or "off" with respect to the leg in progress, a scan  *)
(* "near" or "clear", a Twist "turn", "go" or "stop"; what the sensors say *)
(* is arbitrary.  Time is counted in ticks.                                *)
(***************************************************************************)
EXTENDS Naturals, Sequences

CONSTANTS
  Points,      \* length of the route
  Patience,    \* ticks before a leg gives up (10, 20 and 5 s in the code)
  Wait,        \* ticks before /odom or the Nav2 server is given up (5 s)
  Zeros,       \* stop messages of one stop() (5)
  Depth,       \* of the /cmd_vel subscription of the chassis node (10)
  Limit        \* of the chassis node's watchdog (0.5 s)

ASSUME PlayerAssumption ==
  /\ Points \in Nat /\ Patience \in [1..3 -> Nat] /\ Wait \in Nat
  /\ Zeros \in Nat \ {0} /\ Depth \in Nat \ {0} /\ Limit \in Nat

VARIABLES
  mode,        \* use_nav2
  pc,          \* where run() stands
  point, leg,  \* the point and the leg (rotate, drive, rotate) in progress
  left,        \* ticks before the current timeout
  zeros,       \* stop messages this stop() has still to send
  scan, odom,  \* latest_scan and latest_odom
  reported,    \* points the log calls reached
  reached,     \* points that were reached: the pose test or Nav2 said so
  nav,         \* the Nav2 action server, external
  wire,        \* /cmd_vel on its way to the chassis node
  wheels,      \* the motion the chassis node asks for
  silence      \* ticks since it received a command, up to Limit + 1

route == <<mode, point, leg, reported, reached>>
sensors == <<scan, odom>>
chassis == <<wire, wheels, silence>>
playerVars == <<mode, pc, point, leg, left, zeros, scan, odom, reported,
                reached, nav, wire, wheels, silence>>

Twists == {"turn", "go", "stop"}
Ended == {"done", "failed", "gone"}
Spinning == {"odom", "spin", "pause"}     \* rclpy.spin_once runs callbacks

PlayerInit ==
  /\ mode \in {"direct", "nav2"} /\ pc = "next"
  /\ point = 0 /\ leg = 1 /\ left = 0 /\ zeros = 0
  /\ scan = "none" /\ odom = "none"
  /\ reported = {} /\ reached = {} /\ nav \in {"absent", "idle"}
  /\ wire = <<>> /\ wheels = "stop" /\ silence = 0

\* publish_cmd; a full queue drops its oldest message.
Publish(v) ==
  /\ wire' = IF Len(wire) < Depth THEN Append(wire, v) ELSE Append(Tail(wire), v)
  /\ UNCHANGED <<wheels, silence>>
-----------------------------------------------------------------------------
(* run() and drive_to_point()                                              *)

NextPoint ==
  /\ pc = "next"
  /\ IF point = Points
     THEN pc' = "done" /\ UNCHANGED <<point, leg, left>>
     ELSE /\ point' = point + 1 /\ leg' = 1 /\ left' = Wait
          /\ pc' = IF mode = "direct" THEN "odom" ELSE "server"
  /\ UNCHANGED <<mode, zeros, sensors, reported, reached, nav, chassis>>

\* Mutant: no timeout.
WaitOdomForever ==
  /\ pc = "odom" /\ odom # "none"
  /\ pc' = "loop" /\ left' = Patience[1]
  /\ UNCHANGED <<route, zeros, sensors, nav, chassis>>

\* wait_odom: with a pose the first leg starts, without one the patrol fails.
WaitOdom ==
  /\ pc = "odom"
  /\ \/ odom # "none" /\ pc' = "loop" /\ left' = Patience[1]
     \/ odom = "none" /\ left = 0 /\ pc' = "failed" /\ UNCHANGED left
  /\ UNCHANGED <<route, zeros, sensors, nav, chassis>>

\* The next leg looks at the pose it finds, which is as old as it is.
LegEnds ==
  /\ pc = "stop" /\ zeros = 0
  /\ IF leg < 3
     THEN /\ leg' = leg + 1 /\ left' = Patience[leg + 1] /\ pc' = "loop"
          /\ odom' \in {"off", "there"}
          /\ UNCHANGED reported
     ELSE /\ pc' = "dwell" /\ reported' = reported \cup {point}
          /\ UNCHANGED <<leg, left, odom>>
  /\ UNCHANGED <<mode, point, zeros, scan, reached, nav, chassis>>

\* time.sleep(dwell_seconds)
Dwell ==
  /\ pc = "dwell"
  /\ pc' = "next"
  /\ UNCHANGED <<route, left, zeros, sensors, nav, chassis>>
-----------------------------------------------------------------------------
(* rotate_to() and drive_to_xy()                                           *)

EndLoop == pc' = "stop" /\ zeros' = Zeros /\ UNCHANGED <<left, sensors, nav, chassis>>

\* Avoidance covers the drive only.
Blocked == leg = 2 /\ scan = "near"

\* The deadline is looked at before anything else.
Expire ==
  /\ pc = "loop" /\ left = 0
  /\ EndLoop
  /\ UNCHANGED route

\* Mutant: the pause sends nothing.
PauseQuietly ==
  /\ pc = "loop" /\ left > 0 /\ Blocked
  /\ pc' = "pause"
  /\ UNCHANGED <<route, left, zeros, sensors, nav, chassis>>

\* check_avoidance
Pause ==
  /\ pc = "loop" /\ left > 0 /\ Blocked
  /\ Publish("stop")
  /\ pc' = "pause"
  /\ UNCHANGED <<route, left, zeros, sensors, nav>>

\* The pose is never missing here: wait_odom saw one.
Arrive ==
  /\ pc = "loop" /\ left > 0 /\ ~Blocked /\ odom = "there"
  /\ EndLoop
  /\ reached' = IF leg = 2 THEN reached \cup {point} ELSE reached
  /\ UNCHANGED <<mode, point, leg, reported>>

Steer ==
  /\ pc = "loop" /\ left > 0 /\ ~Blocked /\ odom = "off"
  /\ Publish(IF leg = 2 THEN "go" ELSE "turn")
  /\ pc' = "spin"
  /\ UNCHANGED <<route, left, zeros, sensors, nav>>

\* spin_wait runs out
SpinEnds ==
  /\ pc \in {"spin", "pause"}
  /\ pc' = "loop"
  /\ UNCHANGED <<route, left, zeros, sensors, nav, chassis>>

StopZero ==
  /\ pc = "stop" /\ zeros > 0
  /\ Publish("stop")
  /\ zeros' = zeros - 1
  /\ UNCHANGED <<route, pc, left, sensors, nav>>

ScanCallback ==
  /\ mode = "direct" /\ pc \in Spinning
  /\ scan' \in {"clear", "near"}
  /\ UNCHANGED <<route, pc, left, zeros, odom, nav, chassis>>

OdomCallback ==
  /\ mode = "direct" /\ pc \in Spinning
  /\ odom' \in {"off", "there"}
  /\ UNCHANGED <<route, pc, left, zeros, scan, nav, chassis>>

\* Ctrl-C anywhere: neither stop() nor a cancellation of the goal is reached.
Interrupt ==
  /\ pc \notin Ended
  /\ pc' = "gone"
  /\ UNCHANGED <<route, left, zeros, sensors, nav, chassis>>
-----------------------------------------------------------------------------
(* send_goal() with Nav2                                                   *)

WaitForServer ==
  /\ pc = "server"
  /\ \/ nav \notin {"absent", "dead"} /\ nav' = "offered" /\ pc' = "accept"
     \/ nav \in {"absent", "dead"} /\ left = 0 /\ pc' = "failed" /\ UNCHANGED nav
  /\ UNCHANGED <<route, left, zeros, sensors, chassis>>

\* The acceptance is awaited without a timeout; the result may exist already.
GoalAnswered ==
  /\ pc = "accept" /\ nav \in {"busy", "succeeded", "aborted", "rejected"}
  /\ pc' = IF nav = "rejected" THEN "failed" ELSE "result"
  /\ UNCHANGED <<route, left, zeros, sensors, nav, chassis>>

\* So is the result; any status but SUCCEEDED ends the patrol.
GoalResult ==
  /\ pc = "result"
  /\ \/ nav = "succeeded" /\ pc' = "dwell" /\ reported' = reported \cup {point}
     \/ nav = "aborted" /\ pc' = "failed" /\ UNCHANGED reported
  /\ nav' = "idle"
  /\ UNCHANGED <<mode, point, leg, reached, left, zeros, sensors, chassis>>

\* Nav2 itself: it starts and dies when it likes and answers each goal.
NavStarts == nav \in {"absent", "dead"} /\ nav' = "idle" /\ UNCHANGED reached
NavDies == nav \notin {"absent", "dead"} /\ nav' = "dead" /\ UNCHANGED reached
NavAnswers == nav = "offered" /\ nav' \in {"busy", "rejected"} /\ UNCHANGED reached
NavFinishes ==
  /\ nav = "busy" /\ nav' \in {"succeeded", "aborted"}
  /\ reached' = IF nav' = "succeeded" THEN reached \cup {point} ELSE reached

Nav2 ==
  /\ mode = "nav2"
  /\ NavStarts \/ NavDies \/ NavAnswers \/ NavFinishes
  /\ UNCHANGED <<mode, point, leg, reported, pc, left, zeros, sensors, chassis>>
-----------------------------------------------------------------------------
(* The chassis node of a connected car, and time                           *)

Execute ==
  /\ wire # <<>>
  /\ wheels' = Head(wire) /\ wire' = Tail(wire) /\ silence' = 0
  /\ UNCHANGED <<route, pc, left, zeros, sensors, nav>>

Keepalive ==
  /\ wheels' = "stop"
  /\ UNCHANGED <<route, pc, left, zeros, sensors, nav, wire, silence>>

\* Mutant: the watchdog looks at the linear speed only.
LinearWatchdog ==
  /\ silence > Limit /\ wheels = "go"
  /\ wheels' = "stop"
  /\ UNCHANGED <<route, pc, left, zeros, sensors, nav, wire, silence>>

Watchdog ==
  /\ silence > Limit
  /\ wheels' = "stop"
  /\ UNCHANGED <<route, pc, left, zeros, sensors, nav, wire, silence>>

Tick ==
  /\ left > 0 \/ silence <= Limit
  /\ left' = IF left > 0 THEN left - 1 ELSE 0
  /\ silence' = IF silence <= Limit THEN silence + 1 ELSE silence
  /\ UNCHANGED <<route, pc, zeros, sensors, nav, wire, wheels>>
-----------------------------------------------------------------------------
Drive == Expire \/ Pause \/ Arrive \/ Steer \/ SpinEnds \/ StopZero \/ LegEnds
Run == NextPoint \/ WaitOdom \/ Drive \/ Dwell
         \/ WaitForServer \/ GoalAnswered \/ GoalResult

PlayerNext ==
  \/ Run \/ ScanCallback \/ OdomCallback \/ Interrupt \/ Nav2
  \/ Execute \/ Keepalive \/ Watchdog \/ Tick

\* The program goes on whenever it can, the executor of the chassis node
\* serves its subscription and its watchdog, time passes, and a Nav2 that does
\* not die answers.  No sensor has to speak and the obstacle need not leave.
PlayerFairness ==
  /\ WF_playerVars(Run) /\ WF_playerVars(Execute)
  /\ WF_playerVars(Watchdog) /\ WF_playerVars(Tick)
  /\ WF_playerVars(mode = "nav2" /\ (NavAnswers \/ NavFinishes) /\ Nav2)

PlayerSpec == PlayerInit /\ [][PlayerNext]_playerVars
FairPlayerSpec == PlayerSpec /\ PlayerFairness
-----------------------------------------------------------------------------
\* Types, and /cmd_vel never outgrows the subscription.
PlayerTypeOK ==
  /\ mode \in {"direct", "nav2"}
  /\ pc \in {"next", "odom", "loop", "spin", "pause", "stop", "dwell",
             "server", "accept", "result"} \cup Ended
  /\ point \in 0..Points /\ leg \in 1..3 /\ left \in Nat /\ zeros \in 0..Zeros
  /\ scan \in {"none", "clear", "near"} /\ odom \in {"none", "off", "there"}
  /\ reported \subseteq 1..Points /\ reached \subseteq 1..Points
  /\ nav \in {"absent", "idle", "offered", "busy", "rejected", "succeeded",
              "aborted", "dead"}
  /\ wire \in Seq(Twists) /\ Len(wire) <= Depth
  /\ wheels \in Twists /\ silence \in 0..Limit + 1

\* The last thing the chassis node hears, or has heard, of the player.
Newest == IF wire = <<>> THEN wheels ELSE wire[Len(wire)]

\* While the player waits, for an obstacle to leave, at a point, for the next
\* one or after its end, the newest command is a stop, whichever way it came
\* there (drive_to_xy line 193; stop() after every loop, lines 187 and 212).
StillWhenIdle ==
  pc \in {"pause", "dwell", "next", "odom", "done", "failed"} => Newest = "stop"

\* With Nav2 the log calls a point reached only if Nav2 did (line 274).
Nav2ReportsArrival == mode = "nav2" => reported \subseteq reached

\* A patrol that has set out ends, obstacle or not, with or without /odom; only a Nav2 that
\* dies with a goal in hand keeps it waiting (lines 254 and 267 await the
\* futures without a timeout).
Stranded == pc \in {"accept", "result"} /\ nav \in {"dead", "idle"}
PatrolEnds == point > 0 ~> pc \in Ended \/ Stranded

\* However the player ends, Ctrl-C in the middle of a drive included, the car
\* comes to rest and stays so: what is left in /cmd_vel drains and the chassis
\* node's watchdog does what stop() did not.
LeftAloneStops == pc \in Ended ~> [](wheels = "stop")
-----------------------------------------------------------------------------
(* Disagreements with the code's own claims                                *)

\* The log of the direct mode: a point it calls reached was reached (line 227,
\* and line 124 for a drive that an obstacle held up).
DirectReportsArrival == mode = "direct" => reported \subseteq reached
=============================================================================
