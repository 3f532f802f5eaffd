------------------------------ MODULE Calibration ------------------------------
(***************************************************************************)
(* The calibration scripts (scripts/calibrate.py, recalibrate_rot.py and   *)
(* recalibrate_odom.py): one thread waits for /odom, lets the car drive a  *)
(* metre, turn once round, move for a while or drive at a wall, stops it   *)
(* and takes the measure.  The chassis node at the other end integrates    *)
(* the commands it executes.                                               *)
(*                                                                         *)
(* A test moves in one direction only, so the pose is how far it has moved *)
(* since the test began: x along the heading, or the yaw after base.       *)
(***************************************************************************)
EXTENDS Integers, Sequences

CONSTANTS
  Full,        \* a full turn, and the metre, in units of the odometry
  MaxStep,     \* units between two messages: their intervals differ
  MaxMoved,    \* how far the odometer is followed, a bound
  Ticks,       \* of the waits for /odom, and of a timed test
  ZeroCount,   \* stop messages of one stop() (10 and 8)
  Backlog,     \* depth of the subscriptions (10)
  Grace        \* the chassis node's watchdog

ASSUME CalibrationAssumption ==
  /\ Full \in Nat \ {0} /\ MaxStep \in Nat \ {0}
  /\ MaxMoved \in Nat /\ Ticks \in Nat /\ ZeroCount \in Nat \ {0}
  /\ Backlog \in Nat \ {0} /\ Grace \in Nat

VARIABLES
  test,        \* "metre", "turn", "count", "rotate" or "wall"
  ahead,       \* what a unit of the drive adds to x: the heading it begins with
  base,        \* the yaw it begins with, never normalised by the chassis node
  step,        \* where the script is
  inbox,       \* odometry on its way to it; the timed rotation never looks
  pose,       \* self.odom
  origin,      \* the pose the test started from
  accum,       \* the rotation added up
  zerosLeft, ticksLeft,
  moved,       \* the pose of the chassis node
  order,       \* the command it integrates
  cmds,        \* /cmd_vel on its way there
  hush         \* ticks since it executed one

setup == <<test, ahead, base>>
script == <<step, pose, origin, accum, zerosLeft, ticksLeft>>
node == <<inbox, moved, order, cmds, hush>>
calibVars == <<test, ahead, base, step, inbox, pose, origin, accum, zerosLeft,
               ticksLeft, moved, order, cmds, hush>>

NoPose == -1

CalibInit ==
  /\ test \in {"metre", "turn", "count", "rotate", "wall"}
  /\ ahead \in IF test = "metre" THEN {-1, 0, 1} ELSE {1}
  /\ base \in IF test = "turn" THEN 0..2 * Full - 1 ELSE {0}
  /\ step = IF test \in {"rotate", "wall"} THEN "ask" ELSE "wait"
  /\ pose = NoPose /\ origin = 0 /\ accum = 0
  /\ zerosLeft = 0 /\ ticksLeft = Ticks
  /\ inbox = <<>> /\ moved = 0 /\ order = "stop" /\ cmds = <<>> /\ hush = 0
-----------------------------------------------------------------------------
(* The script                                                              *)

Queued(queue, m) == IF Len(queue) < Backlog THEN Append(queue, m) ELSE Append(Tail(queue), m)

\* rclpy.spin_once: a message that waits is taken.
SpinOnce ==
  IF inbox = <<>> THEN UNCHANGED <<pose, inbox>>
  ELSE pose' = Head(inbox) /\ inbox' = Tail(inbox)

\* main() of calibrate.py: up to ten seconds for the first pose.
WaitForOdom ==
  /\ step = "wait" /\ test # "wall"
  /\ inbox # <<>> \/ ticksLeft = 0
  /\ SpinOnce
  /\ step' = IF pose' # NoPose THEN "ask" ELSE "failed"
  /\ UNCHANGED <<setup, origin, accum, zerosLeft, ticksLeft, moved, order, cmds, hush>>

\* Somebody presses the key, some time.
Press ==
  /\ step = "ask" /\ step' = IF test = "wall" THEN "wait" ELSE "loop"
  /\ origin' = pose /\ ticksLeft' = Ticks
  /\ UNCHANGED <<setup, pose, accum, zerosLeft, node>>

\* wait_data(), after the key: up to ten seconds for /odom and /scan, then one
\* command and a sleep.
DriveAtWall ==
  /\ step = "wait" /\ test = "wall"
  /\ inbox # <<>> \/ ticksLeft = 0
  /\ SpinOnce
  /\ \/ /\ pose' # NoPose /\ step' = "loop"
        /\ origin' = pose' /\ ticksLeft' = Ticks /\ cmds' = Queued(cmds, "move")
     \/ /\ ticksLeft = 0 /\ step' = "failed"
        /\ UNCHANGED <<origin, ticksLeft, cmds>>
  /\ UNCHANGED <<setup, accum, zerosLeft, moved, order, hush>>

\* get_yaw: twice the atan2 of half the angle, which has a period of two turns.
Yaw(at) ==
  LET y == (base + at) % (2 * Full) IN IF y > Full THEN y - 2 * Full ELSE y

\* A jump by more than half a turn counts as one over the seam.
YawStep(from, to) ==
  LET d == Yaw(to) - Yaw(from)
  IN IF 2 * d > Full THEN d - Full ELSE IF 2 * d < -Full THEN d + Full ELSE d

\* The tests that end with the clock.
Timed == {"count", "rotate", "wall"}

\* Mutant: half a turn is enough.
HalfTurn ==
  CASE test = "metre" -> ahead * (pose' - origin) >= Full
    [] test = "turn" -> 2 * accum' >= Full
    [] OTHER -> ticksLeft = 0

Reached ==
  CASE test = "metre" -> ahead * (pose' - origin) >= Full
    [] test = "turn" -> accum' >= Full
    [] OTHER -> ticksLeft = 0

\* One turn of the loop of drive_1m, spin_1turn or a timed test: hear, command,
\* look whether it is far enough.  A script that sleeps wakes up.
DriveLoop ==
  /\ step = "loop"
  /\ IF test \in Timed THEN UNCHANGED <<pose, inbox>> ELSE SpinOnce
  /\ accum' = IF test = "turn" THEN accum + YawStep(pose, pose') ELSE accum
  /\ cmds' = IF test = "wall" \/ (test \in Timed /\ Reached)
             THEN cmds ELSE Queued(cmds, "move")
  /\ IF Reached THEN step' = "stop" /\ zerosLeft' = ZeroCount
                ELSE UNCHANGED <<step, zerosLeft>>
  /\ UNCHANGED <<setup, origin, ticksLeft, moved, order, hush>>

\* Mutant: the last command of the loop follows the stop.
StopAndGo ==
  /\ step = "stop"
  /\ cmds' = Queued(cmds, IF zerosLeft = 0 THEN "move" ELSE "stop")
  /\ IF zerosLeft = 0 THEN step' = "tape" /\ UNCHANGED zerosLeft
     ELSE zerosLeft' = zerosLeft - 1 /\ UNCHANGED step
  /\ UNCHANGED <<setup, pose, origin, accum, ticksLeft, inbox, moved, order, hush>>

\* stop(), and the tape measure, unless Ctrl-C brought the script here.
StopCar ==
  /\ step \in {"stop", "leave"}
  /\ IF zerosLeft = 0
     THEN /\ step' = IF step = "stop" THEN "tape" ELSE "gone"
          /\ UNCHANGED <<zerosLeft, cmds>>
     ELSE zerosLeft' = zerosLeft - 1 /\ cmds' = Queued(cmds, "stop") /\ UNCHANGED step
  /\ UNCHANGED <<setup, pose, origin, accum, ticksLeft, inbox, moved, order, hush>>

\* Ctrl-C ends a script where it stands.  The timed rotation still sends the
\* zeros of its finally, unless the context is shut down by then.
BreakOff ==
  /\ step \in {"wait", "ask", "loop", "stop", "leave"}
  /\ \/ step' = "gone" /\ UNCHANGED zerosLeft
     \/ /\ test = "rotate" /\ step = "loop"
        /\ step' = "leave" /\ zerosLeft' = ZeroCount
  /\ UNCHANGED <<setup, pose, origin, accum, ticksLeft, node>>
-----------------------------------------------------------------------------
(* The chassis node                                                        *)

ObeyCommand ==
  /\ cmds # <<>>
  /\ order' = Head(cmds) /\ cmds' = Tail(cmds) /\ hush' = 0
  /\ UNCHANGED <<setup, script, inbox, moved>>

SilenceEnds ==
  /\ hush > Grace
  /\ order' = "stop"
  /\ UNCHANGED <<setup, script, inbox, moved, cmds, hush>>

\* publish_odom, and time.  The loops of the script are faster than it: none
\* of its messages is lost while they run.
OdomTick ==
  /\ step = "loop" /\ test \in {"metre", "turn"} => Len(inbox) < Backlog
  /\ \E n \in 1..MaxStep :
       moved' = IF order = "move" /\ moved + n <= MaxMoved THEN moved + n ELSE moved
  /\ inbox' = Queued(inbox, moved')
  /\ hush' = IF hush > Grace THEN hush ELSE hush + 1
  /\ ticksLeft' = IF ticksLeft > 0 THEN ticksLeft - 1 ELSE 0
  /\ UNCHANGED <<setup, step, pose, origin, accum, zerosLeft, order, cmds>>

\* The chassis node may be silent: only time passes.
QuietTick ==
  /\ step = "wait" /\ ticksLeft > 0
  /\ ticksLeft' = ticksLeft - 1
  /\ UNCHANGED <<setup, step, pose, origin, accum, zerosLeft, node>>
-----------------------------------------------------------------------------
ScriptStep == WaitForOdom \/ DriveAtWall \/ DriveLoop \/ StopCar

CalibNext ==
  \/ ScriptStep \/ Press \/ BreakOff
  \/ ObeyCommand \/ SilenceEnds \/ OdomTick \/ QuietTick

\* Script and chassis node run; nobody has to press a key.
CalibFairness ==
  /\ WF_calibVars(ScriptStep) /\ WF_calibVars(ObeyCommand) /\ WF_calibVars(OdomTick)

CalibSpec == CalibInit /\ [][CalibNext]_calibVars /\ CalibFairness
-----------------------------------------------------------------------------
\* The turn is never stopped short: however the yaw wraps on the way, the car has
\* turned all round by its own odometry when spin_1turn stops it.
NeverShort ==
  test = "turn" /\ step \in {"stop", "tape"} => pose - origin >= Full

\* The tape is asked for only when the last word to the chassis node is a stop,
\* whatever the queue has dropped (stop(), calibrate.py line 34).
MeasuredAtRest ==
  step = "tape" => IF cmds = <<>> THEN order = "stop" ELSE cmds[Len(cmds)] = "stop"
-----------------------------------------------------------------------------
(* A disagreement with the code's own claims                               *)

\* "The car stops by itself when /odom has turned once" (spin_1turn, line 69):
\* not after a second turn.
TurnsOnce ==
  test = "turn" /\ step \in {"stop", "tape"} => pose - origin < 2 * Full
=============================================================================
