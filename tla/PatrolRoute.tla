------------------------------- MODULE PatrolRoute -------------------------------
(***************************************************************************)
(* The route file from its recording (navigation/waypoint_recorder.py)     *)
(* over its validation (route_validator.py) to the drive back along it     *)
(* (return_to_origin.py).  The robot is driven by hand over places that    *)
(* lie Near or not: within min_distance and min_yaw_change of each other.  *)
(* A point is its number and its place; what else a file may be wrong with *)
(* cannot come from the recorder.                                          *)
(***************************************************************************)
EXTENDS Naturals, SequencesExt

CONSTANTS
  Places,
  Near(_, _),
  MaxPoints    \* of a route, a bound

ASSUME RouteAssumption ==
  /\ MaxPoints \in Nat
  /\ \A a, b \in Places : Near(a, b) \in BOOLEAN

VARIABLES
  stage,       \* "record", "saved", "goal", "dwell", "home" or "failed"
  frameId,     \* map_frame of the recorder, frame_id of the file
  place,       \* where the robot is
  heard,       \* latest_odom has arrived
  due,         \* sample_interval has passed since the last point
  tf,          \* map -> base_link can be looked up
  points,      \* self.points, and what the file holds once it is saved
  skip,        \* skip_current_point
  rest,        \* points that run() has still to drive to
  driven       \* numbers of those it has driven to

routeVars == <<stage, frameId, place, heard, due, tf, points, skip, rest, driven>>
surroundings == <<place, heard, due, tf>>

RouteInit ==
  /\ stage = "record" /\ frameId \in {"map", "odom"} /\ skip \in BOOLEAN
  /\ place \in Places /\ heard = FALSE /\ due = FALSE /\ tf \in BOOLEAN
  /\ points = <<>> /\ rest = <<>> /\ driven = <<>>
-----------------------------------------------------------------------------
(* WaypointRecorder                                                        *)

FirstOdometry ==
  /\ stage = "record" /\ ~heard /\ heard' = TRUE
  /\ UNCHANGED <<stage, frameId, skip, place, due, tf, points, rest, driven>>

\* sample_pose has a pose, in the map only while the transform can be had.
Sampling == stage = "record" /\ heard /\ due /\ (frameId = "odom" \/ tf)

\* Only the last point counts.
Moved == points # <<>> => ~Near(Last(points).at, place)

PointId == Len(points) + 1

SamplePose ==
  /\ Sampling /\ Moved /\ Len(points) < MaxPoints
  /\ points' = Append(points, [id |-> PointId, at |-> place])
  /\ due' = FALSE
  /\ UNCHANGED <<stage, frameId, skip, place, heard, tf, rest, driven>>

\* main() saves whatever there is, also nothing, over what the file held.
SaveRoute ==
  /\ stage = "record" /\ stage' = "saved"
  /\ UNCHANGED <<frameId, skip, surroundings, points, rest, driven>>
-----------------------------------------------------------------------------
(* route_validator: validate()                                             *)

Valid ==
  /\ frameId = "map"
  /\ points # <<>>
  /\ \A i, j \in 1..Len(points) : points[i].id = points[j].id => i = j
-----------------------------------------------------------------------------
(* ReturnToOrigin                                                          *)

\* The last recorded point is where the robot is taken to be.
SkipCurrent(back) == IF Len(back) > 1 THEN Tail(back) ELSE back

\* Mutant: the route is driven forwards.
Forwards ==
  LET onward == IF skip THEN SkipCurrent(points) ELSE points
  IN IF onward = <<>> \/ Last(onward).id # points[1].id
     THEN Append(onward, points[1]) ELSE onward

Itinerary ==
  LET back == IF skip THEN SkipCurrent(Reverse(points)) ELSE Reverse(points)
  IN IF back = <<>> \/ Last(back).id # points[1].id
     THEN Append(back, points[1]) ELSE back

\* A route of another frame and an empty one are refused.
StartReturn ==
  /\ stage = "saved" /\ points # <<>> /\ frameId = "map"
  /\ stage' = "goal" /\ rest' = Itinerary
  /\ UNCHANGED <<frameId, skip, surroundings, points, driven>>

\* Mutant: whatever became of a goal, the next one follows.
SendAllGoals ==
  /\ stage = "goal" /\ rest # <<>>
  /\ place' \in Places /\ stage' = "dwell"
  /\ rest' = Tail(rest) /\ driven' = Append(driven, Head(rest).id)
  /\ UNCHANGED <<frameId, skip, heard, due, tf, points>>

\* send_goal: Nav2 takes the robot there, or gives up anywhere.
SendGoal ==
  /\ stage = "goal" /\ rest # <<>>
  /\ \/ /\ place' = Head(rest).at /\ stage' = "dwell"
        /\ rest' = Tail(rest) /\ driven' = Append(driven, Head(rest).id)
     \/ /\ place' \in Places /\ stage' = "failed"
        /\ UNCHANGED <<rest, driven>>
  /\ UNCHANGED <<frameId, skip, heard, due, tf, points>>

GoalDwell ==
  /\ stage = "dwell"
  /\ stage' = IF rest = <<>> THEN "home" ELSE "goal"
  /\ UNCHANGED <<frameId, skip, surroundings, points, rest, driven>>

\* Ctrl-C: a goal that Nav2 has in hand is not cancelled.
BreakReturn ==
  /\ stage \in {"goal", "dwell"} /\ stage' = "failed"
  /\ IF stage = "goal" THEN place' \in Places ELSE UNCHANGED place
  /\ UNCHANGED <<frameId, skip, heard, due, tf, points, rest, driven>>
-----------------------------------------------------------------------------
(* The world: somebody drives, time passes, the transform comes and goes   *)

Roam ==
  /\ stage \in {"record", "saved"}
  /\ \/ place' \in Places /\ UNCHANGED <<due, tf>>
     \/ due' = TRUE /\ UNCHANGED <<place, tf>>
     \/ tf' = ~tf /\ UNCHANGED <<place, due>>
  /\ UNCHANGED <<stage, frameId, skip, heard, points, rest, driven>>

RouteNext ==
  \/ FirstOdometry \/ SamplePose \/ SaveRoute
  \/ StartReturn \/ SendGoal \/ GoalDwell \/ BreakReturn \/ Roam

RouteSpec == RouteInit /\ [][RouteNext]_routeVars
-----------------------------------------------------------------------------
\* Whatever was recorded in the map, unless nothing was, passes the validator:
\* the two programs agree on the file (waypoint_recorder.py line 135,
\* route_validator.py line 9), however often the transform came and went.
RecordedRouteValid ==
  stage # "record" /\ frameId = "map" /\ points # <<>> => Valid

\* A return that succeeds ends where the recording began, with or without the
\* skipped point and on a route of one point too (return_to_origin.py line 127).
ReturnEndsAtOrigin == stage = "home" => place = points[1].at

\* The way back never cuts a corner: each goal is the recorded neighbour of the
\* one before, and only the last recorded point may be left out.
RetracesRoute ==
  driven # <<>> =>
    /\ driven[1] \in {Len(points), Len(points) - 1}
    /\ \A i \in 1..Len(driven) - 1 : driven[i] = driven[i + 1] + 1
=============================================================================
