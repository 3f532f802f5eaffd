---------------------------- MODULE Patrol_proofs ----------------------------
(***************************************************************************)
(* The route and the player of a patrol. For any places, any relation of   *)
(* nearness and routes of any length: what the recorder writes the         *)
(* validator takes, and the way back follows it to its first point. For    *)
(* every route, timeout, queue depth and watchdog limit: an idle player's  *)
(* newest command is a stop, with Nav2 its log is true, and every state is *)
(* well typed.                                                             *)
(***************************************************************************)
EXTENDS WaypointPlayer, PatrolRoute, SequenceTheorems, TLAPS

-----------------------------------------------------------------------------
(* PatrolRoute                                                             *)

RoutePoints == [id : Nat, at : Places]

\* The points are numbered in their order.
Numbered ==
  /\ points \in Seq(RoutePoints)
  /\ \A i \in 1..Len(points) : points[i].id = i

\* s is the way back from one of the points to the first.
WayBack(s) ==
  /\ s \in Seq(RoutePoints) /\ Len(s) <= Len(points)
  /\ \A i \in 1..Len(s) : s[i] = points[Len(s) + 1 - i]

\* The points still to drive to are the way back from the one before the last
\* that was driven to, where the robot stands unless it is on its way.
OnTheWay ==
  /\ points # <<>> /\ WayBack(rest)
  /\ stage = "goal" => rest # <<>>
  /\ stage = "home" => rest = <<>>
  /\ IF driven = <<>>
     THEN stage \in {"goal", "failed"} /\ Len(rest) \in {Len(points), Len(points) - 1}
     ELSE /\ driven[Len(driven)] = Len(rest) + 1 /\ Len(rest) < Len(points)
          /\ driven[1] \in {Len(points), Len(points) - 1}
          /\ \A i \in 1..Len(driven) - 1 : driven[i] = driven[i + 1] + 1
          /\ stage \in {"dwell", "home"} => place = points[Len(rest) + 1].at

RouteInv ==
  /\ stage \in {"record", "saved", "goal", "dwell", "home", "failed"}
  /\ place \in Places
  /\ Numbered
  /\ driven \in Seq(Nat)
  /\ stage \in {"record", "saved"} => driven = <<>>
  /\ stage \notin {"record", "saved"} => OnTheWay

\* The reverse of a sequence, of which SequencesExt has the definition.
LEMMA ReverseIs ==
  ASSUME NEW S, NEW s \in Seq(S)
  PROVE  /\ Reverse(s) \in Seq(S) /\ Len(Reverse(s)) = Len(s)
         /\ \A i \in 1..Len(s) : Reverse(s)[i] = s[Len(s) + 1 - i]
<1>1. Len(s) \in Nat /\ \A i \in 1..Len(s) : Len(s) - i + 1 \in 1..Len(s)
  OBVIOUS
<1>2. \A i \in 1..Len(s) : s[Len(s) - i + 1] \in S
  BY <1>1
<1>3. QED BY <1>1, <1>2 DEF Reverse

\* The itinerary is the way back, from the last point or, if that is skipped and
\* is not the only one, from the one before it; nothing has to be appended.
LEMMA ItineraryIsWayBack ==
  ASSUME Numbered, points # <<>>
  PROVE  /\ WayBack(Itinerary) /\ Itinerary # <<>>
         /\ Len(Itinerary) \in {Len(points), Len(points) - 1}
<1> DEFINE all == Reverse(points)
           back == IF skip THEN SkipCurrent(all) ELSE all
<1>1. Len(points) \in Nat \ {0} /\ points \in Seq(RoutePoints)
  BY DEF Numbered
<1>2. /\ all \in Seq(RoutePoints) /\ Len(all) = Len(points)
      /\ \A i \in 1..Len(points) : all[i] = points[Len(points) + 1 - i]
  BY <1>1, ReverseIs
<1> HIDE DEF all
<1>3. /\ WayBack(back) /\ back # <<>> /\ Len(back) \in {Len(points), Len(points) - 1}
      /\ Len(back) \in Nat \ {0}
  <2>1. CASE skip /\ Len(all) > 1
    <3>1. /\ back = Tail(all) /\ all # <<>>
      BY <1>1, <1>2, <2>1 DEF SkipCurrent
    <3> HIDE DEF back
    <3>2. /\ back \in Seq(RoutePoints) /\ Len(back) = Len(points) - 1
          /\ \A i \in 1..Len(back) : back[i] = all[i + 1]
      BY <1>2, <3>1, HeadTailProperties
    <3>3. \A i \in 1..Len(back) : i + 1 \in 1..Len(points)
                                  /\ Len(points) + 1 - (i + 1) = Len(back) + 1 - i
      BY <1>1, <3>2
    <3>4. \A i \in 1..Len(back) : back[i] = points[Len(back) + 1 - i]
      BY <1>2, <3>2, <3>3
    <3>5. Len(back) \in Nat \ {0}
      BY <1>1, <1>2, <2>1, <3>2
    <3>6. QED BY <1>1, <3>2, <3>4, <3>5 DEF WayBack
  <2>2. CASE ~(skip /\ Len(all) > 1)
    <3>1. back = all
      BY <2>2 DEF SkipCurrent
    <3> HIDE DEF back
    <3>2. QED BY <1>1, <1>2, <3>1 DEF WayBack
  <2>3. QED BY <2>1, <2>2
<1>4. Itinerary = back
  <2>1. Itinerary = IF back = <<>> \/ Last(back).id # points[1].id
                    THEN Append(back, points[1]) ELSE back
    BY DEF Itinerary, all
  <2> HIDE DEF back
  <2>2. Len(back) \in 1..Len(back) /\ Len(back) + 1 - Len(back) = 1
    BY <1>3
  <2>3. back[Len(back)] = points[1]
    BY <1>3, <2>2 DEF WayBack
  <2>4. QED BY <1>3, <2>1, <2>3 DEF Last
<1>5. QED BY <1>3, <1>4

\* One more point on the route.
LEMMA SampleKeepsNumbered ==
  ASSUME RouteInv, SamplePose PROVE RouteInv'
<1> DEFINE p == [id |-> PointId, at |-> place]
<1>1. /\ stage = "record" /\ points' = Append(points, p)
      /\ UNCHANGED <<stage, place, driven>>
  BY DEF SamplePose, Sampling
<1>2. points \in Seq(RoutePoints) /\ Len(points) \in Nat /\ p \in RoutePoints /\ p.id = Len(points) + 1
  BY DEF RouteInv, Numbered, RoutePoints, PointId
<1> HIDE DEF p
<1>3. /\ points' \in Seq(RoutePoints) /\ Len(points') = Len(points) + 1
      /\ \A i \in 1..Len(points) : points'[i] = points[i]
      /\ points'[Len(points) + 1] = p
  BY <1>1, <1>2, AppendProperties
<1>4. \A i \in 1..Len(points') : points'[i].id = i
  <2> SUFFICES ASSUME NEW i \in 1..Len(points') PROVE points'[i].id = i
    OBVIOUS
  <2>1. CASE i \in 1..Len(points)
    BY <2>1, <1>3 DEF RouteInv, Numbered
  <2>2. CASE i = Len(points) + 1
    BY <2>2, <1>2, <1>3
  <2>3. QED BY <1>2, <1>3, <2>1, <2>2
<1>5. Numbered'
  BY <1>3, <1>4 DEF Numbered
<1>6. QED BY <1>1, <1>5 DEF RouteInv

\* A goal that is reached is the next point of the way back.
LEMMA GoalKeepsWay ==
  ASSUME RouteInv, SendGoal PROVE RouteInv'
<1>1. stage = "goal" /\ rest # <<>> /\ UNCHANGED points
  BY DEF SendGoal
<1>2. OnTheWay /\ Numbered /\ rest \in Seq(RoutePoints) /\ driven \in Seq(Nat)
  BY <1>1 DEF RouteInv, OnTheWay, WayBack
<1>3. CASE place' \in Places /\ stage' = "failed" /\ UNCHANGED <<rest, driven>>
  <2>1. OnTheWay'
    BY <1>1, <1>2, <1>3 DEF OnTheWay, WayBack
  <2>2. QED BY <1>1, <1>2, <1>3, <2>1 DEF RouteInv, Numbered
<1>4. CASE /\ place' = Head(rest).at /\ stage' = "dwell"
           /\ rest' = Tail(rest) /\ driven' = Append(driven, Head(rest).id)
  <2> DEFINE next == Head(rest)
             more == Append(driven, next.id)
  <2>1. /\ next = rest[1] /\ rest' \in Seq(RoutePoints) /\ Len(rest') = Len(rest) - 1
        /\ \A i \in 1..Len(rest') : rest'[i] = rest[i + 1]
        /\ Len(rest) \in Nat \ {0}
    BY <1>1, <1>2, <1>4, HeadTailProperties
  <2>2. next = points[Len(rest)] /\ Len(rest) \in 1..Len(points)
    <3>1. 1 \in 1..Len(rest) /\ Len(rest) + 1 - 1 = Len(rest) /\ Len(rest) <= Len(points)
      BY <2>1, <1>2 DEF OnTheWay, WayBack
    <3>2. Len(points) \in Nat
      BY <1>2 DEF Numbered
    <3>3. QED BY <3>1, <3>2, <2>1, <1>2 DEF OnTheWay, WayBack
  <2> HIDE DEF next
  <2>3. next.id = Len(rest) /\ next.at \in Places
    <3>1. next.id = Len(rest)
      BY <1>2, <2>2 DEF Numbered
    <3>2. next \in RoutePoints
      BY <1>2, <2>2 DEF Numbered
    <3>3. QED BY <3>1, <3>2 DEF RoutePoints
  <2>4. /\ more \in Seq(Nat) /\ Len(more) = Len(driven) + 1 /\ Len(driven) \in Nat
        /\ \A i \in 1..Len(driven) : more[i] = driven[i]
        /\ more[Len(driven) + 1] = Len(rest)
    BY <1>2, <2>1, <2>3, AppendProperties
  <2> HIDE DEF more
  <2>5. WayBack(rest)'
    <3>1. \A i \in 1..Len(rest') : i + 1 \in 1..Len(rest)
                                   /\ Len(rest) + 1 - (i + 1) = Len(rest') + 1 - i
      BY <2>1
    <3>2. \A i \in 1..Len(rest) : rest[i] = points[Len(rest) + 1 - i]
      BY <1>2 DEF OnTheWay, WayBack
    <3>3. \A i \in 1..Len(rest') : rest'[i] = points[Len(rest') + 1 - i]
      BY <2>1, <3>1, <3>2
    <3>4. Len(points) \in Nat
      BY <1>2 DEF Numbered
    <3>5. QED BY <1>1, <2>1, <2>2, <3>3, <3>4 DEF WayBack
  <2>6. driven' = more /\ more # <<>>
    BY <1>4, <2>4 DEF more, next
  <2>7. more[Len(more)] = Len(rest') + 1 /\ Len(rest') < Len(points)
    BY <2>1, <2>2, <2>4
  <2>8. more[1] \in {Len(points), Len(points) - 1}
    <3>1. CASE driven = <<>>
      BY <1>2, <2>4, <3>1 DEF OnTheWay
    <3>2. CASE driven # <<>>
      <4>1. 1 \in 1..Len(driven)
        BY <1>2, <3>2
      <4>2. QED BY <1>2, <2>4, <3>2, <4>1 DEF OnTheWay
    <3>3. QED BY <3>1, <3>2
  <2>9. \A i \in 1..Len(more) - 1 : more[i] = more[i + 1] + 1
    <3> SUFFICES ASSUME NEW i \in 1..Len(more) - 1 PROVE more[i] = more[i + 1] + 1
      OBVIOUS
    <3>1. i \in 1..Len(driven) /\ more[i] = driven[i] /\ driven # <<>>
      BY <2>4
    <3>2. CASE i = Len(driven)
      BY <1>2, <2>4, <3>1, <3>2 DEF OnTheWay
    <3>3. CASE i # Len(driven)
      <4>1. i \in 1..Len(driven) - 1 /\ i + 1 \in 1..Len(driven)
        BY <2>4, <3>1, <3>3
      <4>2. more[i + 1] = driven[i + 1]
        BY <2>4, <4>1
      <4>3. QED BY <1>2, <3>1, <4>1, <4>2 DEF OnTheWay
    <3>4. QED BY <3>2, <3>3
  <2>10. place' = points[Len(rest') + 1].at
    <3>1. Len(rest') + 1 = Len(rest)
      BY <2>1
    <3>2. QED BY <1>4, <2>2, <3>1 DEF next
  <2>11. OnTheWay'
    BY <1>1, <1>2, <1>4, <2>5, <2>6, <2>7, <2>8, <2>9, <2>10 DEF OnTheWay
  <2>12. place' \in Places
    BY <1>4, <2>3 DEF next
  <2>13. QED BY <1>1, <1>2, <1>4, <2>4, <2>6, <2>11, <2>12 DEF RouteInv, Numbered
<1>5. QED BY <1>3, <1>4 DEF SendGoal

LEMMA RouteInvHolds == RouteSpec => []RouteInv
<1>1. RouteInit => RouteInv
  BY DEF RouteInit, RouteInv, Numbered
<1>2. RouteInv /\ [RouteNext]_routeVars => RouteInv'
  <2> SUFFICES ASSUME RouteInv, [RouteNext]_routeVars PROVE RouteInv'
    OBVIOUS
  <2>1. CASE FirstOdometry
    BY <2>1 DEF FirstOdometry, RouteInv, Numbered
  <2>2. CASE SamplePose
    BY <2>2, SampleKeepsNumbered
  <2>3. CASE SaveRoute
    BY <2>3 DEF SaveRoute, surroundings, RouteInv, Numbered
  <2>4. CASE StartReturn
    <3>1. /\ stage = "saved" /\ stage' = "goal" /\ points # <<>> /\ rest' = Itinerary
          /\ UNCHANGED <<place, points, driven>>
      BY <2>4 DEF StartReturn, surroundings
    <3>2. /\ WayBack(Itinerary) /\ Itinerary # <<>>
          /\ Len(Itinerary) \in {Len(points), Len(points) - 1}
      BY <3>1, ItineraryIsWayBack DEF RouteInv
    <3>3. driven = <<>>
      BY <3>1 DEF RouteInv
    <3>4. WayBack(rest)'
      BY <3>1, <3>2 DEF WayBack
    <3>5. OnTheWay'
      BY <3>1, <3>2, <3>3, <3>4 DEF OnTheWay
    <3>6. QED BY <3>1, <3>5 DEF RouteInv, Numbered
  <2>5. CASE SendGoal
    BY <2>5, GoalKeepsWay
  <2>6. CASE GoalDwell
    <3>1. /\ stage = "dwell" /\ stage' = IF rest = <<>> THEN "home" ELSE "goal"
          /\ UNCHANGED <<place, points, rest, driven>>
      BY <2>6 DEF GoalDwell, surroundings
    <3>2. OnTheWay'
      BY <3>1 DEF RouteInv, OnTheWay, WayBack
    <3>3. QED BY <3>1, <3>2 DEF RouteInv, Numbered
  <2>7. CASE BreakReturn
    <3>1. /\ stage \in {"goal", "dwell"} /\ stage' = "failed"
          /\ UNCHANGED <<points, rest, driven>> /\ place' \in Places
      BY <2>7 DEF BreakReturn, RouteInv
    <3>2. OnTheWay'
      BY <3>1 DEF RouteInv, OnTheWay, WayBack
    <3>3. QED BY <3>1, <3>2 DEF RouteInv, Numbered
  <2>8. CASE Roam
    <3>1. stage \in {"record", "saved"} /\ UNCHANGED <<stage, points, driven>> /\ place' \in Places
      BY <2>8 DEF Roam, RouteInv
    <3>2. QED BY <3>1 DEF RouteInv, Numbered
  <2>9. CASE UNCHANGED routeVars
    BY <2>9 DEF routeVars, RouteInv, Numbered, OnTheWay, WayBack
  <2>10. QED BY <2>1, <2>2, <2>3, <2>4, <2>5, <2>6, <2>7, <2>8, <2>9 DEF RouteNext
<1>3. QED BY <1>1, <1>2, PTL DEF RouteSpec

\* Recorder and validator agree on every route that can be recorded.
THEOREM ValidHolds == RouteSpec => []RecordedRouteValid
<1>1. RouteInv => RecordedRouteValid
  BY DEF RouteInv, Numbered, RecordedRouteValid, Valid
<1>2. QED BY <1>1, RouteInvHolds, PTL

\* A return that succeeds leaves the robot at the first point.
THEOREM OriginHolds == RouteSpec => []ReturnEndsAtOrigin
<1>1. RouteInv => ReturnEndsAtOrigin
  <2> SUFFICES ASSUME RouteInv, stage = "home" PROVE place = points[1].at
    BY DEF ReturnEndsAtOrigin
  <2>1. OnTheWay /\ rest = <<>> /\ Len(rest) = 0
    BY DEF RouteInv, OnTheWay
  <2>2. QED BY <2>1 DEF OnTheWay
<1>2. QED BY <1>1, RouteInvHolds, PTL

\* The way back follows the recorded route point by point.
THEOREM RetraceHolds == RouteSpec => []RetracesRoute
<1>1. RouteInv => RetracesRoute
  BY DEF RouteInv, OnTheWay, RetracesRoute
<1>2. QED BY <1>1, RouteInvHolds, PTL

-----------------------------------------------------------------------------
(* WaypointPlayer                                                          *)

USE DEF Ended, Spinning, Twists

\* The states in which the newest command must be a stop: those the property
\* names, the states of the Nav2 mode, in which nothing is ever published, and
\* a stop() that has sent its first message.
Quiet ==
  \/ pc \in {"pause", "dwell", "next", "odom", "done", "failed",
             "server", "accept", "result"}
  \/ pc = "stop" /\ zeros < Zeros

StillInv ==
  /\ mode \in {"direct", "nav2"}
  /\ wire \in Seq(Twists) /\ wheels \in Twists
  /\ zeros \in 0..Zeros
  /\ Quiet => Newest = "stop"

\* What a publication, a drained message and a stop leave as the newest.
LEMMA PublishIsNewest ==
  ASSUME wire \in Seq(Twists), NEW v \in Twists, Publish(v)
  PROVE  wire' \in Seq(Twists) /\ Newest' = v
<1>1. Append(wire, v) \in Seq(Twists) /\ Append(wire, v) # <<>>
        /\ Append(wire, v)[Len(Append(wire, v))] = v
  BY AppendProperties
<1>2. CASE Len(wire) < Depth
  BY <1>1, <1>2 DEF Publish, Newest
<1>3. CASE ~(Len(wire) < Depth)
  <2>1. wire # <<>>
    BY <1>3, PlayerAssumption, EmptySeq DEF PlayerAssumption
  <2>2. Tail(wire) \in Seq(Twists)
    BY <2>1, HeadTailProperties
  <2>3. Append(Tail(wire), v) \in Seq(Twists) /\ Append(Tail(wire), v) # <<>>
          /\ Append(Tail(wire), v)[Len(Append(Tail(wire), v))] = v
    BY <2>2, AppendProperties
  <2> QED BY <1>3, <2>3 DEF Publish, Newest
<1> QED BY <1>2, <1>3

LEMMA ExecuteKeepsNewest ==
  ASSUME wire \in Seq(Twists), Execute
  PROVE  wire' \in Seq(Twists) /\ wheels' \in Twists /\ Newest' = Newest
<1>1. wire # <<>> /\ wire' = Tail(wire) /\ wheels' = Head(wire)
  BY DEF Execute
<1>2. Tail(wire) \in Seq(Twists) /\ Head(wire) \in Twists
        /\ Len(Tail(wire)) = Len(wire) - 1
        /\ \A i \in 1..Len(Tail(wire)) : Tail(wire)[i] = wire[i + 1]
  BY <1>1, HeadTailProperties
<1>3. Len(wire) \in Nat \ {0} /\ Head(wire) = wire[1]
  BY <1>1, EmptySeq, LenProperties
<1>4. CASE Tail(wire) = <<>>
  <2>1. Len(wire) = 1
    BY <1>2, <1>3, <1>4
  <2> QED BY <1>1, <1>2, <1>3, <1>4, <2>1 DEF Newest
<1>5. CASE Tail(wire) # <<>>
  <2>1. Len(Tail(wire)) \in 1..Len(Tail(wire))
    BY <1>2, <1>5, EmptySeq, LenProperties
  <2>2. Tail(wire)[Len(Tail(wire))] = wire[Len(wire)]
    BY <1>2, <1>3, <2>1
  <2> QED BY <1>1, <1>2, <1>5, <2>2 DEF Newest
<1> QED BY <1>4, <1>5
-----------------------------------------------------------------------------
LEMMA StillInit == PlayerInit => StillInv
  BY EmptySeq, PlayerAssumption DEF PlayerInit, StillInv, Newest, PlayerAssumption

\* Publishing steps set the newest command, draining keeps it, the chassis
\* node's own stops make it one, and every other step leaves /cmd_vel alone.
LEMMA StillNext ==
  ASSUME StillInv, [PlayerNext]_playerVars
  PROVE  StillInv'
<1> USE PlayerAssumption DEF PlayerAssumption
<1>1. CASE UNCHANGED chassis /\ (NextPoint \/ WaitOdom \/ LegEnds \/ Dwell
             \/ Expire \/ Arrive \/ SpinEnds \/ WaitForServer \/ GoalAnswered
             \/ GoalResult \/ ScanCallback \/ OdomCallback \/ Interrupt
             \/ Nav2 \/ UNCHANGED playerVars)
  <2>1. Newest' = Newest /\ wire' = wire /\ wheels' = wheels
    BY <1>1 DEF chassis, Newest
  <2> SUFFICES mode' \in {"direct", "nav2"} /\ zeros' \in 0..Zeros /\ (Quiet' => Quiet)
    BY <2>1 DEF StillInv
  <2> QED
    BY <1>1 DEF StillInv, Quiet, NextPoint, WaitOdom, LegEnds, Dwell, Expire,
         Arrive, EndLoop, SpinEnds, WaitForServer, GoalAnswered, GoalResult,
         ScanCallback, OdomCallback, Interrupt, Nav2, route, playerVars
<1>2. CASE Pause
  BY <1>2, PublishIsNewest DEF Pause, Publish, StillInv, route
<1>3. CASE StopZero
  BY <1>3, PublishIsNewest DEF StopZero, Publish, StillInv, route
<1>4. CASE Steer
  <2> DEFINE v == IF leg = 2 THEN "go" ELSE "turn"
  <2>1. wire' \in Seq(Twists)
    <3> v \in Twists OBVIOUS
    <3> Publish(v) BY <1>4 DEF Steer
    <3> QED BY PublishIsNewest DEF StillInv
  <2> QED BY <1>4, <2>1 DEF Steer, Publish, StillInv, Quiet, route
<1>5. CASE Execute
  BY <1>5, ExecuteKeepsNewest DEF Execute, StillInv, Quiet, route
<1>6. CASE Keepalive \/ Watchdog
  <2>1. wire' = wire /\ wheels' = "stop" /\ (Quiet' => Quiet)
          /\ mode' = mode /\ zeros' = zeros
    BY <1>6 DEF Keepalive, Watchdog, Quiet, route
  <2>2. Newest = "stop" => Newest' = "stop"
    BY <2>1 DEF Newest
  <2> QED BY <2>1, <2>2 DEF StillInv
<1>7. CASE Tick
  BY <1>7 DEF Tick, StillInv, Quiet, Newest, route
<1>8. UNCHANGED chassis \/ Pause \/ StopZero \/ Steer \/ Execute
        \/ Keepalive \/ Watchdog \/ Tick
  BY DEF PlayerNext, Run, Drive, NextPoint, WaitOdom, LegEnds, Dwell, Expire, Arrive,
     EndLoop, SpinEnds, WaitForServer, GoalAnswered, GoalResult, ScanCallback,
     OdomCallback, Interrupt, Nav2, playerVars, chassis
<1> QED BY <1>1, <1>2, <1>3, <1>4, <1>5, <1>6, <1>7, <1>8 DEF PlayerNext, Run, Drive

\* Whichever way the player came to wait, the newest command on /cmd_vel, or
\* the motion it left, is a stop (drive_to_xy line 193, stop()).
THEOREM StillHolds == PlayerSpec => []StillWhenIdle
<1>1. StillInv => StillWhenIdle
  BY DEF StillInv, Quiet, StillWhenIdle
<1> QED BY StillInit, StillNext, <1>1, PTL DEF PlayerSpec
-----------------------------------------------------------------------------
\* Between two goals Nav2 has nothing in hand, so a success it reports is one
\* of the current point.
GoalInv ==
  mode = "nav2" =>
    /\ pc \in {"next", "dwell", "server", "accept", "result"} \cup Ended
    /\ pc \in {"next", "dwell", "server"} => nav \in {"absent", "idle", "dead"}
    /\ nav = "succeeded" => point \in reached
    /\ reported \subseteq reached

LEMMA GoalNext ==
  ASSUME GoalInv, [PlayerNext]_playerVars
  PROVE  GoalInv'
<1>1. CASE NextPoint \/ Dwell \/ WaitForServer \/ GoalAnswered \/ GoalResult
  BY <1>1 DEF GoalInv, NextPoint, Dwell, WaitForServer, GoalAnswered, GoalResult, route
<1>2. CASE WaitOdom \/ Drive
  BY <1>2 DEF GoalInv, WaitOdom, Drive, Expire, Pause, Arrive, Steer, SpinEnds,
     StopZero, LegEnds, EndLoop, route
<1>3. CASE Nav2
  BY <1>3 DEF GoalInv, Nav2, NavStarts, NavDies, NavAnswers, NavFinishes
<1>4. CASE ScanCallback \/ OdomCallback \/ Interrupt \/ Execute \/ Keepalive
             \/ Watchdog \/ Tick \/ UNCHANGED playerVars
  BY <1>4 DEF GoalInv, ScanCallback, OdomCallback, Interrupt, Execute,
     Keepalive, Watchdog, Tick, route, playerVars
<1> QED BY <1>1, <1>2, <1>3, <1>4 DEF PlayerNext, Run

\* With Nav2 a point the log calls reached is one Nav2 reached (line 274).
THEOREM Nav2ReportHolds == PlayerSpec => []Nav2ReportsArrival
<1>1. PlayerInit => GoalInv
  BY DEF PlayerInit, GoalInv
<1>2. GoalInv => Nav2ReportsArrival
  BY DEF GoalInv, Nav2ReportsArrival
<1> QED BY <1>1, <1>2, GoalNext, PTL DEF PlayerSpec
-----------------------------------------------------------------------------
\* Away from the start the player has a point in hand, and so has Nav2.
HasPoint ==
  /\ pc \notin {"next"} \cup Ended => point \in 1..Points
  /\ nav \notin {"absent", "idle", "dead"} => point \in 1..Points

TypeInv == PlayerTypeOK /\ HasPoint

\* A queue of bounded depth that drops its oldest message stays bounded.
LEMMA WireHolds ==
  ASSUME wire \in Seq(Twists), Len(wire) <= Depth, NEW v \in Twists, Publish(v)
  PROVE  wire' \in Seq(Twists) /\ Len(wire') <= Depth
<1>1. Len(wire) \in Nat /\ Depth \in Nat \ {0}
  BY PlayerAssumption DEF PlayerAssumption
<1>2. CASE Len(wire) < Depth
  <2>1. Append(wire, v) \in Seq(Twists) /\ Len(Append(wire, v)) = Len(wire) + 1
    BY AppendProperties
  <2>2. QED BY <1>1, <1>2, <2>1 DEF Publish
<1>3. CASE ~(Len(wire) < Depth)
  <2>1. wire # <<>>
    BY <1>1, <1>3, EmptySeq
  <2>2. Tail(wire) \in Seq(Twists) /\ Len(Tail(wire)) = Len(wire) - 1
    BY <2>1, HeadTailProperties
  <2>3. /\ Append(Tail(wire), v) \in Seq(Twists)
        /\ Len(Append(Tail(wire), v)) = Len(Tail(wire)) + 1
    BY <2>2, AppendProperties
  <2>4. Len(Append(Tail(wire), v)) <= Depth
    BY <1>1, <2>2, <2>3
  <2>5. QED BY <1>3, <2>3, <2>4 DEF Publish
<1>4. QED BY <1>2, <1>3

\* Every state of the patrol is well typed; what it reports are points of the
\* route, and the /cmd_vel queue never outgrows the chassis node's depth.
THEOREM PlayerTypes == PlayerSpec => []PlayerTypeOK
<1> USE PlayerAssumption DEF PlayerAssumption
<1>1. PlayerInit => TypeInv
  <2> SUFFICES ASSUME PlayerInit PROVE TypeInv
    OBVIOUS
  <2>1. wire \in Seq(Twists) /\ Len(wire) <= Depth
    BY EmptySeq DEF PlayerInit
  <2>2. QED BY <2>1 DEF PlayerInit, TypeInv, PlayerTypeOK, HasPoint
<1>2. TypeInv /\ [PlayerNext]_playerVars => TypeInv'
  <2> SUFFICES ASSUME TypeInv, [PlayerNext]_playerVars PROVE TypeInv'
    OBVIOUS
  <2> USE DEF TypeInv, PlayerTypeOK, HasPoint
  <2>1. CASE NextPoint BY <2>1 DEF NextPoint, sensors, chassis
  <2>2. CASE WaitOdom BY <2>2 DEF WaitOdom, route, sensors, chassis
  <2>3. CASE LegEnds
    <3>1. CASE leg < 3
      <4>1. leg + 1 \in 1..3 /\ Patience[leg + 1] \in Nat BY <3>1
      <4>2. QED BY <2>3, <3>1, <4>1 DEF LegEnds, chassis
    <3>2. CASE ~(leg < 3)
      <4>1. /\ pc = "stop" /\ pc' = "dwell" /\ reported' = reported \cup {point}
            /\ UNCHANGED <<mode, point, leg, left, zeros, scan, odom, reached, nav>>
            /\ UNCHANGED <<wire, wheels, silence>>
        BY <2>3, <3>2 DEF LegEnds, chassis
      <4>2. QED BY <4>1
    <3>3. QED BY <3>1, <3>2
  <2>4. CASE Dwell BY <2>4 DEF Dwell, route, sensors, chassis
  <2>5. CASE Expire BY <2>5 DEF Expire, EndLoop, route, sensors, chassis
  <2>6. CASE Arrive BY <2>6 DEF Arrive, EndLoop, sensors, chassis
  <2>7. CASE SpinEnds BY <2>7 DEF SpinEnds, route, sensors, chassis
  <2>8. CASE Pause
    <3>1. wire' \in Seq(Twists) /\ Len(wire') <= Depth
      BY <2>8, WireHolds DEF Pause
    <3>2. QED BY <2>8, <3>1 DEF Pause, Publish, route, sensors
  <2>9. CASE StopZero
    <3>1. wire' \in Seq(Twists) /\ Len(wire') <= Depth
      BY <2>9, WireHolds DEF StopZero
    <3>2. QED BY <2>9, <3>1 DEF StopZero, Publish, route, sensors
  <2>10. CASE Steer
    <3> DEFINE v == IF leg = 2 THEN "go" ELSE "turn"
    <3>1. v \in Twists /\ Publish(v)
      BY <2>10 DEF Steer
    <3>2. wire' \in Seq(Twists) /\ Len(wire') <= Depth
      BY <3>1, WireHolds
    <3>3. QED BY <2>10, <3>2 DEF Steer, Publish, route, sensors
  <2>11. CASE ScanCallback BY <2>11 DEF ScanCallback, route, chassis, Spinning
  <2>12. CASE OdomCallback BY <2>12 DEF OdomCallback, route, chassis, Spinning
  <2>13. CASE Interrupt BY <2>13 DEF Interrupt, route, sensors, chassis
  <2>14. CASE WaitForServer BY <2>14 DEF WaitForServer, route, sensors, chassis
  <2>15. CASE GoalAnswered BY <2>15 DEF GoalAnswered, route, sensors, chassis
  <2>16. CASE GoalResult BY <2>16 DEF GoalResult, sensors, chassis
  <2>17. CASE Nav2
    <3>1. UNCHANGED <<mode, pc, point, leg, left, zeros, scan, odom, reported, wire, wheels, silence>>
      BY <2>17 DEF Nav2, sensors, chassis
    <3>2. CASE NavStarts BY <3>1, <3>2 DEF NavStarts
    <3>3. CASE NavDies BY <3>1, <3>3 DEF NavDies
    <3>4. CASE NavAnswers BY <3>1, <3>4 DEF NavAnswers
    <3>5. CASE NavFinishes BY <3>1, <3>5 DEF NavFinishes
    <3>6. QED BY <2>17, <3>2, <3>3, <3>4, <3>5 DEF Nav2
  <2>18. CASE Execute
    <3>1. /\ Head(wire) \in Twists /\ Tail(wire) \in Seq(Twists)
          /\ Len(Tail(wire)) = Len(wire) - 1 /\ Len(wire) \in Nat
      BY <2>18, HeadTailProperties DEF Execute
    <3>2. Len(Tail(wire)) <= Depth
      BY <3>1
    <3>3. QED BY <2>18, <3>1, <3>2 DEF Execute, route, sensors
  <2>19. CASE Keepalive BY <2>19 DEF Keepalive, route, sensors
  <2>20. CASE Watchdog BY <2>20 DEF Watchdog, route, sensors
  <2>21. CASE Tick BY <2>21 DEF Tick, route, sensors
  <2>22. CASE UNCHANGED playerVars BY <2>22 DEF playerVars
  <2>23. QED
    BY <2>1, <2>2, <2>3, <2>4, <2>5, <2>6, <2>7, <2>8, <2>9, <2>10, <2>11, <2>12,
       <2>13, <2>14, <2>15, <2>16, <2>17, <2>18, <2>19, <2>20, <2>21, <2>22
    DEF PlayerNext, Run, Drive
<1>3. QED BY <1>1, <1>2, PTL DEF PlayerSpec, TypeInv
=============================================================================
