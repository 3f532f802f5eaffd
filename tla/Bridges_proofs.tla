----------------------------- MODULE Bridges_proofs -----------------------------
(***************************************************************************)
(* Proofs about what stands between two parts of the robot: the forwarder  *)
(* of the CAN gateway's port, the resampling of scans, and the two         *)
(* programs that turn what they hear into /cmd_vel, the obstacle avoider   *)
(* and the calibration scripts.  For any peers, beams, scenes and steps of *)
(* the odometry.                                                           *)
(***************************************************************************)
EXTENDS Forwarder, ScanRepacker, LaserAvoidance, Calibration,
        SequenceTheorems, WellFoundedInduction, TLAPS

-----------------------------------------------------------------------------
(* The forwarder                                                           *)

Ways == {"c2t", "t2c"}

ForwarderTypes ==
  /\ handler \in [Peers -> {"none", "dial", "swap", "evict", "done"}]
  /\ pipes \in [Peers -> SUBSET Ways] /\ leaving \in [Peers -> SUBSET Ways]
  /\ usable \in [Peers -> BOOLEAN]
  /\ evicted \in [Peers -> Peers \cup {NoPeer}]
  /\ active \in Peers \cup {NoPeer}

ForwarderInv == ForwarderTypes /\ OnePair

\* Whoever is put out of _active is in the hands of the thread that did so, and
\* a relay that clears _active closes its own sockets next: of each pair that can
\* carry bytes somebody knows (forward_5578.py, _swap and the finally of pipe).
THEOREM OnePairHolds == ForwarderSpec => []OnePair
<1> USE DEF ForwarderInv, ForwarderTypes, OnePair, Doomed, Ways
<1>1. ForwarderInit => ForwarderInv
  BY DEF ForwarderInit
<1>2. ForwarderInv /\ [ForwarderNext]_forwarderVars => ForwarderInv'
  <2> SUFFICES ASSUME ForwarderInv, [ForwarderNext]_forwarderVars PROVE ForwarderInv'
    OBVIOUS
  <2>1. ASSUME NEW p \in Peers, AcceptPeer(p) PROVE ForwarderInv'
    BY <2>1 DEF AcceptPeer
  <2>2. ASSUME NEW p \in Peers, DialTarget(p) PROVE ForwarderInv'
    <3>1. CASE usable' = [usable EXCEPT ![p] = TRUE]
      BY <2>2, <3>1 DEF DialTarget
    <3>2. CASE UNCHANGED usable
      BY <2>2, <3>2 DEF DialTarget
    <3>3. QED BY <2>2, <3>1, <3>2 DEF DialTarget
  <2>3. ASSUME NEW p \in Peers, SwapPair(p) PROVE ForwarderInv'
    <3>1. ForwarderTypes' BY <2>3 DEF SwapPair
    <3>2. ASSUME NEW q \in Peers, usable'[q], q # p, handler'[q] # "swap"
          PROVE  Doomed(q)'
      <4>1. CASE q = active BY <2>3, <3>2, <4>1 DEF SwapPair
      <4>2. CASE q # active BY <2>3, <3>2, <4>2 DEF SwapPair
      <4>3. QED BY <4>1, <4>2
    <3>3. active' = p BY <2>3 DEF SwapPair
    <3>4. QED BY <3>1, <3>2, <3>3
  <2>4. ASSUME NEW p \in Peers, EvictPair(p) PROVE ForwarderInv'
    <3>1. ForwarderTypes' BY <2>4 DEF EvictPair
    <3>2. ASSUME NEW q \in Peers, usable'[q]
          PROVE  q = active' \/ handler'[q] = "swap" \/ Doomed(q)'
      <4>1. usable[q] /\ q # evicted[p] BY <2>4, <3>2 DEF EvictPair
      <4>2. QED BY <2>4, <4>1 DEF EvictPair
    <3>3. QED BY <3>1, <3>2
  <2>5. ASSUME NEW p \in Peers, NEW way \in Ways, EndPipe(p, way) PROVE ForwarderInv'
    BY <2>5 DEF EndPipe
  <2>6. ASSUME NEW p \in Peers, NEW way \in Ways, PipeEnds(p, way) PROVE ForwarderInv'
    BY <2>6 DEF PipeEnds, ShutPair
  <2>7. CASE UNCHANGED forwarderVars
    BY <2>7 DEF forwarderVars
  <2>8. QED BY <2>1, <2>2, <2>3, <2>4, <2>5, <2>6, <2>7 DEF ForwarderNext
<1>3. QED BY <1>1, <1>2, PTL DEF ForwarderSpec
-----------------------------------------------------------------------------
(* Resampling                                                              *)

\* The angle between two of the new beams.
Spacing == Turn \div OutCount

\* Outputs are a whole number of steps apart.
LEMMA SpacingIsNatural == Spacing \in Nat
BY RepackerAssumption DEF Spacing

\* Predecessors of natural numbers.
LEMMA OneLess == ASSUME NEW n \in Nat, n # 0 PROVE 0 <= n - 1
OBVIOUS

\* A beam further on lies at a larger angle.
LEMMA AnglesGrow ==
  ASSUME NEW inc \in Nat, NEW j \in Int, NEW k \in Int, j <= k
  PROVE  j * inc <= k * inc
OBVIOUS

\* Once the pointer has stopped no beam is nearer: those it went past are further
\* away because it was right to go on, those ahead because it was right to stop.
LEMMA PointerIsNearest ==
  ASSUME beams \in Nat, increment \in Nat, increment >= 1, pointer \in Nat,
         NEW a \in Nat, NEW j \in 0..beams - 1,
         pointer > 0 => 2 * (pointer * increment) - increment <= 2 * a,
         pointer <= beams - 1, ~Closer(a)
  PROVE  Distance(pointer, a) <= Distance(j, a)
<1> DEFINE here == pointer * increment
           there == j * increment
<1>1. here \in Int /\ there \in Int
  OBVIOUS
<1>2. (pointer + 1) * increment = here + increment /\ (pointer - 1) * increment = here - increment
  OBVIOUS
<1>3. CASE j = pointer
  BY <1>1, <1>3 DEF Distance
<1>4. CASE j < pointer
  <2>1. there <= (pointer - 1) * increment
    <3>1. pointer - 1 \in Int /\ j \in Int /\ j <= pointer - 1
      BY <1>4
    <3>2. QED BY <3>1, AnglesGrow
  <2>2. there <= here - increment /\ 2 * here - increment <= 2 * a
    BY <1>2, <1>4, <2>1
  <2> HIDE DEF here, there
  <2>3. QED BY <1>1, <2>2 DEF Distance, here, there
<1>5. CASE j > pointer
  <2>1. (pointer + 1) * increment <= there
    <3>1. pointer + 1 \in Int /\ j \in Int /\ pointer + 1 <= j
      BY <1>5
    <3>2. QED BY <3>1, AnglesGrow
  <2>2. here + increment <= there
    BY <1>2, <2>1
  <2>3. ~(Distance(pointer + 1, a) <= Distance(pointer, a))
    BY <1>5 DEF Closer
  <2>4. Distance(pointer + 1, a) =
          IF here + increment < a THEN a - (here + increment) ELSE (here + increment) - a
    BY <1>2 DEF Distance
  <2> HIDE DEF here, there
  <2>5. QED BY <1>1, <2>2, <2>3, <2>4 DEF Distance, here, there
<1>6. QED BY <1>3, <1>4, <1>5

\* The pointer stays among the beams, and it never went past the middle between
\* its beam and the one before without the new angle being past it too.
RepackInv ==
  /\ beams \in Nat /\ increment \in Nat /\ pointer \in Nat /\ ranges \in Seq(Nat)
  /\ beams # 0 =>
       /\ increment >= 1 /\ pointer <= beams - 1
       /\ pointer > 0 => 2 * (pointer * increment) - increment <= 2 * Angle(Len(ranges))
  /\ NearestBeam

\* Although the pointer never goes back, each new beam is a copy of the old one
\* nearest to it, for any number of beams and any spacing (scan_repacker.py, the
\* while loop of line 50).
THEOREM NearestHolds == RepackSpec => []NearestBeam
<1>1. RepackInit => RepackInv
  <2> SUFFICES ASSUME RepackInit PROVE RepackInv
    OBVIOUS
  <2>1. ranges = <<>> /\ ranges \in Seq(Nat) /\ DOMAIN ranges = {}
    BY DEF RepackInit
  <2>2. NearestBeam
    BY <2>1 DEF NearestBeam
  <2>3. QED BY <2>1, <2>2 DEF RepackInit, RepackInv
<1>2. RepackInv /\ [RepackNext]_repackVars => RepackInv'
  <2> SUFFICES ASSUME RepackInv, [RepackNext]_repackVars PROVE RepackInv'
    OBVIOUS
  <2>1. Len(ranges) \in Nat /\ DOMAIN ranges = 1..Len(ranges)
    BY DEF RepackInv
  <2>2. \A i \in Nat : Angle(i) \in Nat
    BY SpacingIsNatural DEF Angle, Spacing
  <2>3. CASE TakeScan
    <3>1. ranges' = <<>> /\ ranges' \in Seq(Nat) /\ DOMAIN ranges' = {}
      BY <2>3 DEF TakeScan
    <3>2. NearestBeam'
      BY <3>1 DEF NearestBeam
    <3>3. beams' \in Nat
      BY <2>3, RepackerAssumption DEF TakeScan
    <3>4. increment' \in Nat /\ increment' >= 1 /\ pointer' = 0
      BY <2>3, RepackerAssumption DEF TakeScan
    <3>5. beams' # 0
      BY <2>3, RepackerAssumption DEF TakeScan
    <3>6. 0 <= beams' - 1
      BY <3>3, <3>5, OneLess
    <3>7. pointer' \in Nat /\ ~(pointer' > 0) /\ pointer' <= beams' - 1
      BY <3>4, <3>6
    <3>8. QED BY <3>1, <3>2, <3>3, <3>4, <3>7 DEF RepackInv
  <2>4. CASE Advance
    <3>1. /\ beams' = beams /\ increment' = increment /\ ranges' = ranges
          /\ pointer' = pointer + 1 /\ beams # 0 /\ Closer(Angle(Len(ranges)))
      BY <2>4 DEF Advance, Copying
    <3>2. NearestBeam'
      BY <3>1 DEF RepackInv, NearestBeam, Distance, Angle
    <3>3. 2 * (pointer' * increment) - increment <= 2 * Angle(Len(ranges))
      <4> DEFINE here == pointer * increment
                 a == Angle(Len(ranges))
      <4>1. here \in Int /\ a \in Nat /\ increment \in Nat /\ increment >= 1
        BY <2>1, <2>2, <3>1 DEF RepackInv
      <4>2. pointer' * increment = here + increment
        BY <3>1 DEF RepackInv
      <4>3. (IF here + increment < a THEN a - (here + increment) ELSE (here + increment) - a)
              <= (IF here < a THEN a - here ELSE here - a)
        BY <3>1, <4>2 DEF Closer, Distance
      <4> HIDE DEF here, a
      <4>4. QED BY <4>1, <4>2, <4>3 DEF here, a
    <3>4. pointer' \in Nat /\ pointer' <= beams - 1
      BY <3>1 DEF RepackInv, Closer
    <3>5. Angle(Len(ranges))' = Angle(Len(ranges))
      BY <3>1 DEF Angle
    <3>6. QED BY <3>1, <3>2, <3>3, <3>4, <3>5 DEF RepackInv
  <2>5. CASE Copy
    <3>1. /\ beams' = beams /\ increment' = increment /\ pointer' = pointer
          /\ beams # 0 /\ ~Closer(Angle(Len(ranges))) /\ ranges' = Append(ranges, pointer)
      BY <2>5 DEF Copy, Copying
    <3>2. /\ ranges' \in Seq(Nat) /\ Len(ranges') = Len(ranges) + 1
          /\ DOMAIN ranges' = 1..Len(ranges) + 1
          /\ \A i \in 1..Len(ranges) : ranges'[i] = ranges[i]
          /\ ranges'[Len(ranges) + 1] = pointer
      BY <3>1, AppendProperties DEF RepackInv
    <3>3. NearestBeam'
      <4> SUFFICES ASSUME NEW i \in 1..Len(ranges) + 1, NEW j \in 0..beams - 1
                   PROVE  Distance(ranges'[i], Angle(i - 1)) <= Distance(j, Angle(i - 1))
        BY <3>1, <3>2 DEF NearestBeam, Distance, Angle
      <4>1. CASE i \in 1..Len(ranges)
        BY <2>1, <3>2, <4>1 DEF RepackInv, NearestBeam
      <4>2. CASE i = Len(ranges) + 1
        <5>1. i - 1 = Len(ranges) /\ ranges'[i] = pointer /\ Angle(Len(ranges)) \in Nat
          BY <2>1, <2>2, <3>2, <4>2
        <5>2. Distance(pointer, Angle(Len(ranges))) <= Distance(j, Angle(Len(ranges)))
          BY <3>1, <5>1, PointerIsNearest DEF RepackInv
        <5>3. QED BY <5>1, <5>2
      <4>3. QED BY <2>1, <4>1, <4>2
    <3>4. Angle(Len(ranges)) <= Angle(Len(ranges))'
      <4>1. Angle(Len(ranges))' = Angle(Len(ranges)) + Spacing
        BY <2>1, <3>2, SpacingIsNatural DEF Angle, Spacing
      <4>2. QED BY <2>1, <2>2, <4>1, SpacingIsNatural
    <3>5. Angle(Len(ranges)) \in Nat /\ Angle(Len(ranges))' \in Nat
      BY <2>1, <2>2, <3>2 DEF Angle
    <3>6. QED BY <3>1, <3>2, <3>3, <3>4, <3>5 DEF RepackInv
  <2>6. CASE PublishScan
    <3>1. beams' = 0 /\ UNCHANGED <<increment, pointer, ranges>>
      BY <2>6 DEF PublishScan
    <3>2. NearestBeam'
      BY <3>1 DEF NearestBeam
    <3>3. QED BY <3>1, <3>2 DEF RepackInv
  <2>7. CASE UNCHANGED repackVars
    BY <2>7 DEF repackVars, RepackInv, NearestBeam, Distance, Angle
  <2>8. QED BY <2>3, <2>4, <2>5, <2>6, <2>7 DEF RepackNext
<1>3. RepackInv => NearestBeam
  BY DEF RepackInv
<1>4. QED BY <1>1, <1>2, <1>3, PTL DEF RepackSpec
-----------------------------------------------------------------------------
(* The obstacle avoider                                                    *)

\* A beam makes the same angle with a centre, whichever way its scan counts.
LEMMA SameAngle ==
  ASSUME NEW b \in 0..359, NEW c \in {0, 90, -90}
  PROVE  Wrapped(BeamAngle(0, b) - c) = Wrapped(BeamAngle(-180, b) - c)
BY DEF Wrapped, BeamAngle

\* The sectors of a scan hold the same beams, the command is the same, whether
\* angle_min is 0 or -180 degrees, for any scene (sector_min, laser_avoidance.py,
\* line 76).
THEOREM ConventionHolds == AvoidanceSpec => []EitherConvention
<1>1. ASSUME NEW c \in {0, 90, -90}, NEW half
      PROVE  Nearest(scene, 0, c, half) = Nearest(scene, -180, c, half)
  <2> DEFINE beamsFrom(from) ==
        {b \in Bearings : scene[b] # 0 /\ Wrapped(BeamAngle(from, b) - c) \in -half..half}
  <2>1. beamsFrom(0) = beamsFrom(-180)
    <3>1. \A b \in Bearings : Wrapped(BeamAngle(0, b) - c) = Wrapped(BeamAngle(-180, b) - c)
      BY SameAngle, AvoidanceAssumption
    <3>2. QED BY <3>1
  <2> HIDE DEF beamsFrom
  <2>2. {scene[b] : b \in beamsFrom(0)} = {scene[b] : b \in beamsFrom(-180)}
    BY <2>1
  <2>3. QED BY <2>2 DEF Nearest, beamsFrom
<1>2. EitherConvention
  BY <1>1 DEF EitherConvention, Decide
<1>3. QED BY <1>2, PTL

\* What Min makes of a set of numbers.
LEMMA MinIsLeast ==
  ASSUME NEW T \in SUBSET Nat, T # {}
  PROVE  Min(T) \in T /\ \A n \in T : Min(T) <= n
<1>1. PICK m \in T : \A n \in T : ~(<<n, m>> \in OpToRel(<, Nat))
  BY WFMin, NatLessThanWellFounded, Zenon
<1>2. \A n \in T : ~(n < m)
  BY <1>1, Zenon DEF OpToRel
<1>3. \A n \in T : m <= n
  BY <1>2
<1>4. QED BY <1>3 DEF Min

\* The nearest range of a sector is a number, no larger than any beam of it.
LEMMA NearestIsLeast ==
  ASSUME NEW s \in [Bearings -> Nat], NEW from, NEW c, NEW half
  PROVE  /\ Nearest(s, from, c, half) \in Nat
         /\ \A b \in Bearings :
              s[b] # 0 /\ Wrapped(BeamAngle(from, b) - c) \in -half..half
                => Nearest(s, from, c, half) <= s[b]
<1> DEFINE sector == {b \in Bearings :
                        s[b] # 0 /\ Wrapped(BeamAngle(from, b) - c) \in -half..half}
           seen == {s[b] : b \in sector} \cup {Infinite}
<1>1. seen \in SUBSET Nat /\ seen # {}
  BY DEF Infinite
<1> HIDE DEF seen
<1>2. Min(seen) \in seen /\ \A n \in seen : Min(seen) <= n
  BY <1>1, MinIsLeast
<1>3. QED BY <1>1, <1>2 DEF Nearest, seen

\* Which bearings the front sector and the side sectors hold.
LEMMA FrontSector ==
  ASSUME NEW b \in 0..359, NEW from \in {0, -180}, b <= 25 \/ b >= 335
  PROVE  Wrapped(BeamAngle(from, b) - 0) \in -25..25
BY DEF Wrapped, BeamAngle

\* What is at the left is in the left sector, whichever way the scan counts.
LEMMA LeftSector ==
  ASSUME NEW b \in 0..359, NEW from \in {0, -180}, b \in 20..160
  PROVE  Wrapped(BeamAngle(from, b) - 90) \in -70..70
BY DEF Wrapped, BeamAngle

\* What is at the right is in the right sector.
LEMMA RightSector ==
  ASSUME NEW b \in 0..359, NEW from \in {0, -180}, b \in 200..340
  PROVE  Wrapped(BeamAngle(from, b) - (-90)) \in -70..70
BY DEF Wrapped, BeamAngle

\* Whatever the scene, a scan with something too near in it never becomes a
\* command to drive on: what ObstacleStops needs of sector_min and scan_callback.
THEOREM ObstacleIsSeen ==
  AvoidanceSpec => [](TooNear => Decide(scene, angleMin) \notin {"slow", "forward"})
<1> DEFINE SceneInv == scene \in [Bearings -> Nat] /\ angleMin \in {0, -180}
<1>1. AvoidanceInit => SceneInv
  BY AvoidanceAssumption DEF AvoidanceInit
<1>2. SceneInv /\ [AvoidanceNext]_avoidanceVars => SceneInv'
  BY AvoidanceAssumption
     DEF AvoidanceNext, avoidanceVars, AvoidScan, LeaveNode, LidarPublishes, Relay,
         ChassisHeartbeat, ChassisWatchdog, Told, Surroundings, AvoidanceTick, setting
<1>3. SceneInv => (TooNear => Decide(scene, angleMin) \notin {"slow", "forward"})
  <2> SUFFICES ASSUME SceneInv, TooNear
               PROVE  Decide(scene, angleMin) \notin {"slow", "forward"}
    OBVIOUS
  <2> DEFINE front == Nearest(scene, angleMin, 0, 25)
             left == Nearest(scene, angleMin, 90, 70)
             right == Nearest(scene, angleMin, -90, 70)
             side == Min({left, right})
  <2>1. front \in Nat /\ left \in Nat /\ right \in Nat
    BY NearestIsLeast
  <2>2. side \in Nat /\ side <= left /\ side <= right
    <3> HIDE DEF left, right
    <3>1. {left, right} \in SUBSET Nat /\ {left, right} # {}
      BY <2>1
    <3>2. QED BY <3>1, MinIsLeast
  <2>3. front < 50 \/ side < 30
    <3>1. PICK b \in Bearings :
            \/ scene[b] \in 1..49 /\ (b <= 25 \/ b >= 335)
            \/ scene[b] \in 1..29 /\ (b \in 20..160 \/ b \in 200..340)
      BY DEF TooNear
    <3>2. b \in 0..359 /\ scene[b] \in Nat
      BY AvoidanceAssumption
    <3>3. CASE scene[b] \in 1..49 /\ (b <= 25 \/ b >= 335)
      <4>1. scene[b] # 0 /\ Wrapped(BeamAngle(angleMin, b) - 0) \in -25..25
        BY <3>2, <3>3, FrontSector
      <4>2. front <= scene[b]
        BY <4>1, NearestIsLeast
      <4> HIDE DEF front
      <4>3. QED BY <2>1, <3>2, <3>3, <4>2
    <3>4. CASE scene[b] \in 1..29 /\ b \in 20..160
      <4>1. scene[b] # 0 /\ Wrapped(BeamAngle(angleMin, b) - 90) \in -70..70
        <5>1. scene[b] # 0
          BY <3>2, <3>4
        <5>2. b \in 20..160 /\ angleMin \in {0, -180}
          BY <3>4
        <5>3. Wrapped(BeamAngle(angleMin, b) - 90) \in -70..70
          BY <3>2, <5>2, LeftSector
        <5>4. QED BY <5>1, <5>3
      <4>2. left <= scene[b]
        BY <4>1, NearestIsLeast
      <4> HIDE DEF left, side
      <4>3. QED BY <2>1, <2>2, <3>2, <3>4, <4>2
    <3>5. CASE scene[b] \in 1..29 /\ b \in 200..340
      <4>1. scene[b] # 0 /\ Wrapped(BeamAngle(angleMin, b) - (-90)) \in -70..70
        <5>1. scene[b] # 0
          BY <3>2, <3>5
        <5>2. b \in 200..340 /\ angleMin \in {0, -180}
          BY <3>5
        <5>3. Wrapped(BeamAngle(angleMin, b) - (-90)) \in -70..70
          BY <3>2, <5>2, RightSector
        <5>4. QED BY <5>1, <5>3
      <4>2. right <= scene[b]
        BY <4>1, NearestIsLeast
      <4> HIDE DEF right, side
      <4>3. QED BY <2>1, <2>2, <3>2, <3>5, <4>2
    <3>6. QED BY <3>1, <3>3, <3>4, <3>5
  <2>4. Decide(scene, angleMin) \in {"stop", "left", "right"}
    <3> HIDE DEF front, left, right, side
    <3>1. Decide(scene, angleMin) =
            IF front = Infinite THEN "stop"
            ELSE IF front < 50 \/ side < 30
                 THEN IF left > right THEN "left" ELSE "right"
            ELSE IF front < 100 THEN "slow"
            ELSE "forward"
      BY DEF Decide, front, left, right, side
    <3>2. QED BY <2>3, <3>1
  <2>5. QED BY <2>4
<1>4. QED BY <1>1, <1>2, <1>3, PTL DEF AvoidanceSpec
-----------------------------------------------------------------------------
(* The calibration scripts                                                 *)

\* What a queue holds after one more message: the message, and of the others all
\* but the oldest if it was full.
LEMMA QueuedIs ==
  ASSUME NEW S, NEW q \in Seq(S), NEW m \in S
  PROVE  /\ Queued(q, m) \in Seq(S) /\ Queued(q, m) # <<>>
         /\ Queued(q, m)[Len(Queued(q, m))] = m
         /\ \A i \in 1..Len(Queued(q, m)) - 1 :
              \E j \in 1..Len(q) : /\ Queued(q, m)[i] = q[j]
                                   /\ j = i \/ j = i + 1
                                   /\ (j = i) <=> (Len(q) < Backlog)
<1>1. CASE Len(q) < Backlog
  <2>1. Queued(q, m) = Append(q, m)
    BY <1>1 DEF Queued
  <2>2. QED BY <1>1, <2>1, AppendProperties
<1>2. CASE ~(Len(q) < Backlog)
  <2>1. Queued(q, m) = Append(Tail(q), m)
    BY <1>2 DEF Queued
  <2>2. q # <<>>
    BY <1>2, CalibrationAssumption
  <2>3. /\ Tail(q) \in Seq(S) /\ Len(Tail(q)) = Len(q) - 1
        /\ \A i \in 1..Len(q) - 1 : Tail(q)[i] = q[i + 1]
    BY <2>2, HeadTailProperties
  <2>4. /\ Append(Tail(q), m) \in Seq(S) /\ Append(Tail(q), m) # <<>>
        /\ Len(Append(Tail(q), m)) = Len(q)
        /\ \A i \in 1..Len(q) - 1 : Append(Tail(q), m)[i] = q[i + 1]
        /\ Append(Tail(q), m)[Len(q)] = m
    <3> DEFINE t == Tail(q)
    <3>1. t \in Seq(S) /\ Len(t) = Len(q) - 1 /\ \A i \in 1..Len(q) - 1 : t[i] = q[i + 1]
      BY <2>3
    <3> HIDE DEF t
    <3>2. /\ Append(t, m) \in Seq(S) /\ Append(t, m) # <<>> /\ Len(Append(t, m)) = Len(t) + 1
          /\ \A i \in 1..Len(t) : Append(t, m)[i] = t[i]
          /\ Append(t, m)[Len(t) + 1] = m
      BY <3>1, AppendProperties
    <3>3. Len(q) \in Nat /\ Len(t) + 1 = Len(q)
      BY <3>1
    <3>4. QED BY <3>1, <3>2, <3>3 DEF t
  <2>5. QED BY <1>2, <2>1, <2>4
<1>3. QED BY <1>1, <1>2

\* a % n in terms of a \div n.
LEMMA DivMod ==
  ASSUME NEW a \in Int, NEW n \in Nat, n # 0
  PROVE  /\ a \div n \in Int /\ a % n \in 0..n - 1
         /\ a = n * (a \div n) + (a % n)
OBVIOUS

\* Multiplication, for the periods of the yaw.
LEMMA OneTimeMore ==
  ASSUME NEW n \in Int, NEW k \in Int PROVE n * (k + 1) = n * k + n
OBVIOUS

\* The yaw is the pose up to whole periods of the atan2, at most half a period
\* away from the heading 0.
LEMMA YawIsPose ==
  ASSUME NEW at \in Int, base \in Int
  PROVE  \E k \in Int : /\ Yaw(at) = (base + at) - 2 * Full * k
                        /\ -Full < Yaw(at) /\ Yaw(at) <= Full
<1> DEFINE n == 2 * Full
           a == base + at
<1>1. a \in Int /\ n \in Nat /\ n # 0 /\ Full \in Nat /\ n = 2 * Full
  BY CalibrationAssumption
<1>2. Yaw(at) = IF (a % n) > Full THEN (a % n) - n ELSE (a % n)
  BY DEF Yaw
<1> HIDE DEF a, n
<1>3. /\ a \div n \in Int /\ a % n \in 0..n - 1
      /\ a = n * (a \div n) + (a % n)
  BY <1>1, DivMod
<1>4. \E k \in Int : Yaw(at) = a - n * k
  <2>1. CASE (a % n) > Full
    <3>1. n * (a \div n + 1) = n * (a \div n) + n
      <4> DEFINE k == a \div n
      <4>1. k \in Int BY <1>3
      <4> HIDE DEF k
      <4>2. n * (k + 1) = n * k + n
        BY <1>1, <4>1, OneTimeMore
      <4>3. QED BY <4>2 DEF k
    <3>2. Yaw(at) = a - n * (a \div n + 1)
      BY <1>1, <1>2, <1>3, <2>1, <3>1
    <3>3. a \div n + 1 \in Int
      BY <1>3
    <3>4. QED BY <3>2, <3>3
  <2>2. CASE ~((a % n) > Full)
    <3>1. Yaw(at) = a - n * (a \div n)
      BY <1>1, <1>2, <1>3, <2>2
    <3>2. QED BY <1>3, <3>1
  <2>3. QED BY <2>1, <2>2
<1>5. -Full < Yaw(at) /\ Yaw(at) <= Full
  BY <1>1, <1>2, <1>3
<1>6. PICK k \in Int : Yaw(at) = a - n * k
  BY <1>4
<1>7. Yaw(at) = (base + at) - 2 * Full * k
  BY <1>6 DEF a, n
<1>8. QED BY <1>5, <1>7

\* A step of the rotation is never counted for more than it was.
LEMMA YawStepIsShort ==
  ASSUME NEW from \in Int, NEW to \in Int, from <= to, base \in Int
  PROVE  YawStep(from, to) \in Int /\ YawStep(from, to) <= to - from
<1>1. PICK j \in Int : /\ Yaw(from) = (base + from) - 2 * Full * j
                       /\ -Full < Yaw(from) /\ Yaw(from) <= Full
  BY YawIsPose
<1>2. PICK k \in Int : /\ Yaw(to) = (base + to) - 2 * Full * k
                       /\ -Full < Yaw(to) /\ Yaw(to) <= Full
  BY YawIsPose
<1> DEFINE d == Yaw(to) - Yaw(from)
           n == 2 * Full
<1>3. n \in Nat /\ n # 0 /\ Full \in Nat /\ n = 2 * Full
  BY CalibrationAssumption
<1>4. d \in Int /\ d < n
  BY <1>1, <1>2, <1>3
<1>5. d = (to - from) + n * (j - k)
  <2>1. 2 * Full * j = n * j /\ 2 * Full * k = n * k
    OBVIOUS
  <2> HIDE DEF n
  <2>2. n * (j - k) = n * j - n * k
    BY <1>3
  <2>3. n * j \in Int /\ n * k \in Int
    BY <1>3
  <2>4. QED BY <1>1, <1>2, <2>1, <2>2, <2>3
<1>6. j - k \in Int
  OBVIOUS
<1> HIDE DEF d, n
<1>7. YawStep(from, to) = IF 2 * d > Full THEN d - Full ELSE IF 2 * d < -Full THEN d + Full ELSE d
  BY DEF YawStep, d
<1>8. n * (j - k) \in Int
  BY <1>3, <1>6
<1>9. CASE j - k >= 1
  <2>1. n * (j - k) >= n
    BY <1>3, <1>6, <1>9
  <2>2. to - from >= 0
    OBVIOUS
  <2>3. d >= n
    BY <1>3, <1>5, <1>8, <2>1, <2>2
  <2>4. QED BY <1>3, <1>4, <2>3
<1>10. CASE j - k = 0
  <2>1. n * (j - k) = 0
    BY <1>3, <1>10
  <2>2. QED BY <1>3, <1>4, <1>5, <1>7, <2>1
<1>11. CASE j - k <= -1
  <2>1. n * (j - k) <= -n
    BY <1>3, <1>6, <1>11
  <2>2. QED BY <1>3, <1>4, <1>5, <1>7, <1>8, <2>1
<1>12. QED BY <1>6, <1>9, <1>10, <1>11

CalibTypes ==
  /\ base \in Int /\ pose \in Int /\ origin \in Int /\ accum \in Int
  /\ moved \in Nat /\ zerosLeft \in Nat
  /\ inbox \in Seq(Nat) /\ cmds \in Seq({"move", "stop"})

\* The poses on their way only grow, and the script knows none of them yet.
OdometryGrows ==
  /\ pose <= moved
  /\ \A i \in 1..Len(inbox) : /\ pose <= inbox[i] /\ inbox[i] <= moved
                              /\ \A j \in 1..i : inbox[j] <= inbox[i]

\* The rotation added up is never more than the car has turned.
NeverCountsMore ==
  test = "turn" =>
    /\ step \in {"wait", "ask"} => accum = 0
    /\ step \in {"loop", "stop", "tape"} => accum <= pose - origin
    /\ step \in {"stop", "tape"} => accum >= Full

LastWord == IF cmds = <<>> THEN order ELSE cmds[Len(cmds)]

\* After the first of its zeros the last word of stop() is a stop.
StopsLast ==
  step = "tape" \/ (step = "stop" /\ zerosLeft < ZeroCount) => LastWord = "stop"

CalibInv == CalibTypes /\ OdometryGrows /\ NeverCountsMore /\ StopsLast

\* Hearing a pose, the script only learns of more.
LEMMA SpinLearns ==
  ASSUME CalibTypes, OdometryGrows, SpinOnce, moved' = moved
  PROVE  pose' \in Int /\ inbox' \in Seq(Nat) /\ pose <= pose' /\ OdometryGrows'
<1>1. CASE inbox = <<>>
  BY <1>1 DEF SpinOnce, CalibTypes, OdometryGrows
<1>2. CASE inbox # <<>>
  <2>1. pose' = Head(inbox) /\ inbox' = Tail(inbox)
    BY <1>2 DEF SpinOnce
  <2>2. /\ inbox' \in Seq(Nat) /\ Len(inbox) \in Nat /\ Len(inbox') = Len(inbox) - 1
        /\ \A i \in 1..Len(inbox) - 1 : inbox'[i] = inbox[i + 1]
    BY <1>2, <2>1, HeadTailProperties DEF CalibTypes
  <2>3. pose' = inbox[1] /\ 1 \in 1..Len(inbox) /\ pose' \in Nat
    BY <1>2, <2>1, <2>2 DEF CalibTypes
  <2>4. pose <= pose' /\ pose' <= moved'
    BY <2>3 DEF OdometryGrows
  <2>5. ASSUME NEW i \in 1..Len(inbox')
        PROVE  /\ pose' <= inbox'[i] /\ inbox'[i] <= moved'
               /\ \A j \in 1..i : inbox'[j] <= inbox'[i]
    <3>1. i + 1 \in 1..Len(inbox) /\ inbox'[i] = inbox[i + 1]
      BY <2>2
    <3>2. \A j \in 1..i + 1 : inbox[j] <= inbox[i + 1]
      BY <3>1 DEF OdometryGrows
    <3>3. pose' <= inbox'[i] /\ inbox'[i] <= moved'
      BY <2>3, <3>1, <3>2 DEF OdometryGrows
    <3>4. ASSUME NEW j \in 1..i PROVE inbox'[j] <= inbox'[i]
      <4>1. j \in 1..Len(inbox) - 1 /\ j + 1 \in 1..i + 1
        BY <2>2
      <4>2. QED BY <2>2, <3>1, <3>2, <4>1
    <3>5. QED BY <3>3, <3>4
  <2>6. QED BY <2>2, <2>3, <2>4, <2>5 DEF OdometryGrows
<1>3. QED BY <1>1, <1>2

\* A command more is the last word.
LEMMA QueuedIsLast ==
  ASSUME CalibTypes, NEW m \in {"move", "stop"}, cmds' = Queued(cmds, m)
  PROVE  cmds' \in Seq({"move", "stop"}) /\ LastWord' = m
<1>1. cmds \in Seq({"move", "stop"})
  BY DEF CalibTypes
<1>2. /\ Queued(cmds, m) \in Seq({"move", "stop"}) /\ Queued(cmds, m) # <<>>
      /\ Queued(cmds, m)[Len(Queued(cmds, m))] = m
  BY <1>1, QueuedIs
<1>3. QED BY <1>2 DEF LastWord

\* Every step of the script, of the node and of the queues between them keeps CalibInv.
LEMMA CalibInductive == CalibInv /\ [CalibNext]_calibVars => CalibInv'
<1> SUFFICES ASSUME CalibInv, [CalibNext]_calibVars PROVE CalibInv'
  OBVIOUS
<1> USE DEF CalibInv, setup, script, node
<1>0. Full \in Nat /\ ZeroCount \in Nat \ {0} /\ Backlog \in Nat \ {0}
  BY CalibrationAssumption
<1>1. CASE WaitForOdom
  <2>1. pose' \in Int /\ inbox' \in Seq(Nat) /\ OdometryGrows'
    BY <1>1, SpinLearns DEF WaitForOdom
  <2>2. CalibTypes'
    BY <1>1, <2>1 DEF WaitForOdom, CalibTypes
  <2>3. NeverCountsMore' /\ StopsLast'
    BY <1>1 DEF WaitForOdom, NeverCountsMore, StopsLast, LastWord
  <2>4. QED BY <2>1, <2>2, <2>3
<1>2. CASE Press
  <2>1. CalibTypes'
    BY <1>2 DEF Press, CalibTypes
  <2>2. NeverCountsMore'
    BY <1>2 DEF Press, NeverCountsMore, CalibTypes
  <2>3. StopsLast' /\ OdometryGrows'
    BY <1>2 DEF Press, StopsLast, OdometryGrows
  <2>4. QED BY <2>1, <2>2, <2>3
<1>3. CASE DriveLoop
  <2>1. pose' \in Int /\ inbox' \in Seq(Nat) /\ pose <= pose' /\ OdometryGrows'
    <3>1. CASE test \in Timed
      BY <1>3, <3>1 DEF DriveLoop, CalibTypes, OdometryGrows
    <3>2. CASE test \notin Timed
      BY <1>3, <3>2, SpinLearns DEF DriveLoop
    <3>3. QED BY <3>1, <3>2
  <2>2. accum' \in Int /\ (test = "turn" => accum' <= pose' - origin)
    <3>1. CASE test = "turn"
      <4>1. pose \in Int /\ base \in Int /\ accum \in Int /\ origin \in Int
        BY DEF CalibTypes
      <4>2. YawStep(pose, pose') \in Int /\ YawStep(pose, pose') <= pose' - pose
        BY <2>1, <4>1, YawStepIsShort
      <4>3. accum <= pose - origin /\ accum' = accum + YawStep(pose, pose')
        BY <1>3, <3>1 DEF DriveLoop, NeverCountsMore
      <4>4. QED BY <2>1, <4>1, <4>2, <4>3
    <3>2. CASE test # "turn"
      BY <1>3, <3>2 DEF DriveLoop, CalibTypes
    <3>3. QED BY <3>1, <3>2
  <2>3. cmds' \in Seq({"move", "stop"})
    BY <1>3, QueuedIsLast DEF DriveLoop, CalibTypes
  <2>4. CalibTypes'
    BY <1>3, <1>0, <2>1, <2>2, <2>3 DEF DriveLoop, CalibTypes
  <2>5. NeverCountsMore'
    <3>1. CASE Reached
      <4>1. test = "turn" => accum' >= Full
        BY <3>1 DEF Reached
      <4>2. step' = "stop" /\ test' = test /\ origin' = origin
        BY <1>3, <3>1 DEF DriveLoop
      <4>3. QED BY <2>2, <4>1, <4>2 DEF NeverCountsMore
    <3>2. CASE ~Reached
      <4>1. step' = "loop" /\ test' = test /\ origin' = origin
        BY <1>3, <3>2 DEF DriveLoop
      <4>2. QED BY <2>2, <4>1 DEF NeverCountsMore
    <3>3. QED BY <3>1, <3>2
  <2>6. StopsLast'
    BY <1>3, <1>0 DEF DriveLoop, StopsLast
  <2>7. QED BY <2>1, <2>4, <2>5, <2>6
<1>4. CASE StopCar
  <2>1. OdometryGrows' /\ NeverCountsMore'
    BY <1>4 DEF StopCar, OdometryGrows, NeverCountsMore
  <2>2. CASE zerosLeft = 0
    <3>1. CalibTypes'
      BY <1>4, <2>2 DEF StopCar, CalibTypes
    <3>2. StopsLast'
      BY <1>4, <1>0, <2>2 DEF StopCar, StopsLast, LastWord
    <3>3. QED BY <2>1, <3>1, <3>2
  <2>3. CASE zerosLeft # 0
    <3>1. cmds' \in Seq({"move", "stop"}) /\ LastWord' = "stop"
      BY <1>4, <2>3, QueuedIsLast DEF StopCar
    <3>2. CalibTypes'
      BY <1>4, <2>3, <3>1 DEF StopCar, CalibTypes
    <3>3. QED BY <2>1, <3>1, <3>2 DEF StopsLast
  <2>4. QED BY <2>2, <2>3
<1>5. CASE BreakOff
  <2>1. CalibTypes' /\ OdometryGrows'
    BY <1>5, <1>0 DEF BreakOff, CalibTypes, OdometryGrows
  <2>2. NeverCountsMore' /\ StopsLast'
    BY <1>5, <1>0 DEF BreakOff, NeverCountsMore, StopsLast
  <2>3. QED BY <2>1, <2>2
<1>6. CASE ObeyCommand
  <2>1. /\ cmds' \in Seq({"move", "stop"}) /\ Len(cmds') = Len(cmds) - 1 /\ Len(cmds) \in Nat
        /\ \A i \in 1..Len(cmds) - 1 : cmds'[i] = cmds[i + 1]
        /\ order' = cmds[1] /\ (cmds' = <<>> <=> Len(cmds) = 1)
    <3>1. cmds \in Seq({"move", "stop"}) /\ cmds # <<>> /\ cmds' = Tail(cmds) /\ order' = Head(cmds)
      BY <1>6 DEF ObeyCommand, CalibTypes
    <3>2. /\ Tail(cmds) \in Seq({"move", "stop"}) /\ Len(Tail(cmds)) = Len(cmds) - 1
          /\ \A i \in 1..Len(cmds) - 1 : Tail(cmds)[i] = cmds[i + 1]
      BY <3>1, HeadTailProperties
    <3>3. Len(cmds) \in Nat /\ Head(cmds) = cmds[1]
      BY <3>1
    <3>4. Tail(cmds) = <<>> <=> Len(Tail(cmds)) = 0
      BY <3>2, EmptySeq
    <3>5. Tail(cmds) = <<>> <=> Len(cmds) = 1
      BY <3>2, <3>3, <3>4
    <3>6. QED BY <3>1, <3>2, <3>3, <3>5
  <2>2. LastWord' = LastWord
    BY <1>6, <2>1 DEF LastWord, ObeyCommand
  <2>3. CalibTypes' /\ OdometryGrows' /\ NeverCountsMore'
    BY <1>6, <2>1 DEF ObeyCommand, CalibTypes, OdometryGrows, NeverCountsMore
  <2>4. StopsLast'
    BY <1>6, <2>2 DEF ObeyCommand, StopsLast
  <2>5. QED BY <2>3, <2>4
<1>7. CASE SilenceEnds
  <2>1. CalibTypes' /\ OdometryGrows' /\ NeverCountsMore'
    BY <1>7 DEF SilenceEnds, CalibTypes, OdometryGrows, NeverCountsMore
  <2>2. StopsLast'
    BY <1>7 DEF SilenceEnds, StopsLast, LastWord
  <2>3. QED BY <2>1, <2>2
<1>8. CASE OdomTick
  <2>1. moved' \in Nat /\ moved <= moved'
    BY <1>8, CalibrationAssumption DEF OdomTick, CalibTypes
  <2>2. /\ inbox' \in Seq(Nat) /\ inbox' # <<>> /\ inbox'[Len(inbox')] = moved'
        /\ \A i \in 1..Len(inbox') - 1 :
             \E j \in 1..Len(inbox) : /\ inbox'[i] = inbox[j]
                                      /\ j = i \/ j = i + 1
                                      /\ (j = i) <=> (Len(inbox) < Backlog)
    <3>1. inbox \in Seq(Nat) /\ inbox' = Queued(inbox, moved')
      BY <1>8 DEF OdomTick, CalibTypes
    <3> DEFINE m == moved'
    <3>2. m \in Nat
      BY <2>1
    <3> HIDE DEF m
    <3>3. /\ Queued(inbox, m) \in Seq(Nat) /\ Queued(inbox, m) # <<>>
          /\ Queued(inbox, m)[Len(Queued(inbox, m))] = m
          /\ \A i \in 1..Len(Queued(inbox, m)) - 1 :
               \E j \in 1..Len(inbox) : /\ Queued(inbox, m)[i] = inbox[j]
                                        /\ j = i \/ j = i + 1
                                        /\ (j = i) <=> (Len(inbox) < Backlog)
      BY <3>1, <3>2, QueuedIs
    <3>4. QED BY <3>1, <3>3 DEF m
  <2>3. OdometryGrows'
    <3>1. pose' = pose /\ pose' <= moved' /\ pose \in Int
      BY <1>8, <2>1 DEF OdomTick, CalibTypes, OdometryGrows
    <3>2. Len(inbox') \in Nat /\ Len(inbox') # 0
      BY <2>2
    <3>3. ASSUME NEW i \in 1..Len(inbox')
          PROVE  /\ inbox'[i] \in Nat /\ pose' <= inbox'[i] /\ inbox'[i] <= moved'
      <4>1. CASE i = Len(inbox')
        BY <2>1, <2>2, <3>1, <4>1
      <4>2. CASE i # Len(inbox')
        <5>1. PICK j \in 1..Len(inbox) : inbox'[i] = inbox[j]
          BY <2>2, <3>2, <4>2
        <5>2. inbox[j] \in Nat /\ pose <= inbox[j] /\ inbox[j] <= moved
          BY DEF CalibTypes, OdometryGrows
        <5>3. QED BY <2>1, <3>1, <5>1, <5>2 DEF CalibTypes
      <4>3. QED BY <4>1, <4>2
    <3>4. ASSUME NEW i \in 1..Len(inbox'), NEW j \in 1..i PROVE inbox'[j] <= inbox'[i]
      <4>1. CASE i = Len(inbox')
        <5>1. j \in 1..Len(inbox')
          BY <3>2
        <5>2. QED BY <2>2, <3>3, <4>1, <5>1
      <4>2. CASE i # Len(inbox')
        <5>1. i \in 1..Len(inbox') - 1 /\ j \in 1..Len(inbox') - 1
          BY <3>2, <4>2
        <5>2. PICK k \in 1..Len(inbox) : /\ inbox'[i] = inbox[k] /\ (k = i \/ k = i + 1)
                                         /\ (k = i) <=> (Len(inbox) < Backlog)
          BY <2>2, <5>1
        <5>3. PICK l \in 1..Len(inbox) : /\ inbox'[j] = inbox[l] /\ (l = j \/ l = j + 1)
                                         /\ (l = j) <=> (Len(inbox) < Backlog)
          BY <2>2, <5>1
        <5>4. l \in 1..k
          BY <5>2, <5>3
        <5>5. QED BY <5>2, <5>3, <5>4 DEF OdometryGrows
      <4>3. QED BY <4>1, <4>2
    <3>5. QED BY <3>1, <3>3, <3>4 DEF OdometryGrows
  <2>4. CalibTypes'
    BY <1>8, <2>1, <2>2 DEF OdomTick, CalibTypes
  <2>5. NeverCountsMore' /\ StopsLast'
    BY <1>8 DEF OdomTick, NeverCountsMore, StopsLast, LastWord
  <2>6. QED BY <2>3, <2>4, <2>5
<1>9. CASE QuietTick
  BY <1>9 DEF QuietTick, CalibTypes, OdometryGrows, NeverCountsMore, StopsLast, LastWord
<1>10. CASE UNCHANGED calibVars
  BY <1>10 DEF calibVars, CalibTypes, OdometryGrows, NeverCountsMore, StopsLast, LastWord
<1>11. CASE DriveAtWall
  <2>1. pose' \in Int /\ inbox' \in Seq(Nat) /\ OdometryGrows'
    BY <1>11, SpinLearns DEF DriveAtWall
  <2>2. cmds' \in Seq({"move", "stop"})
    BY <1>11, QueuedIsLast DEF DriveAtWall, CalibTypes
  <2>3. CalibTypes'
    BY <1>11, <2>1, <2>2 DEF DriveAtWall, CalibTypes
  <2>4. NeverCountsMore' /\ StopsLast'
    BY <1>11 DEF DriveAtWall, NeverCountsMore, StopsLast
  <2>5. QED BY <2>1, <2>3, <2>4
<1>12. QED BY <1>1, <1>2, <1>3, <1>4, <1>5, <1>6, <1>7, <1>8, <1>9, <1>10, <1>11
           DEF CalibNext, ScriptStep

\* Hence it holds throughout.
LEMMA CalibInvariant == CalibSpec => []CalibInv
<1>1. CalibInit => CalibInv
  BY DEF CalibInit, CalibInv, CalibTypes, OdometryGrows, NeverCountsMore, StopsLast, NoPose
<1>2. QED BY <1>1, CalibInductive, PTL DEF CalibSpec

\* For any turn, step of the odometry, first yaw and depth of the queues: what
\* spin_1turn adds up is never more than the car has turned (a jump of half a turn
\* is taken for one over the seam, which can only lose), so it never stops short.
THEOREM NeverStopsShort == CalibSpec => []NeverShort
<1>1. CalibInv => NeverShort
  BY CalibrationAssumption DEF CalibInv, CalibTypes, NeverCountsMore, NeverShort
<1>2. QED BY <1>1, CalibInvariant, PTL

\* The tape is taken to a car whose last word was a stop: whatever a full queue
\* drops is older than the zeros of stop().
THEOREM TapeAtRest == CalibSpec => []MeasuredAtRest
<1>1. CalibInv => MeasuredAtRest
  BY DEF CalibInv, StopsLast, LastWord, MeasuredAtRest
<1>2. QED BY <1>1, CalibInvariant, PTL
=============================================================================
