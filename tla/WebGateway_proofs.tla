--------------------------- MODULE WebGateway_proofs ---------------------------
(***************************************************************************)
(* Proofs about the parts of the web gateway: what it says of the robot    *)
(* (RobotGateway) and of the sensor (SerialSensor), for any number of      *)
(* browsers and ports, and the order of commands (ControlStream), for any  *)
(* browsers, commands and number of links.                                 *)
(***************************************************************************)
EXTENDS RobotGateway, SerialSensor, ControlStream, SequenceTheorems, TLAPS

-----------------------------------------------------------------------------
(* RobotGateway                                                            *)

OnlineInv == online \in BOOLEAN /\ OnlineMeansLinked

\* robot.online is cleared with the link (main.py line 83) and only a message of
\* a link that lives sets it again, in both editions and for any browsers.
THEOREM OnlineHolds == GatewaySpec => []OnlineMeansLinked
<1> USE DEF OnlineInv, OnlineMeansLinked, Linked
<1>1. GatewayInit => OnlineInv
  BY DEF GatewayInit
<1>2. OnlineInv /\ [GatewayNext]_gatewayVars => OnlineInv'
  <2> SUFFICES ASSUME OnlineInv, [GatewayNext]_gatewayVars PROVE OnlineInv'
    OBVIOUS
  <2>1. CASE Broadcasting
    <3>1. UNCHANGED <<ros, online>>
      BY <2>1 DEF Broadcasting, Send, bridge, status
    <3>2. QED BY <3>1
  <2>2. CASE BroadcastLoop
    <3>1. CASE TakeSnapshot
      <4>1. UNCHANGED ros /\ online' = (online /\ lastRos <= StaleAfter)
        BY <3>1 DEF TakeSnapshot, Snapshot, bridge
      <4>2. online' \in BOOLEAN /\ (online' => online)
        BY <4>1
      <4>3. QED BY <4>1, <4>2
    <3>2. CASE Appended \/ AppendFails \/ Sent
      <4>1. UNCHANGED <<ros, online>>
        BY <3>2 DEF Appended, AppendFails, Sent, bridge, status
      <4>2. QED BY <4>1
    <3>3. QED BY <2>2, <3>1, <3>2 DEF BroadcastLoop
  <2>3. CASE RosTask
    <3>1. CASE RosConnects BY <3>1 DEF RosConnects, status
    <3>2. CASE Subscribe BY <3>2 DEF Subscribe, status
    <3>3. CASE RosLost BY <3>3 DEF RosLost
    <3>4. CASE Redial BY <3>4 DEF Redial, status
    <3>5. QED BY <2>3, <3>1, <3>2, <3>3, <3>4 DEF RosTask
  <2>4. CASE RobotMessage \/ EchoMessage
    BY <2>4 DEF RobotMessage, EchoMessage, Heard, bridge
  <2>5. ASSUME NEW c \in Clients, Stream(c) PROVE OnlineInv'
    <3>1. CASE Welcome(c)
      <4>1. UNCHANGED ros /\ online' = (online /\ lastRos <= StaleAfter)
        BY <3>1 DEF Welcome, Snapshot, bridge
      <4>2. online' \in BOOLEAN /\ (online' => online)
        BY <4>1
      <4>3. QED BY <4>1, <4>2
    <3>2. CASE Connect(c) \/ GreetingFails(c) \/ Unregister(c)
      <4>1. UNCHANGED <<ros, online>>
        BY <3>2 DEF Connect, GreetingFails, Unregister, bridge, status
      <4>2. QED BY <4>1
    <3>3. QED BY <2>5, <3>1, <3>2 DEF Stream
  <2>6. ASSUME NEW c \in Clients, Peer(c) PROVE OnlineInv'
    BY <2>6 DEF Peer, Stall, Leave, Unblock, SetSock, bridge, status
  <2>7. CASE Wire \/ GatewayTick
    BY <2>7 DEF Wire, GatewayTick, bridge, status
  <2>8. CASE UNCHANGED gatewayVars
    BY <2>8 DEF gatewayVars
  <2>9. QED BY <2>1, <2>2, <2>3, <2>4, <2>5, <2>6, <2>7, <2>8 DEF GatewayNext
<1>3. QED BY <1>1, <1>2, PTL DEF GatewaySpec
-----------------------------------------------------------------------------
(* SerialSensor                                                            *)

\* Between _open and the task that tells the gateway, the reader waits for the
\* answer to its first read.
SensorInv ==
  /\ usbConnected \in BOOLEAN /\ stopping \in BOOLEAN /\ announcing \in BOOLEAN
  /\ announcing /\ ~stopping => serial # NoPort /\ reader = "read"
  /\ ConnectedMeansOpen

\* Nothing closes the port or ends the reader without telling the gateway, short
\* of stop(): a sensor called connected has an open port and a reader.
THEOREM ConnectedHolds == SensorSpec => []ConnectedMeansOpen
<1> USE SensorAssumption DEF SensorInv, ConnectedMeansOpen
<1>1. SensorInit => SensorInv
  BY DEF SensorInit
<1>2. SensorInv /\ [SensorNext]_sensorVars => SensorInv'
  <2> SUFFICES ASSUME SensorInv, [SensorNext]_sensorVars PROVE SensorInv'
    OBVIOUS
  <2>1. CASE Open
    <3>1. CASE sensorAt \in Candidates /\ serial' = sensorAt /\ reader' = "read"
      <4>1. serial' # NoPort BY <3>1 DEF Candidates
      <4>2. QED BY <2>1, <3>1, <4>1 DEF Open
    <3>2. CASE reader' = "off" /\ UNCHANGED <<serial, activePort, announcing>>
      BY <2>1, <3>2 DEF Open
    <3>3. QED BY <2>1, <3>1, <3>2 DEF Open
  <2>2. CASE OpenAlready BY <2>2 DEF OpenAlready
  <2>3. CASE ReadFrame BY <2>3 DEF ReadFrame
  <2>4. CASE ReadFails BY <2>4 DEF ReadFails, on_usb_sensor_status
  <2>5. CASE Sleep BY <2>5 DEF Sleep
  <2>6. CASE Announce BY <2>6 DEF Announce, on_usb_sensor_status
  <2>7. CASE Stop \/ StopCloses BY <2>7 DEF Stop, StopCloses
  <2>8. CASE Replug BY <2>8 DEF Replug
  <2>9. CASE UNCHANGED sensorVars BY <2>9 DEF sensorVars
  <2>10. QED
    BY <2>1, <2>2, <2>3, <2>4, <2>5, <2>6, <2>7, <2>8, <2>9 DEF SensorNext, ReaderStep
<1>3. QED BY <1>1, <1>2, PTL DEF SensorSpec
-----------------------------------------------------------------------------
(* ControlStream                                                           *)

OrderTypes ==
  /\ locking \in BOOLEAN /\ lives \in BOOLEAN /\ link \in Nat
  /\ talk \in [Browsers -> {"away", "idle", "lock", "write"}]
  /\ request \in [Browsers -> Orders \cup {None}]
  /\ grip \in [Browsers -> Nat]
  /\ waitList \in Seq(Browsers)

\* Who waits for the lock is in line, once, and only the first one writes; nobody
\* holds a younger WebSocket than those behind.
InLine ==
  /\ ~locking => waitList = <<>> /\ \A b \in Browsers : talk[b] # "lock"
  /\ locking => \A b \in Browsers : talk[b] \in {"lock", "write"}
                  => \E i \in 1..Len(waitList) : waitList[i] = b
  /\ \A i \in 1..Len(waitList) :
       \/ talk[waitList[i]] = "lock"
       \/ i = 1 /\ talk[waitList[i]] = "write"
  /\ \A i, j \in 1..Len(waitList) : waitList[i] = waitList[j] => i = j
  /\ \A b \in Browsers : grip[b] <= link
  /\ \A i, j \in 1..Len(waitList) : i <= j => grip[waitList[i]] <= grip[waitList[j]]

\* The last in line, if it holds the present link, has the newest order.
LastInLine == waitList[Len(waitList)]

NewestLast ==
  lives =>
    IF waitList # <<>> /\ grip[LastInLine] = link
    THEN request[LastInLine] = newest /\ (talk[LastInLine] = "write" => robot = newest)
    ELSE robot = newest

OrderInv == OrderTypes /\ InLine /\ NewestLast

\* A waiting browser is in line; one that writes, in the first place.
LEMMA WriterIsFirst ==
  ASSUME OrderInv, locking, NEW b \in Browsers,
         talk[b] = "write" \/ (talk[b] = "lock" /\ Head(waitList) = b)
  PROVE  Len(waitList) \in Nat \ {0} /\ waitList # <<>> /\ waitList[1] = b
<1>1. PICK i \in 1..Len(waitList) : waitList[i] = b
  BY DEF OrderInv, InLine
<1>2. Len(waitList) \in Nat /\ waitList # <<>>
  BY <1>1 DEF OrderInv, OrderTypes
<1>3. CASE talk[b] = "write"
  BY <1>1, <1>2, <1>3 DEF OrderInv, InLine
<1>4. CASE talk[b] = "lock" /\ Head(waitList) = b
  BY <1>1, <1>2, <1>4 DEF OrderInv, OrderTypes
<1>5. QED BY <1>1, <1>2, <1>3, <1>4

\* A browser that does not wait may come, go and change.
LEMMA OutsidersKeepOrder ==
  ASSUME OrderInv, NEW b \in Browsers, talk[b] \notin {"lock", "write"},
         NEW t \in {"away", "idle"}, talk' = [talk EXCEPT ![b] = t],
         UNCHANGED <<locking, link, lives, request, grip, waitList, newest, robot>>
  PROVE  OrderInv'
<1> USE DEF OrderInv, OrderTypes
<1>1. \A i \in 1..Len(waitList) : waitList[i] \in Browsers /\ waitList[i] # b
  BY DEF InLine
<1>2. InLine' BY <1>1 DEF InLine
<1>3. waitList # <<>> => LastInLine \in Browsers /\ LastInLine # b
  BY <1>1 DEF LastInLine
<1>4. NewestLast' BY <1>3 DEF NewestLast, LastInLine
<1>5. QED BY <1>2, <1>4

\* Whoever is done leaves the line at its head.
LEMMA ReleaseKeepsOrder ==
  ASSUME OrderInv, NEW b \in Browsers, talk[b] = "write",
         NEW t \in {"away", "idle"}, talk' = [talk EXCEPT ![b] = t],
         Answered(b), Release(b),
         UNCHANGED <<locking, link, lives, newest, robot>>
  PROVE  OrderInv'
<1> USE DEF OrderInv, OrderTypes, Answered, Release
<1>1. CASE ~locking
  BY <1>1 DEF InLine, NewestLast
<1>2. CASE locking
  <2>1. Len(waitList) \in Nat \ {0} /\ waitList # <<>> /\ waitList[1] = b
    BY <1>2, WriterIsFirst
  <2> DEFINE rest == Tail(waitList)
  <2>2. /\ waitList' = rest /\ rest \in Seq(Browsers)
        /\ Len(rest) = Len(waitList) - 1
        /\ \A i \in 1..Len(rest) : rest[i] = waitList[i + 1]
    BY <1>2, <2>1, HeadTailProperties
  <2> HIDE DEF rest
  <2>3. Len(rest) \in Nat
    BY <2>1, <2>2
  <2>4. \A i \in 1..Len(rest) : i + 1 \in 1..Len(waitList) /\ i + 1 # 1
    BY <2>1, <2>2
  <2>5. \A i \in 1..Len(rest) : rest[i] \in Browsers /\ rest[i] # b
    <3> SUFFICES ASSUME NEW i \in 1..Len(rest)
                 PROVE  rest[i] \in Browsers /\ rest[i] # b
      OBVIOUS
    <3>1. rest[i] = waitList[i + 1] /\ i + 1 \in 1..Len(waitList) /\ i + 1 # 1
      BY <2>2, <2>4
    <3>2. 1 \in 1..Len(waitList)
      BY <2>1
    <3>3. waitList[i + 1] # waitList[1]
      BY <3>1, <3>2 DEF InLine
    <3>4. QED BY <2>1, <2>2, <3>1, <3>3
  <2>6. \A d \in Browsers : d # b =>
          talk'[d] = talk[d] /\ grip'[d] = grip[d] /\ request'[d] = request[d]
    OBVIOUS
  <2>7. OrderTypes'
    BY <2>2
  <2>8. InLine'
    <3>1. \A d \in Browsers : talk'[d] \in {"lock", "write"}
            => \E i \in 1..Len(rest) : rest[i] = d
      <4> SUFFICES ASSUME NEW d \in Browsers, talk'[d] \in {"lock", "write"}
                   PROVE  \E i \in 1..Len(rest) : rest[i] = d
        OBVIOUS
      <4>1. d # b /\ talk[d] \in {"lock", "write"}
        OBVIOUS
      <4>2. PICK i \in 1..Len(waitList) : waitList[i] = d
        BY <1>2, <4>1 DEF InLine
      <4>3. i - 1 \in 1..Len(rest) /\ (i - 1) + 1 = i
        BY <2>1, <2>2, <4>1, <4>2
      <4>4. rest[i - 1] = d
        BY <2>2, <4>2, <4>3
      <4>5. QED BY <4>3, <4>4
    <3>2. \A i \in 1..Len(rest) : talk'[rest[i]] = "lock"
      <4> SUFFICES ASSUME NEW i \in 1..Len(rest) PROVE talk'[rest[i]] = "lock"
        OBVIOUS
      <4>1. rest[i] = waitList[i + 1] /\ i + 1 \in 1..Len(waitList) /\ i + 1 # 1
        BY <2>2, <2>4
      <4>2. talk[waitList[i + 1]] = "lock"
        BY <4>1 DEF InLine
      <4>3. QED BY <4>1, <4>2, <2>5, <2>6
    <3>3. \A i, j \in 1..Len(rest) : rest[i] = rest[j] => i = j
      <4> SUFFICES ASSUME NEW i \in 1..Len(rest), NEW j \in 1..Len(rest), rest[i] = rest[j]
                   PROVE  i = j
        OBVIOUS
      <4>1. /\ i + 1 \in 1..Len(waitList) /\ j + 1 \in 1..Len(waitList)
            /\ waitList[i + 1] = waitList[j + 1]
        BY <2>2, <2>4
      <4>2. i + 1 = j + 1
        BY <4>1 DEF InLine
      <4>3. QED BY <4>2, <2>3
    <3>4. \A d \in Browsers : grip'[d] <= link'
      <4>1. \A d \in Browsers : grip'[d] = grip[d] \/ grip'[d] = 0
        OBVIOUS
      <4>2. QED BY <4>1 DEF InLine
    <3>5. \A i, j \in 1..Len(rest) : i <= j => grip'[rest[i]] <= grip'[rest[j]]
      <4> SUFFICES ASSUME NEW i \in 1..Len(rest), NEW j \in 1..Len(rest), i <= j
                   PROVE  grip'[rest[i]] <= grip'[rest[j]]
        OBVIOUS
      <4>1. i + 1 <= j + 1
        BY <2>3
      <4>2. grip[waitList[i + 1]] <= grip[waitList[j + 1]]
        BY <4>1, <2>4 DEF InLine
      <4>3. QED BY <4>2, <2>2, <2>5, <2>6
    <3>6. locking' /\ waitList' = rest
      BY <1>2, <2>2
    <3> HIDE DEF OrderInv, OrderTypes, Answered, Release
    <3>7. QED BY <3>1, <3>2, <3>3, <3>4, <3>5, <3>6 DEF InLine
  <2>9. NewestLast'
    <3>1. CASE Len(rest) = 0
      <4>1. rest = <<>> /\ LastInLine = b
        BY <2>1, <2>2, <3>1 DEF LastInLine
      <4>2. QED BY <2>2, <4>1, <2>1 DEF NewestLast
    <3>2. CASE Len(rest) # 0
      <4>1. Len(rest) \in 1..Len(rest) /\ Len(rest) + 1 = Len(waitList)
        BY <2>1, <2>2, <2>3, <3>2
      <4>2. rest[Len(rest)] = LastInLine /\ LastInLine # b /\ LastInLine \in Browsers
        BY <2>2, <2>5, <4>1 DEF LastInLine
      <4>3. rest # <<>> /\ LastInLine' = LastInLine
        BY <2>2, <3>2, <4>2 DEF LastInLine
      <4>4. QED BY <2>1, <2>2, <2>6, <4>2, <4>3 DEF NewestLast
    <3>3. QED BY <3>1, <3>2
  <2>10. QED BY <2>7, <2>8, <2>9
<1>3. QED BY <1>1, <1>2

\* The lock goes to the head of the line.
LEMMA AcquireKeepsOrder ==
  ASSUME OrderInv, NEW b \in Browsers, Acquire(b)
  PROVE  OrderInv'
<1> USE DEF OrderInv, OrderTypes, Acquire, rosLink
<1>1. locking
  BY DEF InLine
<1>2. Len(waitList) \in Nat \ {0} /\ waitList # <<>> /\ waitList[1] = b
  BY <1>1, WriterIsFirst
<1>3. \A i \in 1..Len(waitList) : i # 1 => waitList[i] # b
  <2> SUFFICES ASSUME NEW i \in 1..Len(waitList), i # 1
               PROVE  waitList[i] # b
    OBVIOUS
  <2>1. 1 \in 1..Len(waitList)
    BY <1>2
  <2>2. waitList[i] # waitList[1]
    BY <2>1 DEF InLine
  <2>3. QED BY <2>2, <1>2
<1>4. \A i \in 1..Len(waitList) : waitList[i] \in Browsers
  OBVIOUS
<1>5. InLine'
  <2>1. \A d \in Browsers : talk'[d] \in {"lock", "write"} => talk[d] \in {"lock", "write"}
    OBVIOUS
  <2>2. \A d \in Browsers : talk'[d] \in {"lock", "write"}
          => \E i \in 1..Len(waitList) : waitList[i] = d
    BY <2>1, <1>1 DEF InLine
  <2>3. \A i \in 1..Len(waitList) :
          talk'[waitList[i]] = "lock" \/ (i = 1 /\ talk'[waitList[i]] = "write")
    <3> SUFFICES ASSUME NEW i \in 1..Len(waitList)
                 PROVE  talk'[waitList[i]] = "lock" \/ (i = 1 /\ talk'[waitList[i]] = "write")
      OBVIOUS
    <3>1. CASE i = 1
      BY <3>1, <1>2
    <3>2. CASE i # 1
      BY <3>2, <1>3, <1>4 DEF InLine
    <3>3. QED BY <3>1, <3>2
  <2>4. QED BY <1>1, <2>2, <2>3 DEF InLine
<1>6. NewestLast'
  <2>1. LastInLine' = LastInLine /\ LastInLine \in Browsers
    BY <1>2, <1>4 DEF LastInLine
  <2>2. CASE ~lives
    BY <2>2 DEF NewestLast
  <2>3. CASE lives /\ grip[LastInLine] = link
    <3>1. request[LastInLine] = newest
      BY <2>3, <1>2 DEF NewestLast
    <3>2. talk'[LastInLine] = "write" => LastInLine = b
      <4> SUFFICES ASSUME talk'[LastInLine] = "write", LastInLine # b
                   PROVE  FALSE
        OBVIOUS
      <4>1. Len(waitList) \in 1..Len(waitList) /\ Len(waitList) # 1
        BY <1>2 DEF LastInLine
      <4>2. talk[LastInLine] = "lock"
        BY <4>1 DEF InLine, LastInLine
      <4>3. QED BY <4>2, <2>1
    <3>3. LastInLine = b => robot' = request[b]
      BY <2>3 DEF Usable
    <3>4. QED BY <2>1, <2>3, <1>2, <3>1, <3>2, <3>3 DEF NewestLast
  <2>4. CASE lives /\ grip[LastInLine] # link
    <3>1. 1 \in 1..Len(waitList) /\ Len(waitList) \in 1..Len(waitList) /\ 1 <= Len(waitList)
      BY <1>2
    <3>2. grip[b] <= grip[LastInLine] /\ grip[LastInLine] <= link
      BY <3>1, <1>2, <2>1 DEF InLine, LastInLine
    <3>3. grip[b] # link
      BY <3>2, <2>4, <2>1
    <3>4. robot' = robot /\ robot = newest
      BY <3>3, <2>4, <1>2 DEF Usable, NewestLast
    <3>5. QED BY <3>4, <2>1, <2>4, <1>2 DEF NewestLast
  <2>5. QED BY <2>2, <2>3, <2>4
<1>7. OrderTypes'
  OBVIOUS
<1>8. QED BY <1>5, <1>6, <1>7

\* A new order goes to the end of the line.
LEMMA OrderKeepsOrder ==
  ASSUME OrderInv, NEW b \in Browsers, NEW c \in Orders, Order(b, c)
  PROVE  OrderInv'
<1> USE DEF OrderInv, OrderTypes, Order, Accepted, rosLink
<1>1. \A i \in 1..Len(waitList) : waitList[i] \in Browsers /\ waitList[i] # b
  BY DEF InLine
<1>2. CASE ~locking
  <2>1. waitList = <<>> /\ waitList' = <<>>
    BY <1>2 DEF InLine
  <2>2. OrderTypes'
    BY <1>2
  <2>3. InLine'
    <3>1. \A d \in Browsers : talk'[d] # "lock"
      BY <1>2 DEF InLine
    <3>2. \A d \in Browsers : grip'[d] <= link'
      BY DEF InLine
    <3>3. QED BY <1>2, <2>1, <3>1, <3>2 DEF InLine
  <2>4. NewestLast'
    BY <1>2, <2>1 DEF NewestLast
  <2>5. QED BY <2>2, <2>3, <2>4
<1>3. CASE locking
  <2> DEFINE longer == Append(waitList, b)
  <2>1. /\ waitList' = longer /\ longer \in Seq(Browsers)
        /\ Len(waitList) \in Nat /\ Len(longer) = Len(waitList) + 1
        /\ \A i \in 1..Len(waitList) : longer[i] = waitList[i]
        /\ longer[Len(waitList) + 1] = b
    BY <1>3, AppendProperties
  <2> HIDE DEF longer
  <2>2. \A i \in 1..Len(longer) : i \in 1..Len(waitList) \/ i = Len(waitList) + 1
    BY <2>1
  <2>3. OrderTypes'
    BY <1>3, <2>1
  <2>4. InLine'
    <3>1. \A d \in Browsers : talk'[d] \in {"lock", "write"}
            => \E i \in 1..Len(longer) : longer[i] = d
      <4> SUFFICES ASSUME NEW d \in Browsers, talk'[d] \in {"lock", "write"}
                   PROVE  \E i \in 1..Len(longer) : longer[i] = d
        OBVIOUS
      <4>1. CASE d = b
        BY <4>1, <2>1
      <4>2. CASE d # b
        <5>1. PICK i \in 1..Len(waitList) : waitList[i] = d
          BY <4>2, <1>3 DEF InLine
        <5>2. i \in 1..Len(longer) /\ longer[i] = d
          BY <5>1, <2>1
        <5>3. QED BY <5>2
      <4>3. QED BY <4>1, <4>2
    <3>2. \A i \in 1..Len(longer) :
            talk'[longer[i]] = "lock" \/ (i = 1 /\ talk'[longer[i]] = "write")
      <4> SUFFICES ASSUME NEW i \in 1..Len(longer)
                   PROVE  talk'[longer[i]] = "lock" \/ (i = 1 /\ talk'[longer[i]] = "write")
        OBVIOUS
      <4>1. CASE i \in 1..Len(waitList)
        <5>1. longer[i] = waitList[i] /\ talk'[waitList[i]] = talk[waitList[i]]
          BY <4>1, <1>1, <2>1
        <5>2. QED BY <4>1, <5>1 DEF InLine
      <4>2. CASE i = Len(waitList) + 1 /\ waitList # <<>>
        BY <4>2, <1>3, <2>1
      <4>3. CASE i = Len(waitList) + 1 /\ waitList = <<>>
        BY <4>3, <1>3, <2>1
      <4>4. QED BY <4>1, <4>2, <4>3, <2>2
    <3>3. \A i, j \in 1..Len(longer) : longer[i] = longer[j] => i = j
      <4> SUFFICES ASSUME NEW i \in 1..Len(longer), NEW j \in 1..Len(longer),
                          longer[i] = longer[j]
                   PROVE  i = j
        OBVIOUS
      <4>1. CASE i \in 1..Len(waitList) /\ j \in 1..Len(waitList)
        BY <4>1, <2>1 DEF InLine
      <4>2. CASE i \in 1..Len(waitList) /\ j = Len(waitList) + 1
        BY <4>2, <1>1, <2>1
      <4>3. CASE i = Len(waitList) + 1 /\ j \in 1..Len(waitList)
        BY <4>3, <1>1, <2>1
      <4>4. QED BY <4>1, <4>2, <4>3, <2>2
    <3>4. \A d \in Browsers : grip'[d] <= link'
      BY DEF InLine
    <3>5. \A i, j \in 1..Len(longer) : i <= j => grip'[longer[i]] <= grip'[longer[j]]
      <4> SUFFICES ASSUME NEW i \in 1..Len(longer), NEW j \in 1..Len(longer), i <= j
                   PROVE  grip'[longer[i]] <= grip'[longer[j]]
        OBVIOUS
      <4>1. CASE j \in 1..Len(waitList)
        <5>1. i \in 1..Len(waitList)
          BY <4>1, <2>1
        <5>2. /\ longer[i] = waitList[i] /\ longer[j] = waitList[j]
              /\ grip'[waitList[i]] = grip[waitList[i]]
              /\ grip'[waitList[j]] = grip[waitList[j]]
          BY <4>1, <5>1, <1>1, <2>1
        <5>3. grip[waitList[i]] <= grip[waitList[j]]
          BY <4>1, <5>1 DEF InLine
        <5>4. QED BY <5>2, <5>3
      <4>2. CASE j = Len(waitList) + 1
        <5>1. grip'[longer[j]] = link' /\ longer[i] \in Browsers
          BY <4>2, <2>1
        <5>2. QED BY <5>1, <3>4
      <4>3. QED BY <4>1, <4>2, <2>2
    <3>6. locking' /\ waitList' = longer
      BY <1>3, <2>1
    <3> HIDE DEF OrderInv, OrderTypes, Order, Accepted
    <3>7. QED BY <3>1, <3>2, <3>3, <3>4, <3>5, <3>6 DEF InLine
  <2>5. NewestLast'
    <3>1. LastInLine' = b /\ waitList' # <<>>
      BY <2>1 DEF LastInLine
    <3>2. request'[b] = newest' /\ (lives' /\ talk'[b] = "write" => robot' = newest')
      BY <1>3
    <3>3. grip'[b] = link'
      OBVIOUS
    <3>4. QED BY <3>1, <3>2, <3>3 DEF NewestLast
  <2>6. QED BY <2>3, <2>4, <2>5
<1>4. QED BY <1>2, <1>3

\* LastOrderWins: whatever the browsers order at once, and whatever the link does
\* meanwhile, the robot has the last command that was let through, as soon as
\* nobody waits for the lock.
THEOREM LastOrderHolds == ControlSpec => []LastOrderWins
<1>1. ControlInit => OrderInv
  <2> SUFFICES ASSUME ControlInit PROVE OrderInv
    OBVIOUS
  <2>1. waitList = <<>> /\ Len(waitList) = 0 /\ waitList \in Seq(Browsers)
    BY DEF ControlInit
  <2>2. OrderTypes
    BY <2>1 DEF ControlInit, OrderTypes
  <2>3. InLine
    BY <2>1 DEF ControlInit, InLine
  <2>4. NewestLast
    BY DEF ControlInit, NewestLast
  <2>5. QED BY <2>2, <2>3, <2>4 DEF OrderInv
<1>2. OrderInv /\ [ControlNext]_controlVars => OrderInv'
  <2> SUFFICES ASSUME OrderInv, [ControlNext]_controlVars PROVE OrderInv'
    OBVIOUS
  <2>1. ASSUME NEW b \in Browsers, Requests(b) PROVE OrderInv'
    <3>1. CASE OpenStream(b)
      BY <3>1, OutsidersKeepOrder DEF OpenStream, rosLink, orders
    <3>2. CASE Auth(b)
      BY <3>2 DEF Auth, rosLink, orders, OrderInv, OrderTypes, InLine, NewestLast, LastInLine
    <3>3. CASE CloseStream(b)
      BY <3>3, OutsidersKeepOrder DEF CloseStream, HungUp, rosLink, orders
    <3>4. CASE \E c \in Orders : Order(b, c)
      BY <3>4, OrderKeepsOrder
    <3>5. CASE Acquire(b)
      BY <3>5, AcquireKeepsOrder
    <3>6. CASE Published(b)
      BY <3>6, ReleaseKeepsOrder DEF Published, rosLink, orders
    <3>7. CASE WriteFails(b)
      BY <3>7, ReleaseKeepsOrder DEF WriteFails, HungUp, rosLink, orders
    <3>8. QED BY <2>1, <3>1, <3>2, <3>3, <3>4, <3>5, <3>6, <3>7 DEF Requests
  <2>2. CASE LinkOpens
    <3>1. /\ link' = link + 1 /\ robot' = newest'
          /\ UNCHANGED <<locking, talk, request, grip, waitList>> /\ lives' \in BOOLEAN
      BY <2>2 DEF LinkOpens, streams
    <3>2. OrderTypes'
      BY <3>1 DEF OrderInv, OrderTypes
    <3>3. \A d \in Browsers : grip'[d] <= link' /\ grip'[d] # link'
      BY <3>1 DEF OrderInv, OrderTypes, InLine
    <3>4. InLine'
      BY <3>1, <3>3 DEF OrderInv, InLine
    <3>5. waitList' # <<>> => LastInLine' \in Browsers
      BY <3>1 DEF OrderInv, OrderTypes, LastInLine
    <3>6. NewestLast'
      BY <3>1, <3>3, <3>5 DEF NewestLast
    <3>7. QED BY <3>2, <3>4, <3>6 DEF OrderInv
  <2>3. CASE LinkBreaks
    <3>1. /\ lives' = FALSE
          /\ UNCHANGED <<locking, link, talk, request, grip, waitList>>
      BY <2>3 DEF LinkBreaks, streams
    <3>2. OrderTypes'
      BY <2>3 DEF LinkBreaks, streams, orders, OrderInv, OrderTypes
    <3>3. InLine'
      <4>1. InLine BY DEF OrderInv
      <4>2. QED BY <3>1, <4>1 DEF InLine
    <3>4. NewestLast'
      BY <3>1 DEF NewestLast
    <3>5. QED BY <3>2, <3>3, <3>4 DEF OrderInv
  <2>4. CASE LinkLost
    BY <2>4 DEF LinkLost, streams, orders, OrderInv, OrderTypes, InLine, NewestLast, LastInLine
  <2>5. CASE Congest
    BY <2>5 DEF Congest, streams, orders, OrderInv, OrderTypes, InLine, NewestLast, LastInLine
  <2>6. CASE UNCHANGED controlVars
    BY <2>6 DEF controlVars, OrderInv, OrderTypes, InLine, NewestLast, LastInLine
  <2>7. QED BY <2>1, <2>2, <2>3, <2>4, <2>5, <2>6 DEF ControlNext
<1>3. OrderInv => LastOrderWins
  <2> SUFFICES ASSUME OrderInv, lives, \A b \in Browsers : talk[b] # "lock"
               PROVE  robot = newest
    BY DEF LastOrderWins
  <2>1. CASE waitList = <<>>
    BY <2>1 DEF OrderInv, NewestLast
  <2>2. CASE waitList # <<>>
    <3>1. Len(waitList) \in 1..Len(waitList) /\ LastInLine \in Browsers
      BY <2>2 DEF OrderInv, OrderTypes, LastInLine
    <3>2. talk[LastInLine] = "write"
      BY <3>1 DEF OrderInv, InLine, LastInLine
    <3>3. QED BY <3>2 DEF OrderInv, NewestLast
  <2>3. QED BY <2>1, <2>2
<1>4. QED BY <1>1, <1>2, <1>3, PTL DEF ControlSpec
=============================================================================
