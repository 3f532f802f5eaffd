----------------------------- MODULE RobotGateway -----------------------------
(***************************************************************************)
(* The web gateway between rosbridge and the browsers, in its two editions *)
(* (web/robot-monitor/gateway-ros2 and web/robot-monitor/gateway): the     *)
(* rosbridge task, the broadcast task and one coroutine per WebSocket, all *)
(* in one event loop.  A step runs from one await that suspends to the     *)
(* next; the two locks are never held over one and need no variable.       *)
(*                                                                         *)
(* What a robot_status carries is reduced to robot.online, the time of the *)
(* last message to its age in ticks.  A send suspends when the peer does   *)
(* not read: its WebSocket is "stalled" until it reads on or the ping      *)
(* timeout closes it.  A sensor_bridge_node is a client too: it publishes  *)
(* the sensor values of what it is sent on topics of the robot.            *)
(***************************************************************************)
EXTENDS Naturals, FiniteSets

CONSTANTS
  Clients,     \* WebSockets
  Returning,   \* those that may connect, and connect again: a bound
  Feeders,     \* those held by a sensor_bridge_node, which reads all the time
  StaleAfter,  \* stale_after_seconds, in ticks
  Nobody

ASSUME GatewayAssumption ==
  /\ Returning \subseteq Clients /\ Feeders \subseteq Clients
  /\ StaleAfter \in Nat /\ Nobody \notin Clients

VARIABLES
  edition,     \* "ros2" or "history"
  conn,        \* where the coroutine of each WebSocket is
  sock,        \* the peer: "open", "stalled" or "closed"
  clients,     \* gateway.clients
  view,        \* robot.online in the last robot_status sent to each
  ros,         \* where the rosbridge task is
  bridged,     \* its connection lives; without one, rosbridge can be reached
  online,      \* state.robot.online
  lastRos,     \* age of last_ros_message_at, up to StaleAfter + 1
  robotAge,    \* age of the last message that the robot itself sent
  echo,        \* a /sensor message of a sensor_bridge_node is on its way
  loop,        \* where the broadcast task is
  payload,     \* robot.online in the snapshot it holds
  job,         \* the two broadcasts under way
  dirty        \* last_ros_message_at > last_persisted_ros_message_at

status == <<online, lastRos, robotAge>>
peers == <<conn, sock, view>>
bridge == <<ros, bridged>>
gatewayVars == <<edition, conn, sock, clients, view, ros, bridged, online, lastRos,
                 robotAge, echo, loop, payload, job, dirty>>

Tasks == {"ros", "loop"}
Idle == [todo |-> {}, at |-> Nobody]
Linked == ros \in {"announce", "spin"}     \* ros_connected, and connected

GatewayInit ==
  /\ edition \in {"ros2", "history"}
  /\ clients \in SUBSET (Clients \ Returning)
  /\ conn = [c \in Clients |-> IF c \in clients THEN "serving" ELSE "away"]
  /\ sock = [c \in Clients |-> IF c \in clients THEN "open" ELSE "closed"]
  /\ view = [c \in Clients |-> FALSE]
  /\ ros = "connecting" /\ bridged = FALSE
  /\ online = FALSE /\ lastRos = StaleAfter + 1 /\ robotAge = StaleAfter + 1
  /\ echo = FALSE
  /\ loop = "snapshot" /\ payload = FALSE /\ job = [t \in Tasks |-> Idle]
  /\ dirty = FALSE
-----------------------------------------------------------------------------
(* Broadcasts                                                              *)

Broadcast(t) == job' = [job EXCEPT ![t] = [todo |-> clients, at |-> Nobody]]

Finished(t) == job[t] = Idle

\* Mutant: an old message still counts.
KeepOnline == online' = online /\ UNCHANGED <<lastRos, robotAge>>

\* snapshot(): what it reports of the robot, and forgets if nothing came.
Snapshot ==
  /\ online' = (online /\ lastRos <= StaleAfter)
  /\ UNCHANGED <<lastRos, robotAge>>

\* A sensor_bridge_node publishes the values of each robot_status it receives.
Feed(t, c) ==
  \/ UNCHANGED echo
  \/ /\ t = "loop" /\ c \in Feeders /\ sock[c] = "open" /\ ros = "spin"
     /\ echo' = TRUE

\* Mutant: a failed send is only skipped.
SendKeeps(t, c) ==
  /\ job[t].at = Nobody /\ c \in job[t].todo
  /\ job' = [job EXCEPT ![t] =
       [todo |-> @.todo \ {c},
        at |-> IF sock[c] = "stalled" THEN c ELSE Nobody]]
  /\ IF sock[c] = "closed"
     THEN UNCHANGED <<view, echo>>
     ELSE /\ view' = IF t = "loop" THEN [view EXCEPT ![c] = payload] ELSE view
          /\ Feed(t, c)
  /\ UNCHANGED <<edition, conn, sock, clients, bridge, status, loop, payload,
                 dirty>>

\* One turn of broadcast(): the send succeeds, fails, or waits for the peer.
Send(t, c) ==
  /\ job[t].at = Nobody /\ c \in job[t].todo
  /\ job' = [job EXCEPT ![t] =
       [todo |-> @.todo \ {c},
        at |-> IF sock[c] = "stalled" THEN c ELSE Nobody]]
  /\ IF sock[c] = "closed"
     THEN clients' = clients \ {c} /\ UNCHANGED <<view, echo>>
     ELSE /\ view' = IF t = "loop" THEN [view EXCEPT ![c] = payload] ELSE view
          /\ Feed(t, c)
          /\ UNCHANGED clients
  /\ UNCHANGED <<edition, conn, sock, bridge, status, loop, payload,
                 dirty>>

-----------------------------------------------------------------------------
(* broadcast_loop()                                                        *)

TakeSnapshot ==
  /\ loop = "snapshot"
  /\ Snapshot
  /\ payload' = online'
  /\ IF edition = "history" /\ dirty
     THEN loop' = "append" /\ UNCHANGED job
     ELSE loop' = "send" /\ Broadcast("loop")
  /\ UNCHANGED <<edition, peers, clients, bridge, echo, dirty>>

\* The time remembered as persisted is the one of the last message by now.
Appended ==
  /\ loop = "append"
  /\ loop' = "send" /\ Broadcast("loop")
  /\ dirty' = FALSE
  /\ UNCHANGED <<edition, peers, clients, bridge, status, echo, payload>>

\* An sqlite3.Error is caught nowhere: the task is over.
AppendFails ==
  /\ loop = "append"
  /\ loop' = "dead"
  /\ UNCHANGED <<edition, peers, clients, bridge, status, echo, payload, job, dirty>>

Sent ==
  /\ loop = "send" /\ Finished("loop")
  /\ loop' = "snapshot" /\ payload' = FALSE
  /\ UNCHANGED <<edition, peers, clients, bridge, status, echo, job, dirty>>
-----------------------------------------------------------------------------
(* RosbridgeClient.run(), on_ros_status() and on_ros_message()             *)

RosConnects ==
  /\ ros = "connecting" /\ bridged
  /\ ros' = "announce" /\ Broadcast("ros")
  /\ UNCHANGED <<edition, peers, clients, bridged, status, echo, loop, payload,
                 dirty>>

\* The topics are subscribed to only when every browser has the news.
Subscribe ==
  /\ ros = "announce" /\ Finished("ros")
  /\ ros' = "spin"
  /\ UNCHANGED <<edition, peers, clients, bridged, status, echo, loop, payload,
                 job, dirty>>

\* Mutant: the loss of the link leaves the robot online.
RosLeaves ==
  /\ ros = "spin" /\ ~bridged
  /\ ros' = "retract" /\ Broadcast("ros")
  /\ echo' = FALSE
  /\ UNCHANGED <<edition, peers, clients, bridged, status, loop, payload, dirty>>

\* The link broke: on_ros_status(False) and its news to every browser.
RosLost ==
  /\ ros = "spin" /\ ~bridged
  /\ ros' = "retract" /\ Broadcast("ros")
  /\ online' = FALSE /\ echo' = FALSE
  /\ UNCHANGED <<edition, peers, clients, bridged, lastRos, robotAge,
                 loop, payload, dirty>>

Redial ==
  /\ ros = "retract" /\ Finished("ros")
  /\ ros' = "connecting"
  /\ UNCHANGED <<edition, peers, clients, bridged, status, echo, loop, payload,
                 job, dirty>>

\* on_ros_message, for a topic it knows.
Heard ==
  /\ ros = "spin" /\ bridged
  /\ online' = TRUE /\ lastRos' = 0
  /\ dirty' = (edition = "history")
  /\ UNCHANGED <<edition, peers, clients, bridge, loop, payload, job>>

\* From the robot: /scan, /odom, and what else this edition subscribes to.
RobotMessage ==
  /\ Heard
  /\ robotAge' = 0
  /\ UNCHANGED echo

EchoMessage ==
  /\ echo /\ Heard
  /\ echo' = FALSE
  /\ UNCHANGED robotAge

-----------------------------------------------------------------------------
(* robot_stream()                                                          *)

\* register(), up to its first send.  A WebSocket has a name of its own: it is
\* given to another one when the gateway has forgotten it.
Connect(c) ==
  /\ c \in Returning \ clients /\ conn[c] = "away"
  /\ \A t \in Tasks : c \notin job[t].todo /\ c # job[t].at
  /\ conn' = [conn EXCEPT ![c] = "greeting"] /\ sock' = [sock EXCEPT ![c] = "open"]
  /\ view' = [view EXCEPT ![c] = FALSE]
  /\ clients' = clients \cup {c}
  /\ UNCHANGED <<edition, bridge, status, echo, loop, payload, job, dirty>>

Welcome(c) ==
  /\ conn[c] = "greeting" /\ sock[c] = "open"
  /\ Snapshot
  /\ view' = [view EXCEPT ![c] = online']
  /\ conn' = [conn EXCEPT ![c] = "serving"]
  /\ UNCHANGED <<edition, sock, clients, bridge, echo, loop, payload,
                 job, dirty>>

\* register() is outside the try: whoever leaves here stays in clients.
GreetingFails(c) ==
  /\ conn[c] = "greeting" /\ sock[c] = "closed"
  /\ conn' = [conn EXCEPT ![c] = "away"] /\ view' = [view EXCEPT ![c] = FALSE]
  /\ UNCHANGED <<edition, sock, clients, bridge, status, echo,
                 loop, payload, job, dirty>>

\* Disconnected: unregister.
Unregister(c) ==
  /\ conn[c] = "serving" /\ sock[c] = "closed"
  /\ conn' = [conn EXCEPT ![c] = "away"] /\ view' = [view EXCEPT ![c] = FALSE]
  /\ clients' = clients \ {c}
  /\ UNCHANGED <<edition, sock, bridge, status, echo, loop,
                 payload, job, dirty>>
-----------------------------------------------------------------------------
(* The world outside                                                       *)

SetSock(c, s) ==
  /\ sock' = [sock EXCEPT ![c] = s]
  /\ UNCHANGED <<edition, conn, view, clients, bridge, status, echo,
                 loop, payload, job, dirty>>

Stall(c) == sock[c] = "open" /\ c \notin Feeders /\ SetSock(c, "stalled")
Leave(c) == sock[c] = "open" /\ SetSock(c, "closed")

\* The peer reads on, or the ping timeout closes it: whoever waits in a send
\* to it goes on, in the latter case with the exception that broadcast catches.
Unblock(c) ==
  /\ sock[c] = "stalled"
  /\ \E s \in {"open", "closed"} :
       /\ sock' = [sock EXCEPT ![c] = s]
       /\ clients' = IF s = "closed" /\ \E t \in Tasks : job[t].at = c
                     THEN clients \ {c} ELSE clients
  /\ job' = [t \in Tasks |-> IF job[t].at = c THEN [job[t] EXCEPT !.at = Nobody]
                             ELSE job[t]]
  /\ UNCHANGED <<edition, conn, view, bridge, status, echo, loop, payload, dirty>>

\* A connection that broke is never whole again, the next one is.
Wire ==
  /\ bridged' = ~bridged /\ (bridged \/ ~Linked)
  /\ UNCHANGED <<edition, peers, clients, ros, status, echo, loop, payload, job,
                 dirty>>

Older(age) == IF age > StaleAfter THEN age ELSE age + 1

GatewayTick ==
  /\ robotAge <= StaleAfter \/ lastRos <= StaleAfter
  /\ lastRos' = Older(lastRos) /\ robotAge' = Older(robotAge)
  /\ UNCHANGED <<edition, peers, clients, bridge, online, echo, loop,
                 payload, job, dirty>>
-----------------------------------------------------------------------------
Broadcasting == \E t \in Tasks : \E c \in Clients : Send(t, c)
BroadcastLoop == TakeSnapshot \/ Appended \/ AppendFails \/ Sent
RosTask == RosConnects \/ Subscribe \/ RosLost \/ Redial
Stream(c) == Connect(c) \/ Welcome(c) \/ GreetingFails(c) \/ Unregister(c)
Peer(c) == Stall(c) \/ Leave(c) \/ Unblock(c)

GatewayNext ==
  \/ Broadcasting \/ BroadcastLoop \/ RosTask
  \/ RobotMessage \/ EchoMessage
  \/ \E c \in Clients : Stream(c) \/ Peer(c)
  \/ Wire \/ GatewayTick

\* The event loop serves its tasks, sends wait no longer than the ping timeout,
\* time passes.  Nobody has to connect and the robot owes nothing.
GatewayFairness ==
  /\ WF_gatewayVars(GatewayTick)
  /\ \A t \in Tasks : WF_gatewayVars(\E c \in Clients : Send(t, c))
  /\ WF_gatewayVars(BroadcastLoop) /\ WF_gatewayVars(RosTask)
  /\ \A c \in Clients :
       /\ WF_gatewayVars(Unblock(c))
       /\ WF_gatewayVars(GreetingFails(c) \/ Unregister(c))

GatewaySpec == GatewayInit /\ [][GatewayNext]_gatewayVars /\ GatewayFairness
-----------------------------------------------------------------------------
\* The robot is shown online only while the task that hears it is linked to
\* rosbridge: no message of an earlier link counts (main.py line 83).
OnlineMeansLinked == online => Linked

\* A robot that fell silent is shown as not online to every browser that still
\* reads (snapshot(), line 161), whatever else waits, joins and leaves, once no
\* sensor_bridge_node speaks in its place.  Only an edition whose broadcast task
\* has died never says so.
StaleShown ==
  <>[](robotAge > StaleAfter /\ ~echo /\ loop # "dead")
    => <>[](\A c \in Clients :
              conn[c] = "serving" /\ sock[c] # "closed" => ~view[c])

\* A WebSocket that left without being unregistered, because register() raised,
\* is forgotten by the next broadcast (lines 225 to 237).
GhostsForgotten ==
  \A c \in Clients : conn[c] = "away" /\ c \in clients ~> c \notin clients \/ loop = "dead"
=============================================================================
