------------------------------- MODULE MCPatrol -------------------------------
(***************************************************************************)
(* Small instances, for TLC, of a patrol and what carries it, side by side:*)
(* the player, the routes it follows, the gateway that shows the robot to  *)
(* the browsers, and the data below (CAN frames, the forwarder, Modbus     *)
(* frames, scans).  part names the one that this behaviour is about; the   *)
(* others rest in one of their initial states.                             *)
(***************************************************************************)
EXTENDS MCWaypointPlayer, PatrolRoute, RobotGateway, MCCanStream, Forwarder,
        ModbusFrame, ScanRepacker

VARIABLE part

patrolVars == <<part, playerVars, routeVars, gatewayVars, streamVars,
                forwarderVars, frameVars, repackVars>>

\* Three places in a row: near is not transitive.
SomeNear(a, b) == a - b \in {-1, 0, 1}

\* The lowest temperature at a full 100 %, and a reading out of range.
SomeRaw == {<<-400, 1000>>, <<1251, 1>>}

PatrolInit ==
  /\ part \in {"player", "route", "gateway", "stream", "forwarder", "frame",
              "scan"}
  /\ PlayerInit /\ RouteInit /\ GatewayInit /\ StreamInit
  /\ ForwarderInit /\ FrameInit /\ RepackInit
  /\ part # "player" => mode = "direct" /\ nav = "absent"
  /\ part # "route" => frameId = "map" /\ ~skip /\ place = 1 /\ ~tf
  /\ part # "gateway" => edition = "ros2"
  /\ edition = "history" \/ part # "gateway" => clients = {}
  /\ part # "frame" => raw = <<-400, 1000>>

PatrolNext ==
  \/ /\ part = "player" /\ PlayerNext
     /\ UNCHANGED <<part, routeVars, gatewayVars, streamVars, forwarderVars,
                    frameVars, repackVars>>
  \/ /\ part = "route" /\ RouteNext
     /\ UNCHANGED <<part, playerVars, gatewayVars, streamVars, forwarderVars,
                    frameVars, repackVars>>
  \/ /\ part = "gateway" /\ GatewayNext
     /\ UNCHANGED <<part, playerVars, routeVars, streamVars, forwarderVars,
                    frameVars, repackVars>>
  \/ /\ part = "stream" /\ StreamNext
     /\ UNCHANGED <<part, playerVars, routeVars, gatewayVars, forwarderVars,
                    frameVars, repackVars>>
  \/ /\ part = "forwarder" /\ ForwarderNext
     /\ UNCHANGED <<part, playerVars, routeVars, gatewayVars, streamVars,
                    frameVars, repackVars>>
  \/ /\ part = "frame" /\ FrameNext
     /\ UNCHANGED <<part, playerVars, routeVars, gatewayVars, streamVars,
                    forwarderVars, repackVars>>
  \/ /\ part = "scan" /\ RepackNext
     /\ UNCHANGED <<part, playerVars, routeVars, gatewayVars, streamVars,
                    forwarderVars, frameVars>>

\* The fairness of each part, for the behaviours that are about it.
PatrolFairness ==
  /\ WF_playerVars(part = "player" /\ Run)
  /\ WF_playerVars(part = "player" /\ Execute)
  /\ WF_playerVars(part = "player" /\ Watchdog)
  /\ WF_playerVars(part = "player" /\ Tick)
  /\ WF_playerVars(part = "player" /\ mode = "nav2" /\ (NavAnswers \/ NavFinishes) /\ Nav2)
  /\ WF_gatewayVars(part = "gateway" /\ GatewayTick)
  /\ \A t \in Tasks : WF_gatewayVars(part = "gateway" /\ \E c \in Clients : Send(t, c))
  /\ WF_gatewayVars(part = "gateway" /\ BroadcastLoop)
  /\ WF_gatewayVars(part = "gateway" /\ RosTask)
  /\ \A c \in Clients :
       /\ WF_gatewayVars(part = "gateway" /\ Unblock(c))
       /\ WF_gatewayVars(part = "gateway" /\ (GreetingFails(c) \/ Unregister(c)))

PatrolSpec == PatrolInit /\ [][PatrolNext]_patrolVars /\ PatrolFairness
=============================================================================
