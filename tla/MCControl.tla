------------------------------- MODULE MCControl -------------------------------
(***************************************************************************)
(* Small instances, for TLC, of the programs that command the car and of   *)
(* those with a connection to keep, side by side: the orders of browsers,  *)
(* the obstacle avoider, the calibration script, the chassis node, the     *)
(* client of the CAN gateway and the sensor reader.  part names the one    *)
(* that this behaviour is about; the others rest in one of their initial   *)
(* states.                                                                 *)
(***************************************************************************)
EXTENDS ControlStream, MCLaserAvoidance, Calibration, MCChassisNode,
        MCGatewayClient, SerialSensor

VARIABLE part

commandVars == <<part, controlVars, avoidanceVars, calibVars, allVars,
                 clientVars, sensorVars>>

OpenSpace == Scene(100, 100, 200, 20, 200, 100)

\* With scan_repub running the scans count from -180 and only two scenes change
\* places: what it adds is where a scan goes, not what the scan shows.
EchoBound ==
  relay => scene \in {OpenSpace, Scene(200, 200, 80, 80, 80, 49)}

CommandInit ==
  /\ part \in {"control", "avoidance", "calibration", "chassis", "client",
              "sensor"}
  /\ ControlInit /\ AvoidanceInit /\ CalibInit /\ NodeInit
  /\ ClientInit /\ SensorInit
  /\ part # "control" => locking
  /\ part # "avoidance" => angleMin = 0 /\ scene = OpenSpace /\ ~relay
  /\ part = "avoidance" => (relay <=> angleMin = -180) /\ EchoBound
  /\ part # "calibration" => test = "metre" /\ ahead = 1 /\ base = 0
  /\ part # "sensor" => sensorAt = NoPort

CommandNext ==
  \/ /\ part = "control" /\ ControlNext
     /\ UNCHANGED <<part, avoidanceVars, calibVars, allVars, clientVars,
                    sensorVars>>
  \/ /\ part = "avoidance" /\ AvoidanceNext /\ EchoBound'
     /\ UNCHANGED <<part, controlVars, calibVars, allVars, clientVars,
                    sensorVars>>
  \/ /\ part = "calibration" /\ CalibNext
     /\ UNCHANGED <<part, controlVars, avoidanceVars, allVars, clientVars,
                    sensorVars>>
  \/ /\ part = "chassis" /\ NodeNext
     /\ UNCHANGED <<part, controlVars, avoidanceVars, calibVars, clientVars,
                    sensorVars>>
  \/ /\ part = "client" /\ ClientNext
     /\ UNCHANGED <<part, controlVars, avoidanceVars, calibVars, allVars,
                    sensorVars>>
  \/ /\ part = "sensor" /\ SensorNext
     /\ UNCHANGED <<part, controlVars, avoidanceVars, calibVars, allVars,
                    clientVars>>

\* The fairness of each part, for the behaviours that are about it.
CommandFairness ==
  /\ \A b \in Browsers :
       /\ WF_controlVars(part = "control" /\ (Acquire(b) \/ WriteFails(b)))
       /\ SF_controlVars(part = "control" /\ Published(b))
  /\ WF_controlVars(part = "control" /\ ~flows /\ (Congest \/ LinkBreaks))
  /\ WF_avoidanceVars(part = "avoidance" /\ AvoidScan)
  /\ WF_avoidanceVars(part = "avoidance" /\ LidarPublishes)
  /\ WF_avoidanceVars(part = "avoidance" /\ ChassisWatchdog)
  /\ WF_avoidanceVars(part = "avoidance" /\ AvoidanceTick)
  /\ WF_calibVars(part = "calibration" /\ ScriptStep)
  /\ WF_calibVars(part = "calibration" /\ ObeyCommand)
  /\ WF_calibVars(part = "calibration" /\ OdomTick)
  /\ WF_allVars(part = "chassis" /\ (InitSdk \/ SdkMissing))
  /\ WF_allVars(part = "chassis" /\ CheckConnection)
  /\ WF_allVars(part = "chassis" /\ (Dial \/ DialFails))
  /\ SF_allVars(part = "chassis" /\ Dial)
  /\ WF_allVars(part = "chassis" /\ BurstEnds)
  /\ SF_allVars(part = "chassis" /\ CmdCallback)
  /\ SF_allVars(part = "chassis" /\ WatchdogCheck)
  /\ WF_allVars(part = "chassis" /\ Clock)
  /\ WF_clientVars(part = "client" /\ OwnerStep)
  /\ WF_clientVars(part = "client" /\ SendAll)
  /\ \A r \in Receivers : WF_clientVars(part = "client" /\ ReceiverStep(r))
  /\ WF_sensorVars(part = "sensor" /\ ReaderStep)
  /\ WF_sensorVars(part = "sensor" /\ Announce)
  /\ SF_sensorVars(part = "sensor" /\ Open /\ reader' = "read")

CommandSpec == CommandInit /\ [][CommandNext]_commandVars /\ CommandFairness
=============================================================================
