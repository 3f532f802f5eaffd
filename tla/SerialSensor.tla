----------------------------- MODULE SerialSensor -----------------------------
(***************************************************************************)
(* The temperature and humidity reader of gateway-ros2 (serial_sensor.py,  *)
(* serial_ports.py) with the flag of the gateway that it sets.  The LES11B *)
(* is plugged into some port, or into none, and comes and goes; a frame of *)
(* a plugged one may still be garbled.                                     *)
(***************************************************************************)
EXTENDS Naturals

CONSTANTS
  Ports,       \* the COM ports of the computer
  Configured,  \* usb_sensor_port: one of them, or AutoPort
  AutoPort,
  NoPort,
  Garbled      \* a plugged sensor's first frame may be garbled

ASSUME SensorAssumption ==
  /\ Configured \in Ports \cup {AutoPort}
  /\ NoPort \notin Ports \cup {AutoPort} /\ AutoPort \notin Ports
  /\ Garbled \in BOOLEAN

VARIABLES
  sensorAt,     \* where the sensor is plugged in
  reader,       \* the task: "open", "read", "sleep" or "off"
  serial,       \* the port held open, _serial
  activePort,   \* active_port
  announcing,   \* _set_status(True) was scheduled and has not run
  stopping,     \* _stopping
  usbConnected  \* gateway.usb_sensor_connected

sensorVars == <<sensorAt, reader, serial, activePort, announcing, stopping,
                usbConnected>>

SensorInit ==
  /\ sensorAt \in Ports \cup {NoPort}
  /\ reader = "open" /\ serial = NoPort /\ activePort = NoPort
  /\ announcing = FALSE /\ stopping = FALSE /\ usbConnected = FALSE

\* ordered_port_names: a configured port is the only candidate.
Candidates == IF Configured = AutoPort THEN Ports ELSE {Configured}

\* _open() asks each candidate and keeps the one that answers; if none does,
\* or a frame is garbled, it raises, and run() calls it outside its try.
Open ==
  /\ reader = "open" /\ serial = NoPort
  /\ \/ /\ sensorAt \in Candidates
        /\ serial' = sensorAt /\ activePort' = sensorAt
        /\ announcing' = TRUE /\ reader' = "read"
     \/ /\ Garbled \/ sensorAt \notin Candidates
        /\ reader' = "off" /\ UNCHANGED <<serial, activePort, announcing>>
  /\ UNCHANGED <<sensorAt, stopping, usbConnected>>

OpenAlready ==
  /\ reader = "open" /\ serial # NoPort
  /\ reader' = "read"
  /\ UNCHANGED <<sensorAt, serial, activePort, announcing, stopping,
                 usbConnected>>

on_usb_sensor_status(is) == usbConnected' = is

\* The event loop runs it before the answer of the first read can come.
Announce ==
  /\ announcing
  /\ announcing' = FALSE /\ on_usb_sensor_status(TRUE)
  /\ UNCHANGED <<sensorAt, reader, serial, activePort, stopping>>

ReadFrame ==
  /\ reader = "read" /\ ~announcing /\ serial \in {sensorAt, NoPort}
  /\ reader' = "sleep"
  /\ UNCHANGED <<sensorAt, serial, activePort, announcing, stopping,
                 usbConnected>>

\* Mutant: the port is closed without a word to the gateway.
CloseQuietly ==
  /\ reader = "read" /\ ~announcing
  /\ serial' = NoPort /\ reader' = "sleep"
  /\ UNCHANGED <<sensorAt, activePort, announcing, stopping,
                 usbConnected>>

\* Whatever is wrong with the frame, the port is closed: unplugged, timed out,
\* CRC, range.  active_port keeps its value.
ReadFails ==
  /\ reader = "read" /\ ~announcing
  /\ serial' = NoPort /\ on_usb_sensor_status(FALSE) /\ reader' = "sleep"
  /\ UNCHANGED <<sensorAt, activePort, announcing, stopping>>

\* READ_INTERVAL, and the test of the loop.
Sleep ==
  /\ reader = "sleep"
  /\ reader' = IF stopping THEN "off" ELSE "open"
  /\ UNCHANGED <<sensorAt, serial, activePort, announcing, stopping,
                 usbConnected>>

Stop ==
  /\ stopping' = TRUE
  /\ UNCHANGED <<sensorAt, reader, serial, activePort, announcing, usbConnected>>

\* 0.2 s later, under whatever the reader is doing.
StopCloses ==
  /\ stopping /\ serial' = NoPort
  /\ UNCHANGED <<sensorAt, reader, activePort, announcing, stopping, usbConnected>>

\* The sensor is pulled out, or put into any port.
Replug ==
  /\ sensorAt' \in Ports \cup {NoPort} /\ sensorAt' # sensorAt
  /\ UNCHANGED <<reader, serial, activePort, announcing, stopping,
                 usbConnected>>

ReaderStep == Open \/ OpenAlready \/ ReadFrame \/ ReadFails \/ Sleep

SensorNext == ReaderStep \/ Announce \/ Stop \/ StopCloses \/ Replug

\* Windows keeps serving the port and the event loop its tasks.  A sensor that
\* stays plugged in answers well if it is asked again and again.
SensorFairness ==
  /\ WF_sensorVars(ReaderStep) /\ WF_sensorVars(Announce)
  /\ SF_sensorVars(Open /\ reader' = "read")

SensorSpec == SensorInit /\ [][SensorNext]_sensorVars /\ SensorFairness
-----------------------------------------------------------------------------
\* The gateway calls the sensor connected only while a port is open for it and
\* the reader is alive; around stop() alone it may be late.
ConnectedMeansOpen ==
  usbConnected /\ ~stopping => serial # NoPort /\ reader # "off"

\* A sensor that is pulled out for good is reported as gone.
UnplugNoticed == <>[](sensorAt = NoPort /\ ~stopping) => <>[]~usbConnected
-----------------------------------------------------------------------------
(* A disagreement with the code's own claims                               *)

Reachable == sensorAt \in Candidates

\* A sensor that is plugged in where it is looked for is found sooner or later,
\* also when the program was started first or its port changes.
SensorFound == <>[](Reachable /\ ~stopping) => []<>usbConnected
=============================================================================
