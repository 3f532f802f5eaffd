# Verification of lidar_patrol_ws

TLA+ modules for the patrol robot of this repository: models of the code that
TLC checks on small instances, and theorems about them that TLAPS proves for
every value of the constants. Paths are relative to the repository (`src/`).

## 1. The system

    web / desktop  --HTTP, WebSocket-->  gateway-ros2, gateway  --rosbridge--+
                                                                            |
    waypoint_player, laser_avoidance, Nav2, teleop  --/cmd_vel-->           |
    chassis_node  <--/scan, /odom, tf--> scan_repub, sensor_bridge, ... <---+
        |
        | FourWheelVehicle (SDK: callers, control loop)
        | GatewayClient    (SDK: TCP client, receiver thread, CAN stream parser)
        |
    forward_5578.py  --TCP-->  CAN115 gateway  --CAN-->  front and rear drivers

| Component | State | Operations | What is hard | What makes it correct |
|---|---|---|---|---|
| `YK_CANSDK/yk_can_sdk/vehicle.py` `FourWheelVehicle` | target, ramped speed, emergency-stop latch, time of the last command, stop event, handle of the control thread | connect, close, set_motion / set_wheels / set_axle_commands, stop, smooth_stop, emergency_stop, clear_emergency_stop, move_for; the 20 ms control loop; the fault callback | three kinds of thread share one lock, and every frame is sent outside it; reconnection while an old loop is alive; stop bursts against in-flight frames; stale commands | nothing moves under the latch; one control loop; zeros only while the drivers are unlocked; close leaves the wheels at zero; the watchdog reaches the wheels; every call returns |
| `YK_CANSDK/yk_can_sdk/client.py` `GatewayClient` | socket, connected and stop events, receiver handle, parser buffer, telemetry cache | connect, close, send_frame, the receiver thread, wait_for_feedback | sessions overlap: an old receiver or a late send acts on the new socket | one session at a time, no leaked socket, no stray close, losses are noticed |
| `YK_CANSDK/yk_can_sdk/protocol.py` `CanFrame`, `CanStreamParser`, `decode_feedback` | the bytes not yet parsed | feed, clear, encoding and decoding | fragmentation, coalescing and stray bytes of the TCP stream | the frames found do not depend on how the stream was cut; genuine frames survive noise |
| `YK_CANSDK/yk_can_sdk/config.py`, `__main__.py` | limits and ids; none | validation; a command line on top of the SDK | | the limits the other modules assume |
| `YK_CANSDK_CPP/include/ykcan/*.hpp` | as the Python SDK | C++17 port of the SDK | as above, and `std::thread` handles that must be joined before they are replaced | as above; never `std::terminate` |
| `src/vehicle_bringup/.../chassis_node.py` | car, last command and its time, odometry | /cmd_vel callback, keepalive, watchdog, odometry and reconnection timers, shutdown | one executor that `connect()` blocks; queued commands; sessions of the car | a reconnected car drives nothing old; silence stops car and odometry; losses heal |
| `src/vehicle_bringup/...` `sensor_bridge_node`, `scan_repub`, `scan_repacker`, `particle_bridge`, launch files | last values | stateless forwarding of topics | `scan_repub` subscribes to the topic it publishes | a message is forwarded once |
| `src/navigation/navigation/waypoint_player.py` | route, last odometry, last scan | drive_to_point (rotate, drive, rotate), Nav2 goals, dwell | polling loops with timeouts on callbacks served only inside `spin_once`; obstacle waits that eat the timeout; several publishers of /cmd_vel | standstill between points; a failed point ends the patrol; a run ends |
| `src/navigation/navigation/` `waypoint_recorder`, `return_to_origin`, `route_validator` | samples, route files | recording, playing backwards, validation | distance and time filters; a transform that comes and goes; which point is skipped; goals that fail | a recorded route is valid; the way back retraces it to its origin |
| `src/navigation/navigation/rosbridge_client.py`, `src/navigation/backend` | none; a database | one subscriber; CRUD handlers | | |
| `src/lidar_avoidance/.../laser_avoidance.py` | none | scan callback: stop and turn, slow, forward | invalid ranges, sectors across the seam, scans that wait in a queue | either convention of angles gives the same command; an obstacle that stays stops the car; so does a lidar that dies |
| `web/robot-monitor/gateway-ros2` (and its identical copy in `EnzoPatrolLab`) | robot state and its age, rosbridge link, WebSocket clients, serial port and its flags | asyncio tasks for rosbridge, broadcasts and each browser; the serial reader; commands | a browser that does not read; one that leaves in the middle of its greeting; a flag and its source in different tasks; a reader that dies | a silent robot is shown as such to all who read; orders arrive in their order, each over the link it was meant for; a sensor shown as connected is |
| `web/robot-monitor/gateway` | as gateway-ros2, with a history in SQLite and a lock around each send to rosbridge | as above | the lock is waited for with a WebSocket already in hand; the broadcast task writes to the database | as above |
| `web/robot-monitor/backend`, `src/` (Vue) | made-up values; what is displayed | HTTP handlers; rendering | | |
| `EnzoPatrolLab/.../desktop/main.cjs` | child processes | start, stop, restart of the gateway | process lifetimes | |
| `scripts/forward_5578.py` | the one forwarded pair of connections | accept, dial, swap, close, two pipes per pair | threads of several pairs race for `_active` | no pair stays open that nobody will close |
| `scripts/calibrate.py`, `recalibrate_rot.py`, `recalibrate_odom.py` | the last pose, the angle turned | drive a metre, turn once, turn or drive for a time | messages that wait while the script sleeps; the seam of the yaw; stop messages in a short queue | a turn is not ended early; the tape is asked for at rest |
| `src/ldlidar_driver`, `src/ldlidar` | packet parser, scan assembly | vendored driver of the LD19 | | |

## 2. Plan

The order is by what moves the robot: first the SDK that sends the frames, then
the node that drives it, then what commands the node, then what only watches.

| # | Modules | Shows | State |
|---|---|---|---|
| 1 | `Ramp`, `MotionContract`, `FourWheelVehicle` | the vehicle implements its contract; sessions; liveness | checked, proved |
| 2 | `GatewayClient`, `Link` | sessions of the TCP client; it implements one link | checked, proved |
| 3 | `ChassisNode` on `MotionContract` | the node over the contract of the vehicle | checked, proved |
| 4 | `CanStream` | the resynchronising parser against a declarative reference | checked, proved |
| 5 | `WaypointPlayer` | patrol with avoidance, timeouts and Nav2 | checked, proved |
| 6 | `PatrolRoute` | recorder, validator and return agree on the route | checked, proved |
| 7 | `RobotGateway`, `ControlStream`, `SerialSensor`, `ModbusFrame` | both web gateways: what they show, what they order, the sensor | checked, proved except liveness |
| 8 | `LaserAvoidance`, `ScanRepacker` | the avoider behind either lidar driver, with `scan_repub` | checked, proved except liveness |
| 9 | `Forwarder`, `Calibration` | the forwarder; the calibration scripts with the chassis node | checked, proved |
| 10 | `MCPatrol`, `MCControl` | the instances of modules 2 to 9, side by side | |

Left for later: the C++ port as a second refinement of `MotionContract`, and the
chassis probe of gateway-ros2.

The TLC runs of the whole project are few on purpose: each asks its own question
(section 4). Abstract specifications: `MotionContract` (implemented by
`FourWheelVehicle`, used by `ChassisNode`), `Link` (implemented by `GatewayClient`),
the declarative parse of a stream (`CanStream`).

## 3. Modules

### MotionContract, Ramp

What `vehicle.py` promises its callers about motion, on four variables: link up,
latch, target, ramped speed. `Ramp` is `_ramp` (293-311) on one signed level: a
step is limited by the acceleration when the speed moves away from zero and by
the deceleration when it moves towards it, and does not overshoot the target.

### FourWheelVehicle

| Variable | Code |
|---|---|
| `connected` | `client.is_connected` |
| `estop`, `target`, `current` | `_estop_latched`, `_target`, `_current` (one speed level for four wheels) |
| `age` | `time.monotonic() - _last_command_at` in ticks, up to one past the watchdog |
| `stopEvent`, `handle` | `_stop_event`, `_control_thread` |
| `fault` | the last fault word of each driver in the telemetry cache |
| `wheels` | the level each driver was last sent |
| `th` | per thread: where it is, for which call, how many pairs of frames it still sends and of what level |

One action is one `with self._lock:` block, one CAN frame, or one check outside
the lock. Everything between two actions interleaves with the other callers, the
control loops (an old one may outlive its session), the receiver and its fault
callback, the loss of the link, failing sends and the clock. `emergency_stop`,
`stop`, `close`, `connect` and `clear_emergency_stop` send their bursts frame by
frame: `Send` / `SendFront` / `SendRear` / `EndSleep`.

`CloseFirst` says that the owner closes before it connects again (as
`chassis_node` and the context manager do); `Prompt` says that a 20 ms sleep
between two pairs of frames outlasts a pair that another thread has already
begun to send. Neither is guaranteed by the SDK, so both are constants, and each
run names the value it uses.

### GatewayClient

The sockets, events and threads of `client.py`. Sockets and receiver threads have
identities; a parser remembers the socket its bytes came from. The locks
`_send_lock` and `_state_lock` are the atomicity of the actions. Nobody joins a
sender: `vehicle.close()` waits for its control loop, but other callers and the
receiver's fault callback may be in `send_frame` when the socket is closed, and may
still be there when the next one is open. (A closed Python socket keeps no
descriptor, so such a send fails; it never writes to the new connection.)

`Link` is the same client without sockets and threads, as `FourWheelVehicle` has it
in its one variable `connected`. `ImplementsLink` maps it: the link is `up` while
`_connected` is set, somebody is `receiving` from the last line of `connect()` to the
`finally` block of the receiver, a frame is `sending` while `sendall` runs, the owner is
`closing` from the first line of `close()` to its return, the stream is `over` when
the gateway has ended that of a socket still open here, and a send is `late` while it
has an older socket in hand than the connection that is up. What it demands: a
connection starts when nobody receives or closes; what is late is never delivered to
it; it goes down only in a close, at the end of its stream or when a send fails, be it
a late one; a close returns when nobody receives any more.

### ChassisNode

The node's callbacks run one at a time on the executor (`pc`); `connect()` blocks
it (`dialing`, `burst`) while `/cmd_vel` fills its queue. The vehicle's own steps
(`VehicleStep`) are the steps of `MotionContract` that need no caller, so what is
shown here holds for every vehicle that implements the contract, and
`FourWheelVehicle_proofs` shows that ours does.

### CanStream

`protocol.py`'s `CanStreamParser` with the receiver that feeds it (`client.py`),
on real bytes: a frame takes thirteen, its header is tested as
`from_gateway_bytes` tests it, and the two speeds of a report are packed and
unpacked as signed 32-bit integers. Chunks cut the stream anywhere, noise lies
between frames, and a reconnection clears the buffer in the middle of a frame.
The reference, `GreedyParse`, is stated without the parser's loop: which places
of the session's stream begin an accepted packet, whatever the chunks were.

### WaypointPlayer

`waypoint_player.py` is one thread; `pc` says where it stands, `left` is what
remains of the timeout it is in. `scan` and `odom` are `latest_scan` and
`latest_odom`: they change only while the player spins (`ScanCallback`,
`OdomCallback`) and may say anything, so the properties hold for every obstacle,
dead sensor and stale message. `loop` is the top of `rotate_to` and
`drive_to_xy`: the deadline first (`Expire`), then the obstacle (`Pause`), then the
tolerance test (`Arrive`), else a command (`Steer`). A loop ends with the
messages of `stop()` (`StopZero`). `wire` is `/cmd_vel` with the depth of the
chassis node's subscription, and the node itself is reduced to its three
callbacks that change the motion of a connected car. The action server of Nav2
is external: it starts, dies and answers as it likes; its commands are not
modelled.

### PatrolRoute

The route file through three programs. `waypoint_recorder` samples a pose when
the interval has passed and the robot is not near the last point (`Sampling`,
`Moved`, `SamplePose`), and saves whatever there is when it ends (`SaveRoute`);
`route_validator` is `Valid`; `return_to_origin` builds its itinerary
(`Itinerary`) and drives it goal by goal, any of which may fail anywhere
(`SendGoal`), as may the whole by Ctrl-C (`BreakReturn`). A pose is a place, and
`Near` any relation: it need not be transitive.

### RobotGateway

The web gateway in its two editions. It is one event loop, so a step runs from
one await that suspends to the next: the rosbridge task (`RosConnects`,
`Subscribe`, `RosLost`, `Redial`), the broadcast task (`TakeSnapshot`, `Send`,
`Sent`; in the history edition `Appended`, `AppendFails`, after which the task is
dead), and a coroutine per WebSocket (`Connect`, `Welcome`, `GreetingFails`,
`Unregister`). The peers stall, leave and read on; a stalled one suspends the
task that sends to it until the ping timeout. A `sensor_bridge_node` is a client
that publishes what it is sent on topics of the robot (`Feed`, `EchoMessage`):
such a message counts as one of the robot.

### ControlStream

`robot_stream()` and `publish_command()`. The WebSocket to rosbridge in hand has a
number; `grip` is the one that a waiting `_send` has taken before it waits for
`_send_lock` (`waitList`, first come first served; the ros2 edition has no lock).
`newest` is the last command that was let through and `robot` the last one
written to the link: relating them is the point of the module. The rosbridge task's
own subscriptions and advertisement, which take the same lock when a link is new,
carry no order and are left out.

### SerialSensor, ModbusFrame

The reader of the LES11B (`serial_sensor.py`, `serial_ports.py`): it opens one of
the candidate ports, reads, closes on an error, and hands its status to the event
loop, where a task of its own passes it on (`Announce`). `ModbusFrame` is the
frame itself, byte by byte: request, checksum, sign and range, on a line that
flips bits or cuts the answer.

### LaserAvoidance, ScanRepacker

`LaserAvoidance` has the sector minima and the decision over six beams ahead, at the
sides, in two sectors at once and behind, in either convention of angles, with scans
that wait one behind the other in the subscription's queue, `scan_repub` if it runs,
and the heartbeat and watchdog of the chassis node behind `/cmd_vel`. `ScanRepacker`
is the forward-moving pointer of the resampling, one comparison a step, for scans
of any density. Nearest means by the difference of the angles as numbers, as in
the code: for a partial scan that is not always nearest around the turn.

### Forwarder, Calibration

`Forwarder` has a thread per accepted peer and two more per pair of connections;
an action is one critical section of the lock or one call outside it, and `usable`
says which pairs can still carry bytes. `Calibration` is one script (`test` says
which) with the chassis node that integrates its commands: `drive_1m`,
`spin_1turn`, the counting of wheel turns, the timed rotation and the drive at a
wall. A turn has `Full` steps; the yaw of the odometry has a period of two turns, as
`get_yaw` computes it. The first three wait for `/odom` before anybody is asked, the
drive at a wall after it, the timed rotation never; Ctrl-C ends each where it
stands, and only the timed rotation sends its zeros on the way out (`leave`).

### MCPatrol, MCControl

The programs of this repository share no memory, and what crosses between two of
them (a queue of `/cmd_vel`, a link, a scan) is inside the module of the one that
depends on it. These two modules therefore put the specifications side by side:
`part` names the one a behaviour is about, the others rest in an initial state,
and each invariant and liveness property is asked of the behaviours of its part.
That is a disjoint union of state spaces, not a product, and shows no more than
separate runs would; it is done to keep the number of runs at one per question
("does what carries the patrol work", "does what commands the car work").

## 4. Runs

| Run | Question | Instance |
|---|---|---|
| `vehicle` | Do the invariants and the contract hold against every interleaving of one caller, two control threads, faults, losses and failing sends? | three speeds, reps 2/2/1, watchdog 1 tick, 0.7 M states |
| `vehicle_helper` | Does `close()` leave the wheels at zero while a second thread commands, stops and latches? | two callers, full speed, `Prompt`; the helper does not call `clear_emergency_stop` |
| `vehicle_live` | Do stop and watchdog reach the wheels, does every call return? | one control thread, one speed, `FairSpec`; the caller uses connect, close, set_motion, emergency_stop, smooth_stop and move_for |
| `patrol` | Does a patrol end at rest, a route lead home, the gateway show what is, and the data below arrive unmixed? | player: two points, legs of one or two ticks, stops of two messages, queue of two; route: three places, three points; gateway: a browser that comes and goes and a sensor bridge; stream: two speed reports with extreme values, noise that begins like a frame, chunks of 1, 12 and 14 bytes, two sessions; forwarder: three peers; frame: two readings, two bit flips; scan: turn of twelve steps, up to six beams resampled to four. 186 000 states |
| `control` | Does the last order win, does whoever commands the car leave it at rest, does every link heal or its loss show? | orders: two browsers, two commands, two links, both editions; avoider: six beams, five scenes, queue of two; calibration: turns of four steps from every angle; chassis: three commands, queue of two, watchdog 1 tick; client: two sockets, two receivers; sensor: two ports. 31 000 states |
| `vehicle_clear` | violation: `clear_emergency_stop` releases a fault that arrives during its burst | |
| `vehicle_reconnect` | violation: `connect()` without `close()` after a lost link mixes the old loop's frames into the unlock zeros | `CloseFirst = FALSE` |
| `client_late_send` | violation: a send that outlives its session takes the next connection down | two sockets, two receivers |
| `patrol_log` | violation: a drive that was cut short is logged as an arrival | one point |
| `sensor_lost` | violation: a reader that finds no port never looks again | fair: the sensor stays plugged in |
| `scan_echo` | violation: `scan_repub` forwards what it has forwarded | |
| `calib_turn` | violation: the turn is not over after one turn | |

`patrol` and `control` run with `CHECK_DEADLOCK FALSE`: a patrol, a return, a
script or a forwarder really ends.

### Bounds, and why they are enough

Repetitions (ten in the code) are two or one: what a burst can do wrong happens
between two pairs, and one more pair adds a state that only repeats. Three speed
levels with a range of two and unequal rates show every branch of the ramp
(accelerate, brake, cross zero, stop on the target). Ages are cut one past the
watchdog, where they behave alike. Two control threads suffice while at most two
are ever alive, which `OneControlLoop` (proved for any number) shows. A stream
of 30 bytes (`MaxStream`) holds two frames and one piece of noise around them,
which the chunks cut at and next to their boundaries; noise is limited to six
bytes (`MaxNoise`), connections to two (`MaxSession`). Two points of a patrol
show what the first leaves to the second, and a queue shorter than a stop shows
what dropped messages do. Three places of which neighbours are near show that
nearness is not transitive; three peers of the forwarder are one to be evicted,
one that evicts it and one that overtakes both. Two links show what was meant for
the one that broke. Two flips of a bit are what a 16-bit CRC must see. The scenes
of the avoider show what is clear, slow, too near ahead, too near at a side and
blind, with distances at a threshold of the code (1.00, 0.50, 0.30) or a centimetre
below it (0.49, 0.29); its beams lie inside the sectors or well outside, since on an
exact edge the rounding of `atan2` decides. A queue of two lets an older scan wait
before a newer one; with `scan_repub` two scenes change places (`EchoBound`).
`Returning` (browsers that come back), `MaxLinks`, `MaxPoints`, `MaxFlips`,
`MaxMoved` and `OdomBound` are bounds of the models. The theorems cover every
value of these constants, under the hypotheses section 5 names.

### Fairness

Weak fairness per thread: the Python scheduler runs every thread that can run.
`ClientJoin(Owner)` is strongly fair: the receiver may be handling the rest of a
chunk each time the owner looks, but its socket is closed by then, so it leaves;
the `join(1.0)` of `client.close()` therefore ends by the thread's end, as a
`recv` times out after 0.2 s. In the chassis node the executor serves every
timer and subscription again and again (strong fairness of the callbacks) and the
gateway answers a dial now and then. The player runs whenever it can, and a Nav2
that does not die answers its goals; no sensor has to speak and no obstacle has to
leave. The event loop of the gateways serves its tasks, a send to a peer that does
not read ends by the ping timeout of the WebSocket, and rosbridge reads on now and
then (strong fairness of `Published`) or loses its connection. The driver of the
lidar publishes while it is plugged in, and the calibration script and the chassis
node go on, but nobody has to press a key. A sensor that stays where it is looked
for answers if it is asked again and again. Callers, publishers, the network and the drivers owe nothing.

## 5. Theorems

`FourWheelVehicle_proofs` proves, for any set of callers, control threads, speeds,
limits and repetitions:

* `TypeCorrect`; `LatchHolds` (with types alone: every action that latches also
  clears target and speed, and every action that sets a target tests the latch);
* `InPlaceHolds`: which call a thread is in at each place, that only the owner is
  inside connect and close, that callers and the receiver only send zeros. It is
  the strengthening the session theorems need: the invariants below say nothing
  about what a thread is about to do;
* `VehicleImplementsContract`: every step maps to a step of `MotionContract` or to
  a stutter (identity mapping of the four variables);
* for an owner that closes first: `OneLoopHolds`, `LinkHasLoopHolds`,
  `UnlockIsQuiet`, from the session invariant `SessionInv`: the owner's place in
  connect and close determines whether a loop is alive, who holds the handle and
  whether the stop event is set;
* `CloseLeavesStill`, for bursts of two pairs or more (`StopReps >= 2`; ten in the
  code), a sleep that outlasts a pair under way (`Prompt`) and callers that do not
  clear the latch (`"clear" \notin Calls`). `ClosingInv`: as long as `close()` is
  under way the vehicle is latched, so whoever starts to send sends zeros; after
  the first pair and its sleep nothing but zeros is under way (`OnlyZeros`), so the
  second pair is the last word on both drivers. All three hypotheses are needed: TLC
  finds the wheels turning in `vehicle_helper` when one of them is dropped.

`GatewayClient_proofs`: `ClientTypes`, and for an owner that closes first the five
session invariants (`SocketHolds`, `LeakHolds`, `StrayHolds`, `StreamHolds`,
`QuietHolds`; the `control` run checks three of them), by one invariant that
relates the owner's place to the only receiver that may be alive and the only open
socket. Nothing is assumed of the senders. `LossHasCause` is then false of the code
(run `client_late_send`): a sender that outlives its session fails on its old socket and
takes the new connection down. `LossIsCaused` shows that this is the only way: every
other connection goes down in a `close()`, at the end of its own stream or after a
failed send on its own socket. Its invariant (`CauseInv`) says that the stop event
stands with a connection only inside a `close()`, and that a receiver about to give a
connection up has seen one or the end of its stream. `ClientImplementsLink` takes the
same two invariants: from them each step of the owner, the sender and the receivers is
a step of `Link` (`Up` is its `Connect`, `Drop` its `ReceiverEnds`, `CloseJoin` its
`CloseReturns`; closing a socket whose stream was over is its `Forget`) or a stutter
(`LinkStep`). A send on a socket that is no longer `_socket` is late or delivers to
nobody, which is what `Sent` demands.

`ChassisNode_proofs`: `NodeTypes`, and `DrivesLastHolds` by the fact that a
connected vehicle outside a reconnection has the target last executed.

`CanStream_proofs`: `ParserIsGreedy`, for every stream, noise and way to cut it:
`StreamInv` says that the buffer is the part of the session's stream between the
parser's place and what was received, and that no accepted packet reaches beyond
that place, so each step of the loop decides one more place.
`ReportsSurvive`: the reports decoded are the reports sent. It has two hypotheses,
which TLC evaluates for the instance of the run (`SomeStreamIsReadable`).
`SaneReadings`: a driver's number is not zero and the speeds fit in 32 bits.
`NoFalseHead`: no place of the noise looks like the head of a frame, alone or with
the byte that may follow; without it the theorem is false of the code, whose parser
takes thirteen bytes from any plausible head on and loses the report in them, as the
format (which has no checksum) makes unavoidable. The invariant (`ReadingInv`) says
that there is a layout of the stream: the places where its reports begin, thirteen
bytes apart or more, with every other place dead (`Dead`: its head is wrong, or will
be with the next byte); and that the parser is past the reports it has decoded and
inside of none. `NextIsReport` is the heart of it: a plausible packet at the
parser's place is the next report, for the place is not dead. `FrameIsRead` and
`RoundTrip` show that packing and unpacking a report changes nothing.

`Patrol_proofs`, about the player: `StillHolds` (the newest command of a waiting player is a
stop; `StillInv` adds the states of the Nav2 mode, in which nothing is published,
and a `stop()` that has sent its first message) and `Nav2ReportHolds` (`GoalInv`:
between two goals Nav2 holds none, so a success it reports is of this point), and
`PlayerTypes`, for which a player away from its start, and a Nav2 with a goal in
hand, must have a point.

`Patrol_proofs`, about the route: `ValidHolds`, `OriginHolds`, `RetraceHolds` for any places,
nearness and length of the route. Points are numbered in their order
(`Numbered`); what remains to be driven is the way back from the point before the
last one driven to, where the robot stands unless it is on its way (`OnTheWay`).
`ItineraryIsWayBack` shows that the guard of `return_to_origin.py:127` never has
anything to append.

`Bridges_proofs` is about what stands between two parts:

* `OnePairHolds` (`Forwarder`), for any peers: whoever is put out of `_active` is in
  the hands of the thread that did it;
* `NearestHolds` (`ScanRepacker`), for any number of beams and outputs: once the
  pointer stops, every beam it passed was further from the angle than the one after
  it, and the next is not nearer; because the angles of the outputs grow, the beams
  passed for one output stay out of question for the next (`PointerIsNearest`);
* `ConventionHolds` and `ObstacleIsSeen` (`LaserAvoidance`), for any scene: the angle
  between a beam and the centre of a sector is the same whichever way the scan
  counts (`SameAngle`), and the nearest beam of a sector is no further than any
  other (`NearestIsLeast`, by well-foundedness of `<`), so a beam that is too near
  shows in the minimum of its sector and forbids "forward" and "slow";
* `NeverStopsShort` and `TapeAtRest` (`Calibration`), for any turn, step of the
  odometry, first yaw and depth of the queues: `CalibInv` keeps every yaw heard so
  far in the order the car turned through them, and what the script has added up
  below what the car has turned since (`NeverCountsMore`; a correction by a turn only
  takes away). The queue keeps its newest commands, so a stop that was just sent is
  the last one in it (`StopsLast`).

`WebGateway_proofs`: `OnlineHolds`, `ConnectedHolds`, and `LastOrderHolds` for any browsers, commands and
links, with and without the lock. Its invariant `OrderInv` says who stands in line
(`InLine`): each browser once, only the first one writing, and nobody before one
with an older WebSocket; so if the last in line holds the present link its order is
the newest, and if not nobody in line can reach the robot (`NewestLast`). An
`AcquireLate` that looks the WebSocket up after the wait breaks this.

`ModbusFrame_proofs` is about the frames of the sensor, for any registers of sixteen
bits (`FrameAssumption`):

* `ReadingHolds`: what was measured is what is shown. Request, answer and decoding
  agree on the order of the bytes and on the sign, and a checksum is compared with
  itself; the only thing left to show is that it is a number of two bytes;
* `CorruptionHolds`, for a line that flips up to three bits: a frame that is not
  intact is refused, be it cut short or flipped in the registers or in the checksum.
  TLC tries all pairs of flips on two pairs of registers, the theorem is for all
  registers and for three. Three is the bound of the code: the last bit of the
  payload changes three bits of the checksum, and with those flipped too the sums agree;
* `OddFlipsHold`, without a bound: an odd number of flipped bits is always refused.

The argument is the linearity of the register (`ShiftedXor`): the difference of two
registers is shifted like a register of its own. So a flipped bit changes the
difference between the checksum a frame carries and the one of its payload (`Gap`) by
a word of its own, whatever the frame (`FlipShows`). `Columns` lists the 72 words, and
the provers check on the list that it follows the recursion of `Shifted`
(`ColumnsAre`), that no two are equal (`ColumnsDiffer`, so two flips leave a gap unless
they are of the same bit: `TwoFlips`) and that each has an odd number of bits
(`ColumnsOdd`, so an odd number of flips leaves one: `FlipTurns`, `OddGap`).

All of it needs induction over the bits of a payload. It is done without the induction
theorems: among the numbers that break a claim there is a first one (`LeastNumber`,
from the well-foundedness of `<`), and it is refuted. `SomeTaken` gives that way the
registers that the recursive function `Crcs` defines, `CrcsTaken` that it is them, and
`Ladder` the induction over a range, with a set in the place of the predicate.

Proved and left out of the runs, which show the other half of each module: the
type invariants of the client, the chassis node and the player,
`ConnectedMeansSocket`, `OneStream`, `ConnectedMeansOpen`, `Nav2ReportsArrival` and
`RecordedRouteValid`; `UnlockBurstIsQuiet` is proved for an owner that closes first
and violated by the one of `vehicle_reconnect` that does not.

Model-checked only: everything under fairness (liveness and ENABLED are out of the
prover's reach) and the violations. Every safety property of a passing run is a
theorem.

## 6. Where the code and its texts disagree

* `clear_emergency_stop` (`vehicle.py:186`): run `vehicle_clear`.
* `connect` after a lost link (`vehicle.py:70`, `YK_CANSDK/README.md:210`): run `vehicle_reconnect`.
* `is_connected` is "whether the receiver thread holds the connection for valid"
  (`YK_CANSDK/docs/API.md:71`) and is cleared by the failure of an earlier session's
  send (`client.py:124`): run `client_late_send`.
* a drive that was given up is logged as an arrival (`waypoint_player.py:124`, `:227`): run `patrol_log`.
* "retries, so it may be started first" (`EnzoPatrolLab/实验版使用说明.md:31`) against
  a reader that ends when it cannot open a port (`serial_sensor.py:88`): run `sensor_lost`.
* `scan_repub` forwards "what the LD19 publishes" (`scan_repub.py:2`) and hears
  itself: run `scan_echo`. (The driver in this repository publishes RELIABLE.)
* "stops by itself after one turn" (`calibrate.py:69`) against a yaw with a period of
  two turns: run `calib_turn`. A script that misses the one pose before the seam
  turns more often still.
* Seen while modelling, without a run of their own (see the hazards in
  PROJECT.json): the heartbeat is announced as not changing the state of motion
  (`chassis_node.py:110`) but sets the target to zero, so a car driven at less than
  4 Hz is braked between two commands; the watchdog leaves the stale target in place although
  `docs/API.md:82` says it becomes zero; `destroy_node` skips `close()` while the
  latch is set although its docstring (`chassis_node.py:179`) says it disconnects;
  the quick-start guide (line 163) says simulation mode does not reconnect; the
  forwarder announces a single active connection (`forward_5578.py:3`) but dials
  before it closes the previous pair, and two threads may enter `_active` in
  another order than they came; `recalibrate_odom.py:68` announces two seconds of
  driving, which it asks for with a single command that the chassis node's heartbeat
  and watchdog end long before; `web/robot-monitor/README.md:10` promises "online,
  offline, timeout", and a `sensor_bridge_node` beside the gateway keeps a silent
  robot online by echoing its values (`StaleShown` excepts it).
* Behaviour that no text speaks against, and no property covers: `set_motion` raises
  in `destroy_node` while latched; the odometry integrates the last command of a
  car that is latched or away; `/cmd_vel` messages wait while `connect()` blocks the
  executor; the player drives on its last scan when the lidar dies; `close()` of the
  SDK can be overtaken by a caller that clears the latch; an obstacle inside the
  blind zone is an invalid range for the avoider (`laser_avoidance.py:88`);
  `return_to_origin` skips the last point without asking where the robot is; the
  recorder saves an empty route over a good one; the flags set by the first lidar
  message are not reset; the chassis probe suspends the event loop for up to two
  seconds.

## 7. What is not modelled

Wheel signs and the mix of linear and angular speed (one signed level stands for
the four wheels), logging, the shape of messages, the telemetry values other than
fault or no fault, `wait_for_feedback` (a polling read). Of the gateways: HTTP
routes, the flags of lidar and chassis, the rows of the history. `particle_bridge`
republishes one message as another. The command line of the SDK, `rosbridge_client`,
the navigation backend, the Vue front end and the launch files keep no state of
their own; the mock backend invents its values; the desktop shell starts and stops
processes; the LD19 driver is the vendor's.

The C++ port (`YK_CANSDK_CPP`) is the same design as the Python SDK, and nothing in
the repository runs it. It differs where its threads do: `connect()` after a lost
link would replace a `std::thread` that is still joinable, its zero burst has no
pause, and its `move_for` has no `finally`. It remains the first candidate for a
further module.
