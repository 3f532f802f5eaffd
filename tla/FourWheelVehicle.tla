-------------------------- MODULE FourWheelVehicle --------------------------
(***************************************************************************)
(* FourWheelVehicle of the vehicle SDK (YK_CANSDK/yk_can_sdk/vehicle.py):  *)
(* caller threads, the control loops they start and the client's receiver  *)
(* thread, which share the target, the ramped speed, the emergency-stop    *)
(* latch and one TCP link to the two motor drivers.                        *)
(*                                                                         *)
(* One action is one `with self._lock:' block, one CAN frame, or one check *)
(* made outside the lock; everything between two of them interleaves.  A   *)
(* WheelCommands value is one signed speed level (set_motion's mix of the  *)
(* four wheels is left out), and a frame is "front" or "rear" with a level.*)
(*                                                                         *)
(* The TCP client is seen as the vehicle sees it: `connected', a send that *)
(* may fail, one receiver.  GatewayClient models its sockets and threads.  *)
(***************************************************************************)
EXTENDS Ramp, FiniteSets

CONSTANTS
  Apps,        \* caller threads
  Owner,       \* the caller that connects and closes
  Loops,       \* identities of the control threads connect() starts
  Receiver,    \* the client's receiver thread
  NoThread,    \* _control_thread is None
  Commands,    \* motion commands the callers issue: speed levels
  MaxCommand,  \* safety.max_command
  Watchdog,    \* safety.command_watchdog_s in ticks of the clock
  UnlockReps,  \* safety.unlock_repetitions (10 in the code)
  StopReps,    \* safety.stop_repetitions (10 in the code)
  EStopReps,   \* min(3, stop_repetitions)
  Calls,       \* the methods the callers use in this instance
  CloseFirst,  \* the owner calls close() before it calls connect() again
  Prompt       \* a 20 ms sleep outlasts a pair of frames already under way

ASSUME ThreadsAreDistinct ==
  /\ Owner \in Apps
  /\ Receiver \notin Apps \cup Loops
  /\ Apps \cap Loops = {}
  /\ NoThread \notin Loops
ASSUME LimitsAreValid ==          \* SafetyLimits.__post_init__
  /\ MaxCommand \in Nat \ {0}
  /\ Commands \subseteq -MaxCommand..MaxCommand
  /\ Watchdog \in Nat \ {0}
  /\ UnlockReps \in Nat \ {0} /\ StopReps \in Nat \ {0} /\ EStopReps \in Nat \ {0}
  /\ CloseFirst \in BOOLEAN /\ Prompt \in BOOLEAN

VARIABLES
  connected,   \* client.is_connected
  estop,       \* _estop_latched
  target,      \* _target
  current,     \* _current
  age,         \* ticks since _last_command_at, counted up to Watchdog + 1
  stopEvent,   \* _stop_event
  handle,      \* _control_thread
  fault,       \* client's telemetry cache: the last fault word of a driver is not 0
  wheels,      \* the level each driver was last sent
  th           \* per thread: where it is, for which call, and what it sends

vars == <<connected, estop, target, current, age, stopEvent, handle, fault, wheels, th>>

Drivers == {"front", "rear"}
Levels == -MaxCommand..MaxCommand
Threads == Apps \cup Loops \cup {Receiver}
Stale == age > Watchdog
-----------------------------------------------------------------------------
(* Threads.  A thread at "front" or "rear" is about to send that frame of  *)
(* the level cmd, in the burst of a call `op' with `left' pairs to go.     *)

Home(t) == IF t \in Apps THEN "idle" ELSE IF t = Receiver THEN "recv" ELSE "loop"

At(t, pc, op) ==
  [pc |-> pc, op |-> IF pc \in {Home(t), "dead"} THEN "none" ELSE op, left |-> 0, cmd |-> 0]
Goto(t, pc, op) == th' = [th EXCEPT ![t] = At(t, pc, op)]

Sending(op, reps, v) == [pc |-> "front", op |-> op, left |-> reps, cmd |-> v]
Send(t, op, reps, v) == th' = [th EXCEPT ![t] = Sending(op, reps, v)]

\* Where a thread goes on when the frames of `op' are out, or are not to be sent.
Sent(t, op) ==
  CASE op = "connect"            -> "arm"
    [] op = "clear"              -> "unlatch"
    [] op \in {"close", "lost"}  -> "signal"
    [] op = "interrupted"        -> "finally"
    [] OTHER                     -> Home(t)

\* Where the exception of a failed send is handled.
Raised(t, op) ==
  CASE op = "connect"            -> "clientJoin"
    [] op \in {"close", "lost"}  -> "signal"
    [] op = "interrupted"        -> "finally"
    [] op = "tick"               -> "lost"
    [] OTHER                     -> Home(t)

Places ==
  {"idle", "moving", "easing", "finally", "stopping",          \* callers
   "arm", "start", "signal", "join", "clientJoin",             \* connect, close
   "checkRear", "unlatch",                                     \* clear_emergency_stop
   "front", "rear", "sleep",                                   \* frames and bursts
   "dead", "loop", "lost",                                     \* control loops
   "off", "recv", "callback"}                                  \* the receiver
Ops == {"none", "connect", "close", "clear", "stop", "estop", "ease", "move",
        "interrupted", "tick", "lost", "fault"}
ThreadState == [pc : Places, op : Ops, left : Nat, cmd : Levels]

InCall(t, op) == th[t].op = op
InBurst(t) == th[t].pc \in {"front", "rear", "sleep"}
Alive(l) == th[l].pc # "dead"

TypeOK ==
  /\ connected \in BOOLEAN /\ estop \in BOOLEAN /\ stopEvent \in BOOLEAN
  /\ target \in Levels /\ current \in Levels
  /\ age \in 0..Watchdog + 1
  /\ handle \in Loops \cup {NoThread}
  /\ fault \in [Drivers -> BOOLEAN]
  /\ wheels \in [Drivers -> Levels]
  /\ th \in [Threads -> ThreadState]

Init ==
  /\ connected = FALSE /\ estop = TRUE /\ stopEvent = FALSE
  /\ target = 0 /\ current = 0 /\ age = 0
  /\ handle = NoThread
  /\ fault = [d \in Drivers |-> FALSE]
  /\ wheels = [d \in Drivers |-> 0]
  /\ th = [t \in Threads |->
             At(t, IF t \in Apps THEN "idle" ELSE IF t = Receiver THEN "off" ELSE "dead", "none")]

Motion == <<estop, target, current>>
Session == <<stopEvent, handle>>
-----------------------------------------------------------------------------
(* Frames                                                                  *)

SendFront(t) ==
  /\ th[t].pc = "front" /\ connected
  /\ wheels' = [wheels EXCEPT !["front"] = th[t].cmd]
  /\ th' = [th EXCEPT ![t].pc = "rear"]
  /\ UNCHANGED <<connected, Motion, age, Session, fault>>

\* Mutant: close() sends one pair like stop().
SendRearOnceOnExit(t) ==
  /\ th[t].pc = "rear" /\ connected
  /\ wheels' = [wheels EXCEPT !["rear"] = th[t].cmd]
  /\ IF th[t].op \in {"stop", "tick", "close"}
     THEN Goto(t, Sent(t, th[t].op), th[t].op)
     ELSE th' = [th EXCEPT ![t].pc = "sleep"]
  /\ UNCHANGED <<connected, Motion, age, Session, fault>>

\* The bursts sleep after every pair, stop() and the control loop do not.
SendRear(t) ==
  /\ th[t].pc = "rear" /\ connected
  /\ wheels' = [wheels EXCEPT !["rear"] = th[t].cmd]
  /\ IF th[t].op \in {"stop", "tick"}
     THEN Goto(t, Sent(t, th[t].op), th[t].op)
     ELSE th' = [th EXCEPT ![t].pc = "sleep"]
  /\ UNCHANGED <<connected, Motion, age, Session, fault>>

EndSleep(t) ==
  /\ th[t].pc = "sleep"
  /\ Prompt => \A u \in Threads \ {t} : th[u].pc \notin {"front", "rear"}
  /\ IF th[t].left > 1
     THEN Send(t, th[t].op, th[t].left - 1, 0)
     ELSE Goto(t, Sent(t, th[t].op), th[t].op)
  /\ UNCHANGED <<connected, Motion, age, Session, fault, wheels>>

\* send_frame raises: there is no connection, or sendall fails and drops it.
SendFails(t) ==
  /\ th[t].pc \in {"front", "rear"}
  /\ connected' = FALSE
  /\ Goto(t, Raised(t, th[t].op), th[t].op)
  /\ UNCHANGED <<Motion, age, Session, fault, wheels>>
-----------------------------------------------------------------------------
(* emergency_stop, from any thread: latch and zero in the lock, then a     *)
(* short burst unless the latch was set already or the link is gone.       *)

EmergencyStop(t, op) ==
  /\ estop' = TRUE /\ target' = 0 /\ current' = 0
  /\ IF ~estop /\ connected
     THEN Send(t, op, EStopReps, 0)
     ELSE Goto(t, Sent(t, op), op)
  /\ UNCHANGED <<connected, age, Session, fault, wheels>>

\* stop(): zero in the lock, then one pair if the vehicle is connected.
Stop(t) ==
  /\ target' = 0 /\ current' = 0 /\ age' = 0
  /\ IF connected THEN Send(t, "stop", 1, 0) ELSE Goto(t, "idle", "none")
  /\ UNCHANGED <<connected, estop, Session, fault, wheels>>
-----------------------------------------------------------------------------
(* The session: connect and close                                          *)

\* Ask for a call: the thread is between calls and this instance uses it.
Begin(t, call) == th[t].pc = "idle" /\ call \in Calls

\* client.connect() succeeds and starts a receiver; the unlock burst follows.
\* A refused TCP connection changes nothing.  Loops bounds the control threads.
Connect(t) ==
  /\ Begin(t, "connect") /\ t = Owner
  /\ ~connected
  /\ CloseFirst => handle = NoThread
  /\ \E l \in Loops : ~Alive(l)
  /\ connected' = TRUE
  /\ th' = [th EXCEPT ![t] = Sending("connect", UnlockReps, 0),
                      ![Receiver] = IF @.pc = "off" THEN At(Receiver, "recv", "none") ELSE @]
  /\ UNCHANGED <<Motion, age, Session, fault, wheels>>

Arm(t) ==
  /\ th[t].pc = "arm"
  /\ estop' = FALSE /\ target' = 0 /\ current' = 0 /\ age' = 0
  /\ Goto(t, "start", "connect")
  /\ UNCHANGED <<connected, Session, fault, wheels>>

\* Mutant: the stop event of the last session is not cleared.
StartLoopStopped(t) ==
  /\ th[t].pc = "start"
  /\ \E l \in Loops :
       /\ ~Alive(l)
       /\ handle' = l
       /\ th' = [th EXCEPT ![t] = At(t, "idle", "none"), ![l] = At(l, "loop", "none")]
  /\ UNCHANGED <<connected, Motion, age, stopEvent, fault, wheels>>

StartLoop(t) ==
  /\ th[t].pc = "start"
  /\ stopEvent' = FALSE
  /\ \E l \in Loops :
       /\ ~Alive(l)
       /\ handle' = l
       /\ th' = [th EXCEPT ![t] = At(t, "idle", "none"), ![l] = At(l, "loop", "none")]
  /\ UNCHANGED <<connected, Motion, age, fault, wheels>>

\* Mutant: close() resets the target and forgets the ramped speed.
CloseKeepsSpeed(t) ==
  /\ Begin(t, "close") /\ t = Owner
  /\ estop' = TRUE /\ target' = 0
  /\ IF connected THEN Send(t, "close", StopReps, 0) ELSE Goto(t, "signal", "close")
  /\ UNCHANGED <<connected, current, age, Session, fault, wheels>>

Close(t) ==
  /\ Begin(t, "close") /\ t = Owner
  /\ estop' = TRUE /\ target' = 0 /\ current' = 0
  /\ IF connected THEN Send(t, "close", StopReps, 0) ELSE Goto(t, "signal", "close")
  /\ UNCHANGED <<connected, age, Session, fault, wheels>>

\* Mutant: close() joins the control thread without telling it to stop.
SignalNobody(t) ==
  /\ th[t].pc = "signal"
  /\ Goto(t, IF t \in Loops THEN "dead" ELSE "join", th[t].op)
  /\ UNCHANGED <<connected, Motion, age, Session, fault, wheels>>

\* _stop_event.set(), by close() or by a control loop that lost the link.
Signal(t) ==
  /\ th[t].pc = "signal"
  /\ stopEvent' = TRUE
  /\ Goto(t, IF t \in Loops THEN "dead" ELSE "join", th[t].op)
  /\ UNCHANGED <<connected, Motion, age, handle, fault, wheels>>

\* Mutant: close() does not wait for the control thread.
JoinWithoutWait(t) ==
  /\ th[t].pc = "join"
  /\ handle' = NoThread
  /\ connected' = FALSE
  /\ Goto(t, "clientJoin", th[t].op)
  /\ UNCHANGED <<Motion, age, stopEvent, fault, wheels>>

\* The join of the control thread, then client.close() up to its own join.
\* Socket timeouts (0.2 s) are shorter than the join's 1 s, so it does not expire.
Join(t) ==
  /\ th[t].pc = "join"
  /\ handle # NoThread => ~Alive(handle)
  /\ handle' = NoThread
  /\ connected' = FALSE
  /\ Goto(t, "clientJoin", th[t].op)
  /\ UNCHANGED <<Motion, age, stopEvent, fault, wheels>>

ClientJoin(t) ==
  /\ th[t].pc = "clientJoin"
  /\ th[Receiver].pc \in {"recv", "off"}
  /\ connected' = FALSE
  /\ th' = [th EXCEPT ![t] = At(t, "idle", "none"), ![Receiver] = At(Receiver, "off", "none")]
  /\ UNCHANGED <<Motion, age, Session, fault, wheels>>
-----------------------------------------------------------------------------
(* Motion calls                                                            *)

\* Mutant: _require_ready looks at the link only.
ReadyWhenConnected == connected

Ready == connected /\ ~estop      \* _require_ready

SetMotion(v) ==
  /\ Ready
  /\ target' = v /\ age' = 0
  /\ UNCHANGED <<connected, estop, current, Session, fault, wheels>>

SetCommands(t, v) == Begin(t, "set") /\ SetMotion(v) /\ UNCHANGED th

StopCall(t) == Begin(t, "stop") /\ Stop(t)

EmergencyStopCall(t) == Begin(t, "estop") /\ EmergencyStop(t, "estop")

SmoothStop(t) ==
  /\ Begin(t, "ease")
  /\ target' = 0 /\ age' = 0
  /\ Goto(t, "easing", "ease")
  /\ UNCHANGED <<connected, estop, current, Session, fault, wheels>>

\* The polling loop sees a still vehicle, or its deadline passes.
SmoothStopEnd(t) ==
  /\ th[t].pc = "easing"
  /\ \/ current = 0 /\ Goto(t, "idle", "none")
     \/ Goto(t, "stopping", "ease")
  /\ UNCHANGED <<connected, Motion, age, Session, fault, wheels>>

StopAtEnd(t) == th[t].pc = "stopping" /\ Stop(t)

\* The fault of each driver is read in turn, the burst follows, and only then
\* is the latch released.
ClearEmergencyStop(t) ==
  /\ Begin(t, "clear")
  /\ connected
  /\ ~fault["front"]
  /\ Goto(t, "checkRear", "clear")
  /\ UNCHANGED <<connected, Motion, age, Session, fault, wheels>>

CheckRear(t) ==
  /\ th[t].pc = "checkRear"
  /\ IF fault["rear"] THEN Goto(t, "idle", "none") ELSE Send(t, "clear", UnlockReps, 0)
  /\ UNCHANGED <<connected, Motion, age, Session, fault, wheels>>

Unlatch(t) ==
  /\ th[t].pc = "unlatch"
  /\ estop' = FALSE /\ age' = 0
  /\ Goto(t, "idle", "none")
  /\ UNCHANGED <<connected, target, current, Session, fault, wheels>>
-----------------------------------------------------------------------------
(* move_for: refresh the command until the deadline, stop in the end       *)

MoveFor(t, v) ==
  /\ Begin(t, "move")
  /\ th' = [th EXCEPT ![t] = [pc |-> "moving", op |-> "move", left |-> 0, cmd |-> v]]
  /\ UNCHANGED <<connected, Motion, age, Session, fault, wheels>>

MoveRefresh(t) == th[t].pc = "moving" /\ SetMotion(th[t].cmd) /\ UNCHANGED th

\* set_motion raised, or the caller was interrupted (KeyboardInterrupt).
MoveInterrupted(t) == th[t].pc = "moving" /\ EmergencyStop(t, "interrupted")

MoveDeadline(t) ==
  /\ th[t].pc = "moving"
  /\ Goto(t, "finally", "move")
  /\ UNCHANGED <<connected, Motion, age, Session, fault, wheels>>

MoveFinally(t) ==
  /\ th[t].pc = "finally"
  /\ IF estop THEN Goto(t, "idle", "none") ELSE Goto(t, "stopping", "move")
  /\ UNCHANGED <<connected, Motion, age, Session, fault, wheels>>
-----------------------------------------------------------------------------
(* The receiver thread                                                     *)

\* A thermal/fault report of driver d is cached, then handed to _on_feedback.
Feedback(d, bad) ==
  /\ th[Receiver].pc = "recv"
  /\ fault' = [fault EXCEPT ![d] = bad]
  /\ IF bad THEN Goto(Receiver, "callback", "fault") ELSE UNCHANGED th
  /\ UNCHANGED <<connected, Motion, age, Session, wheels>>

OnFault == th[Receiver].pc = "callback" /\ EmergencyStop(Receiver, "fault")

\* The gateway closed the connection or recv failed.
LinkLost ==
  /\ th[Receiver].pc = "recv"
  /\ connected' = FALSE
  /\ Goto(Receiver, "off", "none")
  /\ UNCHANGED <<Motion, age, Session, fault, wheels>>
-----------------------------------------------------------------------------
(* The control loop                                                        *)

\* Mutants: the loop goes quiet while latched; the loop has no watchdog.
TickUnlatchedOnly(l) ==
  /\ th[l].pc = "loop" /\ ~stopEvent /\ ~estop
  /\ current' = IF Stale THEN 0 ELSE RampStep(current, target)
  /\ Send(l, "tick", 1, current')
  /\ UNCHANGED <<connected, estop, target, age, Session, fault, wheels>>

TickWithoutWatchdog(l) ==
  /\ th[l].pc = "loop" /\ ~stopEvent
  /\ current' = IF estop THEN 0 ELSE RampStep(current, target)
  /\ Send(l, "tick", 1, current')
  /\ UNCHANGED <<connected, estop, target, age, Session, fault, wheels>>

Tick(l) ==
  /\ th[l].pc = "loop" /\ ~stopEvent
  /\ current' = IF Stale \/ estop THEN 0 ELSE RampStep(current, target)
  /\ Send(l, "tick", 1, current')
  /\ UNCHANGED <<connected, estop, target, age, Session, fault, wheels>>

LoopEnds(l) ==
  /\ th[l].pc = "loop" /\ stopEvent
  /\ Goto(l, "dead", "none")
  /\ UNCHANGED <<connected, Motion, age, Session, fault, wheels>>

LoopLostLink(l) == th[l].pc = "lost" /\ EmergencyStop(l, "lost")

\* time.monotonic(); ages beyond Watchdog + 1 behave alike.
Clock ==
  /\ age <= Watchdog
  /\ age' = age + 1
  /\ UNCHANGED <<connected, Motion, Session, fault, wheels, th>>
-----------------------------------------------------------------------------
\* A thread goes on with what it is doing.
Progress(t) ==
  \/ SendFront(t) \/ SendRear(t) \/ EndSleep(t) \/ SendFails(t) \/ Signal(t)

CallerProgress(t) ==
  \/ Progress(t)
  \/ Arm(t) \/ StartLoop(t) \/ Join(t) \/ ClientJoin(t)
  \/ CheckRear(t) \/ Unlatch(t)
  \/ SmoothStopEnd(t) \/ StopAtEnd(t) \/ MoveDeadline(t) \/ MoveFinally(t)

CallerBegins(t) ==
  \/ Connect(t) \/ Close(t)
  \/ StopCall(t) \/ EmergencyStopCall(t) \/ SmoothStop(t) \/ ClearEmergencyStop(t)
  \/ MoveRefresh(t) \/ MoveInterrupted(t)
  \/ \E v \in Commands : SetCommands(t, v) \/ MoveFor(t, v)

LoopProgress(l) == Progress(l) \/ Tick(l) \/ LoopEnds(l) \/ LoopLostLink(l)

ReceiverProgress == Progress(Receiver) \/ OnFault

Next ==
  \/ \E t \in Apps : CallerProgress(t) \/ CallerBegins(t)
  \/ \E l \in Loops : LoopProgress(l)
  \/ ReceiverProgress
  \/ \E d \in Drivers, bad \in BOOLEAN : Feedback(d, bad)
  \/ LinkLost
  \/ Clock

\* Threads are scheduled; callers, the network and the drivers owe nothing.  The
\* receiver is joined in the end (SF) because its socket is closed by then: it
\* handles at most the rest of one chunk before it leaves.
Fairness ==
  /\ SF_vars(ClientJoin(Owner))
  /\ \A t \in Apps : WF_vars(CallerProgress(t))
  /\ \A l \in Loops : WF_vars(LoopProgress(l))
  /\ WF_vars(ReceiverProgress)

Spec == Init /\ [][Next]_vars
FairSpec == Spec /\ Fairness
-----------------------------------------------------------------------------
(* Safety                                                                  *)

\* The vehicle promises MotionContract to its callers, whatever its threads do:
\* vehicle.py keeps target, speed and latch consistent under one lock.
Contract == INSTANCE MotionContract WITH
              connected <- connected, estop <- estop, target <- target, current <- current
ImplementsContract == Contract!Spec

\* While the emergency stop is latched nothing is commanded or ramped
\* (emergency_stop, close, _require_ready and the loop's latch test).
LatchedIsStill == estop => target = 0 /\ current = 0

\* A caller that closes before it reconnects never has two control loops
\* (close joins the thread before connect may start another).
OneControlLoop ==
  \A l \in Loops : Alive(l) => handle = l

\* No frame but zeros is on its way while connect() sends the zeros that unlock
\* the drivers (connect: "send the required ten zero commands per driver, then arm").
UnlockBurstIsQuiet ==
  InCall(Owner, "connect") /\ InBurst(Owner) =>
    \A t \in Threads : th[t].pc \in {"front", "rear"} => th[t].cmd = 0

\* Outside connect and close a connected vehicle has a control loop that goes
\* on, so that its wheels stay refreshed and its watchdog watched.
LinkHasLoop ==
  connected /\ ~InCall(Owner, "connect") /\ ~InCall(Owner, "close") =>
    /\ ~stopEvent
    /\ handle # NoThread
    /\ th[handle].pc \in {"loop", "front", "rear"}

\* When close() has sent its zeros over a link that is still up, both drivers
\* were last sent zero and no other frame can follow (close: "Immediately
\* command zero repeatedly before closing the TCP socket").  It needs two pairs
\* or more, a sleep that outlasts a pair already under way (Prompt), and that no
\* other caller clears the latch while the zeros go out: Calls without "clear".
ClosesStopped ==
  /\ InCall(Owner, "close") /\ th[Owner].pc = "join"
  /\ connected
  => /\ \A d \in Drivers : wheels[d] = 0
     /\ \A t \in Threads : th[t].pc \in {"front", "rear"} => th[t].cmd = 0

-----------------------------------------------------------------------------
(* Disagreements with the code's own claims                                *)

\* clear_emergency_stop: "Clear the latch only when both drivers report no
\* active fault."  A fault whose emergency stop has already run (the receiver is
\* not before it any more) is not released with the latch.
ClearedOnlyWithoutFault ==
  [][(\E t \in Apps : Unlatch(t)) /\ th[Receiver].pc # "callback"
       => \A d \in Drivers : ~fault[d]]_vars
-----------------------------------------------------------------------------
(* Liveness                                                                *)

WheelsStill == \A d \in Drivers : wheels[d] = 0

\* A latched emergency stop reaches both drivers, unless the latch is released
\* or the link is lost first.
StopReachesWheels == estop /\ connected ~> WheelsStill \/ ~estop \/ ~connected

\* When the callers fall silent the watchdog stops the wheels.
WatchdogReachesWheels == Stale /\ connected ~> WheelsStill \/ ~Stale \/ ~connected

\* Every call returns: no join, burst or polling loop blocks its caller for ever.
CallsReturn == \A t \in Apps : th[t].pc \notin {"idle", "moving"} ~> th[t].pc \in {"idle", "moving"}
=============================================================================
