---------------------- MODULE FourWheelVehicle_proofs ----------------------
(***************************************************************************)
(* Proofs about FourWheelVehicle, for any callers, any number of control   *)
(* threads, any limits and any burst lengths.                              *)
(***************************************************************************)
EXTENDS FourWheelVehicle, TLAPS

-----------------------------------------------------------------------------
(* Values stay in their ranges                                             *)

\* _ramp never leaves the range of commands: one step moves towards the target
\* and never past it.
LEMMA RampStepInRange ==
  ASSUME NEW old \in Levels, NEW new \in Levels
  PROVE  RampStep(old, new) \in Levels
BY RatesArePositive, LimitsAreValid DEF Levels, RampStep, Accelerating, Size

\* The places and calls a thread's state is made of are of the right types.
LEMMA ZeroIsLevel == 0 \in Levels
BY LimitsAreValid DEF Levels

LEMMA ZeroIsAge == 0 \in 0..Watchdog + 1
BY LimitsAreValid

LEMMA SentIsPlace ==
  ASSUME NEW t, NEW op
  PROVE  Sent(t, op) \in Places
BY DEF Sent, Home, Places

LEMMA RaisedIsPlace ==
  ASSUME NEW t, NEW op
  PROVE  Raised(t, op) \in Places
BY DEF Raised, Home, Places

LEMMA AtIsThreadState ==
  ASSUME NEW t, NEW pc \in Places, NEW op \in Ops
  PROVE  At(t, pc, op) \in ThreadState
BY ZeroIsLevel DEF At, ThreadState, Ops

LEMMA SendingIsThreadState ==
  ASSUME NEW op \in Ops, NEW reps \in Nat, NEW v \in Levels
  PROVE  Sending(op, reps, v) \in ThreadState
BY DEF Sending, ThreadState, Places

\* A thread that is at a place moves to another or begins to send.
LEMMA GotoType ==
  ASSUME TypeOK, NEW t \in Threads, NEW pc \in Places, NEW op \in Ops, Goto(t, pc, op)
  PROVE  th' \in [Threads -> ThreadState]
BY AtIsThreadState DEF TypeOK, Goto

LEMMA SendType ==
  ASSUME TypeOK, NEW t \in Threads, NEW op \in Ops, NEW reps \in Nat, NEW v \in Levels,
         Send(t, op, reps, v)
  PROVE  th' \in [Threads -> ThreadState]
BY SendingIsThreadState DEF TypeOK, Send

LEMMA EmergencyStopType ==
  ASSUME TypeOK, NEW t \in Threads, NEW op \in Ops, EmergencyStop(t, op)
  PROVE  TypeOK'
<1>1. Sent(t, op) \in Places BY SentIsPlace
<1>2. th' \in [Threads -> ThreadState]
  <2>1. CASE ~estop /\ connected
    BY <2>1, SendType, ZeroIsLevel, LimitsAreValid DEF EmergencyStop
  <2>2. CASE ~(~estop /\ connected)
    BY <2>2, <1>1, GotoType DEF EmergencyStop
  <2>3. QED BY <2>1, <2>2
<1>3. QED
  BY <1>2, ZeroIsLevel DEF EmergencyStop, TypeOK, Session

LEMMA StopType ==
  ASSUME TypeOK, NEW t \in Threads, Stop(t)
  PROVE  TypeOK'
<1>1. th' \in [Threads -> ThreadState]
  <2>1. CASE connected
    BY <2>1, SendType, ZeroIsLevel DEF Stop, Ops
  <2>2. CASE ~connected
    BY <2>2, GotoType DEF Stop, Places, Ops
  <2>3. QED BY <2>1, <2>2
<1>2. QED
  BY <1>1, ZeroIsLevel, LimitsAreValid DEF Stop, TypeOK, Session

\* Every variable keeps its type; in particular the ramped speed and every level
\* on its way to a driver stay within +/- MaxCommand.
THEOREM TypeCorrect == Spec => []TypeOK
<1>1. Init => TypeOK
  <2> SUFFICES ASSUME Init PROVE TypeOK
    OBVIOUS
  <2>1. th \in [Threads -> ThreadState]
    <3>1. \A t \in Threads :
            At(t, IF t \in Apps THEN "idle" ELSE IF t = Receiver THEN "off" ELSE "dead", "none")
              \in ThreadState
      BY AtIsThreadState DEF Places, Ops
    <3>2. QED BY <3>1 DEF Init
  <2>2. QED BY <2>1, ZeroIsLevel, ZeroIsAge DEF Init, TypeOK
<1>2. TypeOK /\ [Next]_vars => TypeOK'
  <2> SUFFICES ASSUME TypeOK, [Next]_vars PROVE TypeOK'
    OBVIOUS
  <2> USE DEF Motion, Session
  <2>1. ASSUME NEW t \in Threads, Progress(t)
        PROVE  TypeOK'
    <3> th[t] \in ThreadState BY DEF TypeOK
    <3> th[t].op \in Ops /\ th[t].cmd \in Levels /\ th[t].left \in Nat BY DEF ThreadState
    <3>1. CASE SendFront(t)
      BY <3>1 DEF SendFront, TypeOK, ThreadState, Places
    <3>2. CASE SendRear(t)
      <4>1. Sent(t, th[t].op) \in Places BY SentIsPlace
      <4>2. th' \in [Threads -> ThreadState]
        <5>1. CASE th[t].op \in {"stop", "tick"}
          BY <3>2, <4>1, <5>1, GotoType DEF SendRear
        <5>2. CASE th[t].op \notin {"stop", "tick"}
          BY <3>2, <5>2 DEF SendRear, TypeOK, ThreadState, Places
        <5>3. QED BY <5>1, <5>2
      <4>3. QED BY <3>2, <4>2 DEF SendRear, TypeOK
    <3>3. CASE EndSleep(t)
      <4>1. Sent(t, th[t].op) \in Places BY SentIsPlace
      <4>2. th' \in [Threads -> ThreadState]
        <5>1. CASE th[t].left > 1
          <6>1. th[t].left - 1 \in Nat BY <5>1
          <6>2. QED BY <3>3, <5>1, <6>1, SendType, ZeroIsLevel DEF EndSleep
        <5>2. CASE ~(th[t].left > 1)
          BY <3>3, <4>1, <5>2, GotoType DEF EndSleep
        <5>3. QED BY <5>1, <5>2
      <4>3. QED BY <3>3, <4>2 DEF EndSleep, TypeOK
    <3>4. CASE SendFails(t)
      <4>1. Raised(t, th[t].op) \in Places BY RaisedIsPlace
      <4>2. th' \in [Threads -> ThreadState] BY <3>4, <4>1, GotoType DEF SendFails
      <4>3. QED BY <3>4, <4>2 DEF SendFails, TypeOK
    <3>5. CASE Signal(t)
      <4>1. (IF t \in Loops THEN "dead" ELSE "join") \in Places BY DEF Places
      <4>2. th' \in [Threads -> ThreadState] BY <3>5, <4>1, GotoType DEF Signal
      <4>3. QED BY <3>5, <4>2 DEF Signal, TypeOK
    <3>6. QED BY <2>1, <3>1, <3>2, <3>3, <3>4, <3>5 DEF Progress
  <2>2. ASSUME NEW t \in Apps, CallerProgress(t)
        PROVE  TypeOK'
    <3> t \in Threads BY DEF Threads
    <3> Receiver \in Threads BY DEF Threads
    <3> th[t] \in ThreadState BY DEF TypeOK
    <3> th[t].op \in Ops /\ th[t].cmd \in Levels /\ th[t].left \in Nat BY DEF ThreadState
    <3>1. CASE Progress(t)
      BY <2>1, <3>1
    <3>2. CASE Arm(t)
      <4>1. th' \in [Threads -> ThreadState] BY <3>2, GotoType DEF Arm, Places, Ops
      <4>2. QED BY <3>2, <4>1, ZeroIsLevel, ZeroIsAge DEF Arm, TypeOK
    <3>3. CASE StartLoop(t)
      <4>1. PICK l \in Loops :
              /\ handle' = l
              /\ th' = [th EXCEPT ![t] = At(t, "idle", "none"), ![l] = At(l, "loop", "none")]
        BY <3>3 DEF StartLoop
      <4>2. At(t, "idle", "none") \in ThreadState /\ At(l, "loop", "none") \in ThreadState
        BY AtIsThreadState DEF Places, Ops
      <4>3. th' \in [Threads -> ThreadState] BY <4>1, <4>2 DEF TypeOK
      <4>4. QED BY <3>3, <4>1, <4>3 DEF StartLoop, TypeOK
    <3>4. CASE Join(t)
      <4>1. th' \in [Threads -> ThreadState] BY <3>4, GotoType DEF Join, Places
      <4>2. QED BY <3>4, <4>1 DEF Join, TypeOK
    <3>5. CASE ClientJoin(t)
      <4>1. At(t, "idle", "none") \in ThreadState /\ At(Receiver, "off", "none") \in ThreadState
        BY AtIsThreadState DEF Places, Ops
      <4>2. th' \in [Threads -> ThreadState] BY <3>5, <4>1 DEF ClientJoin, TypeOK
      <4>3. QED BY <3>5, <4>2 DEF ClientJoin, TypeOK
    <3>6. CASE CheckRear(t)
      <4>1. th' \in [Threads -> ThreadState]
        <5>1. CASE fault["rear"] BY <3>6, <5>1, GotoType DEF CheckRear, Places, Ops
        <5>2. CASE ~fault["rear"]
          BY <3>6, <5>2, SendType, ZeroIsLevel, LimitsAreValid DEF CheckRear, Ops
        <5>3. QED BY <5>1, <5>2
      <4>2. QED BY <3>6, <4>1 DEF CheckRear, TypeOK
    <3>7. CASE Unlatch(t)
      <4>1. th' \in [Threads -> ThreadState] BY <3>7, GotoType DEF Unlatch, Places, Ops
      <4>2. QED BY <3>7, <4>1, ZeroIsAge DEF Unlatch, TypeOK
    <3>8. CASE SmoothStopEnd(t)
      <4>1. th' \in [Threads -> ThreadState]
        BY <3>8, GotoType DEF SmoothStopEnd, Places, Ops
      <4>2. QED BY <3>8, <4>1 DEF SmoothStopEnd, TypeOK
    <3>9. CASE StopAtEnd(t)
      BY <3>9, StopType DEF StopAtEnd
    <3>10. CASE MoveDeadline(t)
      <4>1. th' \in [Threads -> ThreadState] BY <3>10, GotoType DEF MoveDeadline, Places, Ops
      <4>2. QED BY <3>10, <4>1 DEF MoveDeadline, TypeOK
    <3>11. CASE MoveFinally(t)
      <4>1. th' \in [Threads -> ThreadState] BY <3>11, GotoType DEF MoveFinally, Places, Ops
      <4>2. QED BY <3>11, <4>1 DEF MoveFinally, TypeOK
    <3>12. QED
      BY <2>2, <3>1, <3>2, <3>3, <3>4, <3>5, <3>6, <3>7, <3>8, <3>9, <3>10, <3>11
      DEF CallerProgress
  <2>3. ASSUME NEW t \in Apps, CallerBegins(t)
        PROVE  TypeOK'
    <3> t \in Threads BY DEF Threads
    <3> Receiver \in Threads BY DEF Threads
    <3> th[t] \in ThreadState BY DEF TypeOK
    <3> th[t].op \in Ops /\ th[t].cmd \in Levels BY DEF ThreadState
    <3> "estop" \in Ops /\ "interrupted" \in Ops BY DEF Ops
    <3>1. CASE Connect(t)
      <4>1. Sending("connect", UnlockReps, 0) \in ThreadState
        BY SendingIsThreadState, ZeroIsLevel, LimitsAreValid DEF Ops
      <4>2. At(Receiver, "recv", "none") \in ThreadState
        BY AtIsThreadState DEF Places, Ops
      <4>3. th' \in [Threads -> ThreadState] BY <3>1, <4>1, <4>2 DEF Connect, TypeOK
      <4>4. QED BY <3>1, <4>3 DEF Connect, TypeOK
    <3>2. CASE Close(t)
      <4>1. th' \in [Threads -> ThreadState]
        <5>1. CASE connected
          BY <3>2, <5>1, SendType, ZeroIsLevel, LimitsAreValid DEF Close, Ops
        <5>2. CASE ~connected
          BY <3>2, <5>2, GotoType DEF Close, Places, Ops
        <5>3. QED BY <5>1, <5>2
      <4>2. QED BY <3>2, <4>1, ZeroIsLevel DEF Close, TypeOK
    <3>3. CASE StopCall(t) BY <3>3, StopType DEF StopCall
    <3>4. CASE EmergencyStopCall(t) BY <3>4, EmergencyStopType DEF EmergencyStopCall
    <3>5. CASE SmoothStop(t)
      <4>1. th' \in [Threads -> ThreadState] BY <3>5, GotoType DEF SmoothStop, Places, Ops
      <4>2. QED BY <3>5, <4>1, ZeroIsLevel, LimitsAreValid DEF SmoothStop, TypeOK
    <3>6. CASE ClearEmergencyStop(t)
      <4>1. th' \in [Threads -> ThreadState]
        BY <3>6, GotoType DEF ClearEmergencyStop, Places, Ops
      <4>2. QED BY <3>6, <4>1 DEF ClearEmergencyStop, TypeOK
    <3>7. CASE MoveRefresh(t)
      BY <3>7, LimitsAreValid DEF MoveRefresh, SetMotion, TypeOK
    <3>8. CASE MoveInterrupted(t) BY <3>8, EmergencyStopType DEF MoveInterrupted
    <3>9. ASSUME NEW v \in Commands, SetCommands(t, v) PROVE TypeOK'
      BY <3>9, LimitsAreValid DEF SetCommands, SetMotion, TypeOK, Levels
    <3>10. ASSUME NEW v \in Commands, MoveFor(t, v) PROVE TypeOK'
      <4>1. v \in Levels BY LimitsAreValid DEF Levels
      <4>2. [pc |-> "moving", op |-> "move", left |-> 0, cmd |-> v] \in ThreadState
        BY <4>1 DEF ThreadState, Places, Ops
      <4>3. QED BY <3>10, <4>2 DEF MoveFor, TypeOK
    <3>11. QED
      BY <2>3, <3>1, <3>2, <3>3, <3>4, <3>5, <3>6, <3>7, <3>8, <3>9, <3>10 DEF CallerBegins
  <2>4. ASSUME NEW l \in Loops, LoopProgress(l)
        PROVE  TypeOK'
    <3> l \in Threads BY DEF Threads
    <3>1. CASE Progress(l) BY <2>1, <3>1
    <3>2. CASE Tick(l)
      <4>1. current' \in Levels BY <3>2, RampStepInRange, ZeroIsLevel DEF Tick, TypeOK
      <4>2. th' \in [Threads -> ThreadState] BY <3>2, <4>1, SendType DEF Tick, Ops
      <4>3. QED BY <3>2, <4>1, <4>2 DEF Tick, TypeOK
    <3>3. CASE LoopEnds(l)
      <4>1. th' \in [Threads -> ThreadState] BY <3>3, GotoType DEF LoopEnds, Places, Ops
      <4>2. QED BY <3>3, <4>1 DEF LoopEnds, TypeOK
    <3>4. CASE LoopLostLink(l) BY <3>4, EmergencyStopType DEF LoopLostLink, Ops
    <3>5. QED BY <2>4, <3>1, <3>2, <3>3, <3>4 DEF LoopProgress
  <2>5. CASE ReceiverProgress
    <3> Receiver \in Threads BY DEF Threads
    <3> QED BY <2>1, <2>5, EmergencyStopType DEF ReceiverProgress, OnFault, Ops
  <2>6. ASSUME NEW d \in Drivers, NEW bad \in BOOLEAN, Feedback(d, bad)
        PROVE  TypeOK'
    <3> Receiver \in Threads BY DEF Threads
    <3>1. th' \in [Threads -> ThreadState]
      BY <2>6, GotoType DEF Feedback, Places, Ops, TypeOK
    <3>2. QED BY <2>6, <3>1 DEF Feedback, TypeOK
  <2>7. CASE LinkLost
    <3> Receiver \in Threads BY DEF Threads
    <3>1. th' \in [Threads -> ThreadState] BY <2>7, GotoType DEF LinkLost, Places, Ops
    <3>2. QED BY <2>7, <3>1 DEF LinkLost, TypeOK
  <2>8. CASE Clock
    BY <2>8, LimitsAreValid DEF Clock, TypeOK
  <2>9. CASE UNCHANGED vars
    BY <2>9 DEF vars, TypeOK
  <2>10. QED
    BY <2>2, <2>3, <2>4, <2>5, <2>6, <2>7, <2>8, <2>9 DEF Next
<1>3. QED
  BY <1>1, <1>2, PTL DEF Spec
-----------------------------------------------------------------------------
(* The latch                                                               *)

\* A latched emergency stop holds the target and the ramped speed at zero,
\* whichever threads call, tick or report faults at the same time.
THEOREM LatchHolds == Spec => []LatchedIsStill
<1> USE DEF LatchedIsStill
<1>1. Init => LatchedIsStill
  BY DEF Init
<1>2. LatchedIsStill /\ [Next]_vars => LatchedIsStill'
  <2> SUFFICES ASSUME LatchedIsStill, [Next]_vars PROVE LatchedIsStill'
    OBVIOUS
  <2> USE DEF Motion
  <2>1. ASSUME NEW t, Progress(t) PROVE LatchedIsStill'
    BY <2>1 DEF Progress, SendFront, SendRear, EndSleep, SendFails, Signal
  <2>2. ASSUME NEW t, NEW op, EmergencyStop(t, op) PROVE LatchedIsStill'
    BY <2>2 DEF EmergencyStop
  <2>3. ASSUME NEW t, Stop(t) PROVE LatchedIsStill'
    BY <2>3 DEF Stop
  <2>4. ASSUME NEW t \in Apps, CallerProgress(t) PROVE LatchedIsStill'
    BY <2>1, <2>3, <2>4
    DEF CallerProgress, Arm, StartLoop, Join, ClientJoin, CheckRear, Unlatch,
        SmoothStopEnd, StopAtEnd, MoveDeadline, MoveFinally
  <2>5. ASSUME NEW t \in Apps, CallerBegins(t) PROVE LatchedIsStill'
    BY <2>2, <2>3, <2>5
    DEF CallerBegins, Connect, Close, StopCall, EmergencyStopCall, SmoothStop,
        ClearEmergencyStop, MoveRefresh, MoveInterrupted, SetCommands, SetMotion, Ready, MoveFor
  <2>6. ASSUME NEW l \in Loops, LoopProgress(l) PROVE LatchedIsStill'
    BY <2>1, <2>2, <2>6 DEF LoopProgress, Tick, LoopEnds, LoopLostLink
  <2>7. ASSUME ReceiverProgress PROVE LatchedIsStill'
    BY <2>1, <2>2, <2>7 DEF ReceiverProgress, OnFault
  <2>8. ASSUME NEW d \in Drivers, NEW bad \in BOOLEAN, Feedback(d, bad) PROVE LatchedIsStill'
    BY <2>8 DEF Feedback
  <2>9. CASE LinkLost BY <2>9 DEF LinkLost
  <2>10. CASE Clock BY <2>10 DEF Clock
  <2>11. CASE UNCHANGED vars BY <2>11 DEF vars
  <2>12. QED
    BY <2>4, <2>5, <2>6, <2>7, <2>8, <2>9, <2>10, <2>11 DEF Next
<1>3. QED
  BY <1>1, <1>2, PTL DEF Spec
-----------------------------------------------------------------------------
(* Where threads may be: which call a thread at a place is in, and that no  *)
(* thread but a control loop has anything but zeros to send.               *)

CallerInPlace(t, s) ==
  /\ s.pc \notin {"dead", "loop", "lost", "off", "recv", "callback"}
  /\ s.op \in {"connect", "close"} => t = Owner
  /\ s.pc = "idle" => s.op = "none"
  /\ s.pc \in {"arm", "start"} => s.op = "connect"
  /\ s.pc \in {"signal", "join"} => s.op = "close"
  /\ s.pc = "clientJoin" => s.op \in {"connect", "close"}
  /\ s.pc \in {"checkRear", "unlatch"} => s.op = "clear"
  /\ s.pc \in {"moving", "easing", "finally", "stopping"} => s.op \in {"move", "ease", "interrupted"}
  /\ s.pc \in {"front", "rear", "sleep"} =>
       s.op \in {"connect", "close", "clear", "stop", "estop", "interrupted"} /\ s.cmd = 0
  /\ s.pc = "moving" => s.cmd \in Commands

LoopInPlace(s) ==
  /\ s.pc \in {"dead", "loop", "front", "rear", "sleep", "lost", "signal"}
  /\ s.pc \in {"dead", "loop"} => s.op = "none"
  /\ s.pc \in {"front", "rear"} => s.op \in {"tick", "lost"}
  /\ s.pc = "sleep" => s.op = "lost"
  /\ s.pc = "lost" => s.op = "tick"
  /\ s.pc = "signal" => s.op = "lost"

ReceiverInPlace(s) ==
  /\ s.pc \in {"off", "recv", "callback", "front", "rear", "sleep"}
  /\ s.pc \in {"off", "recv"} => s.op = "none"
  /\ s.pc \in {"callback", "front", "rear", "sleep"} => s.op = "fault"
  /\ s.pc \in {"front", "rear", "sleep"} => s.cmd = 0

InPlace(t, s) ==
  /\ t \in Apps => CallerInPlace(t, s)
  /\ t \in Loops => LoopInPlace(s)
  /\ t = Receiver => ReceiverInPlace(s)

ThreadsInPlace == \A t \in Threads : InPlace(t, th[t])

\* A thread that moves to a place of its own leaves the others where they are.
LEMMA MoveInPlace ==
  ASSUME TypeOK, ThreadsInPlace, NEW t \in Threads, NEW s, InPlace(t, s),
         th' = [th EXCEPT ![t] = s]
  PROVE  ThreadsInPlace'
BY DEF ThreadsInPlace, TypeOK

\* The three kinds of thread are different threads.
LEMMA Kinds ==
  ASSUME NEW t
  PROVE  /\ t \in Apps => t \notin Loops /\ t # Receiver
         /\ t \in Loops => t \notin Apps /\ t # Receiver
         /\ t = Receiver => t \notin Apps /\ t \notin Loops
BY ThreadsAreDistinct

\* An emergency stop takes a caller, a loop or the receiver to the burst, or to
\* where that thread goes on without one.
LEMMA EmergencyStopInPlace ==
  ASSUME TypeOK, ThreadsInPlace, NEW t \in Threads, NEW op, EmergencyStop(t, op),
         \/ t \in Apps /\ op \in {"estop", "interrupted"}
         \/ t \in Loops /\ op = "lost"
         \/ t = Receiver /\ op = "fault"
  PROVE  ThreadsInPlace'
<1>1. InPlace(t, Sending(op, EStopReps, 0))
  BY Kinds DEF InPlace, CallerInPlace, LoopInPlace, ReceiverInPlace, Sending
<1>2. InPlace(t, At(t, Sent(t, op), op))
  BY Kinds DEF InPlace, CallerInPlace, LoopInPlace, ReceiverInPlace, At, Sent, Home
<1>3. QED
  BY <1>1, <1>2, MoveInPlace DEF EmergencyStop, Goto, Send

LEMMA StopInPlace ==
  ASSUME TypeOK, ThreadsInPlace, NEW t \in Apps, Stop(t)
  PROVE  ThreadsInPlace'
<1>1. t \in Threads BY DEF Threads
<1>2. InPlace(t, Sending("stop", 1, 0)) /\ InPlace(t, At(t, "idle", "none"))
  BY Kinds DEF InPlace, CallerInPlace, Sending, At, Home
<1>3. QED
  BY <1>1, <1>2, MoveInPlace DEF Stop, Goto, Send

LEMMA ProgressInPlace ==
  ASSUME TypeOK, ThreadsInPlace, NEW t \in Threads, Progress(t)
  PROVE  ThreadsInPlace'
<1> USE Kinds DEF InPlace, CallerInPlace, LoopInPlace, ReceiverInPlace
<1> DEFINE s == th[t]
<1>0. InPlace(t, s) /\ s \in ThreadState /\ (t \in Apps \/ t \in Loops \/ t = Receiver)
  BY DEF ThreadsInPlace, TypeOK, Threads
<1>1. CASE SendFront(t)
  <2>1. InPlace(t, [s EXCEPT !.pc = "rear"]) BY <1>0, <1>1 DEF SendFront, ThreadState
  <2>2. th' = [th EXCEPT ![t] = [s EXCEPT !.pc = "rear"]] BY <1>1 DEF SendFront
  <2>3. QED BY <2>1, <2>2, MoveInPlace
<1>2. CASE SendRear(t)
  <2>1. CASE s.op \in {"stop", "tick"}
    <3>1. InPlace(t, At(t, Sent(t, s.op), s.op)) BY <1>0, <1>2, <2>1 DEF SendRear, At, Sent, Home
    <3>2. QED BY <1>2, <2>1, <3>1, MoveInPlace DEF SendRear, Goto
  <2>2. CASE s.op \notin {"stop", "tick"}
    <3>1. InPlace(t, [s EXCEPT !.pc = "sleep"]) BY <1>0, <1>2, <2>2 DEF SendRear, ThreadState
    <3>2. th' = [th EXCEPT ![t] = [s EXCEPT !.pc = "sleep"]] BY <1>2, <2>2 DEF SendRear
    <3>3. QED BY <3>1, <3>2, MoveInPlace
  <2>3. QED BY <2>1, <2>2
<1>3. CASE EndSleep(t)
  <2>1. InPlace(t, Sending(s.op, s.left - 1, 0)) BY <1>0, <1>3 DEF EndSleep, Sending
  <2>2. InPlace(t, At(t, Sent(t, s.op), s.op)) BY <1>0, <1>3 DEF EndSleep, At, Sent, Home
  <2>3. QED BY <1>3, <2>1, <2>2, MoveInPlace DEF EndSleep, Goto, Send
<1>4. CASE SendFails(t)
  <2>1. InPlace(t, At(t, Raised(t, s.op), s.op)) BY <1>0, <1>4 DEF SendFails, At, Raised, Home
  <2>2. QED BY <1>4, <2>1, MoveInPlace DEF SendFails, Goto
<1>5. CASE Signal(t)
  <2>1. InPlace(t, At(t, IF t \in Loops THEN "dead" ELSE "join", s.op))
    BY <1>0, <1>5 DEF Signal, At, Home
  <2>2. QED BY <1>5, <2>1, MoveInPlace DEF Signal, Goto
<1>6. QED BY <1>1, <1>2, <1>3, <1>4, <1>5 DEF Progress

\* Every thread is where its call may take it.
THEOREM InPlaceHolds == Spec => []ThreadsInPlace
<1>1. Init => ThreadsInPlace
  <2> SUFFICES ASSUME Init, NEW t \in Threads PROVE InPlace(t, th[t])
    BY DEF ThreadsInPlace
  <2> QED
    BY Kinds DEF Init, InPlace, CallerInPlace, LoopInPlace, ReceiverInPlace, At, Home, Threads
<1>2. TypeOK /\ ThreadsInPlace /\ [Next]_vars => ThreadsInPlace'
  <2> SUFFICES ASSUME TypeOK, ThreadsInPlace, [Next]_vars PROVE ThreadsInPlace'
    OBVIOUS
  <2> USE Kinds DEF InPlace, CallerInPlace, LoopInPlace, ReceiverInPlace
  <2>1. ASSUME NEW t \in Apps, CallerProgress(t) PROVE ThreadsInPlace'
    <3>0. t \in Threads /\ Receiver \in Threads /\ InPlace(t, th[t])
      BY DEF ThreadsInPlace, Threads
    <3>1. CASE Progress(t) BY <3>0, <3>1, ProgressInPlace
    <3>2. CASE Arm(t)
      <4>1. InPlace(t, At(t, "start", "connect")) BY <3>0, <3>2 DEF Arm, At, Home
      <4>2. QED BY <3>0, <3>2, <4>1, MoveInPlace DEF Arm, Goto
    <3>3. CASE StartLoop(t)
      <4>1. PICK l \in Loops :
              th' = [th EXCEPT ![t] = At(t, "idle", "none"), ![l] = At(l, "loop", "none")]
        BY <3>3 DEF StartLoop
      <4>2. InPlace(t, At(t, "idle", "none")) /\ InPlace(l, At(l, "loop", "none"))
        BY <3>0, <3>3 DEF StartLoop, At, Home
      <4>3. t \in Threads /\ l \in Threads BY DEF Threads
      <4>4. QED BY <4>1, <4>2, <4>3 DEF ThreadsInPlace, TypeOK
    <3>4. CASE Join(t)
      <4>1. InPlace(t, At(t, "clientJoin", th[t].op)) BY <3>0, <3>4 DEF Join, At, Home
      <4>2. QED BY <3>0, <3>4, <4>1, MoveInPlace DEF Join, Goto
    <3>5. CASE ClientJoin(t)
      <4>1. InPlace(t, At(t, "idle", "none")) /\ InPlace(Receiver, At(Receiver, "off", "none"))
        BY <3>0, <3>5 DEF ClientJoin, At, Home
      <4>2. th' = [th EXCEPT ![t] = At(t, "idle", "none"), ![Receiver] = At(Receiver, "off", "none")]
        BY <3>5 DEF ClientJoin
      <4>3. QED BY <3>0, <4>1, <4>2 DEF ThreadsInPlace, TypeOK
    <3>6. CASE CheckRear(t)
      <4>1. InPlace(t, At(t, "idle", "none")) /\ InPlace(t, Sending("clear", UnlockReps, 0))
        BY <3>0, <3>6 DEF CheckRear, At, Home, Sending
      <4>2. QED BY <3>0, <3>6, <4>1, MoveInPlace DEF CheckRear, Goto, Send
    <3>7. CASE Unlatch(t)
      <4>1. InPlace(t, At(t, "idle", "none")) BY <3>0, <3>7 DEF Unlatch, At, Home
      <4>2. QED BY <3>0, <3>7, <4>1, MoveInPlace DEF Unlatch, Goto
    <3>8. CASE SmoothStopEnd(t)
      <4>1. InPlace(t, At(t, "idle", "none")) /\ InPlace(t, At(t, "stopping", "ease"))
        BY <3>0, <3>8 DEF SmoothStopEnd, At, Home
      <4>2. QED BY <3>0, <3>8, <4>1, MoveInPlace DEF SmoothStopEnd, Goto
    <3>9. CASE StopAtEnd(t) BY <3>9, StopInPlace DEF StopAtEnd
    <3>10. CASE MoveDeadline(t)
      <4>1. InPlace(t, At(t, "finally", "move")) BY <3>0, <3>10 DEF MoveDeadline, At, Home
      <4>2. QED BY <3>0, <3>10, <4>1, MoveInPlace DEF MoveDeadline, Goto
    <3>11. CASE MoveFinally(t)
      <4>1. InPlace(t, At(t, "idle", "none")) /\ InPlace(t, At(t, "stopping", "move"))
        BY <3>0, <3>11 DEF MoveFinally, At, Home
      <4>2. QED BY <3>0, <3>11, <4>1, MoveInPlace DEF MoveFinally, Goto
    <3>12. QED
      BY <2>1, <3>1, <3>2, <3>3, <3>4, <3>5, <3>6, <3>7, <3>8, <3>9, <3>10, <3>11
      DEF CallerProgress
  <2>2. ASSUME NEW t \in Apps, CallerBegins(t) PROVE ThreadsInPlace'
    <3>0. t \in Threads /\ Receiver \in Threads /\ InPlace(t, th[t]) /\ InPlace(Receiver, th[Receiver])
      BY DEF ThreadsInPlace, Threads
    <3>1. CASE Connect(t)
      <4>1. InPlace(t, Sending("connect", UnlockReps, 0)) BY <3>0, <3>1 DEF Connect, Sending
      <4>2. InPlace(Receiver, IF th[Receiver].pc = "off" THEN At(Receiver, "recv", "none") ELSE th[Receiver])
        BY <3>0 DEF At, Home
      <4>3. t # Receiver BY ThreadsAreDistinct
      <4>4. th' = [th EXCEPT ![t] = Sending("connect", UnlockReps, 0),
                             ![Receiver] = IF th[Receiver].pc = "off" THEN At(Receiver, "recv", "none")
                                           ELSE th[Receiver]]
        BY <3>0, <3>1, <4>3 DEF Connect, TypeOK
      <4>5. QED BY <3>0, <4>1, <4>2, <4>4 DEF ThreadsInPlace, TypeOK
    <3>2. CASE Close(t)
      <4>1. InPlace(t, At(t, "signal", "close")) /\ InPlace(t, Sending("close", StopReps, 0))
        BY <3>0, <3>2 DEF Close, At, Home, Sending
      <4>2. QED BY <3>0, <3>2, <4>1, MoveInPlace DEF Close, Goto, Send
    <3>3. CASE StopCall(t) BY <3>3, StopInPlace DEF StopCall
    <3>4. CASE EmergencyStopCall(t) BY <3>0, <3>4, EmergencyStopInPlace DEF EmergencyStopCall
    <3>5. CASE SmoothStop(t)
      <4>1. InPlace(t, At(t, "easing", "ease")) BY <3>0, <3>5 DEF SmoothStop, At, Home
      <4>2. QED BY <3>0, <3>5, <4>1, MoveInPlace DEF SmoothStop, Goto
    <3>6. CASE ClearEmergencyStop(t)
      <4>1. InPlace(t, At(t, "checkRear", "clear")) BY <3>0, <3>6 DEF ClearEmergencyStop, At, Home
      <4>2. QED BY <3>0, <3>6, <4>1, MoveInPlace DEF ClearEmergencyStop, Goto
    <3>7. CASE MoveRefresh(t) BY <3>7 DEF MoveRefresh, ThreadsInPlace
    <3>8. CASE MoveInterrupted(t) BY <3>0, <3>8, EmergencyStopInPlace DEF MoveInterrupted
    <3>9. ASSUME NEW v \in Commands, SetCommands(t, v) PROVE ThreadsInPlace'
      BY <3>9 DEF SetCommands, ThreadsInPlace
    <3>10. ASSUME NEW v \in Commands, MoveFor(t, v) PROVE ThreadsInPlace'
      <4> DEFINE m == [pc |-> "moving", op |-> "move", left |-> 0, cmd |-> v]
      <4>1. InPlace(t, m) BY <3>0
      <4>2. th' = [th EXCEPT ![t] = m] BY <3>10 DEF MoveFor
      <4>3. QED BY <3>0, <4>1, <4>2, MoveInPlace
    <3>11. QED
      BY <2>2, <3>1, <3>2, <3>3, <3>4, <3>5, <3>6, <3>7, <3>8, <3>9, <3>10 DEF CallerBegins
  <2>3. ASSUME NEW l \in Loops, LoopProgress(l) PROVE ThreadsInPlace'
    <3>0. l \in Threads /\ InPlace(l, th[l]) BY DEF ThreadsInPlace, Threads
    <3>1. CASE Progress(l) BY <3>0, <3>1, ProgressInPlace
    <3>2. CASE Tick(l)
      <4>1. InPlace(l, Sending("tick", 1, current')) BY DEF Sending
      <4>2. QED BY <3>0, <3>2, <4>1, MoveInPlace DEF Tick, Send
    <3>3. CASE LoopEnds(l)
      <4>1. InPlace(l, At(l, "dead", "none")) BY DEF At, Home
      <4>2. QED BY <3>0, <3>3, <4>1, MoveInPlace DEF LoopEnds, Goto
    <3>4. CASE LoopLostLink(l) BY <3>0, <3>4, EmergencyStopInPlace DEF LoopLostLink
    <3>5. QED BY <2>3, <3>1, <3>2, <3>3, <3>4 DEF LoopProgress
  <2>4. CASE ReceiverProgress
    <3>0. Receiver \in Threads BY DEF Threads
    <3>1. QED BY <2>4, <3>0, ProgressInPlace, EmergencyStopInPlace DEF ReceiverProgress, OnFault
  <2>5. ASSUME NEW d \in Drivers, NEW bad \in BOOLEAN, Feedback(d, bad) PROVE ThreadsInPlace'
    <3>0. Receiver \in Threads BY DEF Threads
    <3>1. InPlace(Receiver, At(Receiver, "callback", "fault")) BY DEF At, Home
    <3>2. CASE bad BY <2>5, <3>0, <3>1, <3>2, MoveInPlace DEF Feedback, Goto
    <3>3. CASE ~bad BY <2>5, <3>3 DEF Feedback, ThreadsInPlace
    <3>4. QED BY <3>2, <3>3
  <2>6. CASE LinkLost
    <3>0. Receiver \in Threads BY DEF Threads
    <3>1. InPlace(Receiver, At(Receiver, "off", "none")) BY DEF At, Home
    <3>2. QED BY <2>6, <3>0, <3>1, MoveInPlace DEF LinkLost, Goto
  <2>7. CASE Clock BY <2>7 DEF Clock, ThreadsInPlace
  <2>8. CASE UNCHANGED vars BY <2>8 DEF vars, ThreadsInPlace
  <2>9. QED
    BY <2>1, <2>2, <2>3, <2>4, <2>5, <2>6, <2>7, <2>8 DEF Next
<1>3. QED
  BY <1>1, <1>2, TypeCorrect, PTL DEF Spec
-----------------------------------------------------------------------------
(* Refinement of MotionContract                                            *)

\* Every step of the threads is a step of the contract, or none of its business.
THEOREM VehicleImplementsContract == Spec => ImplementsContract
<1> USE DEF Motion, Session, Contract!vars
<1>1. Init => Contract!Init
  BY DEF Init, Contract!Init
<1>2. TypeOK /\ ThreadsInPlace /\ LatchedIsStill /\ [Next]_vars => [Contract!Next]_(Contract!vars)
  <2> SUFFICES ASSUME TypeOK, ThreadsInPlace, LatchedIsStill, [Next]_vars
               PROVE  [Contract!Next]_(Contract!vars)
    OBVIOUS
  <2>1. ASSUME NEW t, Progress(t) PROVE [Contract!Next]_(Contract!vars)
    BY <2>1
    DEF Progress, SendFront, SendRear, EndSleep, SendFails, Signal, Contract!Next, Contract!LinkDown
  <2>2. ASSUME NEW t, NEW op, EmergencyStop(t, op) PROVE Contract!Next
    BY <2>2 DEF EmergencyStop, Contract!Next, Contract!Latch
  <2>3. ASSUME NEW t, Stop(t) PROVE Contract!Next
    BY <2>3 DEF Stop, Contract!Next, Contract!Halt
  <2>4. ASSUME NEW v \in Commands, SetMotion(v) PROVE Contract!Next
    BY <2>4 DEF SetMotion, Ready, Contract!Next, Contract!Command
  <2>5. ASSUME NEW t \in Apps, CallerProgress(t) PROVE [Contract!Next]_(Contract!vars)
    <3>1. CASE Progress(t) BY <2>1, <3>1
    <3>2. CASE Arm(t) BY <3>2 DEF Arm, Contract!Next, Contract!Arm
    <3>3. CASE StartLoop(t) BY <3>3 DEF StartLoop
    <3>4. CASE Join(t) BY <3>4 DEF Join, Contract!Next, Contract!LinkDown
    <3>5. CASE ClientJoin(t) BY <3>5 DEF ClientJoin, Contract!Next, Contract!LinkDown
    <3>6. CASE Unlatch(t) BY <3>6 DEF Unlatch, Contract!Next, Contract!Unlatch
    <3>7. CASE StopAtEnd(t) BY <2>3, <3>7 DEF StopAtEnd
    <3>8. CASE CheckRear(t) \/ SmoothStopEnd(t) \/ MoveDeadline(t) \/ MoveFinally(t)
      BY <3>8 DEF CheckRear, SmoothStopEnd, MoveDeadline, MoveFinally
    <3>9. QED
      BY <2>5, <3>1, <3>2, <3>3, <3>4, <3>5, <3>6, <3>7, <3>8 DEF CallerProgress
  <2>6. ASSUME NEW t \in Apps, CallerBegins(t) PROVE [Contract!Next]_(Contract!vars)
    <3>1. CASE Connect(t) BY <3>1 DEF Connect, Contract!Next, Contract!LinkUp
    <3>2. CASE Close(t) BY <3>2 DEF Close, Contract!Next, Contract!Latch
    <3>3. CASE StopCall(t) BY <2>3, <3>3 DEF StopCall
    <3>4. CASE EmergencyStopCall(t) BY <2>2, <3>4 DEF EmergencyStopCall
    <3>5. CASE SmoothStop(t) BY <3>5 DEF SmoothStop, Contract!Next, Contract!Ease
    <3>6. CASE ClearEmergencyStop(t) BY <3>6 DEF ClearEmergencyStop
    <3>7. CASE MoveRefresh(t)
      <4>1. th[t].cmd \in Commands
        BY <3>7 DEF MoveRefresh, ThreadsInPlace, InPlace, CallerInPlace, Threads
      <4>2. QED BY <2>4, <3>7, <4>1 DEF MoveRefresh
    <3>8. CASE MoveInterrupted(t) BY <2>2, <3>8 DEF MoveInterrupted
    <3>9. ASSUME NEW v \in Commands, SetCommands(t, v) PROVE Contract!Next
      BY <2>4, <3>9 DEF SetCommands
    <3>10. ASSUME NEW v \in Commands, MoveFor(t, v) PROVE UNCHANGED Contract!vars
      BY <3>10 DEF MoveFor
    <3>11. QED
      BY <2>6, <3>1, <3>2, <3>3, <3>4, <3>5, <3>6, <3>7, <3>8, <3>9, <3>10 DEF CallerBegins
  <2>7. ASSUME NEW l \in Loops, LoopProgress(l) PROVE [Contract!Next]_(Contract!vars)
    <3>1. CASE Progress(l) BY <2>1, <3>1
    <3>2. CASE Tick(l)
      <4>1. CASE Stale \/ estop
        BY <3>2, <4>1 DEF Tick, Contract!Next, Contract!Cut
      <4>2. CASE ~(Stale \/ estop)
        <5>1. RampStep(current, target) = Contract!RampStep(current, target)
          BY DEF RampStep, Accelerating, Size, Contract!RampStep, Contract!Accelerating, Contract!Size
        <5>2. QED BY <3>2, <4>2, <5>1 DEF Tick, Contract!Next, Contract!Approach
      <4>3. QED BY <4>1, <4>2
    <3>3. CASE LoopEnds(l) BY <3>3 DEF LoopEnds
    <3>4. CASE LoopLostLink(l) BY <2>2, <3>4 DEF LoopLostLink
    <3>5. QED BY <2>7, <3>1, <3>2, <3>3, <3>4 DEF LoopProgress
  <2>8. CASE ReceiverProgress
    BY <2>1, <2>2, <2>8 DEF ReceiverProgress, OnFault
  <2>9. ASSUME NEW d \in Drivers, NEW bad \in BOOLEAN, Feedback(d, bad)
        PROVE  UNCHANGED Contract!vars
    BY <2>9 DEF Feedback
  <2>10. CASE LinkLost BY <2>10 DEF LinkLost, Contract!Next, Contract!LinkDown
  <2>11. CASE Clock BY <2>11 DEF Clock
  <2>12. CASE UNCHANGED vars BY <2>12 DEF vars
  <2>13. QED
    BY <2>5, <2>6, <2>7, <2>8, <2>9, <2>10, <2>11, <2>12 DEF Next
<1>3. QED
  BY <1>1, <1>2, TypeCorrect, InPlaceHolds, LatchHolds, PTL DEF Spec, ImplementsContract, Contract!Spec
-----------------------------------------------------------------------------
(* Sessions, when the owner closes before it connects again                *)

LinkLoopGoesOn ==
  connected /\ ~InCall(Owner, "connect") /\ ~InCall(Owner, "close") =>
    ~stopEvent /\ handle # NoThread /\ Alive(handle)

LosersAreOffline ==
  \A l \in Loops :
    /\ th[l].op = "lost" => th[l].pc = "signal"
    /\ th[l].pc \in {"lost", "signal"} => ~connected

SessionInv ==
  /\ InCall(Owner, "connect") => handle = NoThread
  /\ OneControlLoop
  /\ LosersAreOffline
  /\ LinkLoopGoesOn

\* Steps of callers and of the receiver that start and end no session: they move
\* one thread, which is no loop and leaves no connect or close behind.
LEMMA OtherThreadsKeepSession ==
  ASSUME TypeOK, ThreadsInPlace, SessionInv, NEW t \in Threads \ Loops, NEW s,
         th' = [th EXCEPT ![t] = s],
         s.op = "connect" <=> th[t].op = "connect",
         s.op = "close" <=> th[t].op = "close",
         connected' \in {connected, FALSE},
         UNCHANGED Session
  PROVE  SessionInv'
<1>1. \A u \in Loops : th'[u] = th[u] BY DEF TypeOK, Threads
<1>2. Owner \in Threads BY ThreadsAreDistinct DEF Threads
<1>3. /\ InCall(Owner, "connect")' <=> InCall(Owner, "connect")
      /\ InCall(Owner, "close")' <=> InCall(Owner, "close")
  BY <1>2 DEF TypeOK, InCall
<1>4. handle # NoThread => handle \in Loops BY DEF TypeOK
<1>5. connected' => connected BY DEF TypeOK
<1>6. OneControlLoop' BY <1>1 DEF SessionInv, OneControlLoop, Alive, Session
<1>7. LosersAreOffline' BY <1>1, <1>5 DEF SessionInv, LosersAreOffline
<1>8. LinkLoopGoesOn' BY <1>1, <1>3, <1>4, <1>5 DEF SessionInv, LinkLoopGoesOn, Alive, Session
<1>9. QED BY <1>3, <1>6, <1>7, <1>8 DEF SessionInv, Session

LEMMA EmergencyStopKeepsSession ==
  ASSUME TypeOK, ThreadsInPlace, SessionInv, NEW t \in Threads \ Loops, NEW op,
         EmergencyStop(t, op), th[t].op \notin {"connect", "close"},
         op \in {"estop", "interrupted", "fault"}
  PROVE  SessionInv'
<1>1. Sending(op, EStopReps, 0).op \notin {"connect", "close"} BY DEF Sending
<1>2. At(t, Sent(t, op), op).op \notin {"connect", "close"} BY DEF At
<1>3. CASE ~estop /\ connected
  BY <1>1, <1>3, OtherThreadsKeepSession DEF EmergencyStop, Send
<1>4. CASE ~(~estop /\ connected)
  BY <1>2, <1>4, OtherThreadsKeepSession DEF EmergencyStop, Goto
<1>5. QED BY <1>3, <1>4

LEMMA StopKeepsSession ==
  ASSUME TypeOK, ThreadsInPlace, SessionInv, NEW t \in Threads \ Loops, Stop(t),
         th[t].op \notin {"connect", "close"}
  PROVE  SessionInv'
<1>1. /\ Sending("stop", 1, 0).op \notin {"connect", "close"}
      /\ At(t, "idle", "none").op \notin {"connect", "close"}
  BY DEF Sending, At
<1>2. CASE connected BY <1>1, <1>2, OtherThreadsKeepSession DEF Stop, Send
<1>3. CASE ~connected BY <1>1, <1>3, OtherThreadsKeepSession DEF Stop, Goto
<1>4. QED BY <1>2, <1>3

\* Frames of callers and of the receiver: a burst ends inside its own call.
LEMMA FramesKeepSession ==
  ASSUME TypeOK, ThreadsInPlace, SessionInv, NEW t \in Threads \ Loops, Progress(t)
  PROVE  SessionInv'
<1> DEFINE s == th[t]
           Next1 == At(t, Sent(t, s.op), s.op)
           Next2 == At(t, Raised(t, s.op), s.op)
<1>0. InPlace(t, s) /\ (t \in Apps \/ t = Receiver) /\ s \in ThreadState
  BY DEF ThreadsInPlace, Threads, TypeOK
<1>1. s.op \in {"connect", "close"} => t = Owner /\ t \in Apps
  <2>1. s.pc \in {"front", "rear", "sleep", "signal"}
    BY DEF Progress, SendFront, SendRear, EndSleep, SendFails, Signal
  <2>2. QED BY <1>0, <2>1, Kinds DEF InPlace, CallerInPlace, ReceiverInPlace
<1>2. ASSUME NEW pc, pc \in {Sent(t, s.op), Raised(t, s.op)}
      PROVE  /\ At(t, pc, s.op).op = "connect" <=> s.op = "connect"
             /\ At(t, pc, s.op).op = "close" <=> s.op = "close"
  BY <1>1, <1>2 DEF At, Sent, Raised, Home
<1>3. CASE SendFront(t)
  <2>1. th' = [th EXCEPT ![t] = [s EXCEPT !.pc = "rear"]] BY <1>3 DEF SendFront
  <2>2. [s EXCEPT !.pc = "rear"].op = s.op BY <1>0 DEF ThreadState
  <2>3. QED BY <1>3, <2>1, <2>2, OtherThreadsKeepSession DEF SendFront
<1>4. CASE SendRear(t)
  <2>1. CASE s.op \in {"stop", "tick"}
    BY <1>2, <1>4, <2>1, OtherThreadsKeepSession DEF SendRear, Goto
  <2>2. CASE s.op \notin {"stop", "tick"}
    <3>1. th' = [th EXCEPT ![t] = [s EXCEPT !.pc = "sleep"]] BY <1>4, <2>2 DEF SendRear
    <3>2. [s EXCEPT !.pc = "sleep"].op = s.op BY <1>0 DEF ThreadState
    <3>3. QED BY <1>4, <3>1, <3>2, OtherThreadsKeepSession DEF SendRear
  <2>3. QED BY <2>1, <2>2
<1>5. CASE EndSleep(t)
  <2>1. Sending(s.op, s.left - 1, 0).op = s.op BY DEF Sending
  <2>2. CASE s.left > 1
    BY <1>5, <2>1, <2>2, OtherThreadsKeepSession DEF EndSleep, Send
  <2>3. CASE ~(s.left > 1)
    BY <1>2, <1>5, <2>3, OtherThreadsKeepSession DEF EndSleep, Goto
  <2>4. QED BY <2>2, <2>3
<1>6. CASE SendFails(t)
  BY <1>2, <1>6, OtherThreadsKeepSession DEF SendFails, Goto
<1>7. CASE Signal(t)
  <2>1. s.op = "close" /\ t = Owner
    BY <1>0, <1>1, <1>7, Kinds DEF Signal, InPlace, CallerInPlace, ReceiverInPlace
  <2>2. th' = [th EXCEPT ![t] = At(t, "join", "close")] BY <1>7, <2>1 DEF Signal, Goto
  <2>3. At(t, "join", "close").op = "close" BY <1>1, <2>1 DEF At, Home
  <2>4. InCall(Owner, "close")' /\ ~InCall(Owner, "connect")'
    BY <2>1, <2>2, <2>3 DEF InCall, TypeOK
  <2>5. \A u \in Loops : th'[u] = th[u] BY <2>2 DEF TypeOK, Threads
  <2>6. QED
    BY <1>7, <2>4, <2>5
    DEF Signal, SessionInv, OneControlLoop, LosersAreOffline, LinkLoopGoesOn, Alive
<1>8. QED BY <1>3, <1>4, <1>5, <1>6, <1>7 DEF Progress

\* A control loop that goes on is the one connect() started last; it leaves only
\* when it is told to stop or after the link is gone.
LEMMA LoopsKeepSession ==
  ASSUME TypeOK, ThreadsInPlace, SessionInv, NEW l \in Loops, LoopProgress(l)
  PROVE  SessionInv'
<1> DEFINE s == th[l]
<1> USE Kinds DEF InPlace, LoopInPlace
<1>0. /\ l \in Threads /\ InPlace(l, s) /\ s \in ThreadState /\ Owner \in Threads /\ Owner # l
      /\ NoThread \notin Loops
  BY ThreadsAreDistinct DEF ThreadsInPlace, Threads, TypeOK
\* The loop at work is `handle'; if it goes on living, the session goes on as it was.
<1>1. ASSUME NEW n, th' = [th EXCEPT ![l] = n], s.pc # "dead", n.pc # "dead",
             n.op = "lost" => n.pc = "signal",
             n.pc \in {"lost", "signal"} => ~connected',
             connected' \in {connected, FALSE}, UNCHANGED Session
      PROVE  SessionInv'
  <2>1. /\ InCall(Owner, "connect")' <=> InCall(Owner, "connect")
        /\ InCall(Owner, "close")' <=> InCall(Owner, "close")
    BY <1>0, <1>1 DEF TypeOK, InCall
  <2>2. \A u \in Loops : th'[u] = IF u = l THEN n ELSE th[u] BY <1>1 DEF TypeOK, Threads
  <2>3. handle = l BY <1>1 DEF SessionInv, OneControlLoop, Alive
  <2>4. connected' => connected BY <1>1 DEF TypeOK
  <2>5. OneControlLoop' BY <1>1, <2>2, <2>3 DEF SessionInv, OneControlLoop, Alive, Session
  <2>6. LosersAreOffline' BY <1>1, <2>2, <2>4 DEF SessionInv, LosersAreOffline
  <2>7. LinkLoopGoesOn' BY <1>1, <2>1, <2>2, <2>3, <2>4 DEF SessionInv, LinkLoopGoesOn, Alive, Session
  <2>8. QED BY <1>1, <2>1, <2>5, <2>6, <2>7 DEF SessionInv, Session
<1>2. s.op = "lost" => s.pc = "signal" BY DEF SessionInv, LosersAreOffline
<1>3. CASE SendFront(l)
  <2> DEFINE n == [s EXCEPT !.pc = "rear"]
  <2>1. th' = [th EXCEPT ![l] = n] BY <1>3 DEF SendFront
  <2>2. n.pc = "rear" /\ n.op = s.op BY <1>0 DEF ThreadState
  <2>3. s.pc = "front" /\ UNCHANGED <<connected, Session>> BY <1>3 DEF SendFront
  <2> HIDE DEF n
  <2>4. QED BY <1>1, <1>2, <2>1, <2>2, <2>3
<1>4. CASE SendRear(l)
  <2> DEFINE n == At(l, "loop", "tick")
  <2>1. s.op = "tick" BY <1>0, <1>2, <1>4 DEF SendRear
  <2>2. th' = [th EXCEPT ![l] = n] BY <1>0, <1>4, <2>1 DEF SendRear, Goto, Sent, Home
  <2>3. n.pc = "loop" /\ n.op # "lost" BY DEF At
  <2>4. s.pc = "rear" /\ UNCHANGED <<connected, Session>> BY <1>4 DEF SendRear
  <2> HIDE DEF n
  <2>5. QED BY <1>1, <2>2, <2>3, <2>4
<1>5. CASE EndSleep(l)
  BY <1>0, <1>2, <1>5 DEF EndSleep
<1>6. CASE SendFails(l)
  <2>1. s.op = "tick" BY <1>0, <1>2, <1>6 DEF SendFails
  <2> DEFINE n == At(l, "lost", "tick")
  <2>2. th' = [th EXCEPT ![l] = n] BY <1>6, <2>1 DEF SendFails, Goto, Raised
  <2>3. n.pc = "lost" /\ n.op # "lost" BY DEF At
  <2>4. s.pc # "dead" /\ connected' = FALSE /\ UNCHANGED Session BY <1>6 DEF SendFails
  <2> HIDE DEF n
  <2>5. QED BY <1>1, <2>2, <2>3, <2>4
<1>7. CASE Signal(l) \/ LoopEnds(l)
  <2>1. stopEvent' /\ UNCHANGED <<connected, handle>> BY <1>7 DEF Signal, LoopEnds, Session
  <2>2. PICK op : th' = [th EXCEPT ![l] = At(l, "dead", op)] BY <1>7 DEF Signal, LoopEnds, Goto
  <2>3. At(l, "dead", op).pc = "dead" /\ At(l, "dead", op).op = "none" BY DEF At
  <2>4. /\ InCall(Owner, "connect")' <=> InCall(Owner, "connect")
        /\ InCall(Owner, "close")' <=> InCall(Owner, "close")
    BY <1>0, <2>2 DEF TypeOK, InCall
  <2>5. \A u \in Loops : u # l => th'[u] = th[u] BY <2>2 DEF TypeOK, Threads
  <2>6. th'[l].pc = "dead" /\ th'[l].op = "none" BY <1>0, <2>2, <2>3 DEF TypeOK
  <2>7. OneControlLoop' BY <2>1, <2>5, <2>6 DEF SessionInv, OneControlLoop, Alive
  <2>8. LosersAreOffline' BY <2>1, <2>5, <2>6 DEF SessionInv, LosersAreOffline
  <2>9. LinkLoopGoesOn'
    <3>1. CASE Signal(l)
      <4>1. ~connected BY <3>1 DEF Signal, SessionInv, LosersAreOffline
      <4>2. QED BY <2>1, <4>1 DEF LinkLoopGoesOn
    <3>2. CASE LoopEnds(l)
      <4>1. stopEvent BY <3>2 DEF LoopEnds
      <4>2. QED BY <2>1, <2>4, <4>1 DEF SessionInv, LinkLoopGoesOn
    <3>3. QED BY <1>7, <3>1, <3>2
  <2>10. QED BY <2>1, <2>4, <2>7, <2>8, <2>9 DEF SessionInv
<1>8. CASE Tick(l)
  <2> DEFINE n == Sending("tick", 1, current')
  <2>1. th' = [th EXCEPT ![l] = n] BY <1>8 DEF Tick, Send
  <2>2. n.pc = "front" /\ n.op = "tick" BY DEF Sending
  <2>3. s.pc = "loop" /\ UNCHANGED <<connected, Session>> BY <1>8 DEF Tick
  <2> HIDE DEF n
  <2>4. QED BY <1>1, <2>1, <2>2, <2>3
<1>9. CASE LoopLostLink(l)
  <2>1. ~connected BY <1>9 DEF LoopLostLink, SessionInv, LosersAreOffline
  <2> DEFINE n == At(l, "signal", "lost")
  <2>2. th' = [th EXCEPT ![l] = n] BY <1>9, <2>1 DEF LoopLostLink, EmergencyStop, Goto, Sent
  <2>3. n.pc = "signal" BY DEF At
  <2>4. s.pc = "lost" /\ UNCHANGED <<connected, Session>> BY <1>9 DEF LoopLostLink, EmergencyStop
  <2> HIDE DEF n
  <2>5. QED BY <1>1, <2>1, <2>2, <2>3, <2>4
<1>10. QED
  BY <1>3, <1>4, <1>5, <1>6, <1>7, <1>8, <1>9 DEF LoopProgress, Progress

\* The invariant of a session is kept by every step, if the owner closes first.
LEMMA SessionHolds ==
  ASSUME CloseFirst
  PROVE  Spec => []SessionInv
<1>1. Init => SessionInv
  <2> SUFFICES ASSUME Init PROVE SessionInv
    OBVIOUS
  <2>1. \A l \in Loops : th[l].pc = "dead" /\ th[l].op = "none"
    BY Kinds DEF Init, At, Threads
  <2>2. ~connected /\ handle = NoThread BY DEF Init
  <2>3. QED
    BY <2>1, <2>2 DEF SessionInv, OneControlLoop, LosersAreOffline, LinkLoopGoesOn, Alive
<1>2. TypeOK /\ ThreadsInPlace /\ SessionInv /\ [Next]_vars => SessionInv'
  <2> SUFFICES ASSUME TypeOK, ThreadsInPlace, SessionInv, [Next]_vars PROVE SessionInv'
    OBVIOUS
  <2>1. ASSUME NEW t \in Apps, CallerProgress(t) PROVE SessionInv'
    <3>0. /\ t \in Threads \ Loops /\ t # Receiver /\ Owner \in Threads /\ Receiver \in Threads \ Loops
          /\ CallerInPlace(t, th[t]) /\ \A u \in Loops : u # t /\ u # Receiver
      BY Kinds, ThreadsAreDistinct DEF ThreadsInPlace, InPlace, Threads
    <3> USE DEF CallerInPlace
    <3>1. CASE Progress(t) BY <3>0, <3>1, FramesKeepSession
    <3>2. CASE Arm(t)
      <4>1. At(t, "start", "connect").op = "connect" BY <2>1 DEF At, Home
      <4>2. th[t].op = "connect" BY <3>0, <3>2 DEF Arm
      <4>3. QED BY <3>0, <3>2, <4>1, <4>2, OtherThreadsKeepSession DEF Arm, Goto
    <3>3. CASE StartLoop(t)
      <4>1. t = Owner /\ handle = NoThread
        BY <3>0, <3>3 DEF StartLoop, SessionInv, InCall
      <4>2. \A u \in Loops : ~Alive(u) BY <4>1, ThreadsAreDistinct DEF SessionInv, OneControlLoop
      <4>3. PICK l \in Loops :
              /\ handle' = l
              /\ th' = [th EXCEPT ![t] = At(t, "idle", "none"), ![l] = At(l, "loop", "none")]
        BY <3>3 DEF StartLoop
      <4>4. At(l, "loop", "none").pc = "loop" /\ At(l, "loop", "none").op = "none"
        BY DEF At
      <4>5. /\ th'[l].pc = "loop" /\ th'[l].op = "none"
            /\ \A u \in Loops : u # l => th'[u] = th[u]
        BY <3>0, <4>3, <4>4 DEF TypeOK, Threads
      <4>6. At(t, "idle", "none").op = "none" BY DEF At
      <4>7. ~InCall(Owner, "connect")' BY <3>0, <4>1, <4>3, <4>6 DEF InCall, TypeOK
      <4>8. OneControlLoop' BY <4>2, <4>3, <4>5 DEF OneControlLoop, Alive
      <4>9. LosersAreOffline' BY <3>3, <4>5 DEF SessionInv, LosersAreOffline, StartLoop
      <4>10. LinkLoopGoesOn' BY <3>3, <4>3, <4>5, ThreadsAreDistinct DEF LinkLoopGoesOn, Alive, StartLoop
      <4>11. QED BY <4>7, <4>8, <4>9, <4>10 DEF SessionInv
    <3>4. CASE Join(t)
      <4>1. t = Owner /\ th[t].op = "close" BY <3>0, <3>4 DEF Join
      <4>2. \A u \in Loops : ~Alive(u)
        BY <3>4, ThreadsAreDistinct DEF Join, SessionInv, OneControlLoop
      <4>3. th' = [th EXCEPT ![t] = At(t, "clientJoin", "close")] BY <3>4, <4>1 DEF Join, Goto
      <4>4. At(t, "clientJoin", "close").op = "close" BY <2>1 DEF At, Home
      <4>5. InCall(Owner, "close")' /\ ~InCall(Owner, "connect")'
        BY <3>0, <4>1, <4>3, <4>4 DEF InCall, TypeOK
      <4>6. \A u \in Loops : th'[u] = th[u] BY <3>0, <4>3 DEF TypeOK, Threads
      <4>7. ~connected' BY <3>4 DEF Join
      <4>8. QED
        BY <4>2, <4>5, <4>6, <4>7
        DEF SessionInv, OneControlLoop, LosersAreOffline, LinkLoopGoesOn, Alive
    <3>5. CASE ClientJoin(t)
      <4>1. t = Owner BY <3>0, <3>5 DEF ClientJoin
      <4>2. th' = [th EXCEPT ![t] = At(t, "idle", "none"), ![Receiver] = At(Receiver, "off", "none")]
        BY <3>5 DEF ClientJoin
      <4>3. At(t, "idle", "none").op = "none" BY DEF At
      <4>4. ~InCall(Owner, "connect")' BY <3>0, <4>1, <4>2, <4>3 DEF InCall, TypeOK
      <4>5. \A u \in Loops : th'[u] = th[u] BY <3>0, <4>2 DEF TypeOK, Threads
      <4>6. ~connected' /\ handle' = handle BY <3>5 DEF ClientJoin, Session
      <4>7. QED
        BY <4>4, <4>5, <4>6
        DEF SessionInv, OneControlLoop, LosersAreOffline, LinkLoopGoesOn, Alive
    <3>6. CASE CheckRear(t)
      <4>1. /\ At(t, "idle", "none").op \notin {"connect", "close"}
            /\ Sending("clear", UnlockReps, 0).op \notin {"connect", "close"}
        BY DEF At, Sending
      <4>2. th[t].op \notin {"connect", "close"} BY <3>0, <3>6 DEF CheckRear
      <4>3. CASE fault["rear"]
        BY <3>0, <3>6, <4>1, <4>2, <4>3, OtherThreadsKeepSession DEF CheckRear, Goto
      <4>4. CASE ~fault["rear"]
        BY <3>0, <3>6, <4>1, <4>2, <4>4, OtherThreadsKeepSession DEF CheckRear, Send
      <4>5. QED BY <4>3, <4>4
    <3>7. CASE Unlatch(t)
      <4>1. At(t, "idle", "none").op \notin {"connect", "close"} BY DEF At
      <4>2. th[t].op \notin {"connect", "close"} BY <3>0, <3>7 DEF Unlatch, Begin
      <4>3. QED BY <3>0, <3>7, <4>1, <4>2, OtherThreadsKeepSession DEF Unlatch, Goto
    <3>8. CASE SmoothStopEnd(t)
      <4>1. /\ At(t, "idle", "none").op \notin {"connect", "close"}
            /\ At(t, "stopping", "ease").op \notin {"connect", "close"}
        BY DEF At
      <4>2. th[t].op \notin {"connect", "close"} BY <3>0, <3>8 DEF SmoothStopEnd
      <4>3. PICK n \in {At(t, "idle", "none"), At(t, "stopping", "ease")} : th' = [th EXCEPT ![t] = n]
        BY <3>8 DEF SmoothStopEnd, Goto
      <4>4. QED BY <3>0, <3>8, <4>1, <4>2, <4>3, OtherThreadsKeepSession DEF SmoothStopEnd
    <3>9. CASE StopAtEnd(t)
      <4>1. th[t].op \notin {"connect", "close"} BY <3>0, <3>9 DEF StopAtEnd
      <4>2. QED BY <3>0, <3>9, <4>1, StopKeepsSession DEF StopAtEnd
    <3>10. CASE MoveDeadline(t)
      <4>1. At(t, "finally", "move").op \notin {"connect", "close"} BY DEF At
      <4>2. th[t].op \notin {"connect", "close"} BY <3>0, <3>10 DEF MoveDeadline, Begin
      <4>3. QED BY <3>0, <3>10, <4>1, <4>2, OtherThreadsKeepSession DEF MoveDeadline, Goto
    <3>11. CASE MoveFinally(t)
      <4>1. /\ At(t, "idle", "none").op \notin {"connect", "close"}
            /\ At(t, "stopping", "move").op \notin {"connect", "close"}
        BY DEF At
      <4>2. th[t].op \notin {"connect", "close"} BY <3>0, <3>11 DEF MoveFinally
      <4>3. PICK n \in {At(t, "idle", "none"), At(t, "stopping", "move")} : th' = [th EXCEPT ![t] = n]
        BY <3>11 DEF MoveFinally, Goto
      <4>4. QED BY <3>0, <3>11, <4>1, <4>2, <4>3, OtherThreadsKeepSession DEF MoveFinally
    <3>12. QED
      BY <2>1, <3>1, <3>2, <3>3, <3>4, <3>5, <3>6, <3>7, <3>8, <3>9, <3>10, <3>11
      DEF CallerProgress
  <2>2. ASSUME NEW t \in Apps, CallerBegins(t) PROVE SessionInv'
    <3>0. /\ t \in Threads \ Loops /\ t # Receiver /\ Owner \in Threads /\ Receiver \in Threads \ Loops
          /\ CallerInPlace(t, th[t]) /\ \A u \in Loops : u # t /\ u # Receiver
      BY Kinds, ThreadsAreDistinct DEF ThreadsInPlace, InPlace, Threads
    <3> USE DEF CallerInPlace
    <3>1. CASE Connect(t)
      <4>1. t = Owner /\ handle = NoThread /\ handle' = handle
        BY <3>1 DEF Connect, Session
      <4>2. \A u \in Loops : ~Alive(u) BY <4>1, ThreadsAreDistinct DEF SessionInv, OneControlLoop
      <4>3. /\ \A u \in Loops : th'[u] = th[u]
            /\ th'[t] = Sending("connect", UnlockReps, 0)
        BY <3>0, <3>1 DEF Connect, TypeOK, Threads
      <4>4. InCall(Owner, "connect")' BY <4>1, <4>3 DEF InCall, Sending
      <4>5. \A u \in Loops : th[u].pc = "dead" BY <4>2 DEF Alive
      <4>6. \A u \in Loops : th[u].op = "none" BY <4>5, Kinds DEF ThreadsInPlace, InPlace, LoopInPlace, Threads
      <4>7. QED
        BY <4>1, <4>3, <4>4, <4>5, <4>6
        DEF SessionInv, OneControlLoop, LosersAreOffline, LinkLoopGoesOn, Alive
    <3>2. CASE Close(t)
      <4>1. t = Owner /\ UNCHANGED <<connected, handle, stopEvent>> BY <3>2 DEF Close, Session
      <4>2. /\ At(t, "signal", "close").op = "close"
            /\ Sending("close", StopReps, 0).op = "close"
        BY <2>2 DEF At, Home, Sending
      <4>3. PICK n : th' = [th EXCEPT ![t] = n] /\ n.op = "close"
        <5>1. CASE connected BY <3>2, <4>2, <5>1 DEF Close, Send
        <5>2. CASE ~connected BY <3>2, <4>2, <5>2 DEF Close, Goto
        <5>3. QED BY <5>1, <5>2
      <4>4. InCall(Owner, "close")' /\ ~InCall(Owner, "connect")'
        BY <3>0, <4>1, <4>3 DEF InCall, TypeOK
      <4>5. \A u \in Loops : th'[u] = th[u] BY <3>0, <4>3 DEF TypeOK, Threads
      <4>6. QED
        BY <4>1, <4>4, <4>5
        DEF SessionInv, OneControlLoop, LosersAreOffline, LinkLoopGoesOn, Alive
    <3>3. CASE StopCall(t)
      <4>1. th[t].op \notin {"connect", "close"} BY <3>0, <3>3 DEF StopCall, Begin
      <4>2. QED BY <3>0, <3>3, <4>1, StopKeepsSession DEF StopCall
    <3>4. CASE EmergencyStopCall(t)
      <4>1. th[t].op \notin {"connect", "close"} BY <3>0, <3>4 DEF EmergencyStopCall, Begin
      <4>2. QED BY <3>0, <3>4, <4>1, EmergencyStopKeepsSession DEF EmergencyStopCall
    <3>5. CASE SmoothStop(t)
      <4>1. At(t, "easing", "ease").op \notin {"connect", "close"} BY DEF At
      <4>2. th[t].op \notin {"connect", "close"} BY <3>0, <3>5 DEF SmoothStop, Begin
      <4>3. QED BY <3>0, <3>5, <4>1, <4>2, OtherThreadsKeepSession DEF SmoothStop, Goto
    <3>6. CASE ClearEmergencyStop(t)
      <4>1. At(t, "checkRear", "clear").op \notin {"connect", "close"} BY DEF At
      <4>2. th[t].op \notin {"connect", "close"} BY <3>0, <3>6 DEF ClearEmergencyStop, Begin
      <4>3. QED BY <3>0, <3>6, <4>1, <4>2, OtherThreadsKeepSession DEF ClearEmergencyStop, Goto
    <3>7. CASE MoveInterrupted(t)
      <4>1. th[t].op \notin {"connect", "close"} BY <3>0, <3>7 DEF MoveInterrupted
      <4>2. QED BY <3>0, <3>7, <4>1, EmergencyStopKeepsSession DEF MoveInterrupted
    <3>8. ASSUME NEW v, SetMotion(v), UNCHANGED th PROVE SessionInv'
      BY <3>8
      DEF SetMotion, Session, SessionInv, OneControlLoop, LosersAreOffline, LinkLoopGoesOn, Alive, InCall
    <3>9. ASSUME NEW v \in Commands, MoveFor(t, v) PROVE SessionInv'
      <4> DEFINE m == [pc |-> "moving", op |-> "move", left |-> 0, cmd |-> v]
      <4>1. th' = [th EXCEPT ![t] = m] BY <3>9 DEF MoveFor
      <4>2. m.op \notin {"connect", "close"} OBVIOUS
      <4>3. th[t].op \notin {"connect", "close"} BY <3>0, <3>9 DEF MoveFor, Begin
      <4>4. UNCHANGED <<connected, Session>> BY <3>9 DEF MoveFor
      <4> HIDE DEF m
      <4>5. QED BY <3>0, <4>1, <4>2, <4>3, <4>4, OtherThreadsKeepSession
    <3>10. QED
      BY <2>2, <3>1, <3>2, <3>3, <3>4, <3>5, <3>6, <3>7, <3>8, <3>9
      DEF CallerBegins, MoveRefresh, SetCommands
  <2>3. ASSUME NEW l \in Loops, LoopProgress(l) PROVE SessionInv'
    BY <2>3, LoopsKeepSession
  <2>4. Receiver \in Threads \ Loops /\ ReceiverInPlace(th[Receiver])
    BY Kinds, ThreadsAreDistinct DEF ThreadsInPlace, InPlace, Threads
  <2>5. CASE ReceiverProgress
    <3>1. CASE Progress(Receiver) BY <2>4, <3>1, FramesKeepSession
    <3>2. CASE OnFault
      <4>1. th[Receiver].op \notin {"connect", "close"} BY <2>4, <3>2 DEF OnFault, ReceiverInPlace
      <4>2. QED BY <2>4, <3>2, <4>1, EmergencyStopKeepsSession DEF OnFault
    <3>3. QED BY <2>5, <3>1, <3>2 DEF ReceiverProgress
  <2>6. ASSUME NEW pc, NEW op, op \notin {"connect", "close"}, th[Receiver].pc = "recv",
               Goto(Receiver, pc, op), connected' \in {connected, FALSE}, UNCHANGED Session
        PROVE  SessionInv'
    <3>1. At(Receiver, pc, op).op \notin {"connect", "close"} BY <2>6 DEF At
    <3>2. th[Receiver].op \notin {"connect", "close"} BY <2>4, <2>6 DEF ReceiverInPlace
    <3>3. QED BY <2>4, <2>6, <3>1, <3>2, OtherThreadsKeepSession DEF Goto
  <2>7. ASSUME NEW d \in Drivers, NEW bad \in BOOLEAN, Feedback(d, bad) PROVE SessionInv'
    <3>1. CASE bad BY <2>6, <2>7, <3>1 DEF Feedback
    <3>2. CASE ~bad
      BY <2>7, <3>2
      DEF Feedback, Session, SessionInv, OneControlLoop, LosersAreOffline, LinkLoopGoesOn, Alive, InCall
    <3>3. QED BY <3>1, <3>2
  <2>8. CASE LinkLost BY <2>6, <2>8 DEF LinkLost
  <2>9. CASE Clock
    BY <2>9
    DEF Clock, Session, SessionInv, OneControlLoop, LosersAreOffline, LinkLoopGoesOn, Alive, InCall
  <2>10. CASE UNCHANGED vars
    BY <2>10
    DEF vars, SessionInv, OneControlLoop, LosersAreOffline, LinkLoopGoesOn, Alive, InCall
  <2>11. QED
    BY <2>1, <2>2, <2>3, <2>5, <2>7, <2>8, <2>9, <2>10 DEF Next
<1>3. QED
  BY <1>1, <1>2, TypeCorrect, InPlaceHolds, PTL DEF Spec

\* An owner that closes before it reconnects never runs two control loops.
THEOREM OneLoopHolds ==
  ASSUME CloseFirst
  PROVE  Spec => []OneControlLoop
<1>1. SessionInv => OneControlLoop BY DEF SessionInv
<1>2. QED BY <1>1, SessionHolds, PTL

\* For such an owner, a connected vehicle outside connect and close has a control
\* loop that goes on refreshing its wheels.
THEOREM LinkHasLoopHolds ==
  ASSUME CloseFirst
  PROVE  Spec => []LinkHasLoop
<1>1. TypeOK /\ ThreadsInPlace /\ SessionInv => LinkHasLoop
  <2> SUFFICES ASSUME TypeOK, ThreadsInPlace, SessionInv, connected,
                      ~InCall(Owner, "connect"), ~InCall(Owner, "close")
               PROVE  ~stopEvent /\ handle # NoThread /\ th[handle].pc \in {"loop", "front", "rear"}
    BY DEF LinkHasLoop
  <2>1. ~stopEvent /\ handle # NoThread /\ Alive(handle) BY DEF SessionInv, LinkLoopGoesOn
  <2>2. handle \in Loops /\ handle \in Threads BY <2>1 DEF TypeOK, Threads
  <2>3. LoopInPlace(th[handle]) BY <2>2 DEF ThreadsInPlace, InPlace
  <2>4. th[handle].op # "lost" /\ th[handle].pc \notin {"lost", "signal"}
    BY <2>2, <2>3 DEF SessionInv, LosersAreOffline, LoopInPlace
  <2>5. QED BY <2>1, <2>3, <2>4 DEF LoopInPlace, Alive
<1>2. QED BY <1>1, SessionHolds, TypeCorrect, InPlaceHolds, PTL

\* For such an owner, the zeros that unlock the drivers are the only frames sent
\* while connect() sends them, whatever other callers and faults do meanwhile.
THEOREM UnlockIsQuiet ==
  ASSUME CloseFirst
  PROVE  Spec => []UnlockBurstIsQuiet
<1>1. ThreadsInPlace /\ SessionInv => UnlockBurstIsQuiet
  <2> SUFFICES ASSUME ThreadsInPlace, SessionInv, InCall(Owner, "connect"),
                      NEW t \in Threads, th[t].pc \in {"front", "rear"}
               PROVE  th[t].cmd = 0
    BY DEF UnlockBurstIsQuiet
  <2>1. handle = NoThread BY DEF SessionInv
  <2>2. t \notin Loops
    BY <2>1, ThreadsAreDistinct DEF SessionInv, OneControlLoop, Alive
  <2>3. QED BY <2>2 DEF ThreadsInPlace, InPlace, CallerInPlace, ReceiverInPlace, Threads
<1>2. QED BY <1>1, SessionHolds, InPlaceHolds, PTL
-----------------------------------------------------------------------------
(* The zeros of close()                                                    *)

\* close() is past its first pair of zeros, or has sent them all.
PastFirstPair ==
  \/ InBurst(Owner) /\ th[Owner].left < StopReps
  \/ th[Owner].pc \in {"signal", "join"} /\ connected

OnlyZeros == \A t \in Threads : th[t].pc \in {"front", "rear"} => th[t].cmd = 0

\* Nobody clears the latch, so a closing vehicle stays latched and its control
\* loop ticks zeros; the sleep after the first pair outlasts the frames that were
\* under way; the second pair is the last word.
Closing ==
  /\ estop
  /\ InBurst(Owner) => th[Owner].left <= StopReps
  /\ PastFirstPair => OnlyZeros
  /\ PastFirstPair /\ th[Owner].pc # "front" => wheels["front"] = 0
  /\ PastFirstPair /\ th[Owner].pc \notin {"front", "rear"} => wheels["rear"] = 0

NobodyClears == \A t \in Threads : th[t].op # "clear"

ClosingInv == NobodyClears /\ (InCall(Owner, "close") => Closing)

\* Another thread disturbs nothing of it: while the vehicle closes it begins to
\* send zeros only, and writes what it was about to send.
LEMMA OthersKeepClosing ==
  ASSUME TypeOK, ClosingInv, NEW t \in Threads \ {Owner}, NEW n,
         th' = [th EXCEPT ![t] = n], n.op # "clear",
         InCall(Owner, "close") => estop',
         InCall(Owner, "close") /\ n.pc \in {"front", "rear"}
           => n.cmd = 0 \/ (th[t].pc \in {"front", "rear"} /\ n.cmd = th[t].cmd),
         \/ wheels' = wheels
         \/ /\ th[t].pc \in {"front", "rear"}
            /\ \E d \in Drivers : wheels' = [wheels EXCEPT ![d] = th[t].cmd],
         connected' \in {connected, FALSE}
  PROVE  ClosingInv'
<1>1. Owner \in Threads /\ Owner # t /\ th'[Owner] = th[Owner]
  BY ThreadsAreDistinct DEF Threads, TypeOK
<1>2. th'[t] = n /\ \A u \in Threads : u # t => th'[u] = th[u]
  BY DEF TypeOK
<1>3. connected' => connected
  BY DEF TypeOK
<1>4. NobodyClears'
  BY <1>2 DEF ClosingInv, NobodyClears
<1>5. ASSUME InCall(Owner, "close")' PROVE Closing'
  <2>1. InCall(Owner, "close")
    BY <1>1, <1>5 DEF InCall
  <2>2. Closing
    BY <2>1 DEF ClosingInv
  <2>3. PastFirstPair' => PastFirstPair
    BY <1>1, <1>3 DEF PastFirstPair, InBurst
  <2>4. PastFirstPair' => OnlyZeros'
    BY <1>2, <2>1, <2>2, <2>3 DEF Closing, OnlyZeros
  <2>5. ASSUME NEW d \in Drivers, OnlyZeros, wheels[d] = 0 PROVE wheels'[d] = 0
    BY <2>5 DEF OnlyZeros, TypeOK
  <2>6. "front" \in Drivers /\ "rear" \in Drivers
    BY DEF Drivers
  <2>7. PastFirstPair' /\ th'[Owner].pc # "front" => wheels'["front"] = 0
    BY <1>1, <2>2, <2>3, <2>5, <2>6 DEF Closing
  <2>8. PastFirstPair' /\ th'[Owner].pc \notin {"front", "rear"} => wheels'["rear"] = 0
    BY <1>1, <2>2, <2>3, <2>5, <2>6 DEF Closing
  <2>9. InBurst(Owner)' => th'[Owner].left <= StopReps
    BY <1>1, <2>2 DEF Closing, InBurst
  <2>10. QED BY <2>1, <2>4, <2>7, <2>8, <2>9 DEF Closing
<1>6. QED BY <1>4, <1>5 DEF ClosingInv

\* So it is with every step of one thread that is no step of close() itself.
LEMMA StepKeepsClosing ==
  ASSUME TypeOK, ClosingInv, NEW t \in Threads, NEW n,
         th' = [th EXCEPT ![t] = n], n.op # "clear", t = Owner => n.op # "close",
         InCall(Owner, "close") => estop',
         InCall(Owner, "close") /\ n.pc \in {"front", "rear"}
           => n.cmd = 0 \/ (th[t].pc \in {"front", "rear"} /\ n.cmd = th[t].cmd),
         \/ wheels' = wheels
         \/ /\ th[t].pc \in {"front", "rear"}
            /\ \E d \in Drivers : wheels' = [wheels EXCEPT ![d] = th[t].cmd],
         connected' \in {connected, FALSE}
  PROVE  ClosingInv'
<1>1. CASE t # Owner
  BY <1>1, OthersKeepClosing
<1>2. CASE t = Owner
  BY <1>2, ThreadsAreDistinct DEF ClosingInv, NobodyClears, InCall, Threads, TypeOK
<1>3. QED BY <1>1, <1>2

\* An emergency stop of any thread disturbs no close() under way.
LEMMA EmergencyStopKeepsClosing ==
  ASSUME TypeOK, ClosingInv, NEW t \in Threads, NEW op, EmergencyStop(t, op),
         op \in {"estop", "interrupted", "fault", "lost"}
  PROVE  ClosingInv'
<1>1. Sending(op, EStopReps, 0).op = op /\ Sending(op, EStopReps, 0).cmd = 0
  BY DEF Sending
<1>2. At(t, Sent(t, op), op).op \in {op, "none"} /\ At(t, Sent(t, op), op).pc \notin {"front", "rear"}
  BY DEF At, Sent, Home
<1>3. CASE ~estop /\ connected
  BY <1>1, <1>3, StepKeepsClosing DEF EmergencyStop, Send
<1>4. CASE ~(~estop /\ connected)
  BY <1>2, <1>4, StepKeepsClosing DEF EmergencyStop, Goto
<1>5. QED BY <1>3, <1>4

\* Nor does a burst of zeros that begins.
LEMMA StopKeepsClosing ==
  ASSUME TypeOK, ClosingInv, NEW t \in Threads, Stop(t)
  PROVE  ClosingInv'
<1>1. /\ Sending("stop", 1, 0).op = "stop" /\ Sending("stop", 1, 0).cmd = 0
      /\ At(t, "idle", "none").op = "none" /\ At(t, "idle", "none").pc = "idle"
  BY DEF Sending, At
<1>2. InCall(Owner, "close") => estop'
  BY DEF Stop, ClosingInv, Closing
<1>3. CASE connected
  BY <1>1, <1>2, <1>3, StepKeepsClosing DEF Stop, Send
<1>4. CASE ~connected
  BY <1>1, <1>2, <1>4, StepKeepsClosing DEF Stop, Goto
<1>5. QED BY <1>3, <1>4

\* A frame of another call, and the end of its burst.
LEMMA FramesKeepClosing ==
  ASSUME TypeOK, ClosingInv, NEW t \in Threads, Progress(t), t = Owner => th[t].op # "close"
  PROVE  ClosingInv'
<1> DEFINE s == th[t]
<1>0. s \in ThreadState /\ s.op # "clear"
  BY DEF TypeOK, ClosingInv, NobodyClears
<1>1. InCall(Owner, "close") => estop
  BY DEF ClosingInv, Closing
<1>2. ASSUME NEW pc \in {Sent(t, s.op), Raised(t, s.op)}
      PROVE  At(t, pc, s.op).op \in {s.op, "none"} /\ At(t, pc, s.op).pc \notin {"front", "rear"}
  BY DEF At, Sent, Raised, Home
<1>3. CASE SendFront(t)
  <2> DEFINE n == [s EXCEPT !.pc = "rear"]
  <2>1. n.op = s.op /\ n.cmd = s.cmd
    BY <1>0 DEF ThreadState
  <2>2. th' = [th EXCEPT ![t] = n] /\ s.pc = "front"
    BY <1>3 DEF SendFront
  <2>3. wheels' = [wheels EXCEPT !["front"] = s.cmd] /\ UNCHANGED <<connected, estop>>
    BY <1>3 DEF SendFront, Motion
  <2>4. "front" \in Drivers
    BY DEF Drivers
  <2> HIDE DEF n
  <2>5. QED BY <1>0, <1>1, <2>1, <2>2, <2>3, <2>4, StepKeepsClosing
<1>4. CASE SendRear(t)
  <2>1. wheels' = [wheels EXCEPT !["rear"] = s.cmd] /\ UNCHANGED <<connected, estop>>
    BY <1>4 DEF SendRear, Motion
  <2>2. "rear" \in Drivers /\ s.pc = "rear"
    BY <1>4 DEF Drivers, SendRear
  <2>3. CASE s.op \in {"stop", "tick"}
    <3> DEFINE n == At(t, Sent(t, s.op), s.op)
    <3>1. n.op \in {s.op, "none"} /\ n.pc \notin {"front", "rear"}
      BY <1>2
    <3>2. th' = [th EXCEPT ![t] = n]
      BY <1>4, <2>3 DEF SendRear, Goto
    <3> HIDE DEF n
    <3>3. QED BY <1>0, <1>1, <2>1, <2>2, <2>3, <3>1, <3>2, StepKeepsClosing
  <2>4. CASE s.op \notin {"stop", "tick"}
    <3> DEFINE n == [s EXCEPT !.pc = "sleep"]
    <3>1. n.op = s.op /\ n.pc = "sleep"
      BY <1>0 DEF ThreadState
    <3>2. th' = [th EXCEPT ![t] = n]
      BY <1>4, <2>4 DEF SendRear
    <3> HIDE DEF n
    <3>3. QED BY <1>0, <1>1, <2>1, <2>2, <3>1, <3>2, StepKeepsClosing
  <2>5. QED BY <2>3, <2>4
<1>5. CASE EndSleep(t)
  <2>1. UNCHANGED <<connected, estop, wheels>>
    BY <1>5 DEF EndSleep, Motion
  <2>2. Sending(s.op, s.left - 1, 0).op = s.op /\ Sending(s.op, s.left - 1, 0).cmd = 0
    BY DEF Sending
  <2>3. CASE s.left > 1
    BY <1>0, <1>1, <1>5, <2>1, <2>2, <2>3, StepKeepsClosing DEF EndSleep, Send
  <2>4. CASE ~(s.left > 1)
    <3> DEFINE n == At(t, Sent(t, s.op), s.op)
    <3>1. n.op \in {s.op, "none"} /\ n.pc \notin {"front", "rear"}
      BY <1>2
    <3>2. th' = [th EXCEPT ![t] = n]
      BY <1>5, <2>4 DEF EndSleep, Goto
    <3> HIDE DEF n
    <3>3. QED BY <1>0, <1>1, <2>1, <3>1, <3>2, StepKeepsClosing
  <2>5. QED BY <2>3, <2>4
<1>6. CASE SendFails(t)
  <2> DEFINE n == At(t, Raised(t, s.op), s.op)
  <2>1. n.op \in {s.op, "none"} /\ n.pc \notin {"front", "rear"}
    BY <1>2
  <2>2. th' = [th EXCEPT ![t] = n] /\ connected' = FALSE /\ UNCHANGED <<estop, wheels>>
    BY <1>6 DEF SendFails, Goto, Motion
  <2> HIDE DEF n
  <2>3. QED BY <1>0, <1>1, <2>1, <2>2, StepKeepsClosing
<1>7. CASE Signal(t)
  <2> DEFINE n == At(t, IF t \in Loops THEN "dead" ELSE "join", s.op)
  <2>1. n.op \in {s.op, "none"} /\ n.pc \in {"dead", "join"}
    BY DEF At
  <2>2. th' = [th EXCEPT ![t] = n] /\ UNCHANGED <<connected, estop, wheels>>
    BY <1>7 DEF Signal, Goto, Motion
  <2> HIDE DEF n
  <2>3. QED BY <1>0, <1>1, <2>1, <2>2, StepKeepsClosing
<1>8. QED BY <1>3, <1>4, <1>5, <1>6, <1>7 DEF Progress

\* close() sends its pairs, leaves the burst after the last or after a failed
\* send, and tells the control loop to stop.
LEMMA CloseKeepsClosing ==
  ASSUME Prompt, StopReps >= 2, TypeOK, ThreadsInPlace, ClosingInv,
         InCall(Owner, "close"), Progress(Owner) \/ Join(Owner)
  PROVE  ClosingInv'
<1> DEFINE s == th[Owner]
<1>0. /\ Owner \in Threads /\ Owner \in Apps /\ Owner \notin Loops
      /\ s \in ThreadState /\ CallerInPlace(Owner, s) /\ s.op = "close" /\ s.left \in Nat
      /\ Closing /\ NobodyClears /\ StopReps \in Nat
  BY ThreadsAreDistinct, LimitsAreValid
     DEF Threads, TypeOK, ThreadsInPlace, InPlace, InCall, ClosingInv, ThreadState
<1>1. ASSUME NEW n, th' = [th EXCEPT ![Owner] = n], n.op = "close"
      PROVE  /\ NobodyClears' /\ InCall(Owner, "close")' /\ th'[Owner] = n
             /\ \A u \in Threads : u # Owner => th'[u] = th[u]
  BY <1>0, <1>1 DEF NobodyClears, InCall, TypeOK
<1>2. \A pc \in {"signal", "join", "clientJoin"} :
        At(Owner, pc, "close").op = "close" /\ At(Owner, pc, "close").pc = pc
  BY <1>0 DEF At, Home
<1>3. CASE SendFront(Owner)
  <2> DEFINE n == [s EXCEPT !.pc = "rear"]
  <2>1. n.pc = "rear" /\ n.op = "close" /\ n.left = s.left /\ n.cmd = s.cmd
    BY <1>0 DEF ThreadState
  <2>2. th' = [th EXCEPT ![Owner] = n] /\ s.pc = "front"
    BY <1>3 DEF SendFront
  <2>3. wheels' = [wheels EXCEPT !["front"] = s.cmd] /\ estop' = estop /\ s.cmd = 0
    BY <1>0, <1>3 DEF SendFront, Motion, CallerInPlace
  <2> HIDE DEF n
  <2>4. wheels'["front"] = 0
    BY <2>3 DEF TypeOK, Drivers
  <2>5. PastFirstPair' => PastFirstPair
    BY <1>1, <2>1, <2>2 DEF PastFirstPair, InBurst
  <2>6. OnlyZeros => OnlyZeros'
    BY <1>1, <2>1, <2>2, <2>3 DEF OnlyZeros
  <2>7. Closing'
    BY <1>0, <1>1, <2>1, <2>2, <2>3, <2>4, <2>5, <2>6 DEF Closing, InBurst
  <2>8. QED BY <1>1, <2>1, <2>2, <2>7 DEF ClosingInv
<1>4. CASE SendRear(Owner)
  <2> DEFINE n == [s EXCEPT !.pc = "sleep"]
  <2>1. n.pc = "sleep" /\ n.op = "close" /\ n.left = s.left
    BY <1>0 DEF ThreadState
  <2>2. th' = [th EXCEPT ![Owner] = n] /\ s.pc = "rear"
    BY <1>0, <1>4 DEF SendRear
  <2>3. wheels' = [wheels EXCEPT !["rear"] = s.cmd] /\ estop' = estop /\ s.cmd = 0
    BY <1>0, <1>4 DEF SendRear, Motion, CallerInPlace
  <2> HIDE DEF n
  <2>4. wheels'["rear"] = 0 /\ wheels'["front"] = wheels["front"]
    BY <2>3 DEF TypeOK, Drivers
  <2>5. PastFirstPair' => PastFirstPair
    BY <1>1, <2>1, <2>2 DEF PastFirstPair, InBurst
  <2>6. OnlyZeros => OnlyZeros'
    BY <1>1, <2>1, <2>2 DEF OnlyZeros
  <2>7. Closing'
    BY <1>0, <1>1, <2>1, <2>2, <2>3, <2>4, <2>5, <2>6 DEF Closing, InBurst
  <2>8. QED BY <1>1, <2>1, <2>2, <2>7 DEF ClosingInv
<1>5. CASE EndSleep(Owner)
  <2>1. /\ s.pc = "sleep" /\ UNCHANGED <<connected, estop, wheels>>
        /\ \A u \in Threads \ {Owner} : th[u].pc \notin {"front", "rear"}
    BY <1>5 DEF EndSleep, Motion
  <2>2. s.left <= StopReps
    BY <1>0, <2>1 DEF Closing, InBurst
  <2>3. CASE s.left > 1
    <3> DEFINE n == Sending("close", s.left - 1, 0)
    <3>1. n.pc = "front" /\ n.op = "close" /\ n.left = s.left - 1 /\ n.cmd = 0
      BY DEF Sending
    <3>2. th' = [th EXCEPT ![Owner] = n]
      BY <1>0, <1>5, <2>3 DEF EndSleep, Send
    <3> HIDE DEF n
    <3>3. OnlyZeros'
      BY <1>1, <2>1, <3>1, <3>2 DEF OnlyZeros
    <3>4. n.left <= StopReps
      BY <1>0, <2>2, <2>3, <3>1
    <3>5. Closing'
      BY <1>0, <1>1, <2>1, <3>1, <3>2, <3>3, <3>4 DEF Closing, PastFirstPair
    <3>6. QED BY <1>1, <3>1, <3>2, <3>5 DEF ClosingInv
  <2>4. CASE ~(s.left > 1)
    <3> DEFINE n == At(Owner, "signal", "close")
    <3>1. n.pc = "signal" /\ n.op = "close"
      BY <1>2
    <3>2. th' = [th EXCEPT ![Owner] = n]
      BY <1>0, <1>5, <2>4 DEF EndSleep, Goto, Sent
    <3> HIDE DEF n
    <3>3. PastFirstPair
      BY <1>0, <2>1, <2>4 DEF PastFirstPair, InBurst
    <3>4. OnlyZeros'
      BY <1>1, <2>1, <3>1, <3>2 DEF OnlyZeros
    <3>5. wheels["front"] = 0 /\ wheels["rear"] = 0
      BY <1>0, <2>1, <3>3 DEF Closing
    <3>6. Closing'
      BY <1>0, <1>1, <2>1, <3>1, <3>2, <3>4, <3>5 DEF Closing, InBurst
    <3>7. QED BY <1>1, <3>1, <3>2, <3>6 DEF ClosingInv
  <2>5. QED BY <2>3, <2>4
<1>6. CASE SendFails(Owner)
  <2> DEFINE n == At(Owner, "signal", "close")
  <2>1. n.pc = "signal" /\ n.op = "close"
    BY <1>2
  <2>2. th' = [th EXCEPT ![Owner] = n] /\ connected' = FALSE /\ estop' = estop
    BY <1>0, <1>6 DEF SendFails, Goto, Raised, Motion
  <2> HIDE DEF n
  <2>3. ~PastFirstPair' /\ ~InBurst(Owner)'
    BY <1>1, <2>1, <2>2 DEF PastFirstPair, InBurst
  <2>4. QED BY <1>0, <1>1, <2>1, <2>2, <2>3 DEF ClosingInv, Closing
<1>7. CASE Signal(Owner)
  <2> DEFINE n == At(Owner, "join", "close")
  <2>1. n.pc = "join" /\ n.op = "close"
    BY <1>2
  <2>2. th' = [th EXCEPT ![Owner] = n] /\ UNCHANGED <<connected, estop, wheels>> /\ s.pc = "signal"
    BY <1>0, <1>7 DEF Signal, Goto, Motion
  <2> HIDE DEF n
  <2>3. PastFirstPair' => PastFirstPair
    BY <1>1, <2>1, <2>2 DEF PastFirstPair, InBurst
  <2>4. OnlyZeros => OnlyZeros'
    BY <1>1, <2>1, <2>2 DEF OnlyZeros
  <2>5. Closing'
    BY <1>0, <1>1, <2>1, <2>2, <2>3, <2>4 DEF Closing, InBurst
  <2>6. QED BY <1>1, <2>1, <2>2, <2>5 DEF ClosingInv
<1>8. CASE Join(Owner)
  <2> DEFINE n == At(Owner, "clientJoin", "close")
  <2>1. n.pc = "clientJoin" /\ n.op = "close"
    BY <1>2
  <2>2. th' = [th EXCEPT ![Owner] = n] /\ estop' = estop
    BY <1>0, <1>8 DEF Join, Goto, Motion
  <2> HIDE DEF n
  <2>3. ~PastFirstPair' /\ ~InBurst(Owner)'
    BY <1>1, <2>1, <2>2 DEF PastFirstPair, InBurst
  <2>4. QED BY <1>0, <1>1, <2>1, <2>2, <2>3 DEF ClosingInv, Closing
<1>9. QED BY <1>3, <1>4, <1>5, <1>6, <1>7, <1>8 DEF Progress

\* ClosingInv holds throughout.
LEMMA ClosingHolds ==
  ASSUME Prompt, StopReps >= 2, "clear" \notin Calls
  PROVE  Spec => []ClosingInv
<1>1. Init => ClosingInv
  <2> SUFFICES ASSUME Init PROVE ClosingInv
    OBVIOUS
  <2>1. \A t \in Threads : th[t].op = "none"
    BY DEF Init, At
  <2>2. QED BY <2>1, ThreadsAreDistinct DEF ClosingInv, NobodyClears, InCall, Threads
<1>2. TypeOK /\ ThreadsInPlace /\ ClosingInv /\ [Next]_vars => ClosingInv'
  <2> SUFFICES ASSUME TypeOK, ThreadsInPlace, ClosingInv, [Next]_vars PROVE ClosingInv'
    OBVIOUS
  <2>0. /\ Owner \in Threads /\ Receiver \in Threads
        /\ InCall(Owner, "close") => estop
        /\ \A t \in Threads : th[t].op # "clear"
    BY ThreadsAreDistinct DEF Threads, ClosingInv, Closing, NobodyClears
\* Steps of one thread that send nothing and leave no call of the owner.
  <2>1. ASSUME NEW t \in Threads, NEW pc, NEW op, Goto(t, pc, op), pc \notin {"front", "rear"},
               op # "clear", t = Owner => op # "close" \/ pc = "idle",
               UNCHANGED wheels, connected' \in {connected, FALSE},
               InCall(Owner, "close") => estop'
        PROVE  ClosingInv'
    <3>1. At(t, pc, op).op \in {op, "none"} /\ At(t, pc, op).pc = pc
          /\ (pc = "idle" /\ t = Owner => At(t, pc, op).op = "none")
      BY ThreadsAreDistinct DEF At, Home
    <3>2. QED BY <2>1, <3>1, StepKeepsClosing DEF Goto
\* The owner is out of every call, or in connect().
  <2>2. ASSUME NEW n, n.op \notin {"close", "clear"}, th'[Owner] = n,
               \A u \in Threads \ {Owner} : th'[u].op # "clear"
        PROVE  ClosingInv'
    BY <2>0, <2>2 DEF ClosingInv, NobodyClears, InCall
  <2>3. ASSUME NEW t \in Apps, CallerProgress(t) PROVE ClosingInv'
    <3>0. t \in Threads /\ CallerInPlace(t, th[t])
      BY <2>3 DEF Threads, ThreadsInPlace, InPlace
    <3> USE DEF CallerInPlace, Motion
    <3>1. CASE Progress(t)
      BY <3>0, <3>1, FramesKeepClosing, CloseKeepsClosing DEF InCall
    <3>2. CASE Arm(t)
      <4>1. t = Owner /\ th[Owner].op = "connect"
        BY <3>0, <3>2 DEF Arm
      <4>2. ~InCall(Owner, "close")
        BY <4>1 DEF InCall
      <4>3. QED BY <3>0, <3>2, <4>2, <2>1 DEF Arm
    <3>3. CASE StartLoop(t)
      <4>1. PICK l \in Loops :
              th' = [th EXCEPT ![t] = At(t, "idle", "none"), ![l] = At(l, "loop", "none")]
        BY <3>3 DEF StartLoop
      <4>2. At(t, "idle", "none").op = "none" /\ At(l, "loop", "none").op = "none"
        BY DEF At
      <4>3. t = Owner /\ l # Owner /\ l \in Threads
        BY <2>3, <3>0, <3>3, Kinds DEF StartLoop, Threads
      <4>4. /\ th'[Owner] = At(t, "idle", "none") /\ th'[l] = At(l, "loop", "none")
            /\ \A u \in Threads : u \notin {Owner, l} => th'[u] = th[u]
        BY <2>0, <4>1, <4>3 DEF TypeOK
      <4>5. QED BY <2>0, <2>2, <4>2, <4>4
    <3>4. CASE Join(t)
      <4>1. t = Owner /\ InCall(Owner, "close")
        BY <3>0, <3>4 DEF Join, InCall
      <4>2. QED BY <3>4, <4>1, CloseKeepsClosing
    <3>5. CASE ClientJoin(t)
      <4>1. th' = [th EXCEPT ![t] = At(t, "idle", "none"), ![Receiver] = At(Receiver, "off", "none")]
        BY <3>5 DEF ClientJoin
      <4>2. At(t, "idle", "none").op = "none" /\ At(Receiver, "off", "none").op = "none"
        BY DEF At
      <4>3. t = Owner /\ Receiver # Owner
        BY <3>0, <3>5, ThreadsAreDistinct DEF ClientJoin
      <4>4. /\ th'[Owner] = At(t, "idle", "none") /\ th'[Receiver] = At(Receiver, "off", "none")
            /\ \A u \in Threads : u \notin {Owner, Receiver} => th'[u] = th[u]
        BY <2>0, <4>1, <4>3 DEF TypeOK
      <4>5. QED BY <2>0, <2>2, <4>2, <4>4
    <3>6. ~CheckRear(t) /\ ~Unlatch(t)
      BY <2>0, <3>0 DEF CheckRear, Unlatch
    <3>7. CASE SmoothStopEnd(t)
      BY <3>0, <3>7, <2>0, <2>1 DEF SmoothStopEnd
    <3>8. CASE StopAtEnd(t)
      BY <3>0, <3>8, StopKeepsClosing DEF StopAtEnd
    <3>9. CASE MoveDeadline(t)
      BY <3>0, <3>9, <2>0, <2>1 DEF MoveDeadline
    <3>10. CASE MoveFinally(t)
      BY <3>0, <3>10, <2>0, <2>1 DEF MoveFinally
    <3>11. QED
      BY <2>3, <3>1, <3>2, <3>3, <3>4, <3>5, <3>6, <3>7, <3>8, <3>9, <3>10 DEF CallerProgress
  <2>4. ASSUME NEW t \in Apps, CallerBegins(t) PROVE ClosingInv'
    <3>0. t \in Threads /\ CallerInPlace(t, th[t])
      BY <2>4 DEF Threads, ThreadsInPlace, InPlace
    <3> USE DEF CallerInPlace, Motion
    <3>1. CASE Connect(t)
      <4>1. /\ Sending("connect", UnlockReps, 0).op = "connect"
            /\ At(Receiver, "recv", "none").op = "none"
        BY DEF Sending, At
      <4>2. t = Owner /\ Receiver # Owner
        BY <3>1, ThreadsAreDistinct DEF Connect
      <4>3. /\ th'[Owner] = Sending("connect", UnlockReps, 0)
            /\ th'[Receiver] \in {th[Receiver], At(Receiver, "recv", "none")}
            /\ \A u \in Threads : u \notin {Owner, Receiver} => th'[u] = th[u]
        BY <2>0, <3>1, <4>2 DEF Connect, TypeOK
      <4>4. QED BY <2>0, <2>2, <4>1, <4>3
    <3>2. CASE Close(t)
      <4>1. t = Owner /\ estop' /\ connected' = connected
        BY <3>2 DEF Close
      <4>2. PICK n \in {Sending("close", StopReps, 0), At(Owner, "signal", "close")} :
              /\ th' = [th EXCEPT ![Owner] = n]
              /\ n = At(Owner, "signal", "close") => ~connected
        BY <3>2, <4>1 DEF Close, Send, Goto, Sending, At
      <4>3. /\ n.op = "close" /\ n.pc \in {"front", "signal"}
            /\ n.pc = "front" => n.left = StopReps
            /\ n.pc = "signal" => ~connected
        BY <2>4, <4>1, <4>2 DEF Sending, At, Home
      <4>4. th'[Owner] = n /\ \A u \in Threads : u # Owner => th'[u] = th[u]
        BY <2>0, <4>2 DEF TypeOK
      <4>5. ~PastFirstPair' /\ (InBurst(Owner)' => n.left <= StopReps)
        BY <4>1, <4>3, <4>4, LimitsAreValid DEF PastFirstPair, InBurst
      <4>6. QED BY <2>0, <4>1, <4>3, <4>4, <4>5 DEF ClosingInv, Closing, NobodyClears
    <3>3. CASE StopCall(t)
      BY <3>0, <3>3, StopKeepsClosing DEF StopCall
    <3>4. CASE EmergencyStopCall(t)
      BY <3>0, <3>4, EmergencyStopKeepsClosing DEF EmergencyStopCall
    <3>5. CASE SmoothStop(t)
      BY <3>0, <3>5, <2>0, <2>1 DEF SmoothStop
    <3>6. ~ClearEmergencyStop(t)
      BY DEF ClearEmergencyStop, Begin
    <3>7. CASE MoveInterrupted(t)
      BY <3>0, <3>7, EmergencyStopKeepsClosing DEF MoveInterrupted
    <3>8. ASSUME NEW v, SetMotion(v), UNCHANGED th PROVE ClosingInv'
      BY <3>8 DEF SetMotion, ClosingInv, Closing, NobodyClears, InCall, PastFirstPair, InBurst, OnlyZeros
    <3>9. ASSUME NEW v \in Commands, MoveFor(t, v) PROVE ClosingInv'
      <4> DEFINE m == [pc |-> "moving", op |-> "move", left |-> 0, cmd |-> v]
      <4>1. th' = [th EXCEPT ![t] = m] /\ UNCHANGED <<connected, estop, wheels>>
        BY <3>9 DEF MoveFor
      <4>2. m.op = "move" /\ m.pc = "moving"
        OBVIOUS
      <4> HIDE DEF m
      <4>3. QED BY <2>0, <3>0, <4>1, <4>2, StepKeepsClosing
    <3>10. QED
      BY <2>4, <3>1, <3>2, <3>3, <3>4, <3>5, <3>6, <3>7, <3>8, <3>9
      DEF CallerBegins, MoveRefresh, SetCommands
  <2>5. ASSUME NEW l \in Loops, LoopProgress(l) PROVE ClosingInv'
    <3>0. l \in Threads /\ l # Owner
      BY <2>5, ThreadsAreDistinct DEF Threads
    <3>1. CASE Progress(l)
      BY <3>0, <3>1, FramesKeepClosing
    <3>2. CASE Tick(l)
      <4>1. /\ Sending("tick", 1, current').op = "tick"
            /\ Sending("tick", 1, current').cmd = current'
        BY DEF Sending
      <4>2. estop => current' = 0
        BY <3>2 DEF Tick
      <4>3. th' = [th EXCEPT ![l] = Sending("tick", 1, current')] /\ UNCHANGED <<connected, estop, wheels>>
        BY <3>2 DEF Tick, Send
      <4>4. QED BY <2>0, <3>0, <4>1, <4>2, <4>3, StepKeepsClosing
    <3>3. CASE LoopEnds(l)
      BY <2>0, <2>1, <3>0, <3>3 DEF LoopEnds, Motion
    <3>4. CASE LoopLostLink(l)
      BY <3>0, <3>4, EmergencyStopKeepsClosing DEF LoopLostLink
    <3>5. QED BY <2>5, <3>1, <3>2, <3>3, <3>4 DEF LoopProgress
  <2>6. Receiver # Owner
    BY ThreadsAreDistinct
  <2>7. CASE ReceiverProgress
    BY <2>0, <2>6, <2>7, FramesKeepClosing, EmergencyStopKeepsClosing DEF ReceiverProgress, OnFault
  <2>8. ASSUME NEW d \in Drivers, NEW bad \in BOOLEAN, Feedback(d, bad) PROVE ClosingInv'
    <3>1. CASE bad
      BY <2>0, <2>1, <2>6, <2>8, <3>1 DEF Feedback, Motion
    <3>2. CASE ~bad
      BY <2>8, <3>2
      DEF Feedback, Motion, ClosingInv, Closing, NobodyClears, InCall, PastFirstPair, InBurst, OnlyZeros
    <3>3. QED BY <3>1, <3>2
  <2>9. CASE LinkLost
    BY <2>0, <2>1, <2>6, <2>9 DEF LinkLost, Motion
  <2>10. CASE Clock \/ UNCHANGED vars
    BY <2>10
    DEF Clock, vars, Motion, ClosingInv, Closing, NobodyClears, InCall, PastFirstPair, InBurst, OnlyZeros
  <2>11. QED BY <2>3, <2>4, <2>5, <2>7, <2>8, <2>9, <2>10 DEF Next
<1>3. QED BY <1>1, <1>2, TypeCorrect, InPlaceHolds, PTL DEF Spec

\* When close() has sent its zeros over a link that is still up, both drivers were
\* last sent zero and nothing else can follow, whatever the control loop, other
\* callers and faults had under way: with two pairs or more, a sleep that outlasts
\* a pair under way, and nobody who clears the latch meanwhile.
THEOREM CloseLeavesStill ==
  ASSUME Prompt, StopReps >= 2, "clear" \notin Calls
  PROVE  Spec => []ClosesStopped
<1>1. ClosingInv => ClosesStopped
  <2> SUFFICES ASSUME ClosingInv, InCall(Owner, "close"), th[Owner].pc = "join", connected
               PROVE  /\ \A d \in Drivers : wheels[d] = 0
                      /\ \A t \in Threads : th[t].pc \in {"front", "rear"} => th[t].cmd = 0
    BY DEF ClosesStopped
  <2>1. PastFirstPair /\ Closing
    BY DEF ClosingInv, PastFirstPair
  <2>2. QED BY <2>1 DEF Closing, OnlyZeros, Drivers
<1>2. QED BY <1>1, ClosingHolds, PTL
=============================================================================
