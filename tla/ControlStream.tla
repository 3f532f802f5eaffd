---------------------------- MODULE ControlStream ----------------------------
(***************************************************************************)
(* The commands of the browsers, from robot_stream() of either web gateway *)
(* to rosbridge: the password of each WebSocket, the check of the link and *)
(* publish_command() with, in the history edition, the lock of _send().    *)
(*                                                                         *)
(* The link is the WebSocket to rosbridge in hand, numbered; what is       *)
(* written to it is there in order, and a write suspends while rosbridge   *)
(* does not read.  The coroutine of a browser takes one request at a time. *)
(* The subscriptions that the rosbridge task sends over a new link carry   *)
(* no order and are left out.                                              *)
(***************************************************************************)
EXTENDS Naturals, Sequences

CONSTANTS
  Browsers,
  Orders,      \* COMMANDS
  None,
  MaxLinks     \* WebSockets to rosbridge, a bound

ASSUME ControlAssumption == None \notin Orders /\ MaxLinks \in Nat

VARIABLES
  locking,     \* the edition: "history" sends under _send_lock, "ros2" does not
  link,        \* the WebSocket to rosbridge in hand
  linked,      \* connected, _ws or _socket is set, and ros_connected
  lives,       \* it has not broken; the rosbridge task does not know yet
  flows,       \* rosbridge reads
  talk,        \* "away", "idle", "lock" or "write", per browser
  authorized,  \* the local variable of robot_stream
  request,     \* the command in hand
  grip,        \* the WebSocket that _send took before it waits for the lock
  waitList,    \* the holder of _send_lock and those who wait for it
  newest,      \* the last command that passed all checks on this link
  robot        \* the last command written to this link

controlVars == <<locking, link, linked, lives, flows, talk, authorized, request,
                 grip, waitList, newest, robot>>
streams == <<talk, authorized, request, grip>>
rosLink == <<link, linked, lives, flows>>
orders == <<newest, robot>>

ControlInit ==
  /\ locking \in BOOLEAN
  /\ link = 0 /\ linked = FALSE /\ lives = FALSE /\ flows = TRUE
  /\ talk = [b \in Browsers |-> "away"]
  /\ authorized = [b \in Browsers |-> FALSE]
  /\ request = [b \in Browsers |-> None] /\ grip = [b \in Browsers |-> 0]
  /\ waitList = <<>> /\ newest = None /\ robot = None
-----------------------------------------------------------------------------
(* robot_stream()                                                          *)

OpenStream(b) ==
  /\ talk[b] = "away"
  /\ talk' = [talk EXCEPT ![b] = "idle"]
  /\ UNCHANGED <<locking, rosLink, authorized, request, grip, waitList, orders>>

\* "auth" with a right or a wrong password, or none configured; "lock".
Auth(b) ==
  /\ talk[b] = "idle"
  /\ \E right \in BOOLEAN : authorized' = [authorized EXCEPT ![b] = right]
  /\ UNCHANGED <<locking, rosLink, talk, request, grip, waitList, orders>>

\* What is written to a WebSocket that broke goes nowhere.
Usable(b) == lives /\ grip[b] = link

\* publish_command() takes the WebSocket in hand.
Accepted(b, c) ==
  /\ request' = [request EXCEPT ![b] = c]
  /\ grip' = [grip EXCEPT ![b] = link]
  /\ newest' = c

\* A bad request, a browser without the right and a link that is down are
\* answered without further effect.  Otherwise the command is written, in the
\* history edition when the lock is free.
Order(b, c) ==
  /\ talk[b] = "idle" /\ authorized[b] /\ linked
  /\ Accepted(b, c)
  /\ IF locking /\ waitList # <<>>
     THEN talk' = [talk EXCEPT ![b] = "lock"] /\ UNCHANGED robot
     ELSE /\ talk' = [talk EXCEPT ![b] = "write"]
          /\ robot' = IF lives THEN c ELSE robot
  /\ waitList' = IF locking THEN Append(waitList, b) ELSE waitList
  /\ UNCHANGED <<locking, rosLink, authorized>>

\* Mutant: the WebSocket is looked up when the lock is there.
AcquireLate(b) ==
  /\ talk[b] = "lock" /\ Head(waitList) = b
  /\ talk' = [talk EXCEPT ![b] = "write"]
  /\ grip' = [grip EXCEPT ![b] = link]
  /\ robot' = IF lives THEN request[b] ELSE robot
  /\ UNCHANGED <<locking, rosLink, authorized, request, waitList, newest>>

\* Mutant: a request waits on when its WebSocket has gone meanwhile.
AcquireUsable(b) ==
  /\ talk[b] = "lock" /\ Head(waitList) = b /\ Usable(b)
  /\ talk' = [talk EXCEPT ![b] = "write"]
  /\ robot' = request[b]
  /\ UNCHANGED <<locking, rosLink, authorized, request, grip, waitList, newest>>

\* asyncio.Lock is fair.
Acquire(b) ==
  /\ talk[b] = "lock" /\ Head(waitList) = b
  /\ talk' = [talk EXCEPT ![b] = "write"]
  /\ robot' = IF Usable(b) THEN request[b] ELSE robot
  /\ UNCHANGED <<locking, rosLink, authorized, request, grip, waitList, newest>>

\* The local variables of publish_command are gone.
Answered(b) ==
  /\ request' = [request EXCEPT ![b] = None]
  /\ grip' = [grip EXCEPT ![b] = 0]

\* So are those of robot_stream.
HungUp(b) ==
  /\ talk' = [talk EXCEPT ![b] = "away"]
  /\ authorized' = [authorized EXCEPT ![b] = FALSE]

Release(b) == waitList' = IF locking THEN Tail(waitList) ELSE waitList

Published(b) ==
  /\ talk[b] = "write" /\ Usable(b) /\ flows
  /\ Release(b)
  /\ Answered(b)
  /\ talk' = [talk EXCEPT ![b] = "idle"]
  /\ UNCHANGED <<locking, rosLink, authorized, orders>>

\* The write raises: one edition answers, the other catches it nowhere and the
\* browser loses its WebSocket.
WriteFails(b) ==
  /\ talk[b] = "write" /\ ~Usable(b)
  /\ Release(b)
  /\ Answered(b)
  /\ IF locking THEN HungUp(b)
     ELSE talk' = [talk EXCEPT ![b] = "idle"] /\ UNCHANGED authorized
  /\ UNCHANGED <<locking, rosLink, orders>>

\* The browser's WebSocket ends between two requests.
CloseStream(b) ==
  /\ talk[b] = "idle"
  /\ HungUp(b)
  /\ UNCHANGED <<locking, rosLink, request, grip, waitList, orders>>
-----------------------------------------------------------------------------
(* The link                                                                *)

LinkOpens ==
  /\ ~linked /\ link < MaxLinks
  /\ link' = link + 1 /\ linked' = TRUE /\ lives' = TRUE /\ flows' = TRUE
  /\ newest' = None /\ robot' = None
  /\ UNCHANGED <<locking, streams, waitList>>

LinkBreaks ==
  /\ lives /\ lives' = FALSE
  /\ UNCHANGED <<locking, link, linked, flows, streams, waitList, orders>>

LinkLost ==
  /\ linked /\ ~lives /\ linked' = FALSE
  /\ UNCHANGED <<locking, link, lives, flows, streams, waitList, orders>>

Congest ==
  /\ lives /\ flows' = ~flows
  /\ UNCHANGED <<locking, link, linked, lives, streams, waitList, orders>>
-----------------------------------------------------------------------------
Requests(b) ==
  \/ OpenStream(b) \/ Auth(b) \/ CloseStream(b)
  \/ \E c \in Orders : Order(b, c)
  \/ Acquire(b) \/ Published(b) \/ WriteFails(b)

ControlNext ==
  (\E b \in Browsers : Requests(b)) \/ LinkOpens \/ LinkBreaks \/ LinkLost \/ Congest

\* The event loop serves every coroutine, a rosbridge that is up reads on now and
\* then, and one that does not read loses its connection.
ControlFairness ==
  /\ \A b \in Browsers :
       /\ WF_controlVars(Acquire(b) \/ WriteFails(b))
       /\ SF_controlVars(Published(b))
  /\ WF_controlVars(~flows /\ (Congest \/ LinkBreaks))

ControlSpec == ControlInit /\ [][ControlNext]_controlVars /\ ControlFairness
-----------------------------------------------------------------------------
Waiting == {b \in Browsers : talk[b] \in {"lock", "write"}}

\* Of two browsers that give orders at once the later one prevails at the robot,
\* an emergency stop above all: what waits for the lock is not overtaken, and
\* what was meant for a link that broke does not reach the next one.
LastOrderWins ==
  lives /\ (\A b \in Browsers : talk[b] # "lock") => robot = newest

\* Every command that was let through comes to an end, also when the link breaks
\* while it waits for the lock.
CommandAnswered == \A b \in Browsers : b \in Waiting ~> b \notin Waiting
=============================================================================
