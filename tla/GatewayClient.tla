---------------------------- MODULE GatewayClient ----------------------------
(***************************************************************************)
(* The TCP client of the vehicle SDK (YK_CANSDK/yk_can_sdk/client.py): the *)
(* owner that connects and closes, a thread that sends (whoever holds      *)
(* _send_lock, close() or not) and the receiver threads that connect()     *)
(* starts.  They share _socket, _connected, _stop_event and the parser.    *)
(*                                                                         *)
(* Sockets and receivers have identities, reused once closed or ended.  A  *)
(* chunk is the socket it came from: the parser is pure for one stream and *)
(* is wrong when it joins the bytes of two.                                *)
(***************************************************************************)
EXTENDS FiniteSets

CONSTANTS
  Socks,       \* TCP sockets
  NoSock,      \* _socket is None; a parser with no bytes left over
  Receivers,   \* receiver threads
  NoThread,    \* _receiver is None
  CloseFirst   \* the owner calls close() before it calls connect() again

ASSUME ClientAssumption ==
  /\ NoSock \notin Socks /\ NoThread \notin Receivers
  /\ CloseFirst \in BOOLEAN

VARIABLES
  socket,      \* _socket
  isConnected, \* _connected
  stop,        \* _stop_event
  receiver,    \* _receiver
  parser,      \* whose bytes the parser still holds
  open,        \* sockets not yet closed on this side
  cut,         \* open sockets whose stream has ended: the gateway closed it
  owner,       \* where the owner is, and the socket it holds
  sender,      \* where the sender is, and the socket it has read
  rcv          \* per receiver: where it is, the socket it reads, the one it
               \* was started for and the one it is to close

clientVars == <<socket, isConnected, stop, receiver, parser, open, cut, owner, sender, rcv>>

AnySock == Socks \cup {NoSock}
OwnerPlaces == {"idle", "adopt", "resume", "up", "start", "clear", "take", "shut", "join"}
ReceiverPlaces == {"ended", "loop", "recv", "feed", "drop", "take", "shut"}

ClientInit ==
  /\ socket = NoSock /\ isConnected = FALSE /\ stop = FALSE /\ receiver = NoThread
  /\ parser = NoSock /\ open = {} /\ cut = {}
  /\ owner = [pc |-> "idle", sock |-> NoSock]
  /\ sender = [pc |-> "idle", sock |-> NoSock]
  /\ rcv = [r \in Receivers |-> [pc |-> "ended", sock |-> NoSock, born |-> NoSock, held |-> NoSock]]

Alive(r) == rcv[r].pc # "ended"
CloseSock(s) == open' = open \ {s} /\ cut' = cut \ {s}
OwnerAt(pc, s) == owner' = [pc |-> pc, sock |-> s]
-----------------------------------------------------------------------------
(* connect                                                                 *)

\* Closed sockets that a thread has still in hand are not those of a new connection.
InHand == {sender.sock} \cup {rcv[r].sock : r \in Receivers} \cup {rcv[r].held : r \in Receivers}

\* create_connection; a refused connection changes nothing.
OpenSocket ==
  /\ owner.pc = "idle" /\ ~isConnected
  /\ CloseFirst => receiver = NoThread
  /\ \E s \in Socks \ (open \cup InHand) : OwnerAt("adopt", s) /\ open' = open \cup {s}
  /\ UNCHANGED <<socket, isConnected, stop, receiver, parser, cut, sender, rcv>>

Adopt ==
  /\ owner.pc = "adopt"
  /\ socket' = owner.sock /\ parser' = NoSock
  /\ OwnerAt("resume", owner.sock)
  /\ UNCHANGED <<isConnected, stop, receiver, open, cut, sender, rcv>>

Resume ==
  /\ owner.pc = "resume"
  /\ stop' = FALSE
  /\ OwnerAt("up", owner.sock)
  /\ UNCHANGED <<socket, isConnected, receiver, parser, open, cut, sender, rcv>>

Up ==
  /\ owner.pc = "up"
  /\ isConnected' = TRUE
  /\ OwnerAt("start", owner.sock)
  /\ UNCHANGED <<socket, stop, receiver, parser, open, cut, sender, rcv>>

Start ==
  /\ owner.pc = "start"
  /\ \E r \in Receivers :
       /\ ~Alive(r)
       /\ receiver' = r
       /\ rcv' = [rcv EXCEPT ![r] = [pc |-> "loop", sock |-> NoSock, born |-> owner.sock, held |-> NoSock]]
  /\ OwnerAt("idle", NoSock)
  /\ UNCHANGED <<socket, isConnected, stop, parser, open, cut, sender>>
-----------------------------------------------------------------------------
(* close                                                                   *)

Close ==
  /\ owner.pc = "idle"
  /\ stop' = TRUE
  /\ OwnerAt("clear", NoSock)
  /\ UNCHANGED <<socket, isConnected, receiver, parser, open, cut, sender, rcv>>

CloseClear ==
  /\ owner.pc = "clear"
  /\ isConnected' = FALSE
  /\ OwnerAt("take", NoSock)
  /\ UNCHANGED <<socket, stop, receiver, parser, open, cut, sender, rcv>>

CloseTake ==
  /\ owner.pc = "take"
  /\ socket' = NoSock
  /\ OwnerAt("shut", socket)
  /\ UNCHANGED <<isConnected, stop, receiver, parser, open, cut, sender, rcv>>

\* Mutant: close() forgets the socket without closing it.
CloseLeaks ==
  /\ owner.pc = "shut"
  /\ OwnerAt("join", NoSock)
  /\ UNCHANGED <<socket, isConnected, stop, receiver, parser, open, cut, sender, rcv>>

CloseShut ==
  /\ owner.pc = "shut"
  /\ CloseSock(owner.sock)
  /\ OwnerAt("join", NoSock)
  /\ UNCHANGED <<socket, isConnected, stop, receiver, parser, sender, rcv>>

\* Mutant: close() does not join the receiver.
CloseNoJoin ==
  /\ owner.pc = "join"
  /\ receiver' = NoThread
  /\ OwnerAt("idle", NoSock)
  /\ UNCHANGED <<socket, isConnected, stop, parser, open, cut, sender, rcv>>

\* The join (1 s) does not expire: recv times out after 0.2 s and callbacks
\* return quickly, as API.md asks of them.
CloseJoin ==
  /\ owner.pc = "join"
  /\ receiver # NoThread => ~Alive(receiver)
  /\ receiver' = NoThread
  /\ OwnerAt("idle", NoSock)
  /\ UNCHANGED <<socket, isConnected, stop, parser, open, cut, sender, rcv>>
-----------------------------------------------------------------------------
(* send_frame.  Nobody waits for a sender: it may go on while the owner    *)
(* closes the socket it has read and connects again.                       *)

SendFrame ==
  /\ sender.pc = "idle"
  /\ socket # NoSock /\ isConnected
  /\ sender' = [pc |-> "sendall", sock |-> socket]
  /\ UNCHANGED <<socket, isConnected, stop, receiver, parser, open, cut, owner, rcv>>

\* Mutant: the socket is looked up again to send.
SendAgain ==
  /\ sender.pc = "sendall"
  /\ sender' = [pc |-> "idle", sock |-> NoSock]
  /\ \/ socket \in open /\ UNCHANGED isConnected
     \/ isConnected' = FALSE
  /\ UNCHANGED <<socket, stop, receiver, parser, open, cut, owner, rcv>>

\* sendall succeeds on an open socket, or fails (always on a closed one) and
\* _record_error clears _connected.
SendAll ==
  /\ sender.pc = "sendall"
  /\ sender' = [pc |-> "idle", sock |-> NoSock]
  /\ \/ sender.sock \in open /\ UNCHANGED isConnected
     \/ isConnected' = FALSE
  /\ UNCHANGED <<socket, stop, receiver, parser, open, cut, owner, rcv>>
-----------------------------------------------------------------------------
(* _receive_loop                                                           *)

At(r, pc) == rcv' = [rcv EXCEPT ![r].pc = pc]

Loop(r) ==
  /\ rcv[r].pc = "loop"
  /\ IF stop \/ socket = NoSock
     THEN At(r, "drop")
     ELSE rcv' = [rcv EXCEPT ![r].pc = "recv", ![r].sock = socket]
  /\ UNCHANGED <<socket, isConnected, stop, receiver, parser, open, cut, owner, sender>>

\* Mutant: an empty chunk counts as a timeout.
RecvIgnoresEnd(r) ==
  /\ rcv[r].pc = "recv"
  /\ LET s == rcv[r].sock IN
     \/ s \in open \ cut /\ At(r, "feed")
     \/ s \in open /\ At(r, "loop")
     \/ s \notin open /\ At(r, "drop")
  /\ UNCHANGED <<socket, isConnected, stop, receiver, parser, open, cut, owner, sender>>

\* Mutant: a timeout of recv ends the receiver like any other OSError.
RecvTimesOut(r) ==
  /\ rcv[r].pc = "recv"
  /\ LET s == rcv[r].sock IN
     \/ s \in open \ cut /\ At(r, "feed")
     \/ At(r, "drop")
  /\ UNCHANGED <<socket, isConnected, stop, receiver, parser, open, cut, owner, sender>>

\* Mutant: a recv without a timeout sleeps on when its socket is closed.
RecvSleeps(r) ==
  /\ rcv[r].pc = "recv"
  /\ LET s == rcv[r].sock IN
     \/ s \in open \ cut /\ At(r, "feed")
     \/ s \in cut /\ At(r, "drop")
  /\ UNCHANGED <<socket, isConnected, stop, receiver, parser, open, cut, owner, sender>>

\* A chunk or a timeout while the stream goes on; the end of the stream, or an
\* error on a socket closed meanwhile.
Recv(r) ==
  /\ rcv[r].pc = "recv"
  /\ LET s == rcv[r].sock IN
     \/ s \in open \ cut /\ (At(r, "feed") \/ At(r, "loop"))
     \/ s \notin open \ cut /\ At(r, "drop")
  /\ UNCHANGED <<socket, isConnected, stop, receiver, parser, open, cut, owner, sender>>

\* The parser takes the chunk and keeps an incomplete frame, or nothing.
Feed(r) ==
  /\ rcv[r].pc = "feed"
  /\ parser' \in {NoSock, rcv[r].sock}
  /\ At(r, "loop")
  /\ UNCHANGED <<socket, isConnected, stop, receiver, open, cut, owner, sender>>

\* The finally block.
Drop(r) ==
  /\ rcv[r].pc = "drop"
  /\ isConnected' = FALSE
  /\ At(r, "take")
  /\ UNCHANGED <<socket, stop, receiver, parser, open, cut, owner, sender>>

Take(r) ==
  /\ rcv[r].pc = "take"
  /\ socket' = NoSock
  /\ rcv' = [rcv EXCEPT ![r].pc = "shut", ![r].held = socket]
  /\ UNCHANGED <<isConnected, stop, receiver, parser, open, cut, owner, sender>>

Shut(r) ==
  /\ rcv[r].pc = "shut"
  /\ CloseSock(rcv[r].held)
  /\ rcv' = [rcv EXCEPT ![r] = [pc |-> "ended", sock |-> NoSock, born |-> NoSock, held |-> NoSock]]
  /\ UNCHANGED <<socket, isConnected, stop, receiver, parser, owner, sender>>

\* The gateway closes the stream of a socket.
CutLink(s) ==
  /\ s \in open \ cut
  /\ cut' = cut \cup {s}
  /\ UNCHANGED <<socket, isConnected, stop, receiver, parser, open, owner, sender, rcv>>
-----------------------------------------------------------------------------
OwnerStep ==
  \/ Adopt \/ Resume \/ Up \/ Start
  \/ CloseClear \/ CloseTake \/ CloseShut \/ CloseJoin

ReceiverStep(r) == Loop(r) \/ Recv(r) \/ Feed(r) \/ Drop(r) \/ Take(r) \/ Shut(r)

ClientNext ==
  \/ OpenSocket \/ Close \/ OwnerStep
  \/ SendFrame \/ SendAll
  \/ \E r \in Receivers : ReceiverStep(r)
  \/ \E s \in Socks : CutLink(s)

\* Threads are scheduled; nobody has to call and the gateway owes nothing.
ClientFairness ==
  /\ WF_clientVars(OwnerStep) /\ WF_clientVars(SendAll)
  /\ \A r \in Receivers : WF_clientVars(ReceiverStep(r))

ClientSpec == ClientInit /\ [][ClientNext]_clientVars
FairClientSpec == ClientSpec /\ ClientFairness
-----------------------------------------------------------------------------
\* Types; a receiver reads from a socket, never from None.
ClientTypeOK ==
  /\ socket \in AnySock /\ isConnected \in BOOLEAN /\ stop \in BOOLEAN
  /\ receiver \in Receivers \cup {NoThread}
  /\ parser \in AnySock
  /\ open \subseteq Socks /\ cut \subseteq open
  /\ owner \in [pc : OwnerPlaces, sock : AnySock]
  /\ sender \in [pc : {"idle", "sendall"}, sock : AnySock]
  /\ rcv \in [Receivers -> [pc : ReceiverPlaces, sock : AnySock, born : AnySock, held : AnySock]]
  /\ \A r \in Receivers : rcv[r].pc \in {"recv", "feed"} => rcv[r].sock \in Socks

\* A client that says it is connected has an open socket to send on.
ConnectedMeansSocket == isConnected => socket \in open

\* Every open socket is _socket, or in the hands of a thread that goes on to
\* adopt or to close it: nothing leaks.  (The gateway serves few connections.)
NothingLeaks ==
  \A s \in open :
    \/ s = socket
    \/ owner.sock = s /\ owner.pc \in {"adopt", "shut"}
    \/ \E r \in Receivers : rcv[r].pc = "shut" /\ rcv[r].held = s

\* A receiver closes no socket but the one connect() started it for.
NoStrayClose ==
  \A r \in Receivers : rcv[r].pc = "shut" => rcv[r].held \in {NoSock, rcv[r].born}

\* The parser never joins the bytes of two connections: a receiver that has a
\* chunk finds only bytes of its own stream there.
OneStream ==
  \A r \in Receivers : rcv[r].pc = "feed" => parser \in {NoSock, rcv[r].sock}

\* close() leaves nothing behind: no receiver, no socket, no connection.
ClosedIsQuiet ==
  owner.pc = "idle" /\ receiver = NoThread =>
    /\ \A r \in Receivers : ~Alive(r)
    /\ open = {} /\ ~isConnected

\* With its sockets and threads hidden the client is one Link: a connection starts
\* with nobody left on an earlier one but a late sender, who delivers nothing to it;
\* it goes down for a cause, and a close leaves nobody receiving.
TheLink == INSTANCE Link WITH
             up <- isConnected,
             receiving <- owner.pc = "start"
                          \/ \E r \in Receivers : rcv[r].pc \in {"loop", "recv", "feed", "drop"},
             sending <- sender.pc = "sendall",
             late <- isConnected /\ sender.pc = "sendall" /\ sender.sock # socket,
             closing <- owner.pc \in {"clear", "take", "shut", "join"},
             over <- cut # {}
ImplementsLink == TheLink!Spec

\* The loss of the connection is noticed, and every close returns.
LossNoticed == socket \in cut ~> socket \notin cut
CloseReturns == owner.pc = "clear" ~> owner.pc = "idle"
-----------------------------------------------------------------------------
(* A disagreement with the code's own claims                               *)

\* is_connected is "whether the receiver thread holds the connection for valid"
\* (docs/API.md line 71): a connection is given up in a close(), at the end of its
\* stream or after a failed send on its own socket, and nothing of an earlier one
\* ends it.
LossHasCause ==
  [][isConnected /\ ~isConnected' =>
       owner.pc = "clear" \/ socket \in cut \/ sender.sock = socket]_clientVars
=============================================================================
