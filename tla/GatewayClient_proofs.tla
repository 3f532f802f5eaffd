------------------------ MODULE GatewayClient_proofs ------------------------
(***************************************************************************)
(* Proofs about GatewayClient, for every set of sockets and receivers: an  *)
(* owner that closes before it connects again has one session at a time.   *)
(***************************************************************************)
EXTENDS GatewayClient, TLAPS

\* What a socket variable may hold.
LEMMA AnySockIs == NoSock \in AnySock /\ Socks \subseteq AnySock
BY DEF AnySock

\* Every state of the client is well typed.
THEOREM ClientTypes == ClientSpec => []ClientTypeOK
<1> USE AnySockIs DEF ClientTypeOK, OwnerPlaces, ReceiverPlaces
<1>1. ClientInit => ClientTypeOK
  <2> SUFFICES ASSUME ClientInit PROVE ClientTypeOK
    OBVIOUS
  <2>1. owner \in [pc : OwnerPlaces, sock : AnySock] BY DEF ClientInit
  <2>2. sender \in [pc : {"idle", "sendall"}, sock : AnySock] BY DEF ClientInit
  <2>3. rcv \in [Receivers -> [pc : ReceiverPlaces, sock : AnySock, born : AnySock, held : AnySock]]
    BY DEF ClientInit
  <2>4. QED BY <2>1, <2>2, <2>3 DEF ClientInit
<1>2. ClientTypeOK /\ [ClientNext]_clientVars => ClientTypeOK'
  <2> SUFFICES ASSUME ClientTypeOK, [ClientNext]_clientVars PROVE ClientTypeOK'
    OBVIOUS
  <2>1. CASE OpenSocket BY <2>1 DEF OpenSocket, OwnerAt
  <2>2. CASE Close BY <2>2 DEF Close, OwnerAt
  <2>3. CASE Adopt BY <2>3 DEF Adopt, OwnerAt
  <2>3a. CASE Resume BY <2>3a DEF Resume, OwnerAt
  <2>3b. CASE Up BY <2>3b DEF Up, OwnerAt
  <2>4. CASE Start BY <2>4 DEF Start, OwnerAt
  <2>5. CASE CloseClear BY <2>5 DEF CloseClear, OwnerAt
  <2>5a. CASE CloseTake BY <2>5a DEF CloseTake, OwnerAt
  <2>5b. CASE CloseJoin BY <2>5b DEF CloseJoin, OwnerAt
  <2>6. CASE CloseShut BY <2>6 DEF CloseShut, CloseSock, OwnerAt
  <2>7. CASE SendFrame BY <2>7 DEF SendFrame
  <2>7a. CASE SendAll BY <2>7a DEF SendAll
  <2>8. ASSUME NEW r \in Receivers, ReceiverStep(r) PROVE ClientTypeOK'
    <3>1. CASE Loop(r)
      <4>1. CASE stop \/ socket = NoSock BY <3>1, <4>1 DEF Loop, At
      <4>2. CASE ~(stop \/ socket = NoSock)
        <5>1. socket \in Socks BY <4>2 DEF AnySock
        <5>2. QED BY <3>1, <4>2, <5>1 DEF Loop
      <4>3. QED BY <4>1, <4>2
    <3>2. CASE Recv(r) BY <3>2 DEF Recv, At
    <3>3. CASE Feed(r) BY <3>3 DEF Feed, At
    <3>4. CASE Drop(r) BY <3>4 DEF Drop, At
    <3>5. CASE Take(r) BY <3>5 DEF Take
    <3>6. CASE Shut(r) BY <3>6 DEF Shut, CloseSock
    <3>7. QED BY <2>8, <3>1, <3>2, <3>3, <3>4, <3>5, <3>6 DEF ReceiverStep
  <2>9. ASSUME NEW s \in Socks, CutLink(s) PROVE ClientTypeOK' BY <2>9 DEF CutLink
  <2>10. CASE UNCHANGED clientVars BY <2>10 DEF clientVars
  <2>11. QED
    BY <2>1, <2>2, <2>3, <2>3a, <2>3b, <2>4, <2>5, <2>5a, <2>5b, <2>6, <2>7, <2>7a, <2>8, <2>9, <2>10
    DEF ClientNext, OwnerStep
<1>3. QED BY <1>1, <1>2, PTL DEF ClientSpec
-----------------------------------------------------------------------------
(* Sessions                                                                *)

Opening == owner.pc \in {"adopt", "resume", "up", "start"}

\* The owner's part of a session with socket s.
OwnerIn(s) ==
  /\ owner.sock \in {s, NoSock}
  /\ owner.pc \in {"adopt", "resume", "up", "start"} => owner.sock = s /\ s \in Socks
  /\ owner.pc = "adopt" => socket = NoSock /\ s \in open
  /\ owner.pc \in {"resume", "up", "start"} => socket = s /\ s \in open /\ parser = NoSock
  /\ owner.pc \in {"adopt", "resume", "up", "take", "shut", "join"} => ~isConnected
  /\ owner.pc \in {"shut", "join"} => socket = NoSock
  /\ owner.pc \in {"idle", "clear", "take", "join"} => owner.sock = NoSock

\* A receiver's part of it.
ReceiverIn(r, s) ==
  /\ receiver = r
  /\ rcv[r].born = s /\ s \in Socks
  /\ rcv[r].sock \in {s, NoSock} /\ rcv[r].held \in {s, NoSock}
  /\ rcv[r].pc \in {"recv", "feed"} => rcv[r].sock = s
  /\ rcv[r].pc \in {"take", "shut"} => ~isConnected
  /\ rcv[r].pc = "shut" => socket = NoSock
  /\ parser \in {s, NoSock}
  /\ ~Opening

OneSession(s) ==
  /\ open \subseteq {s} /\ socket \in {s, NoSock}
  /\ isConnected => socket = s /\ s \in open /\ s \in Socks
  /\ Opening => receiver = NoThread
  /\ OwnerIn(s)
  /\ \A r \in Receivers : Alive(r) => ReceiverIn(r, s)
  /\ receiver = NoThread /\ ~Opening => socket = NoSock /\ open = {} /\ ~isConnected

SessionInv == NothingLeaks /\ \E s \in AnySock : OneSession(s)

\* Steps of the owner after OpenSocket keep the session they belong to.
LEMMA OwnerKeepsSession ==
  ASSUME CloseFirst, ClientTypeOK, NothingLeaks, NEW s \in AnySock, OneSession(s), OwnerStep \/ Close
  PROVE  NothingLeaks' /\ OneSession(s)'
<1> USE DEF ClientTypeOK, AnySock, OneSession, OwnerIn, ReceiverIn, Opening, Alive, NothingLeaks
<1>1. CASE Close BY <1>1 DEF Close, OwnerAt
<1>2. CASE Adopt BY <1>2 DEF Adopt, OwnerAt
<1>3. CASE Resume BY <1>3 DEF Resume, OwnerAt
<1>4. CASE Up BY <1>4 DEF Up, OwnerAt
<1>5. CASE Start BY <1>5, ClientAssumption DEF Start, OwnerAt
<1>6. CASE CloseClear BY <1>6 DEF CloseClear, OwnerAt
<1>7. CASE CloseTake BY <1>7 DEF CloseTake, OwnerAt
<1>8. CASE CloseShut BY <1>8 DEF CloseShut, CloseSock, OwnerAt
<1>9. CASE CloseJoin
  <2>1. \A r \in Receivers : ~Alive(r) BY <1>9, ClientAssumption DEF CloseJoin
  <2>2. open = {} BY <1>9, <2>1, ClientAssumption DEF CloseJoin
  <2>3. QED BY <1>9, <2>1, <2>2 DEF CloseJoin, OwnerAt
<1>10. QED BY <1>1, <1>2, <1>3, <1>4, <1>5, <1>6, <1>7, <1>8, <1>9 DEF OwnerStep

LEMMA ReceiverKeepsSession ==
  ASSUME CloseFirst, ClientTypeOK, NothingLeaks, NEW s \in AnySock, OneSession(s),
         NEW r \in Receivers, ReceiverStep(r)
  PROVE  NothingLeaks' /\ OneSession(s)'
<1> USE ClientAssumption
    DEF ClientTypeOK, AnySock, OneSession, OwnerIn, ReceiverIn, Opening, Alive, NothingLeaks
<1>1. CASE Loop(r) BY <1>1 DEF Loop, At
<1>2. CASE Recv(r) BY <1>2 DEF Recv, At
<1>3. CASE Feed(r) BY <1>3 DEF Feed, At
<1>4. CASE Drop(r) BY <1>4 DEF Drop, At
<1>5. CASE Take(r) BY <1>5 DEF Take
<1>6. CASE Shut(r) BY <1>6 DEF Shut, CloseSock
<1>7. QED BY <1>1, <1>2, <1>3, <1>4, <1>5, <1>6 DEF ReceiverStep

\* An owner that closes before it connects again has one session at a time.
LEMMA OneSessionHolds ==
  ASSUME CloseFirst
  PROVE  ClientSpec => []SessionInv
<1> USE DEF ClientTypeOK, OneSession, OwnerIn, ReceiverIn, Opening, Alive, NothingLeaks
<1>1. ClientInit => SessionInv
  <2> SUFFICES ASSUME ClientInit PROVE NothingLeaks /\ OneSession(NoSock)
    BY AnySockIs DEF SessionInv
  <2>1. \A r \in Receivers : ~Alive(r) BY DEF ClientInit
  <2>2. QED BY <2>1 DEF ClientInit
<1>2. ClientTypeOK /\ SessionInv /\ [ClientNext]_clientVars => SessionInv'
  <2> SUFFICES ASSUME ClientTypeOK, SessionInv, [ClientNext]_clientVars PROVE SessionInv'
    OBVIOUS
  <2>0. PICK s \in AnySock : OneSession(s) BY DEF SessionInv
  <2> SUFFICES ASSUME ~OpenSocket PROVE NothingLeaks' /\ OneSession(s)'
    <3>1. ASSUME OpenSocket PROVE SessionInv'
      <4>1. receiver = NoThread /\ owner.pc = "idle" /\ ~isConnected /\ open = {} /\ socket = NoSock
        BY <2>0, <3>1 DEF OpenSocket
      <4>2. \A r \in Receivers : ~Alive(r) BY <2>0, <4>1, ClientAssumption
      <4>3. PICK d \in Socks : OwnerAt("adopt", d) /\ open' = {d} BY <3>1, <4>1 DEF OpenSocket
      <4>4. d \in AnySock BY AnySockIs
      <4>5. UNCHANGED <<socket, isConnected, receiver, rcv>> BY <3>1 DEF OpenSocket
      <4>6. NothingLeaks' /\ OneSession(d)' BY <4>1, <4>2, <4>3, <4>5 DEF OwnerAt
      <4>7. QED BY <4>4, <4>6 DEF SessionInv
    <3>2. QED BY <3>1, AnySockIs DEF SessionInv
  <2>1. CASE OwnerStep \/ Close BY <2>0, <2>1, OwnerKeepsSession DEF SessionInv
  <2>2. CASE SendFrame BY <2>0, <2>2 DEF SendFrame, SessionInv
  <2>3. CASE SendAll BY <2>0, <2>3 DEF SendAll, SessionInv
  <2>4. ASSUME NEW r \in Receivers, ReceiverStep(r) PROVE NothingLeaks' /\ OneSession(s)'
    BY <2>0, <2>4, ReceiverKeepsSession DEF SessionInv
  <2>5. ASSUME NEW c \in Socks, CutLink(c) PROVE NothingLeaks' /\ OneSession(s)'
    BY <2>0, <2>5 DEF CutLink, SessionInv
  <2>6. CASE UNCHANGED clientVars BY <2>0, <2>6 DEF clientVars, SessionInv
  <2>7. QED BY <2>1, <2>2, <2>3, <2>4, <2>5, <2>6 DEF ClientNext
<1>3. QED BY <1>1, <1>2, ClientTypes, PTL DEF ClientSpec

\* For such an owner: is_connected means an open socket; every open socket is in
\* somebody's hands; no receiver closes a socket of another session; the parser
\* joins no two streams; and a close that returned leaves nothing behind.
THEOREM SessionsHold ==
  ASSUME CloseFirst
  PROVE  ClientSpec => [](ConnectedMeansSocket /\ NothingLeaks /\ NoStrayClose /\ OneStream /\ ClosedIsQuiet)
<1>1. ClientTypeOK /\ SessionInv
      => ConnectedMeansSocket /\ NothingLeaks /\ NoStrayClose /\ OneStream /\ ClosedIsQuiet
  <2> SUFFICES ASSUME ClientTypeOK, SessionInv
               PROVE  ConnectedMeansSocket /\ NothingLeaks /\ NoStrayClose /\ OneStream /\ ClosedIsQuiet
    OBVIOUS
  <2>1. PICK s \in AnySock : OneSession(s) BY DEF SessionInv
  <2>2. ConnectedMeansSocket BY <2>1 DEF OneSession, ConnectedMeansSocket
  <2>3. NoStrayClose /\ OneStream
    BY <2>1 DEF OneSession, ReceiverIn, Alive, NoStrayClose, OneStream
  <2>4. ClosedIsQuiet
    BY <2>1, ClientAssumption DEF OneSession, ReceiverIn, Alive, Opening, ClosedIsQuiet
  <2>5. QED BY <2>2, <2>3, <2>4 DEF SessionInv
<1>2. QED BY <1>1, OneSessionHolds, ClientTypes, PTL

\* is_connected never speaks of a socket that is closed.
THEOREM SocketHolds == ASSUME CloseFirst PROVE ClientSpec => []ConnectedMeansSocket
BY SessionsHold, PTL

\* No socket stays open that nobody will close.
THEOREM LeakHolds == ASSUME CloseFirst PROVE ClientSpec => []NothingLeaks
BY SessionsHold, PTL

\* No receiver closes the socket of another session.
THEOREM StrayHolds == ASSUME CloseFirst PROVE ClientSpec => []NoStrayClose
BY SessionsHold, PTL

\* The parser never joins the bytes of two connections.
THEOREM StreamHolds == ASSUME CloseFirst PROVE ClientSpec => []OneStream
BY SessionsHold, PTL

\* After close() there is no receiver, no socket and no connection.
THEOREM QuietHolds == ASSUME CloseFirst PROVE ClientSpec => []ClosedIsQuiet
BY SessionsHold, PTL
-----------------------------------------------------------------------------
(* What ends a session                                                     *)

\* Only a close stops a connection that stands, and a receiver gives one up for
\* that, or for the end of the stream.  A send under way while the owner opens a
\* connection is not on its socket.
CauseInv ==
  /\ owner.pc = "up" => ~stop
  /\ stop /\ isConnected => owner.pc = "clear"
  /\ \A r \in Receivers :
       rcv[r].pc = "drop" /\ isConnected => owner.pc = "clear" \/ socket \in cut
  /\ sender.pc = "sendall" /\ owner.pc \in {"adopt", "resume", "up"} => sender.sock # owner.sock

Cause == owner.pc = "clear" \/ socket \in cut \/ sender.sock = socket

\* A send on a socket that is closed fails.
LateFailure == SendAll /\ sender.sock \notin open

\* CauseInv is kept, and nothing drops a connection without a cause but a late failure.
LEMMA CauseKept ==
  ASSUME CloseFirst, ClientTypeOK, SessionInv, CauseInv, [ClientNext]_clientVars
  PROVE  CauseInv' /\ (isConnected /\ ~isConnected' => Cause \/ LateFailure)
<1> PICK s \in AnySock : OneSession(s)
  BY DEF SessionInv
<1> USE ClientAssumption
    DEF ClientTypeOK, AnySock, OneSession, OwnerIn, ReceiverIn, Opening, Alive, CauseInv, Cause
<1>1. CASE OpenSocket BY <1>1 DEF OpenSocket, InHand, OwnerAt
<1>2. CASE Close BY <1>2 DEF Close, OwnerAt
<1>3. CASE Adopt BY <1>3 DEF Adopt, OwnerAt
<1>4. CASE Resume BY <1>4 DEF Resume, OwnerAt
<1>5. CASE Up
  <2>1. \A r \in Receivers : rcv[r].pc = "ended"
    BY <1>5 DEF Up
  <2>2. QED BY <1>5, <2>1 DEF Up, OwnerAt
<1>6. CASE Start BY <1>6 DEF Start, OwnerAt
<1>7. CASE CloseClear BY <1>7 DEF CloseClear, OwnerAt
<1>8. CASE CloseTake BY <1>8 DEF CloseTake, OwnerAt
<1>9. CASE CloseShut BY <1>9 DEF CloseShut, CloseSock, OwnerAt
<1>10. CASE CloseJoin BY <1>10 DEF CloseJoin, OwnerAt
<1>11. CASE SendFrame BY <1>11 DEF SendFrame
<1>12. CASE SendAll
  <2>1. CauseInv' BY <1>12 DEF SendAll
  <2>2. ASSUME isConnected, ~Cause PROVE LateFailure BY <1>12, <2>2 DEF LateFailure
  <2>3. QED BY <2>1, <2>2
<1>13. ASSUME NEW r \in Receivers, ReceiverStep(r)
       PROVE  CauseInv' /\ (isConnected /\ ~isConnected' => Cause \/ LateFailure)
  <2>1. CASE Loop(r) BY <2>1 DEF Loop, At
  <2>2. CASE Recv(r) BY <2>2 DEF Recv, At
  <2>3. CASE Feed(r) BY <2>3 DEF Feed, At
  <2>4. CASE Drop(r) BY <2>4 DEF Drop, At
  <2>5. CASE Take(r) BY <2>5 DEF Take
  <2>6. CASE Shut(r) BY <2>6 DEF Shut, CloseSock
  <2>7. QED BY <1>13, <2>1, <2>2, <2>3, <2>4, <2>5, <2>6 DEF ReceiverStep
<1>14. ASSUME NEW c \in Socks, CutLink(c)
       PROVE  CauseInv' /\ (isConnected /\ ~isConnected' => Cause \/ LateFailure)
  BY <1>14 DEF CutLink
<1>15. CASE UNCHANGED clientVars BY <1>15 DEF clientVars
<1>16. QED
  BY <1>1, <1>2, <1>3, <1>4, <1>5, <1>6, <1>7, <1>8, <1>9, <1>10, <1>11, <1>12, <1>13,
     <1>14, <1>15 DEF ClientNext, OwnerStep

\* For an owner that closes before it connects again: a connection is given up only
\* for a close(), the end of its stream or a failed send on its own socket, or when
\* a send that is left of an earlier connection fails on the socket closed since.
THEOREM LossIsCaused ==
  ASSUME CloseFirst
  PROVE  ClientSpec => [][isConnected /\ ~isConnected' => Cause \/ LateFailure]_clientVars
<1>1. ClientInit => CauseInv
  BY DEF ClientInit, CauseInv
<1>2. ClientTypeOK /\ SessionInv /\ CauseInv /\ [ClientNext]_clientVars
        => CauseInv' /\ [isConnected /\ ~isConnected' => Cause \/ LateFailure]_clientVars
  BY CauseKept
<1>3. QED BY <1>1, <1>2, ClientTypes, OneSessionHolds, PTL DEF ClientSpec
-----------------------------------------------------------------------------
(* The client is one Link                                                  *)

\* TheLink's receiving, and where a receiver counts for it.
Reads(r) == rcv[r].pc \in {"loop", "recv", "feed", "drop"}
Receiving == owner.pc = "start" \/ \E r \in Receivers : Reads(r)
Closing == owner.pc \in {"clear", "take", "shut", "join"}
Late == isConnected /\ sender.pc = "sendall" /\ sender.sock # socket

\* A step that moves none of what the link shows stutters.
LEMMA LinkStutters ==
  ASSUME UNCHANGED <<isConnected, Receiving, sender.pc, Late, Closing, cut>>
  PROVE  UNCHANGED TheLink!linkVars
BY DEF TheLink!linkVars, Receiving, Reads, Closing, Late

\* Every step of the client is a step of the link or none.
LEMMA LinkStep ==
  ASSUME CloseFirst, ClientTypeOK, SessionInv, CauseInv, [ClientNext]_clientVars
  PROVE  [TheLink!Next]_TheLink!linkVars
<1> PICK s \in AnySock : OneSession(s)
  BY DEF SessionInv
<1> USE ClientAssumption
<1> USE DEF ClientTypeOK, AnySock, OneSession, OwnerIn, ReceiverIn, Opening, Alive, CauseInv,
            Receiving, Reads, Closing, Late
<1>1. CASE OpenSocket
  <2>1. UNCHANGED <<isConnected, Receiving, sender.pc, Late, Closing, cut>> BY <1>1 DEF OpenSocket, OwnerAt
  <2>2. QED BY <2>1, LinkStutters
<1>2. CASE Close
  <2>1. ~Closing /\ Closing' BY <1>2 DEF Close, OwnerAt
  <2>2. UNCHANGED <<isConnected, Receiving, sender.pc, Late, cut>> BY <1>2 DEF Close, OwnerAt
  <2>3. TheLink!Close BY <2>1, <2>2 DEF TheLink!Close
  <2>4. QED BY <2>3 DEF TheLink!Next
<1>3. CASE Adopt
  <2>1. UNCHANGED <<isConnected, Receiving, sender.pc, Late, Closing, cut>> BY <1>3 DEF Adopt, OwnerAt
  <2>2. QED BY <2>1, LinkStutters
<1>4. CASE Resume
  <2>1. UNCHANGED <<isConnected, Receiving, sender.pc, Late, Closing, cut>> BY <1>4 DEF Resume, OwnerAt
  <2>2. QED BY <2>1, LinkStutters
<1>5. CASE Up
  <2>1. ~isConnected /\ ~Receiving /\ ~Closing BY <1>5 DEF Up
  <2>2. isConnected' /\ Receiving' /\ UNCHANGED <<sender.pc, Closing, cut>> BY <1>5 DEF Up, OwnerAt
  <2>3. Late' <=> sender.pc = "sendall" BY <1>5 DEF Up
  <2>4. TheLink!Connect BY <2>1, <2>2, <2>3, <1>5 DEF TheLink!Connect, Up
  <2>5. QED BY <2>4 DEF TheLink!Next
<1>6. CASE Start
  <2>1. Receiving /\ Receiving' BY <1>6 DEF Start, OwnerAt
  <2>2. UNCHANGED <<isConnected, Receiving, sender.pc, Late, Closing, cut>> BY <1>6, <2>1 DEF Start, OwnerAt
  <2>3. QED BY <2>2, LinkStutters
<1>7. CASE CloseClear
  <2>1. UNCHANGED <<Receiving, sender.pc, cut>> /\ Closing /\ Closing' BY <1>7 DEF CloseClear, OwnerAt
  <2>2. TheLink!CloseDrop BY <1>7, <2>1 DEF CloseClear, TheLink!CloseDrop, TheLink!Down
  <2>3. QED BY <2>2 DEF TheLink!Next
<1>8. CASE CloseTake
  <2>1. UNCHANGED <<isConnected, Receiving, sender.pc, Late, Closing, cut>> BY <1>8 DEF CloseTake, OwnerAt
  <2>2. QED BY <2>1, LinkStutters
<1>9. CASE CloseShut
  <2>1. UNCHANGED <<isConnected, Receiving, sender.pc, Late, Closing>> BY <1>9 DEF CloseShut, CloseSock, OwnerAt
  <2>2. CASE cut' = cut BY <2>1, <2>2, LinkStutters
  <2>3. CASE cut' # cut
    <3>1. cut' = {} /\ ~isConnected BY <1>9, <2>3 DEF CloseShut, CloseSock
    <3>2. TheLink!Forget BY <2>1, <3>1 DEF TheLink!Forget
    <3>3. QED BY <3>2 DEF TheLink!Next
  <2>4. QED BY <2>2, <2>3
<1>10. CASE CloseJoin
  <2>1. \A r \in Receivers : ~Alive(r) BY <1>10 DEF CloseJoin
  <2>2. ~isConnected /\ ~Receiving /\ Closing /\ ~Closing'
    BY <1>10, <2>1 DEF CloseJoin, OwnerAt
  <2>3. UNCHANGED <<isConnected, Receiving, sender.pc, Late, cut>> BY <1>10 DEF CloseJoin, OwnerAt
  <2>4. TheLink!CloseReturns BY <2>2, <2>3 DEF TheLink!CloseReturns
  <2>5. QED BY <2>4 DEF TheLink!Next
<1>11. CASE SendFrame
  <2>1. UNCHANGED <<isConnected, Receiving, Late, Closing, cut>> BY <1>11 DEF SendFrame
  <2>2. TheLink!Send BY <1>11, <2>1 DEF SendFrame, TheLink!Send
  <2>3. QED BY <2>2 DEF TheLink!Next
<1>12. CASE SendAll
  <2>1. UNCHANGED <<Receiving, Closing, cut>> BY <1>12 DEF SendAll
  <2>2. CASE sender.sock \in open /\ UNCHANGED isConnected
    <3>1. ~Late BY <2>2
    <3>2. ~Late' BY <1>12 DEF SendAll
    <3>3. TheLink!Sent BY <1>12, <2>1, <2>2, <3>1, <3>2 DEF SendAll, TheLink!Sent
    <3>4. QED BY <3>3 DEF TheLink!Next
  <2>3. CASE isConnected' = FALSE
    <3>1. TheLink!SendFails BY <1>12, <2>1, <2>3 DEF SendAll, TheLink!SendFails, TheLink!Down
    <3>2. QED BY <3>1 DEF TheLink!Next
  <2>4. QED BY <1>12, <2>2, <2>3 DEF SendAll
<1>13. ASSUME NEW r \in Receivers, ReceiverStep(r)
       PROVE  [TheLink!Next]_TheLink!linkVars
  <2>1. CASE Loop(r)
    <3>1. Reads(r) /\ Reads(r)' BY <2>1 DEF Loop, At
    <3>2. UNCHANGED <<isConnected, Receiving, sender.pc, Late, Closing, cut>> BY <2>1, <3>1 DEF Loop
    <3>3. QED BY <3>2, LinkStutters
  <2>2. CASE Recv(r)
    <3>1. Reads(r) /\ Reads(r)' BY <2>2 DEF Recv, At
    <3>2. UNCHANGED <<isConnected, Receiving, sender.pc, Late, Closing, cut>> BY <2>2, <3>1 DEF Recv
    <3>3. QED BY <3>2, LinkStutters
  <2>3. CASE Feed(r)
    <3>1. Reads(r) /\ Reads(r)' BY <2>3 DEF Feed, At
    <3>2. UNCHANGED <<isConnected, Receiving, sender.pc, Late, Closing, cut>> BY <2>3, <3>1 DEF Feed
    <3>3. QED BY <3>2, LinkStutters
  <2>4. CASE Drop(r)
    <3>1. Receiving /\ (isConnected => Closing \/ cut # {}) BY <2>4 DEF Drop
    <3>2. \A q \in Receivers : q # r => rcv[q].pc = "ended" BY <2>4 DEF Drop
    <3>3. ~Receiving' BY <2>4, <3>2 DEF Drop, At
    <3>4. TheLink!ReceiverEnds BY <2>4, <3>1, <3>3 DEF Drop, TheLink!ReceiverEnds, TheLink!Down
    <3>5. QED BY <3>4 DEF TheLink!Next
  <2>5. CASE Take(r)
    <3>1. ~Reads(r) /\ ~Reads(r)' BY <2>5 DEF Take
    <3>2. \A q \in Receivers : Reads(q)' = Reads(q) BY <2>5, <3>1 DEF Take
    <3>3. UNCHANGED <<isConnected, Receiving, sender.pc, Late, Closing, cut>> BY <2>5, <3>2 DEF Take
    <3>4. QED BY <3>3, LinkStutters
  <2>6. CASE Shut(r)
    <3>1. ~Reads(r) /\ ~Reads(r)' BY <2>6 DEF Shut
    <3>2. \A q \in Receivers : Reads(q)' = Reads(q) BY <2>6, <3>1 DEF Shut
    <3>3. UNCHANGED <<isConnected, Receiving, sender.pc, Late, Closing>> BY <2>6, <3>2 DEF Shut
    <3>4. CASE cut' = cut BY <3>3, <3>4, LinkStutters
    <3>5. CASE cut' # cut
      <4>1. cut' = {} /\ ~isConnected BY <2>6, <3>5 DEF Shut, CloseSock
      <4>2. TheLink!Forget BY <3>3, <4>1 DEF TheLink!Forget
      <4>3. QED BY <4>2 DEF TheLink!Next
    <3>6. QED BY <3>4, <3>5
  <2>7. QED BY <1>13, <2>1, <2>2, <2>3, <2>4, <2>5, <2>6 DEF ReceiverStep
<1>14. ASSUME NEW c \in Socks, CutLink(c)
       PROVE  [TheLink!Next]_TheLink!linkVars
  <2>1. cut' # {} /\ UNCHANGED <<isConnected, Receiving, sender.pc, Late, Closing>> BY <1>14 DEF CutLink
  <2>2. TheLink!StreamEnds BY <2>1 DEF TheLink!StreamEnds
  <2>3. QED BY <2>2 DEF TheLink!Next
<1>15. CASE UNCHANGED clientVars
  <2>1. UNCHANGED <<isConnected, Receiving, sender.pc, Late, Closing, cut>> BY <1>15 DEF clientVars
  <2>2. QED BY <2>1, LinkStutters
<1>16. QED
  BY <1>1, <1>2, <1>3, <1>4, <1>5, <1>6, <1>7, <1>8, <1>9, <1>10, <1>11, <1>12, <1>13,
     <1>14, <1>15 DEF ClientNext, OwnerStep

\* For such an owner the client implements Link: a connection starts with nobody
\* receiving on an earlier one; it goes down in a close, at the end of its stream or
\* in a failed send; a send left of an earlier one delivers nothing to it; and a
\* close returns when nobody receives any more.
THEOREM ClientImplementsLink ==
  ASSUME CloseFirst
  PROVE  ClientSpec => ImplementsLink
<1>1. ClientInit => CauseInv /\ TheLink!Init
  <2> SUFFICES ASSUME ClientInit PROVE CauseInv /\ TheLink!Init
    OBVIOUS
  <2>1. CauseInv BY DEF ClientInit, CauseInv
  <2>2. TheLink!Init BY DEF ClientInit, TheLink!Init
  <2>3. QED BY <2>1, <2>2
<1>2. ClientTypeOK /\ SessionInv /\ CauseInv /\ [ClientNext]_clientVars
        => CauseInv' /\ [TheLink!Next]_TheLink!linkVars
  BY CauseKept, LinkStep
<1>3. QED BY <1>1, <1>2, ClientTypes, OneSessionHolds, PTL DEF ClientSpec, ImplementsLink, TheLink!Spec
=============================================================================
