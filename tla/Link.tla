-------------------------------- MODULE Link --------------------------------
(***************************************************************************)
(* The connection to the CAN gateway as the vehicle sees it, with no       *)
(* sockets and no threads: it is up or not, somebody receives on it, at    *)
(* most one frame is being sent, and an owner may be closing it.  A        *)
(* connection begins with nobody receiving on an earlier one; a send that  *)
(* is left of it delivers nothing any more, but its failure counts against *)
(* the new one.  It goes down in a close, at the end of its stream or when *)
(* a send fails; and a close returns when nobody receives any more.        *)
(* GatewayClient implements this module; FourWheelVehicle, whose sends may *)
(* fail and whose link may break at any time, takes it for granted.        *)
(***************************************************************************)
VARIABLES
  up,         \* is_connected
  receiving,  \* a receiver reads, or is about to be started
  sending,    \* a send is on its way
  late,       \* it began before the connection that is up
  closing,    \* close() has begun and has not returned
  over        \* the gateway has ended the stream

linkVars == <<up, receiving, sending, late, closing, over>>

Init ==
  /\ up = FALSE /\ receiving = FALSE /\ sending = FALSE /\ late = FALSE
  /\ closing = FALSE /\ over = FALSE

Connect ==
  /\ ~up /\ ~receiving /\ ~closing
  /\ up' = TRUE /\ receiving' = TRUE /\ late' = sending
  /\ UNCHANGED <<sending, closing, over>>

Send ==
  /\ up /\ ~sending
  /\ sending' = TRUE
  /\ UNCHANGED <<up, receiving, late, closing, over>>

Sent ==
  /\ sending /\ ~late
  /\ sending' = FALSE
  /\ UNCHANGED <<up, receiving, late, closing, over>>

Down == up' = FALSE /\ late' = FALSE

SendFails ==
  /\ sending
  /\ sending' = FALSE /\ Down
  /\ UNCHANGED <<receiving, closing, over>>

StreamEnds ==
  /\ over' = TRUE
  /\ UNCHANGED <<up, receiving, sending, late, closing>>

\* The socket of an ended stream is closed.
Forget ==
  /\ ~up
  /\ over' = FALSE
  /\ UNCHANGED <<up, receiving, sending, late, closing>>

\* A receiver gives up a connection that is up for a cause only.
ReceiverEnds ==
  /\ receiving
  /\ up => closing \/ over
  /\ Down /\ receiving' = FALSE
  /\ UNCHANGED <<sending, closing, over>>

Close ==
  /\ ~closing
  /\ closing' = TRUE
  /\ UNCHANGED <<up, receiving, sending, late, over>>

CloseDrop ==
  /\ closing
  /\ Down
  /\ UNCHANGED <<receiving, sending, closing, over>>

CloseReturns ==
  /\ closing /\ ~up /\ ~receiving
  /\ closing' = FALSE
  /\ UNCHANGED <<up, receiving, sending, late, over>>

Next ==
  \/ Connect
  \/ Send \/ Sent \/ SendFails
  \/ StreamEnds \/ Forget \/ ReceiverEnds
  \/ Close \/ CloseDrop \/ CloseReturns

Spec == Init /\ [][Next]_linkVars
=============================================================================
