------------------------------- MODULE Forwarder -------------------------------
(***************************************************************************)
(* The TCP forwarder in front of CAN115 (scripts/forward_5578.py): main()  *)
(* accepts, a thread per client dials the target and takes the place of    *)
(* the pair in _active, two threads per pair relay.  A pair is named after *)
(* its client; what it relays, and when its ends fail, is left open.       *)
(***************************************************************************)
CONSTANTS Peers, NoPeer

ASSUME ForwarderAssumption == NoPeer \notin Peers

VARIABLES
  handler,   \* where handle() is: "none", "dial", "swap", "evict" or "done"
  pipes,     \* the relay threads of each pair: set of "c2t" and "t2c"
  leaving,   \* those of them past the lock of their finally
  usable,    \* its two sockets are not closed
  evicted,   \* the pair that _swap returned, to be closed
  active     \* _active

forwarderVars == <<handler, pipes, leaving, usable, evicted, active>>

ForwarderInit ==
  /\ handler = [p \in Peers |-> "none"]
  /\ pipes = [p \in Peers |-> {}] /\ leaving = [p \in Peers |-> {}]
  /\ usable = [p \in Peers |-> FALSE] /\ evicted = [p \in Peers |-> NoPeer]
  /\ active = NoPeer

ShutPair(p) == usable' = [usable EXCEPT ![p] = FALSE]

\* A pair is over and its name is free.
AcceptPeer(p) ==
  /\ handler[p] \in {"none", "done"} /\ pipes[p] = {} /\ ~usable[p] /\ p # active
  /\ \A q \in Peers : evicted[q] # p
  /\ handler' = [handler EXCEPT ![p] = "dial"]
  /\ UNCHANGED <<pipes, leaving, usable, evicted, active>>

\* create_connection
DialTarget(p) ==
  /\ handler[p] = "dial"
  /\ \/ /\ handler' = [handler EXCEPT ![p] = "swap"]
        /\ usable' = [usable EXCEPT ![p] = TRUE]
     \/ /\ handler' = [handler EXCEPT ![p] = "none"]
        /\ UNCHANGED usable
  /\ UNCHANGED <<pipes, leaving, evicted, active>>

\* _swap, under the lock.
SwapPair(p) ==
  /\ handler[p] = "swap"
  /\ evicted' = [evicted EXCEPT ![p] = active] /\ active' = p
  /\ handler' = [handler EXCEPT ![p] = "evict"]
  /\ UNCHANGED <<pipes, leaving, usable>>

\* _close(old), and the relay starts, even if the pair was evicted by now.
EvictPair(p) ==
  /\ handler[p] = "evict"
  /\ usable' = [q \in Peers |-> usable[q] /\ q # evicted[p]]
  /\ evicted' = [evicted EXCEPT ![p] = NoPeer]
  /\ pipes' = [pipes EXCEPT ![p] = {"c2t", "t2c"}]
  /\ handler' = [handler EXCEPT ![p] = "done"]
  /\ UNCHANGED <<leaving, active>>

\* Mutant: whoever ends clears _active.
EndAnyway(p, way) ==
  /\ way \in pipes[p] \ leaving[p]
  /\ leaving' = [leaving EXCEPT ![p] = @ \cup {way}]
  /\ active' = NoPeer
  /\ UNCHANGED <<handler, pipes, usable, evicted>>

\* The end of a stream, an error or the timeout of the target; the lock of the
\* finally.  _active is compared with (src, dst): only "c2t" ever matches.
EndPipe(p, way) ==
  /\ way \in pipes[p] \ leaving[p]
  /\ leaving' = [leaving EXCEPT ![p] = @ \cup {way}]
  /\ active' = IF way = "c2t" /\ active = p THEN NoPeer ELSE active
  /\ UNCHANGED <<handler, pipes, usable, evicted>>

\* _close((src, dst))
PipeEnds(p, way) ==
  /\ way \in leaving[p]
  /\ leaving' = [leaving EXCEPT ![p] = @ \ {way}]
  /\ pipes' = [pipes EXCEPT ![p] = @ \ {way}]
  /\ ShutPair(p)
  /\ UNCHANGED <<handler, evicted, active>>

ForwarderNext ==
  \E p \in Peers :
    \/ AcceptPeer(p) \/ DialTarget(p) \/ SwapPair(p) \/ EvictPair(p)
    \/ \E way \in {"c2t", "t2c"} : EndPipe(p, way) \/ PipeEnds(p, way)

ForwarderSpec == ForwarderInit /\ [][ForwarderNext]_forwarderVars
-----------------------------------------------------------------------------
\* A pair that somebody is about to close.
Doomed(p) == leaving[p] # {} \/ \E q \in Peers : handler[q] = "evict" /\ evicted[q] = p

\* "Only one active connection at a time" (line 3), as far as it holds: whatever
\* pair can still carry bytes is the one in _active, has not been entered there
\* yet, or is in the hands of a thread that closes it.  None is forgotten open.
OnePair ==
  \A p \in Peers : usable[p] => p = active \/ handler[p] = "swap" \/ Doomed(p)
=============================================================================
