------------------------------ MODULE CanStream ------------------------------
(***************************************************************************)
(* The byte stream of the CAN115 gateway and the SDK's resynchronising     *)
(* parser (YK_CANSDK/yk_can_sdk/protocol.py, fed by client.py's receiver): *)
(* every CAN frame takes 13 bytes; TCP cuts the stream anywhere; bytes     *)
(* that belong to no frame (heartbeat and registration packets, frames of  *)
(* other devices on the bus) lie between them.                             *)
(*                                                                         *)
(* The drivers report readings, speed feedback of two motors; what else    *)
(* the stream carries is Noise.  Frames are extended, as all of Yunkang's. *)
(***************************************************************************)
EXTENDS Integers, Sequences

CONSTANTS
  Readings,    \* speed reports: driver, motor1, motor2
  Noise,       \* pieces of bytes that are no frame of a driver
  Chunks,      \* how many bytes a recv may return
  MaxStream,   \* bytes in the stream of one session (model bound)
  MaxNoise,    \* bytes of noise in all sessions (model bound)
  MaxSession   \* connections (model bound)

Bytes == 0..255

ASSUME StreamAssumption ==
  /\ Readings \subseteq [driver : Bytes, motor1 : Int, motor2 : Int]
  /\ Noise \subseteq Seq(Bytes)
  /\ Chunks \subseteq Nat \ {0}

VARIABLES
  stream,      \* every byte the gateway has written in this session
  taken,       \* how many of them the receiver has read
  buffer,      \* CanStreamParser._buffer
  discarded,   \* CanStreamParser.discarded_bytes
  readings,    \* the speed reports decoded in this session
  accepted,    \* where in the stream the accepted packets began
  sent,        \* the speed reports written in this session
  noise,       \* bytes of noise written so far
  session

streamVars == <<stream, taken, buffer, discarded, readings, accepted, sent, noise, session>>

FrameSize == 13
Pos == taken - Len(buffer)          \* bytes the parser is through with
-----------------------------------------------------------------------------
(* Encoding.  A CAN identifier is its upper half (the prefix), the driver  *)
(* and the function; the four bytes on the wire are big-endian.            *)

PrefixHigh == 13                    \* 0x0D
PrefixLow == 238                    \* 0xEE
Functions == 0..7 \cup {10, 11}     \* KNOWN_FUNCTIONS

\* struct.pack(">i"), two's complement.
PackInt(v) == <<(v \div 16777216) % 256, (v \div 65536) % 256, (v \div 256) % 256, v % 256>>

UnpackInt(b) ==
  LET high == IF b[1] >= 128 THEN b[1] - 256 ELSE b[1]
  IN  ((high * 256 + b[2]) * 256 + b[3]) * 256 + b[4]

\* to_gateway_bytes of an extended data frame; the payload is padded to eight.
GatewayBytes(driver, function, data) ==
  <<128 + Len(data), PrefixHigh, PrefixLow, driver, function>>
    \o [i \in 1..8 |-> IF i <= Len(data) THEN data[i] ELSE 0]

SpeedFrame(r) == GatewayBytes(r.driver, 1, PackInt(r.motor1) \o PackInt(r.motor2))
-----------------------------------------------------------------------------
(* Decoding.                                                               *)

\* from_gateway_bytes with require_yk_frame: reserved bits, DLC, extended and
\* not remote, prefix, driver, function.
Plausible(p) ==
  /\ (p[1] \div 16) % 4 = 0
  /\ p[1] % 16 <= 8
  /\ p[1] >= 128 /\ (p[1] \div 64) % 2 = 0
  /\ p[2] = PrefixHigh /\ p[3] = PrefixLow
  /\ p[4] >= 1
  /\ p[5] \in Functions

IsSpeed(p) == p[5] = 1 /\ p[1] % 16 = 8       \* others raise, or decode to something else

SpeedFeedback(p) ==
  [driver |-> p[4],
   motor1 |-> UnpackInt(SubSeq(p, 6, 9)),
   motor2 |-> UnpackInt(SubSeq(p, 10, 13))]
-----------------------------------------------------------------------------
StreamInit ==
  /\ stream = <<>> /\ taken = 0 /\ buffer = <<>> /\ discarded = 0
  /\ readings = <<>> /\ accepted = {} /\ sent = <<>> /\ noise = 0
  /\ session = 1

WriteFrame(r) ==
  /\ Len(stream) + FrameSize <= MaxStream
  /\ stream' = stream \o SpeedFrame(r)
  /\ sent' = Append(sent, r)
  /\ UNCHANGED <<taken, buffer, discarded, readings, accepted, noise, session>>

WriteNoise(piece) ==
  /\ Len(stream) + Len(piece) <= MaxStream /\ noise + Len(piece) <= MaxNoise
  /\ stream' = stream \o piece
  /\ noise' = noise + Len(piece)
  /\ UNCHANGED <<taken, buffer, discarded, readings, accepted, sent, session>>

\* recv returns any part of what was written; feed appends it to the buffer.
Receive(n) ==
  /\ Len(buffer) < FrameSize
  /\ taken + n <= Len(stream)
  /\ buffer' = buffer \o SubSeq(stream, taken + 1, taken + n)
  /\ taken' = taken + n
  /\ UNCHANGED <<stream, discarded, readings, accepted, sent, noise, session>>

Packet == SubSeq(buffer, 1, FrameSize)

\* Mutant: a packet that is no frame is dropped as a whole.
DiscardPacket ==
  /\ Len(buffer) >= FrameSize /\ ~Plausible(Packet)
  /\ buffer' = SubSeq(buffer, FrameSize + 1, Len(buffer))
  /\ discarded' = discarded + FrameSize
  /\ UNCHANGED <<stream, taken, readings, accepted, sent, noise, session>>

\* feed: one byte is given up and the next window tried.
Discard ==
  /\ Len(buffer) >= FrameSize /\ ~Plausible(Packet)
  /\ buffer' = Tail(buffer)
  /\ discarded' = discarded + 1
  /\ UNCHANGED <<stream, taken, readings, accepted, sent, noise, session>>

\* feed: a frame is found; the receiver decodes it.
Accept ==
  /\ Len(buffer) >= FrameSize /\ Plausible(Packet)
  /\ buffer' = SubSeq(buffer, FrameSize + 1, Len(buffer))
  /\ accepted' = accepted \cup {Pos + 1}
  /\ readings' = IF IsSpeed(Packet) THEN Append(readings, SpeedFeedback(Packet)) ELSE readings
  /\ UNCHANGED <<stream, taken, discarded, sent, noise, session>>

\* Mutant: the rest of the last stream stays in the buffer.
ReconnectDirty ==
  /\ Len(buffer) < FrameSize /\ session < MaxSession
  /\ stream' = buffer /\ taken' = Len(buffer)
  /\ readings' = <<>> /\ accepted' = {} /\ sent' = <<>>
  /\ session' = session + 1
  /\ UNCHANGED <<buffer, discarded, noise>>

\* The connection is lost, anywhere in a frame; connect() clears the parser.
Reconnect ==
  /\ Len(buffer) < FrameSize /\ session < MaxSession
  /\ stream' = <<>> /\ taken' = 0 /\ buffer' = <<>>
  /\ readings' = <<>> /\ accepted' = {} /\ sent' = <<>>
  /\ session' = session + 1
  /\ UNCHANGED <<discarded, noise>>

StreamNext ==
  \/ \E r \in Readings : WriteFrame(r)
  \/ \E piece \in Noise : WriteNoise(piece)
  \/ \E n \in Chunks : Receive(n)
  \/ Discard \/ Accept
  \/ Reconnect

StreamSpec == StreamInit /\ [][StreamNext]_streamVars
-----------------------------------------------------------------------------
Overlaps(i, j) == j < i /\ i < j + FrameSize
Window(i) == SubSeq(stream, i, i + FrameSize - 1)

\* The parse of a stream, said without reference to the parser: a packet was
\* accepted at a place it is through with exactly if the thirteen bytes there are
\* a frame and no accepted packet covers the place.  How TCP cut the stream makes
\* no difference (CanStreamParser: "fragmentation, coalescing, and stray bytes").
GreedyParse ==
  \A i \in 1..Pos :
    i \in accepted <=> (\A j \in accepted : ~Overlaps(i, j)) /\ Plausible(Window(i))

IsPrefixOf(s, t) == Len(s) <= Len(t) /\ \A i \in DOMAIN s : s[i] = t[i]

\* What the stream may carry for a parser that has nothing but the head of a
\* frame to go by.  The reports are those the protocol can say; and no piece of
\* noise looks like the head of a frame, alone or with the byte that comes next.
FitsInt(v) == -2147483647 - 1 <= v /\ v <= 2147483647

SaneReadings ==
  \A r \in Readings : r.driver >= 1 /\ FitsInt(r.motor1) /\ FitsInt(r.motor2)

FitsHead(k, b) ==
  CASE k = 1 -> b \in 128..136
    [] k = 2 -> b = PrefixHigh
    [] k = 3 -> b = PrefixLow
    [] k = 4 -> b >= 1
    [] k = 5 -> b \in Functions

FirstBytes == {136} \cup {piece[1] : piece \in Noise \ {<<>>}}

NoFalseHead ==
  \A piece \in Noise : \A i \in 1..Len(piece) : \E k \in 1..5 :
    \/ i + k - 1 <= Len(piece) /\ ~FitsHead(k, piece[i + k - 1])
    \/ i + k - 1 = Len(piece) + 1 /\ \A b \in FirstBytes : ~FitsHead(k, b)

\* The readings decoded are those the drivers sent, in order and unchanged, and
\* none is missing once everything before the parser's place is read: noise, cuts
\* and lost connections cost no frame.
ReadingsSurvive ==
  /\ IsPrefixOf(readings, sent)
  /\ Pos = Len(stream) => readings = sent
=============================================================================
