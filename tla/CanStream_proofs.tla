-------------------------- MODULE CanStream_proofs --------------------------
(***************************************************************************)
(* The parser parses greedily whatever TCP does to the stream: GreedyParse *)
(* for every set of readings, noise and sizes of reads.  And no report is  *)
(* lost in it: ReadingsSurvive, where the noise looks like no frame.       *)
(***************************************************************************)
EXTENDS CanStream, SequenceTheorems, TLAPS

\* The n elements of a sequence of bytes after its m-th.
LEMMA Slice ==
  ASSUME NEW s \in Seq(Bytes), NEW m \in Nat, NEW n \in Nat, m + n <= Len(s)
  PROVE  /\ SubSeq(s, m + 1, m + n) \in Seq(Bytes)
         /\ Len(SubSeq(s, m + 1, m + n)) = n
         /\ \A k \in 1..n : SubSeq(s, m + 1, m + n)[k] = s[m + k]
<1>1. Len(s) \in Nat
  BY LenProperties
<1>2. \A i \in m + 1..m + n : s[i] \in Bytes
  BY <1>1, ElementOfSeq
<1> DEFINE w == SubSeq(s, m + 1, m + n)
<1>3. /\ w \in Seq(Bytes)
      /\ Len(w) = IF m + 1 <= m + n THEN (m + n) - (m + 1) + 1 ELSE 0
      /\ \A k \in 1..(m + n) - (m + 1) + 1 : w[k] = s[(m + 1) + k - 1]
  BY <1>2, SubSeqProperties
<1> HIDE DEF w
<1>4. Len(w) = n
  BY <1>3
<1>5. ASSUME NEW k \in 1..n PROVE w[k] = s[m + k]
  <2>1. k \in 1..(m + n) - (m + 1) + 1 /\ (m + 1) + k - 1 = m + k
    OBVIOUS
  <2> QED BY <2>1, <1>3
<1> QED BY <1>3, <1>4, <1>5 DEF w

\* Two sequences of bytes, one after the other.
LEMMA Join ==
  ASSUME NEW s \in Seq(Bytes), NEW t \in Seq(Bytes)
  PROVE  /\ s \o t \in Seq(Bytes) /\ Len(s \o t) = Len(s) + Len(t)
         /\ \A k \in 1..Len(s) : (s \o t)[k] = s[k]
         /\ \A k \in 1..Len(t) : (s \o t)[Len(s) + k] = t[k]
<1>1. Len(s) \in Nat /\ Len(t) \in Nat
  BY LenProperties
<1>2. /\ s \o t \in Seq(Bytes) /\ Len(s \o t) = Len(s) + Len(t)
      /\ \A k \in 1..Len(s) + Len(t) :
           (s \o t)[k] = IF k <= Len(s) THEN s[k] ELSE t[k - Len(s)]
  BY ConcatProperties
<1>3. ASSUME NEW k \in 1..Len(s) PROVE (s \o t)[k] = s[k]
  BY <1>1, <1>2
<1>4. ASSUME NEW k \in 1..Len(t) PROVE (s \o t)[Len(s) + k] = t[k]
  <2>1. Len(s) + k \in 1..Len(s) + Len(t) /\ ~(Len(s) + k <= Len(s)) /\ (Len(s) + k) - Len(s) = k
    BY <1>1
  <2>2. QED BY <1>2, <2>1
<1>5. QED BY <1>2, <1>3, <1>4

\* An integer takes four bytes.
LEMMA PackIntIsBytes ==
  ASSUME NEW v \in Int
  PROVE  PackInt(v) \in Seq(Bytes) /\ Len(PackInt(v)) = 4
BY SMTT(30) DEF PackInt, Bytes

\* The thirteen bytes of a speed report.
LEMMA SpeedFrameIs ==
  ASSUME NEW r \in Readings
  PROVE  /\ SpeedFrame(r) \in Seq(Bytes) /\ Len(SpeedFrame(r)) = FrameSize
         /\ SpeedFrame(r)[1] = 136 /\ SpeedFrame(r)[2] = PrefixHigh
         /\ SpeedFrame(r)[3] = PrefixLow /\ SpeedFrame(r)[4] = r.driver
         /\ SpeedFrame(r)[5] = 1
         /\ \A i \in 1..4 : /\ SpeedFrame(r)[5 + i] = PackInt(r.motor1)[i]
                            /\ SpeedFrame(r)[9 + i] = PackInt(r.motor2)[i]
<1> DEFINE one == PackInt(r.motor1)
           two == PackInt(r.motor2)
           data == one \o two
           padded == [i \in 1..8 |-> IF i <= Len(data) THEN data[i] ELSE 0]
           head == <<128 + Len(data), PrefixHigh, PrefixLow, r.driver, 1>>
           frame == head \o padded
<1>1. /\ one \in Seq(Bytes) /\ two \in Seq(Bytes)
      /\ Len(one) = 4 /\ Len(two) = 4 /\ r.driver \in Bytes
  BY StreamAssumption, PackIntIsBytes
<1> HIDE DEF one, two
<1>2. /\ data \in Seq(Bytes) /\ Len(data) = 8
      /\ \A i \in 1..4 : data[i] = one[i] /\ data[4 + i] = two[i]
  <2>1. /\ data \in Seq(Bytes) /\ Len(data) = Len(one) + Len(two)
        /\ \A k \in 1..Len(one) : data[k] = one[k]
        /\ \A k \in 1..Len(two) : data[Len(one) + k] = two[k]
    BY <1>1, Join, Zenon
  <2> HIDE DEF data
  <2>2. QED BY <1>1, <2>1
<1> HIDE DEF data
<1>3. padded \in Seq(Bytes) /\ Len(padded) = 8 /\ \A i \in 1..8 : padded[i] = data[i]
  <2>1. ASSUME NEW i \in 1..8 PROVE data[i] \in Bytes
    BY <1>2, ElementOfSeq
  <2>2. padded \in [1..8 -> Bytes] /\ \A i \in 1..8 : padded[i] = data[i]
    BY <1>2, <2>1 DEF Bytes
  <2> HIDE DEF padded
  <2>3. padded \in Seq(Bytes)
    BY <2>2, SeqDef
  <2>4. Len(padded) \in Nat /\ DOMAIN padded = 1..Len(padded) /\ DOMAIN padded = 1..8
    BY <2>2, <2>3, LenProperties
  <2>5. Len(padded) = 8
    <3>1. \A i : i \in 1..Len(padded) <=> i \in 1..8
      BY <2>4, Zenon
    <3>2. 8 \in 1..Len(padded) /\ ~(9 \in 1..Len(padded))
      BY <3>1
    <3>3. QED BY <2>4, <3>2
  <2>6. QED BY <2>2, <2>3, <2>5
<1>4. /\ head \in Seq(Bytes) /\ Len(head) = 5
      /\ head[1] = 136 /\ head[2] = PrefixHigh /\ head[3] = PrefixLow
      /\ head[4] = r.driver /\ head[5] = 1
  BY <1>1, <1>2 DEF Bytes, PrefixHigh, PrefixLow
<1> HIDE DEF padded, head
<1>5. SpeedFrame(r) = frame
  BY DEF SpeedFrame, GatewayBytes, data, one, two, padded, head
<1>6. /\ frame \in Seq(Bytes) /\ Len(frame) = 13
      /\ \A i \in 1..5 : frame[i] = head[i]
      /\ \A i \in 1..8 : frame[5 + i] = padded[i]
  <2>1. /\ frame \in Seq(Bytes) /\ Len(frame) = Len(head) + Len(padded)
        /\ \A k \in 1..Len(head) : frame[k] = head[k]
        /\ \A k \in 1..Len(padded) : frame[Len(head) + k] = padded[k]
    BY <1>3, <1>4, Join, Zenon
  <2> HIDE DEF frame
  <2>2. QED BY <1>3, <1>4, <2>1
<1> HIDE DEF frame
<1>7. ASSUME NEW i \in 1..4
      PROVE  frame[5 + i] = one[i] /\ frame[9 + i] = two[i]
  <2>1. frame[5 + i] = padded[i] /\ padded[i] = data[i] /\ data[i] = one[i]
    BY <1>2, <1>3, <1>6
  <2>2. 4 + i \in 1..8 /\ 5 + (4 + i) = 9 + i
    OBVIOUS
  <2>3. frame[5 + (4 + i)] = padded[4 + i] /\ padded[4 + i] = data[4 + i]
    BY <1>3, <1>6, <2>2
  <2>4. data[4 + i] = two[i]
    BY <1>2
  <2>5. QED BY <2>1, <2>2, <2>3, <2>4
<1>8. /\ \A i \in 1..5 : SpeedFrame(r)[i] = head[i]
      /\ SpeedFrame(r) \in Seq(Bytes) /\ Len(SpeedFrame(r)) = FrameSize
  BY <1>5, <1>6 DEF FrameSize
<1>9. \A i \in 1..4 : SpeedFrame(r)[5 + i] = one[i] /\ SpeedFrame(r)[9 + i] = two[i]
  BY <1>5, <1>7
<1>10. QED BY <1>4, <1>8, <1>9 DEF one, two

\* The parser's buffer is the part of the stream between its place and what was
\* read; accepted packets are whole; a place no packet covers was seen with the
\* twelve bytes after it.
StreamInv ==
  /\ stream \in Seq(Bytes) /\ buffer \in Seq(Bytes)
  /\ taken \in 0..Len(stream) /\ Len(buffer) <= taken
  /\ \A k \in 1..Len(buffer) : buffer[k] = stream[Pos + k]
  /\ accepted \subseteq 1..Pos
  /\ \A a \in accepted : a + FrameSize - 1 <= Pos
  /\ \A i \in 1..Pos : (\A j \in accepted : ~Overlaps(i, j)) => i + FrameSize - 1 <= taken

\* A window of a stream that has all its bytes.
LEMMA WindowIsSlice ==
  ASSUME NEW i \in Nat \ {0}, stream \in Seq(Bytes), i + FrameSize - 1 <= Len(stream)
  PROVE  /\ Window(i) \in Seq(Bytes) /\ Len(Window(i)) = FrameSize
         /\ \A k \in 1..FrameSize : Window(i)[k] = stream[(i - 1) + k]
<1>1. i - 1 \in Nat /\ FrameSize \in Nat /\ (i - 1) + FrameSize <= Len(stream)
  BY LenProperties DEF FrameSize
<1>2. (i - 1) + 1 = i /\ (i - 1) + FrameSize = i + FrameSize - 1
  BY DEF FrameSize
<1> QED BY <1>1, <1>2, Slice DEF Window

\* Writing to the stream changes no window that was already complete.
LEMMA WritingKeepsParse ==
  ASSUME StreamInv, GreedyParse, NEW piece \in Seq(Bytes),
         stream' = stream \o piece,
         UNCHANGED <<taken, buffer, accepted>>
  PROVE  StreamInv' /\ GreedyParse'
<1>1. /\ stream' \in Seq(Bytes) /\ Len(stream') = Len(stream) + Len(piece)
      /\ \A k \in 1..Len(stream) : stream'[k] = stream[k]
  BY ConcatProperties, LenProperties DEF StreamInv
<1>2. Pos' = Pos /\ Pos \in Nat /\ Pos + Len(buffer) = taken
  BY DEF StreamInv, Pos
<1>3. StreamInv'
  BY <1>1, <1>2 DEF StreamInv, Overlaps, FrameSize
<1>4. ASSUME NEW i \in 1..Pos, i + FrameSize - 1 <= taken
      PROVE  Window(i)' = Window(i)
  <2>1. i \in Nat \ {0} /\ i + FrameSize - 1 <= Len(stream)
    BY <1>2, <1>4 DEF StreamInv, FrameSize
  <2>2. Len(stream) \in Nat /\ Len(piece) \in Nat
    BY LenProperties DEF StreamInv
  <2>3. /\ Window(i) \in Seq(Bytes) /\ Len(Window(i)) = FrameSize
        /\ \A k \in 1..FrameSize : Window(i)[k] = stream[(i - 1) + k]
    BY <2>1, WindowIsSlice DEF StreamInv
  <2>4. i - 1 \in Nat /\ (i - 1) + FrameSize <= Len(stream') /\ FrameSize \in Nat
    BY <2>1, <2>2, <1>1 DEF FrameSize
  <2>5. Window(i)' = SubSeq(stream', (i - 1) + 1, (i - 1) + FrameSize)
    <3>1. (i - 1) + 1 = i /\ (i - 1) + FrameSize = i + FrameSize - 1
      BY <2>1 DEF FrameSize
    <3> QED BY <3>1 DEF Window
  <2>6. /\ Window(i)' \in Seq(Bytes) /\ Len(Window(i)') = FrameSize
        /\ \A k \in 1..FrameSize : Window(i)'[k] = stream'[(i - 1) + k]
    <3>1. \A m \in Nat : m + FrameSize <= Len(stream') =>
            /\ SubSeq(stream', m + 1, m + FrameSize) \in Seq(Bytes)
            /\ Len(SubSeq(stream', m + 1, m + FrameSize)) = FrameSize
            /\ \A k \in 1..FrameSize : SubSeq(stream', m + 1, m + FrameSize)[k] = stream'[m + k]
      BY <2>4, <1>1, Slice
    <3> QED BY <2>4, <2>5, <3>1
  <2>7. ASSUME NEW k \in 1..FrameSize PROVE Window(i)'[k] = Window(i)[k]
    <3>1. (i - 1) + k \in 1..Len(stream)
      BY <2>1, <2>2 DEF FrameSize
    <3> QED BY <3>1, <2>3, <2>6, <1>1
  <2> QED BY <2>3, <2>6, <2>7, SeqEqual
<1>5. GreedyParse'
  BY <1>2, <1>4 DEF GreedyParse, StreamInv, Overlaps
<1> QED BY <1>3, <1>5

\* The packet the parser looks at is the window at its place.
LEMMA PacketIsWindow ==
  ASSUME StreamInv, Len(buffer) >= FrameSize
  PROVE  Packet = Window(Pos + 1)
<1>1. Pos \in Nat /\ Pos + Len(buffer) = taken
  BY DEF StreamInv, Pos
<1>2. \A k \in 1..FrameSize : buffer[k] = stream[Pos + k]
  BY <1>1 DEF StreamInv, FrameSize
<1>3. Packet \in Seq(Bytes) /\ Len(Packet) = FrameSize /\ \A k \in 1..FrameSize : Packet[k] = buffer[k]
  <2>1. Packet = SubSeq(buffer, 0 + 1, 0 + FrameSize) /\ FrameSize \in Nat /\ 0 + FrameSize <= Len(buffer)
    BY DEF Packet, FrameSize
  <2>2. /\ Packet \in Seq(Bytes) /\ Len(Packet) = FrameSize
        /\ \A k \in 1..FrameSize : Packet[k] = buffer[0 + k]
    BY <2>1, Slice DEF StreamInv
  <2> QED BY <2>2 DEF FrameSize
<1>4. /\ Window(Pos + 1) \in Seq(Bytes) /\ Len(Window(Pos + 1)) = FrameSize
      /\ \A k \in 1..FrameSize : Window(Pos + 1)[k] = stream[Pos + k]
  <2>1. Pos + 1 \in Nat \ {0} /\ (Pos + 1) + FrameSize - 1 <= Len(stream) /\ (Pos + 1) - 1 = Pos
    BY <1>1 DEF StreamInv, FrameSize
  <2> QED BY <2>1, WindowIsSlice DEF StreamInv
<1> HIDE DEF Packet, Window
<1>5. \A k \in 1..FrameSize : Packet[k] = Window(Pos + 1)[k]
  BY <1>2, <1>3, <1>4
<1> QED BY <1>3, <1>4, <1>5, SeqEqual

\* The two invariants hold together: a packet accepted now decides what overlaps
\* it later.
LEMMA ParserInductive == StreamSpec => [](StreamInv /\ GreedyParse)
<1>1. StreamInit => StreamInv /\ GreedyParse
  BY DEF StreamInit, StreamInv, GreedyParse, Pos
<1>2. StreamInv /\ GreedyParse /\ [StreamNext]_streamVars => StreamInv' /\ GreedyParse'
  <2> SUFFICES ASSUME StreamInv, GreedyParse, [StreamNext]_streamVars PROVE StreamInv' /\ GreedyParse'
    OBVIOUS
  <2>1. Pos \in Nat /\ Pos + Len(buffer) = taken /\ Len(buffer) \in Nat /\ taken \in Nat
    BY DEF StreamInv, Pos
  <2>2. ASSUME NEW r \in Readings, WriteFrame(r) PROVE StreamInv' /\ GreedyParse'
    BY <2>2, SpeedFrameIs, WritingKeepsParse DEF WriteFrame
  <2>3. ASSUME NEW piece \in Noise, WriteNoise(piece) PROVE StreamInv' /\ GreedyParse'
    BY <2>3, StreamAssumption, WritingKeepsParse DEF WriteNoise
  <2>4. ASSUME NEW n \in Chunks, Receive(n) PROVE StreamInv' /\ GreedyParse'
    <3> DEFINE chunk == SubSeq(stream, taken + 1, taken + n)
    <3>1. n \in Nat /\ n > 0 /\ taken + n <= Len(stream)
      BY <2>4, StreamAssumption DEF Receive
    <3>2. chunk \in Seq(Bytes) /\ Len(chunk) = n /\ \A k \in 1..n : chunk[k] = stream[taken + k]
      BY <3>1, <2>1, Slice DEF StreamInv
    <3> HIDE DEF chunk
    <3>3. buffer' = buffer \o chunk /\ taken' = taken + n /\ stream' = stream /\ accepted' = accepted
      BY <2>4 DEF Receive, chunk
    <3>4. Len(buffer') = Len(buffer) + n /\ buffer' \in Seq(Bytes) /\ Pos' = Pos
      <4>1. Len(buffer') = Len(buffer) + n /\ buffer' \in Seq(Bytes)
        BY <3>2, <3>3, ConcatProperties DEF StreamInv
      <4> QED BY <4>1, <3>1, <3>3, <2>1 DEF Pos
    <3>5. ASSUME NEW k \in 1..Len(buffer') PROVE buffer'[k] = stream'[Pos' + k]
      <4>1. CASE k <= Len(buffer)
        <5>1. buffer'[k] = buffer[k]
          BY <4>1, <3>2, <3>3, <3>4, ConcatProperties DEF StreamInv
        <5> QED BY <4>1, <5>1, <3>3, <3>4, <2>1 DEF StreamInv
      <4>2. CASE k > Len(buffer)
        <5>1. buffer'[k] = chunk[k - Len(buffer)]
          BY <4>2, <3>2, <3>3, <3>4, ConcatProperties DEF StreamInv
        <5>2. k - Len(buffer) \in 1..n
          BY <4>2, <3>1, <3>4, <2>1
        <5>3. chunk[k - Len(buffer)] = stream[taken + (k - Len(buffer))]
          BY <5>2, <3>2
        <5>4. taken + (k - Len(buffer)) = Pos' + k
          BY <2>1, <3>4
        <5> QED BY <5>1, <5>3, <5>4, <3>3
      <4> QED BY <4>1, <4>2, <2>1, <3>4, <3>1
    <3>6. StreamInv'
      <4>1. taken' \in 0..Len(stream') /\ Len(buffer') <= taken'
        BY <3>1, <3>3, <3>4, <2>1, LenProperties DEF StreamInv
      <4>2. ASSUME NEW i \in 1..Pos', \A j \in accepted' : ~Overlaps(i, j)
            PROVE  i + FrameSize - 1 <= taken'
        <5>1. i + FrameSize - 1 <= taken
          BY <4>2, <3>3, <3>4 DEF StreamInv
        <5> QED BY <5>1, <3>1, <3>3, <3>4, <2>1 DEF FrameSize
      <4> QED BY <4>1, <4>2, <3>3, <3>4, <3>5 DEF StreamInv, Overlaps
    <3> QED BY <3>3, <3>4, <3>6 DEF GreedyParse, Window, Overlaps
  <2>5. CASE Discard
    <3>1. /\ Len(buffer) >= FrameSize /\ ~Plausible(Window(Pos + 1))
          /\ stream' = stream /\ taken' = taken /\ accepted' = accepted
      BY <2>5, PacketIsWindow DEF Discard
    <3>2. /\ buffer' \in Seq(Bytes) /\ Len(buffer') = Len(buffer) - 1
          /\ \A k \in 1..Len(buffer') : buffer'[k] = buffer[k + 1]
      <4>1. buffer \in Seq(Bytes) /\ buffer # <<>> /\ buffer' = Tail(buffer)
        BY <2>5, <2>1, EmptySeq DEF Discard, StreamInv, FrameSize
      <4> QED BY <4>1, HeadTailProperties
    <3>3. Pos' = Pos + 1
      BY <3>1, <3>2, <2>1 DEF Pos
    <3>4. ASSUME NEW k \in 1..Len(buffer') PROVE buffer'[k] = stream'[Pos' + k]
      <4>1. k + 1 \in 1..Len(buffer) /\ Pos + (k + 1) = Pos' + k
        BY <3>2, <3>3, <2>1
      <4>2. buffer[k + 1] = stream[Pos + (k + 1)]
        BY <4>1 DEF StreamInv
      <4> QED BY <4>1, <4>2, <3>1, <3>2
    <3>5. StreamInv'
      BY <3>1, <3>2, <3>3, <3>4, <2>1 DEF StreamInv, Overlaps, FrameSize
    <3>6. ASSUME NEW i \in 1..Pos'
          PROVE  i \in accepted' <=> (\A j \in accepted' : ~Overlaps(i, j)) /\ Plausible(Window(i)')
      <4>1. Window(i)' = Window(i)
        BY <3>1 DEF Window
      <4>2. CASE i \in 1..Pos
        BY <4>1, <4>2, <3>1 DEF GreedyParse
      <4>3. CASE i = Pos + 1
        BY <4>1, <4>3, <3>1, <2>1 DEF StreamInv
      <4> QED BY <4>2, <4>3, <3>3, <2>1
    <3> QED BY <3>5, <3>6 DEF GreedyParse, Overlaps
  <2>6. CASE Accept
    <3>1. /\ Len(buffer) >= FrameSize /\ Plausible(Window(Pos + 1))
          /\ stream' = stream /\ taken' = taken /\ accepted' = accepted \cup {Pos + 1}
      BY <2>6, PacketIsWindow DEF Accept
    <3>2. /\ buffer' \in Seq(Bytes) /\ Len(buffer') = Len(buffer) - FrameSize
          /\ \A k \in 1..Len(buffer') : buffer'[k] = buffer[k + FrameSize]
      <4>1. /\ buffer \in Seq(Bytes) /\ Len(buffer) >= FrameSize
            /\ buffer' = SubSeq(buffer, FrameSize + 1, Len(buffer))
        BY <2>6 DEF Accept, StreamInv
      <4>2. /\ Len(buffer) - FrameSize \in Nat /\ FrameSize \in Nat
            /\ FrameSize + (Len(buffer) - FrameSize) = Len(buffer)
        BY <4>1, <2>1 DEF FrameSize
      <4>3. /\ buffer' \in Seq(Bytes) /\ Len(buffer') = Len(buffer) - FrameSize
            /\ \A k \in 1..Len(buffer) - FrameSize : buffer'[k] = buffer[FrameSize + k]
        <5> DEFINE n == Len(buffer) - FrameSize
        <5>1. buffer \in Seq(Bytes) /\ FrameSize \in Nat /\ n \in Nat /\ FrameSize + n = Len(buffer)
          BY <4>1, <4>2
        <5>2. buffer' = SubSeq(buffer, FrameSize + 1, FrameSize + n)
          BY <4>1, <5>1
        <5> HIDE DEF n
        <5>3. FrameSize + n <= Len(buffer)
          BY <5>1, <2>1
        <5>4. buffer' \in Seq(Bytes) /\ Len(buffer') = n /\ \A k \in 1..n : buffer'[k] = buffer[FrameSize + k]
          BY <5>1, <5>2, <5>3, Slice
        <5> QED BY <5>4 DEF n
      <4> QED BY <4>2, <4>3, <2>1 DEF FrameSize
    <3>3. Pos' = Pos + FrameSize
      BY <3>1, <3>2, <2>1 DEF Pos, FrameSize
    <3>4. ASSUME NEW k \in 1..Len(buffer') PROVE buffer'[k] = stream'[Pos' + k]
      <4>1. k + FrameSize \in 1..Len(buffer) /\ Pos + (k + FrameSize) = Pos' + k
        BY <3>2, <3>3, <2>1 DEF FrameSize
      <4>2. buffer[k + FrameSize] = stream[Pos + (k + FrameSize)]
        BY <4>1 DEF StreamInv
      <4> QED BY <4>1, <4>2, <3>1, <3>2
    <3>5. ASSUME NEW i \in 1..Pos', \A j \in accepted' : ~Overlaps(i, j)
          PROVE  i \in 1..Pos + 1 /\ i + FrameSize - 1 <= taken
      BY <3>1, <3>3, <3>5, <2>1 DEF StreamInv, Overlaps, FrameSize
    <3>6. StreamInv'
      BY <3>1, <3>2, <3>3, <3>4, <3>5, <2>1 DEF StreamInv, Overlaps, FrameSize
    <3>7. ASSUME NEW i \in 1..Pos'
          PROVE  i \in accepted' <=> (\A j \in accepted' : ~Overlaps(i, j)) /\ Plausible(Window(i)')
      <4>1. Window(i)' = Window(i)
        BY <3>1 DEF Window
      <4>2. CASE i \in 1..Pos
        <5>1. i \in accepted' <=> i \in accepted
          BY <4>2, <3>1, <2>1
        <5>2. (\A j \in accepted' : ~Overlaps(i, j)) <=> (\A j \in accepted : ~Overlaps(i, j))
          BY <4>2, <3>1, <2>1 DEF Overlaps
        <5> QED BY <4>1, <4>2, <5>1, <5>2 DEF GreedyParse
      <4>3. CASE i = Pos + 1
        <5>1. \A j \in accepted' : ~Overlaps(i, j)
          BY <4>3, <3>1, <2>1 DEF StreamInv, Overlaps, FrameSize
        <5> QED BY <4>1, <4>3, <5>1, <3>1
      <4>4. CASE i > Pos + 1
        <5>1. Overlaps(i, Pos + 1)
          BY <4>4, <3>3, <2>1 DEF Overlaps, FrameSize
        <5>2. i \notin accepted'
          BY <4>4, <3>1, <2>1 DEF StreamInv
        <5> QED BY <5>1, <5>2, <3>1
      <4> QED BY <4>2, <4>3, <4>4, <3>3, <2>1
    <3> QED BY <3>6, <3>7 DEF GreedyParse, Overlaps
  <2>7. CASE Reconnect
    BY <2>7 DEF Reconnect, StreamInv, GreedyParse, Pos, FrameSize
  <2>8. CASE UNCHANGED streamVars
    <3>1. stream' = stream /\ taken' = taken /\ buffer' = buffer /\ accepted' = accepted
      BY <2>8 DEF streamVars
    <3> QED BY <3>1 DEF StreamInv, GreedyParse, Pos, Window, Overlaps
  <2> QED BY <2>2, <2>3, <2>4, <2>5, <2>6, <2>7, <2>8 DEF StreamNext
<1> QED BY <1>1, <1>2, PTL DEF StreamSpec

\* However TCP cut the stream and whatever noise it carries, the packets accepted
\* are those of the greedy parse (CanStreamParser.feed).
THEOREM ParserIsGreedy == StreamSpec => []GreedyParse
BY ParserInductive, PTL
-----------------------------------------------------------------------------
(* What the frames say                                                     *)

\* struct.unpack(">i") of what struct.pack(">i") made of a 32-bit integer.
LEMMA RoundTrip ==
  ASSUME NEW v \in Int, FitsInt(v), NEW b, \A i \in 1..4 : b[i] = PackInt(v)[i]
  PROVE  UnpackInt(b) = v
<1>1. /\ b[1] = (v \div 16777216) % 256 /\ b[2] = (v \div 65536) % 256
      /\ b[3] = (v \div 256) % 256 /\ b[4] = v % 256
  BY DEF PackInt
<1>2. QED BY <1>1, SMTT(60) DEF FitsInt, UnpackInt

\* Thirteen bytes that say a report are taken for it.
LEMMA FrameIsRead ==
  ASSUME SaneReadings, NEW r \in Readings, NEW w \in Seq(Bytes), Len(w) = FrameSize,
         \A i \in 1..FrameSize : w[i] = SpeedFrame(r)[i]
  PROVE  Plausible(w) /\ IsSpeed(w) /\ SpeedFeedback(w) = r
<1>1. w = SpeedFrame(r)
  BY SpeedFrameIs, SeqEqual
<1>2. /\ w[1] = 136 /\ w[2] = PrefixHigh /\ w[3] = PrefixLow /\ w[4] = r.driver /\ w[5] = 1
      /\ \A i \in 1..4 : /\ w[5 + i] = PackInt(r.motor1)[i]
                         /\ w[9 + i] = PackInt(r.motor2)[i]
  BY <1>1, SpeedFrameIs
<1>3. /\ r \in [driver : Bytes, motor1 : Int, motor2 : Int] /\ r.driver >= 1
      /\ FitsInt(r.motor1) /\ FitsInt(r.motor2)
  BY StreamAssumption DEF SaneReadings
<1>4. Plausible(w) /\ IsSpeed(w)
  <2>1. /\ (136 \div 16) % 4 = 0 /\ 136 % 16 = 8 /\ (136 \div 64) % 2 = 0
        /\ 8 <= 8 /\ 136 >= 128 /\ 1 \in Functions
    BY DEF Functions
  <2>2. QED BY <1>2, <1>3, <2>1 DEF Plausible, IsSpeed
<1>5. \A i \in 1..4 : SubSeq(w, 6, 9)[i] = w[5 + i] /\ SubSeq(w, 10, 13)[i] = w[9 + i]
  <2>1. \A i \in 1..4 : SubSeq(w, 5 + 1, 5 + 4)[i] = w[5 + i]
    BY Slice DEF FrameSize
  <2>2. \A i \in 1..4 : SubSeq(w, 9 + 1, 9 + 4)[i] = w[9 + i]
    BY Slice DEF FrameSize
  <2>3. QED BY <2>1, <2>2
<1>6. /\ \A i \in 1..4 : SubSeq(w, 6, 9)[i] = PackInt(r.motor1)[i]
      /\ \A i \in 1..4 : SubSeq(w, 10, 13)[i] = PackInt(r.motor2)[i]
  BY <1>2, <1>5
<1>7. UnpackInt(SubSeq(w, 6, 9)) = r.motor1 /\ UnpackInt(SubSeq(w, 10, 13)) = r.motor2
  BY <1>3, <1>6, RoundTrip
<1>8. SpeedFeedback(w) = r
  BY <1>2, <1>3, <1>7 DEF SpeedFeedback
<1>9. QED BY <1>4, <1>8
-----------------------------------------------------------------------------
(* Where the frames are                                                    *)

\* A place of the stream where no frame will ever be found: the head is wrong, or
\* it is as soon as the next byte is written.
Dead(p) ==
  \E k \in 1..5 :
    \/ p + k - 1 <= Len(stream) /\ ~FitsHead(k, stream[p + k - 1])
    \/ p + k - 1 = Len(stream) + 1 /\ \A b \in FirstBytes : ~FitsHead(k, b)

\* at says where in the stream each report sent begins.  The reports follow each
\* other, and every other place is dead.
Layout(at) ==
  /\ at \in [1..Len(sent) -> Nat \ {0}]
  /\ \A j, k \in 1..Len(sent) : j < k => at[j] + FrameSize <= at[k]
  /\ \A k \in 1..Len(sent) : at[k] + FrameSize - 1 <= Len(stream)
  /\ \A k \in 1..Len(sent) : \A i \in 1..FrameSize :
       stream[(at[k] - 1) + i] = SpeedFrame(sent[k])[i]
  /\ \A p \in 1..Len(stream) :
       \/ \E k \in 1..Len(sent) : at[k] <= p /\ p < at[k] + FrameSize
       \/ Dead(p)

\* The parser has read the reports behind it, and is inside of none before it.
Read(at) ==
  /\ Len(readings) <= Len(sent)
  /\ \A k \in 1..Len(readings) : readings[k] = sent[k] /\ at[k] + FrameSize - 1 <= Pos
  /\ \A k \in 1..Len(sent) : k > Len(readings) => Pos < at[k]

ReadingInv ==
  /\ sent \in Seq(Readings) /\ readings \in Seq(Readings)
  /\ \E at : Layout(at) /\ Read(at)

\* Whatever is written behind a dead place, it stays dead.
LEMMA DeadStaysDead ==
  ASSUME stream \in Seq(Bytes), NEW piece \in Seq(Bytes), stream' = stream \o piece,
         piece # <<>> => piece[1] \in FirstBytes, NEW p \in Nat \ {0}, Dead(p)
  PROVE  Dead(p)'
<1>1. /\ Len(stream) \in Nat /\ Len(piece) \in Nat
      /\ Len(stream') = Len(stream) + Len(piece)
      /\ \A i \in 1..Len(stream) : stream'[i] = stream[i]
      /\ \A i \in 1..Len(piece) : stream'[Len(stream) + i] = piece[i]
  BY ConcatProperties, LenProperties
<1>2. PICK k \in 1..5 :
        \/ p + k - 1 <= Len(stream) /\ ~FitsHead(k, stream[p + k - 1])
        \/ p + k - 1 = Len(stream) + 1 /\ \A b \in FirstBytes : ~FitsHead(k, b)
  BY DEF Dead
<1>3. CASE p + k - 1 <= Len(stream) /\ ~FitsHead(k, stream[p + k - 1])
  <2>1. p + k - 1 \in 1..Len(stream)
    BY <1>1, <1>3
  <2>2. stream'[p + k - 1] = stream[p + k - 1] /\ p + k - 1 <= Len(stream')
    BY <1>1, <2>1
  <2>3. QED BY <1>3, <2>2 DEF Dead
<1>4. CASE p + k - 1 = Len(stream) + 1 /\ \A b \in FirstBytes : ~FitsHead(k, b)
  <2>1. CASE piece = <<>>
    BY <1>1, <1>4, <2>1, ConcatEmptySeq DEF Dead
  <2>2. CASE piece # <<>>
    <3>1. 1 \in 1..Len(piece)
      BY <2>2, <1>1, EmptySeq
    <3>2. stream'[p + k - 1] = piece[1] /\ p + k - 1 <= Len(stream')
      BY <1>1, <1>4, <3>1
    <3>3. QED BY <1>4, <2>2, <3>2 DEF Dead
  <2>3. QED BY <2>1, <2>2
<1>5. QED BY <1>2, <1>3, <1>4

\* A report more: it begins where the stream ended.
LEMMA WriteFrameKeepsReadings ==
  ASSUME StreamInv, ReadingInv, NEW r \in Readings, WriteFrame(r)
  PROVE  ReadingInv'
<1> DEFINE frame == SpeedFrame(r)
           n == Len(sent)
           len == Len(stream)
<1>1. /\ frame \in Seq(Bytes) /\ Len(frame) = FrameSize /\ frame[1] = 136
      /\ FrameSize \in Nat /\ FrameSize > 0
  BY SpeedFrameIs DEF FrameSize
<1> HIDE DEF frame
<1>2. /\ stream' = stream \o frame /\ sent' = Append(sent, r)
      /\ UNCHANGED <<taken, buffer, readings>> /\ Pos' = Pos
  BY DEF WriteFrame, frame, Pos
<1>3. /\ sent \in Seq(Readings) /\ readings \in Seq(Readings) /\ stream \in Seq(Bytes)
      /\ n \in Nat /\ len \in Nat /\ Pos \in Nat /\ Pos <= len
  BY DEF ReadingInv, StreamInv, Pos
<1>4. /\ Len(stream') = len + FrameSize
      /\ \A i \in 1..len : stream'[i] = stream[i]
      /\ \A i \in 1..FrameSize : stream'[len + i] = frame[i]
  <2> DEFINE longer == stream \o frame
  <2>1. /\ Len(longer) = Len(stream) + Len(frame)
        /\ \A i \in 1..Len(stream) : longer[i] = stream[i]
        /\ \A i \in 1..Len(frame) : longer[Len(stream) + i] = frame[i]
    <3>1. stream \in Seq(Bytes) /\ frame \in Seq(Bytes)
      BY <1>1, <1>3
    <3>2. QED BY <3>1, Join, Zenon
  <2>2. stream' = longer
    BY <1>2
  <2> HIDE DEF longer
  <2>3. QED BY <1>1, <2>1, <2>2
<1>5. /\ sent' \in Seq(Readings) /\ Len(sent') = n + 1 /\ sent'[n + 1] = r
      /\ \A k \in 1..n : sent'[k] = sent[k]
  BY <1>2, <1>3, AppendProperties
<1>6. PICK at : Layout(at) /\ Read(at)
  BY DEF ReadingInv
<1>7. PICK then :
        /\ then \in [1..n + 1 -> Nat \ {0}]
        /\ \A k \in 1..n : then[k] = at[k]
        /\ then[n + 1] = len + 1
  <2> DEFINE new == [k \in 1..n + 1 |-> IF k <= n THEN at[k] ELSE len + 1]
  <2>1. /\ new \in [1..n + 1 -> Nat \ {0}]
        /\ \A k \in 1..n : new[k] = at[k]
        /\ new[n + 1] = len + 1
    BY <1>3, <1>6 DEF Layout
  <2>2. QED BY <2>1
<1> HIDE DEF n, len
<1>8. \A k \in 1..n : at[k] \in Nat \ {0} /\ at[k] + FrameSize - 1 <= len
  BY <1>6 DEF Layout, n, len
<1>9. \A j, k \in 1..n + 1 : j < k => then[j] + FrameSize <= then[k]
  <2> SUFFICES ASSUME NEW j \in 1..n + 1, NEW k \in 1..n + 1, j < k
               PROVE  then[j] + FrameSize <= then[k]
    OBVIOUS
  <2>1. j \in 1..n
    BY <1>3
  <2>2. CASE k \in 1..n
    BY <1>6, <1>7, <2>1, <2>2 DEF Layout, n
  <2>3. CASE k = n + 1
    <3>1. at[j] \in Nat /\ at[j] + FrameSize - 1 <= len
      BY <1>8, <2>1
    <3>2. at[j] + FrameSize <= len + 1
      BY <1>1, <1>3, <3>1
    <3>3. QED BY <1>7, <2>1, <2>3, <3>2
  <2>4. QED BY <1>3, <2>2, <2>3
<1>10. \A k \in 1..n + 1 : then[k] + FrameSize - 1 <= Len(stream')
  <2> SUFFICES ASSUME NEW k \in 1..n + 1 PROVE then[k] + FrameSize - 1 <= Len(stream')
    OBVIOUS
  <2>1. CASE k \in 1..n
    <3>1. then[k] \in Nat /\ then[k] + FrameSize - 1 <= len
      BY <1>7, <1>8, <2>1
    <3>2. QED BY <1>1, <1>3, <1>4, <3>1
  <2>2. CASE k = n + 1
    BY <1>1, <1>3, <1>4, <1>7, <2>2
  <2>3. QED BY <1>3, <2>1, <2>2
<1>11. \A k \in 1..n + 1 : \A i \in 1..FrameSize :
         stream'[(then[k] - 1) + i] = SpeedFrame(sent'[k])[i]
  <2> SUFFICES ASSUME NEW k \in 1..n + 1, NEW i \in 1..FrameSize
               PROVE  stream'[(then[k] - 1) + i] = SpeedFrame(sent'[k])[i]
    OBVIOUS
  <2>1. CASE k \in 1..n
    <3>1. (at[k] - 1) + i \in 1..len
      <4>1. at[k] \in Nat \ {0} /\ at[k] + FrameSize - 1 <= len
        BY <1>8, <2>1
      <4>2. QED BY <1>1, <1>3, <4>1
    <3>2. stream[(at[k] - 1) + i] = SpeedFrame(sent[k])[i]
      BY <1>6, <2>1 DEF Layout, n
    <3>3. QED BY <1>4, <1>5, <1>7, <2>1, <3>1, <3>2
  <2>2. CASE k = n + 1
    <3>1. (then[k] - 1) + i = len + i
      BY <1>3, <1>7, <2>2
    <3>2. QED BY <1>4, <1>5, <2>2, <3>1 DEF frame
  <2>3. QED BY <1>3, <2>1, <2>2
<1>12. ASSUME NEW p \in 1..Len(stream')
       PROVE  \/ \E k \in 1..n + 1 : then[k] <= p /\ p < then[k] + FrameSize
              \/ Dead(p)'
  <2>1. CASE p \in 1..len
    <3>1. CASE \E k \in 1..n : at[k] <= p /\ p < at[k] + FrameSize
      <4>1. PICK k \in 1..n : at[k] <= p /\ p < at[k] + FrameSize
        BY <3>1
      <4>2. k \in 1..n + 1 /\ then[k] = at[k]
        BY <1>3, <1>7
      <4>3. QED BY <4>1, <4>2
    <3>2. CASE Dead(p)
      <4>1. frame[1] \in FirstBytes
        BY <1>1 DEF FirstBytes
      <4>2. p \in Nat \ {0}
        BY <2>1
      <4>3. QED BY <1>1, <1>2, <1>3, <3>2, <4>1, <4>2, DeadStaysDead
    <3>3. QED BY <1>6, <2>1, <3>1, <3>2 DEF Layout, n, len
  <2>2. CASE p \notin 1..len
    <3>1. n + 1 \in 1..n + 1 /\ then[n + 1] <= p /\ p < then[n + 1] + FrameSize
      BY <1>1, <1>3, <1>4, <1>7, <2>2
    <3>2. QED BY <3>1
  <2>3. QED BY <2>1, <2>2
<1>13. Layout(then)'
  BY <1>5, <1>7, <1>9, <1>10, <1>11, <1>12 DEF Layout
<1>14. Read(then)'
  <2>1. Len(readings) <= n /\ Len(readings) \in Nat
    BY <1>3, <1>6 DEF Read, n
  <2>2. ASSUME NEW k \in 1..Len(readings)
        PROVE  readings[k] = sent'[k] /\ then[k] + FrameSize - 1 <= Pos
    <3>1. k \in 1..n
      BY <1>3, <2>1
    <3>2. QED BY <1>5, <1>6, <1>7, <3>1 DEF Read
  <2>3. ASSUME NEW k \in 1..n + 1, k > Len(readings) PROVE Pos < then[k]
    <3>1. CASE k \in 1..n
      BY <1>6, <1>7, <2>3, <3>1 DEF Read, n
    <3>2. CASE k = n + 1
      BY <1>3, <1>7, <3>2
    <3>3. QED BY <1>3, <3>1, <3>2
  <2>4. Len(readings) <= n + 1
    BY <1>3, <2>1
  <2>5. QED BY <1>2, <1>5, <2>2, <2>3, <2>4 DEF Read
<1>15. QED BY <1>2, <1>3, <1>5, <1>13, <1>14 DEF ReadingInv

\* Noise: every place of it is dead.
LEMMA WriteNoiseKeepsReadings ==
  ASSUME NoFalseHead, StreamInv, ReadingInv, NEW piece \in Noise, WriteNoise(piece)
  PROVE  ReadingInv'
<1> DEFINE len == Len(stream)
<1>1. /\ stream' = stream \o piece /\ Pos' = Pos
      /\ UNCHANGED <<taken, buffer, readings, sent>>
  BY DEF WriteNoise, Pos
<1>2. /\ stream \in Seq(Bytes) /\ piece \in Seq(Bytes)
      /\ len \in Nat /\ Len(piece) \in Nat
  BY StreamAssumption DEF StreamInv
<1>3. /\ Len(stream') = len + Len(piece)
      /\ \A i \in 1..len : stream'[i] = stream[i]
      /\ \A i \in 1..Len(piece) : stream'[len + i] = piece[i]
  BY <1>1, <1>2, ConcatProperties
<1>4. PICK at : Layout(at) /\ Read(at)
  BY DEF ReadingInv
<1>5. \A k \in 1..Len(sent) : at[k] \in Nat \ {0} /\ at[k] + FrameSize - 1 <= len
  BY <1>4 DEF Layout
<1>6. ASSUME NEW p \in 1..Len(stream')
      PROVE  \/ \E k \in 1..Len(sent) : at[k] <= p /\ p < at[k] + FrameSize
             \/ Dead(p)'
  <2>1. CASE p \in 1..len
    <3>1. CASE Dead(p)
      <4>1. piece # <<>> => piece[1] \in FirstBytes
        BY DEF FirstBytes
      <4>2. p \in Nat \ {0}
        BY <2>1
      <4>3. QED BY <1>1, <1>2, <3>1, <4>1, <4>2, DeadStaysDead
    <3>2. QED BY <1>4, <2>1, <3>1 DEF Layout
  <2>2. CASE p \notin 1..len
    <3> DEFINE i == p - len
    <3>1. i \in 1..Len(piece) /\ p = len + i
      BY <1>2, <1>3, <2>2
    <3>2. PICK k \in 1..5 :
            \/ i + k - 1 <= Len(piece) /\ ~FitsHead(k, piece[i + k - 1])
            \/ i + k - 1 = Len(piece) + 1 /\ \A b \in FirstBytes : ~FitsHead(k, b)
      BY <3>1 DEF NoFalseHead
    <3> HIDE DEF i
    <3>3. CASE i + k - 1 <= Len(piece) /\ ~FitsHead(k, piece[i + k - 1])
      <4>1. i + k - 1 \in 1..Len(piece) /\ p + k - 1 = len + (i + k - 1)
        BY <1>2, <3>1, <3>3
      <4>2. stream'[p + k - 1] = piece[i + k - 1] /\ p + k - 1 <= Len(stream')
        BY <1>2, <1>3, <4>1
      <4>3. QED BY <3>3, <4>2 DEF Dead
    <3>4. CASE i + k - 1 = Len(piece) + 1 /\ \A b \in FirstBytes : ~FitsHead(k, b)
      <4>1. p + k - 1 = Len(stream') + 1
        BY <1>2, <1>3, <3>1, <3>4
      <4>2. QED BY <3>4, <4>1 DEF Dead
    <3>5. QED BY <3>2, <3>3, <3>4
  <2>3. QED BY <2>1, <2>2
<1> HIDE DEF len
<1>7. Layout(at)'
  <2>1. \A k \in 1..Len(sent) : at[k] + FrameSize - 1 <= Len(stream')
    BY <1>2, <1>3, <1>5 DEF FrameSize
  <2>2. ASSUME NEW k \in 1..Len(sent), NEW i \in 1..FrameSize
        PROVE  stream'[(at[k] - 1) + i] = SpeedFrame(sent[k])[i]
    <3>1. (at[k] - 1) + i \in 1..len
      <4>1. at[k] \in Nat \ {0} /\ at[k] + FrameSize - 1 <= len
        BY <1>5
      <4>2. FrameSize \in Nat
        BY DEF FrameSize
      <4>3. QED BY <1>2, <4>1, <4>2
    <3>2. QED BY <1>3, <1>4, <3>1 DEF Layout
  <2>3. QED BY <1>1, <1>4, <1>6, <2>1, <2>2 DEF Layout
<1>8. Read(at)'
  BY <1>1, <1>4 DEF Read
<1>9. QED BY <1>1, <1>7, <1>8 DEF ReadingInv

\* The reserved bits are zero, the frame is extended and not remote, and at most
\* eight bytes long: that leaves nine values of the first byte.
LEMMA FirstByteOfHead ==
  ASSUME NEW b \in Bytes,
         (b \div 16) % 4 = 0 /\ b % 16 <= 8 /\ b >= 128 /\ (b \div 64) % 2 = 0
  PROVE  b \in 128..136
BY SMTT(30) DEF Bytes

\* What the parser finds at its place is the report that comes next, or nothing.
LEMMA NextIsReport ==
  ASSUME SaneReadings, StreamInv, NEW at, Layout(at), Read(at),
         sent \in Seq(Readings), readings \in Seq(Readings),
         Len(buffer) >= FrameSize
  PROVE  /\ Plausible(Packet) =>
              /\ Len(readings) + 1 \in 1..Len(sent)
              /\ at[Len(readings) + 1] = Pos + 1
              /\ IsSpeed(Packet) /\ SpeedFeedback(Packet) = sent[Len(readings) + 1]
         /\ ~Plausible(Packet) => \A k \in 1..Len(sent) : at[k] # Pos + 1
<1> DEFINE p == Pos + 1
           m == Len(readings)
<1>1. /\ Pos \in Nat /\ p \in Nat \ {0} /\ p + FrameSize - 1 <= Len(stream)
      /\ m \in Nat /\ Len(sent) \in Nat /\ Len(stream) \in Nat /\ p - 1 = Pos
  BY DEF StreamInv, Pos, FrameSize
<1>2. Packet = Window(p)
  BY PacketIsWindow
<1>3. /\ Window(p) \in Seq(Bytes) /\ Len(Window(p)) = FrameSize
      /\ \A i \in 1..FrameSize : Window(p)[i] = stream[(p - 1) + i]
  BY <1>1, WindowIsSlice DEF StreamInv
<1>4. ASSUME NEW k \in 1..Len(sent), at[k] = p
      PROVE  Plausible(Packet) /\ IsSpeed(Packet) /\ SpeedFeedback(Packet) = sent[k]
  <2>1. \A i \in 1..FrameSize : Window(p)[i] = SpeedFrame(sent[k])[i]
    BY <1>3, <1>4 DEF Layout
  <2>2. sent[k] \in Readings
    BY ElementOfSeq
  <2> HIDE DEF p, Packet, Window
  <2>3. QED BY <1>2, <1>3, <2>1, <2>2, FrameIsRead
<1>5. ASSUME Plausible(Packet) PROVE m + 1 \in 1..Len(sent) /\ at[m + 1] = p
  <2>1. ~Dead(p)
    <3> SUFFICES ASSUME NEW k \in 1..5 
                 PROVE  /\ p + k - 1 <= Len(stream) => FitsHead(k, stream[p + k - 1])
                        /\ p + k - 1 # Len(stream) + 1
      BY DEF Dead
    <3>1. k \in 1..FrameSize /\ (p - 1) + k = p + k - 1
      BY <1>1 DEF FrameSize
    <3>2. stream[p + k - 1] = Packet[k]
      BY <1>2, <1>3, <3>1
    <3>3. p + k - 1 # Len(stream) + 1
      BY <1>1 DEF FrameSize
    <3>4. Packet[k] \in Bytes
      BY <1>2, <1>3, <3>1, ElementOfSeq
    <3>5. FitsHead(k, Packet[k])
      <4> HIDE DEF Packet
      <4>1. k = 1 \/ k = 2 \/ k = 3 \/ k = 4 \/ k = 5
        OBVIOUS
      <4>2. CASE k = 1
        <5>1. /\ (Packet[1] \div 16) % 4 = 0 /\ Packet[1] % 16 <= 8
              /\ Packet[1] >= 128 /\ (Packet[1] \div 64) % 2 = 0
          BY <1>5 DEF Plausible
        <5>2. Packet[1] \in 128..136
          BY <3>4, <4>2, <5>1, FirstByteOfHead, Zenon
        <5>3. QED BY <4>2, <5>2 DEF FitsHead
      <4>3. CASE k # 1
        BY <1>5, <4>1, <4>3 DEF FitsHead, Plausible
      <4>4. QED BY <4>2, <4>3
    <3>6. QED BY <3>2, <3>3, <3>5
  <2>2. p \in 1..Len(stream)
    BY <1>1 DEF FrameSize
  <2>3. PICK k \in 1..Len(sent) : at[k] <= p /\ p < at[k] + FrameSize
    BY <2>1, <2>2 DEF Layout
  <2>4. \A j \in 1..Len(sent) : at[j] \in Nat
    BY DEF Layout
  <2>5. ~(k <= m)
    <3> SUFFICES ASSUME k <= m PROVE FALSE
      OBVIOUS
    <3>1. at[k] + FrameSize - 1 <= Pos
      BY <1>1 DEF Read
    <3>2. QED BY <1>1, <2>3, <2>4, <3>1 DEF FrameSize
  <2>6. m + 1 \in 1..Len(sent) /\ Pos < at[m + 1] /\ Pos < at[k]
    BY <1>1, <2>5 DEF Read
  <2>7. k = m + 1
    <3> SUFFICES ASSUME m + 1 < k PROVE FALSE
      BY <1>1, <2>5
    <3>1. at[m + 1] + FrameSize <= at[k]
      BY <2>6 DEF Layout
    <3>2. QED BY <1>1, <2>3, <2>4, <2>6, <3>1 DEF FrameSize
  <2>8. QED BY <1>1, <2>3, <2>4, <2>6, <2>7
<1>6. QED BY <1>4, <1>5

\* A chunk more in the buffer moves nothing.
LEMMA ReceiveKeepsReadings ==
  ASSUME StreamInv, ReadingInv, NEW n \in Chunks, Receive(n)
  PROVE  ReadingInv'
<1>1. /\ n \in Nat /\ taken + n <= Len(stream) /\ taken' = taken + n
      /\ buffer' = buffer \o SubSeq(stream, taken + 1, taken + n)
      /\ UNCHANGED <<stream, sent, readings>>
  BY StreamAssumption DEF Receive
<1>2. taken \in Nat /\ Len(buffer) \in Nat
  BY LenProperties DEF StreamInv
<1>3. /\ SubSeq(stream, taken + 1, taken + n) \in Seq(Bytes)
      /\ Len(SubSeq(stream, taken + 1, taken + n)) = n
  BY <1>1, <1>2, Slice DEF StreamInv
<1>4. Len(buffer') = Len(buffer) + n
  BY <1>1, <1>3, Join DEF StreamInv
<1>5. Pos' = Pos
  BY <1>1, <1>2, <1>4 DEF Pos
<1>6. QED BY <1>1, <1>5 DEF ReadingInv, Layout, Read, Dead

\* No report begins at a byte that is given up.
LEMMA DiscardKeepsReadings ==
  ASSUME SaneReadings, StreamInv, ReadingInv, Discard
  PROVE  ReadingInv'
<1>1. /\ Len(buffer) >= FrameSize /\ ~Plausible(Packet)
      /\ UNCHANGED <<stream, sent, readings, taken>> /\ buffer' = Tail(buffer)
  BY DEF Discard
<1>2. Pos \in Nat /\ Pos' = Pos + 1
  <2>1. buffer \in Seq(Bytes) /\ buffer # <<>> /\ taken \in Nat /\ Len(buffer) <= taken
    BY <1>1, EmptySeq DEF StreamInv, FrameSize
  <2>2. Len(buffer') = Len(buffer) - 1 /\ Len(buffer) \in Nat
    BY <1>1, <2>1, HeadTailProperties, LenProperties
  <2>3. QED BY <1>1, <2>1, <2>2 DEF Pos
<1>3. PICK at : Layout(at) /\ Read(at)
  BY DEF ReadingInv
<1>4. \A k \in 1..Len(sent) : at[k] # Pos + 1 /\ at[k] \in Nat
  BY <1>1, <1>3, NextIsReport DEF ReadingInv, Layout
<1>5. Layout(at)'
  BY <1>1, <1>3 DEF Layout, Dead
<1>6. Read(at)'
  <2>1. ASSUME NEW k \in 1..Len(readings) PROVE at[k] + FrameSize - 1 <= Pos'
    <3>1. k \in 1..Len(sent)
      BY <1>3 DEF Read, ReadingInv
    <3>2. at[k] \in Nat /\ at[k] + FrameSize - 1 <= Pos
      BY <1>3, <1>4, <3>1 DEF Read
    <3>3. QED BY <1>2, <3>2 DEF FrameSize
  <2>2. ASSUME NEW k \in 1..Len(sent), k > Len(readings) PROVE Pos' < at[k]
    <3>1. Pos < at[k] /\ at[k] # Pos + 1 /\ at[k] \in Nat
      BY <1>3, <1>4, <2>2 DEF Read
    <3>2. QED BY <1>2, <3>1
  <2>3. QED BY <1>1, <1>3, <2>1, <2>2 DEF Read
<1>7. QED BY <1>1, <1>5, <1>6 DEF ReadingInv

\* The packet accepted is the report that comes next.
LEMMA AcceptKeepsReadings ==
  ASSUME SaneReadings, StreamInv, ReadingInv, Accept
  PROVE  ReadingInv'
<1> DEFINE m == Len(readings)
<1>1. /\ Len(buffer) >= FrameSize /\ Plausible(Packet)
      /\ UNCHANGED <<stream, sent, taken>>
      /\ buffer' = SubSeq(buffer, FrameSize + 1, Len(buffer))
  BY DEF Accept
<1>2. Pos \in Nat /\ Pos' = Pos + FrameSize
  <2> DEFINE n == Len(buffer) - FrameSize
  <2>1. /\ buffer \in Seq(Bytes) /\ FrameSize \in Nat /\ n \in Nat
        /\ FrameSize + n = Len(buffer) /\ taken \in Nat /\ Len(buffer) <= taken
    BY <1>1 DEF StreamInv, FrameSize
  <2>2. buffer' = SubSeq(buffer, FrameSize + 1, FrameSize + n)
    BY <1>1, <2>1
  <2> HIDE DEF n
  <2>3. FrameSize + n <= Len(buffer)
    BY <2>1
  <2>4. Len(buffer') = n
    BY <2>1, <2>2, <2>3, Slice
  <2>5. taken' = taken
    BY <1>1
  <2>6. QED BY <2>1, <2>4, <2>5 DEF Pos
<1>3. PICK at : Layout(at) /\ Read(at)
  BY DEF ReadingInv
<1>4. /\ m + 1 \in 1..Len(sent) /\ at[m + 1] = Pos + 1
      /\ IsSpeed(Packet) /\ SpeedFeedback(Packet) = sent[m + 1]
  BY <1>1, <1>3, NextIsReport DEF ReadingInv
<1>5. readings' = Append(readings, sent[m + 1])
  BY <1>4 DEF Accept
<1>6. sent \in Seq(Readings) /\ readings \in Seq(Readings) /\ m \in Nat /\ Len(sent) \in Nat
  BY DEF ReadingInv
<1>7. /\ readings' \in Seq(Readings) /\ Len(readings') = m + 1
      /\ readings'[m + 1] = sent[m + 1]
      /\ \A k \in 1..m : readings'[k] = readings[k]
  <2>1. sent[m + 1] \in Readings
    BY <1>4, <1>6, ElementOfSeq
  <2>2. QED BY <1>5, <1>6, <2>1, AppendProperties
<1> HIDE DEF m
<1>8. \A k \in 1..Len(sent) : at[k] \in Nat
  BY <1>3 DEF Layout
<1>9. Layout(at)'
  BY <1>1, <1>3 DEF Layout, Dead
<1>10. Read(at)'
  <2>1. ASSUME NEW k \in 1..m + 1
        PROVE  readings'[k] = sent[k] /\ at[k] + FrameSize - 1 <= Pos'
    <3>1. CASE k \in 1..m
      <4>1. k \in 1..Len(sent)
        BY <1>4, <1>6, <3>1
      <4>2. at[k] \in Nat /\ at[k] + FrameSize - 1 <= Pos /\ readings[k] = sent[k]
        BY <1>3, <1>8, <3>1, <4>1 DEF Read, m
      <4>3. QED BY <1>2, <1>7, <3>1, <4>2 DEF FrameSize
    <3>2. CASE k = m + 1
      BY <1>2, <1>4, <1>7, <3>2 DEF FrameSize
    <3>3. QED BY <1>6, <3>1, <3>2
  <2>2. ASSUME NEW k \in 1..Len(sent), k > m + 1 PROVE Pos' < at[k]
    <3>1. at[m + 1] + FrameSize <= at[k]
      BY <1>3, <1>4, <1>6, <2>2 DEF Layout
    <3>2. at[k] \in Nat
      BY <1>8
    <3>3. QED BY <1>2, <1>4, <3>1, <3>2 DEF FrameSize
  <2>3. m + 1 <= Len(sent)
    BY <1>4, <1>6
  <2>4. QED BY <1>1, <1>7, <2>1, <2>2, <2>3 DEF Read
<1>11. QED BY <1>1, <1>6, <1>7, <1>9, <1>10 DEF ReadingInv

\* No report of the stream is lost to the noise between reports, to where TCP
\* cuts it, or to a connection that breaks inside a frame (CanStreamParser.feed,
\* cleared by connect()): for reports the protocol can say, and noise in which no
\* place looks like the head of a frame.
THEOREM ReportsSurvive ==
  ASSUME SaneReadings, NoFalseHead
  PROVE  StreamSpec => []ReadingsSurvive
<1>1. StreamInit => ReadingInv
  <2> SUFFICES ASSUME StreamInit PROVE ReadingInv
    OBVIOUS
  <2> DEFINE none == [k \in 1..0 |-> 1]
  <2>1. /\ stream = <<>> /\ sent = <<>> /\ readings = <<>>
        /\ sent \in Seq(Readings) /\ readings \in Seq(Readings)
        /\ Len(sent) = 0 /\ Len(readings) = 0 /\ Len(stream) = 0
    BY EmptySeq DEF StreamInit
  <2>2. none \in [1..Len(sent) -> Nat \ {0}]
    BY <2>1
  <2> HIDE DEF none
  <2>3. Layout(none) /\ Read(none)
    BY <2>1, <2>2 DEF Layout, Read
  <2>4. QED BY <2>1, <2>3 DEF ReadingInv
<1>2. ReadingInv /\ StreamInv /\ [StreamNext]_streamVars => ReadingInv'
  <2> SUFFICES ASSUME ReadingInv, StreamInv, [StreamNext]_streamVars PROVE ReadingInv'
    OBVIOUS
  <2>1. ASSUME NEW r \in Readings, WriteFrame(r) PROVE ReadingInv'
    BY <2>1, WriteFrameKeepsReadings
  <2>2. ASSUME NEW piece \in Noise, WriteNoise(piece) PROVE ReadingInv'
    BY <2>2, WriteNoiseKeepsReadings
  <2>3. ASSUME NEW n \in Chunks, Receive(n) PROVE ReadingInv'
    BY <2>3, ReceiveKeepsReadings
  <2>4. CASE Discard
    BY <2>4, DiscardKeepsReadings
  <2>5. CASE Accept
    BY <2>5, AcceptKeepsReadings
  <2>6. CASE Reconnect
    <3> DEFINE none == [k \in 1..0 |-> 1]
    <3>1. /\ stream' = <<>> /\ sent' = <<>> /\ readings' = <<>>
          /\ sent' \in Seq(Readings) /\ readings' \in Seq(Readings)
          /\ Len(sent') = 0 /\ Len(readings') = 0 /\ Len(stream') = 0
      BY <2>6, EmptySeq DEF Reconnect
    <3>2. none \in [1..Len(sent') -> Nat \ {0}]
      BY <3>1
    <3> HIDE DEF none
    <3>3. Layout(none)' /\ Read(none)'
      BY <3>1, <3>2 DEF Layout, Read
    <3>4. QED BY <3>1, <3>3 DEF ReadingInv
  <2>7. CASE UNCHANGED streamVars
    BY <2>7 DEF streamVars, ReadingInv, Layout, Read, Dead, Pos
  <2>8. QED BY <2>1, <2>2, <2>3, <2>4, <2>5, <2>6, <2>7 DEF StreamNext
<1>3. ReadingInv /\ StreamInv => ReadingsSurvive
  <2> SUFFICES ASSUME ReadingInv, StreamInv PROVE ReadingsSurvive
    OBVIOUS
  <2>1. PICK at : Layout(at) /\ Read(at)
    BY DEF ReadingInv
  <2>2. /\ sent \in Seq(Readings) /\ readings \in Seq(Readings)
        /\ Len(sent) \in Nat /\ Len(readings) \in Nat /\ Len(stream) \in Nat
    BY DEF ReadingInv, StreamInv
  <2>3. DOMAIN readings = 1..Len(readings)
    BY <2>2, LenProperties
  <2>4. IsPrefixOf(readings, sent)
    BY <2>1, <2>3 DEF IsPrefixOf, Read
  <2>5. ASSUME Pos = Len(stream) PROVE readings = sent
    <3>1. Len(readings) = Len(sent)
      <4> SUFFICES ASSUME Len(readings) < Len(sent) PROVE FALSE
        BY <2>1, <2>2 DEF Read
      <4>1. Len(readings) + 1 \in 1..Len(sent) /\ Len(readings) + 1 > Len(readings)
        BY <2>2
      <4> DEFINE next == at[Len(readings) + 1]
      <4>2. next \in Nat /\ next + FrameSize - 1 <= Len(stream) /\ Pos < next
        BY <2>1, <4>1 DEF Layout, Read
      <4>3. QED BY <2>2, <2>5, <4>2 DEF FrameSize
    <3>2. \A k \in 1..Len(readings) : readings[k] = sent[k]
      BY <2>1 DEF Read
    <3>3. QED BY <2>2, <3>1, <3>2, SeqEqual
  <2>6. QED BY <2>4, <2>5 DEF ReadingsSurvive
<1>4. QED BY <1>1, <1>2, <1>3, ParserInductive, PTL DEF StreamSpec
=============================================================================
