-------------------------- MODULE ModbusFrame_proofs --------------------------
(***************************************************************************)
(* The frames of the sensor, for any registers: what arrives as it was     *)
(* written is what the sensor measured, and a frame that is cut short, or  *)
(* of which up to three bits or any odd number of bits have flipped, is    *)
(* refused.                                                                *)
(*                                                                         *)
(* The register of the checksum is linear in the bits it takes in. Between *)
(* the checksum that a frame carries and the one of its payload there is   *)
(* then a difference to which every flipped bit adds a word of its own,    *)
(* its column, whatever the frame. The 72 columns are different words with *)
(* an odd number of bits each: no two of them cancel, and no odd number.   *)
(***************************************************************************)
EXTENDS ModbusFrame, SequenceTheorems, WellFoundedInduction, TLAPS

-----------------------------------------------------------------------------
(* The checksum and the answer                                             *)

Words == {c \in Nat : c <= 65535}

\* A set of numbers that is not empty has a least one: what stands here for
\* induction over the bits of a payload.
LEMMA LeastNumber ==
  ASSUME NEW T \in SUBSET Nat, T # {}
  PROVE  \E m \in T : \A n \in T : m <= n
<1>1. PICK m \in T : \A n \in T : ~(<<n, m>> \in OpToRel(<, Nat))
  BY WFMin, NatLessThanWellFounded, Zenon
<1>2. \A n \in T : ~(n < m)
  BY <1>1, Zenon DEF OpToRel
<1>3. \A n \in T : m <= n
  BY <1>2
<1>4. QED BY <1>3

\* The register stays a word.
LEMMA ShiftedIsWord ==
  ASSUME NEW c \in Words, NEW b PROVE Shifted(c, b) \in Words
<1> DEFINE h == (c \div 2) + 32768
           i == Flipped(h, 8192)
<1>1. c \in Nat /\ c <= 65535
  BY DEF Words
<1>2. c \div 2 \in Nat /\ c \div 2 <= 32767
  BY <1>1
<1>3. h \in Nat /\ 32768 <= h /\ h <= 65535
  BY <1>2
<1> HIDE DEF h
<1>4. i \in Nat /\ i <= 65535
  BY <1>3 DEF Flipped, BitOf
<1> HIDE DEF i
<1>5. Flipped(i, 1) \in Nat /\ Flipped(i, 1) <= 65535
  BY <1>4 DEF Flipped, BitOf
<1>6. Shifted(c, b) = Flipped(i, 1) \/ Shifted(c, b) = c \div 2
  BY DEF Shifted, h, i
<1>7. QED BY <1>2, <1>5, <1>6 DEF Words

\* The register starts as a word.
LEMMA StartIsWord == CrcStart \in Words
BY DEF CrcStart, Words

\* The register after each of the first n bits.
Taken(bytes, f, n) ==
  /\ f \in [0..n -> Words] /\ f[0] = CrcStart
  /\ \A k \in 1..n : f[k] = Shifted(f[k - 1], PayloadBit(bytes, k))

\* There are such registers for every number of bits: one more bit, one more shift.
LEMMA SomeTaken ==
  ASSUME NEW bytes, NEW n \in Nat PROVE \E f : Taken(bytes, f, n)
<1> DEFINE T == {m \in Nat : ~\E f : Taken(bytes, f, m)}
<1>1. SUFFICES ASSUME T # {} PROVE FALSE
  OBVIOUS
<1>2. PICK m \in T : \A j \in T : m <= j
  BY <1>1, LeastNumber
<1>3. CASE m = 0
  <2> DEFINE f == [k \in 0..0 |-> CrcStart]
  <2>1. f \in [0..0 -> Words] /\ f[0] = CrcStart
    BY StartIsWord
  <2>2. Taken(bytes, f, 0)
    BY <2>1 DEF Taken
  <2>3. QED BY <1>2, <1>3, <2>2
<1>4. CASE m # 0
  <2>1. m - 1 \in Nat /\ m - 1 \notin T
    BY <1>2, <1>4
  <2>2. PICK f : Taken(bytes, f, m - 1)
    BY <2>1
  <2> DEFINE next == Shifted(f[m - 1], PayloadBit(bytes, m))
             g == [k \in 0..m |-> IF k < m THEN f[k] ELSE next]
  <2>3. m \in Nat
    BY <1>2
  <2>4. \A k \in 0..m - 1 : f[k] \in Words
    BY <2>2 DEF Taken
  <2>5. next \in Words
    BY <2>1, <2>4, ShiftedIsWord
  <2> HIDE DEF next
  <2>6. /\ g \in [0..m -> Words] /\ g[m] = next
        /\ \A k \in 0..m - 1 : g[k] = f[k]
    BY <2>3, <2>4, <2>5
  <2> HIDE DEF g
  <2>7. g[0] = CrcStart
    BY <1>4, <2>2, <2>3, <2>6 DEF Taken
  <2>8. ASSUME NEW k \in 1..m PROVE g[k] = Shifted(g[k - 1], PayloadBit(bytes, k))
    <3>1. k - 1 \in 0..m - 1 /\ g[k - 1] = f[k - 1]
      BY <2>3, <2>6
    <3>2. CASE k = m
      BY <2>6, <3>1, <3>2 DEF next
    <3>3. CASE k # m
      <4>1. k \in 1..m - 1 /\ k \in 0..m - 1
        BY <2>3, <3>3
      <4>2. f[k] = Shifted(f[k - 1], PayloadBit(bytes, k)) /\ g[k] = f[k]
        BY <2>2, <2>6, <4>1 DEF Taken
      <4>3. QED BY <3>1, <4>2
    <3>4. QED BY <3>2, <3>3
  <2>9. Taken(bytes, g, m)
    BY <2>6, <2>7, <2>8 DEF Taken
  <2>10. QED BY <1>2, <2>9
<1>5. QED BY <1>3, <1>4

\* What the recursive definition of Crcs defines.
LEMMA CrcsTaken ==
  ASSUME NEW bytes, Len(bytes) \in Nat
  PROVE  Taken(bytes, Crcs(bytes), 8 * Len(bytes))
<1> DEFINE n == 8 * Len(bytes)
           After(f) == [k \in 0..n |-> IF k = 0 THEN CrcStart
                                       ELSE Shifted(f[k - 1], PayloadBit(bytes, k))]
           c == Crcs(bytes)
<1>1. n \in Nat
  OBVIOUS
<1>2. c = CHOOSE f : f = After(f)
  BY DEF Crcs
<1> HIDE DEF c, n
<1>3. ASSUME NEW f
      PROVE  /\ DOMAIN After(f) = 0..n /\ After(f) = [k \in 0..n |-> After(f)[k]]
             /\ \A k \in 0..n : After(f)[k] = IF k = 0 THEN CrcStart
                                  ELSE Shifted(f[k - 1], PayloadBit(bytes, k))
  OBVIOUS
<1> HIDE DEF After
<1>4. PICK f : Taken(bytes, f, n)
  BY <1>1, SomeTaken
<1>5. f = After(f)
  <2>1. ASSUME NEW k \in 0..n PROVE f[k] = After(f)[k]
    <3>1. CASE k = 0
      BY <1>3, <1>4, <3>1 DEF Taken
    <3>2. CASE k # 0
      <4>1. k \in 1..n
        BY <1>1, <3>2
      <4>2. QED BY <1>3, <1>4, <3>2, <4>1 DEF Taken
    <3>3. QED BY <3>1, <3>2
  <2>2. f = [k \in 0..n |-> f[k]]
    BY <1>4 DEF Taken
  <2>3. After(f) = [k \in 0..n |-> After(f)[k]]
    BY <1>3
  <2>4. QED BY <2>1, <2>2, <2>3, Zenon
<1>6. /\ DOMAIN c = 0..n /\ c = [k \in 0..n |-> c[k]]
      /\ \A k \in 0..n : c[k] = IF k = 0 THEN CrcStart ELSE Shifted(c[k - 1], PayloadBit(bytes, k))
  <2>1. c = After(c)
    BY <1>2, <1>5, Zenon
  <2>2. /\ DOMAIN After(c) = 0..n /\ After(c) = [k \in 0..n |-> After(c)[k]]
        /\ \A k \in 0..n : After(c)[k] = IF k = 0 THEN CrcStart
                             ELSE Shifted(c[k - 1], PayloadBit(bytes, k))
    BY <1>3, Zenon
  <2>3. QED BY <2>1, <2>2, Zenon
<1>7. \A k \in 0..n : c[k] \in Words
  <2> DEFINE T == {k \in 0..n : c[k] \notin Words}
  <2> SUFFICES ASSUME T # {} PROVE FALSE
    OBVIOUS
  <2>1. T \in SUBSET Nat
    BY <1>1
  <2>2. PICK m \in T : \A j \in T : m <= j
    BY <2>1, LeastNumber
  <2>3. m # 0
    BY <1>1, <1>6, <2>2, StartIsWord
  <2>4. m - 1 \in 0..n /\ m \in 0..n /\ m - 1 \notin T
    BY <1>1, <2>2, <2>3
  <2>5. c[m - 1] \in Words
    BY <2>4
  <2>6. c[m] \in Words
    BY <1>6, <2>3, <2>4, <2>5, ShiftedIsWord
  <2>7. QED BY <2>2, <2>6
<1>8. c \in [0..n -> Words]
  BY <1>6, <1>7
<1>9. c[0] = CrcStart
  BY <1>1, <1>6
<1>10. \A k \in 1..n : c[k] = Shifted(c[k - 1], PayloadBit(bytes, k))
  <2> SUFFICES ASSUME NEW k \in 1..n PROVE c[k] = Shifted(c[k - 1], PayloadBit(bytes, k))
    OBVIOUS
  <2>1. k \in 0..n /\ k # 0
    BY <1>1
  <2>2. c[k] = IF k = 0 THEN CrcStart ELSE Shifted(c[k - 1], PayloadBit(bytes, k))
    BY <1>6, <2>1, Zenon
  <2>3. QED BY <2>1, <2>2, Zenon
<1>11. QED BY <1>8, <1>9, <1>10 DEF Taken, c, n

\* The checksum fits in two bytes.
LEMMA CrcIsWord ==
  ASSUME NEW bytes, Len(bytes) \in Nat
  PROVE  modbus_crc16(bytes) \in Words
<1>1. Crcs(bytes) \in [0..8 * Len(bytes) -> Words]
  BY CrcsTaken DEF Taken
<1>2. 8 * Len(bytes) \in 0..8 * Len(bytes)
  OBVIOUS
<1>3. QED BY <1>1, <1>2 DEF modbus_crc16

\* Two sequences, one after the other.
LEMMA Chain ==
  ASSUME NEW s \in Seq(Int), NEW t \in Seq(Int)
  PROVE  /\ s \o t \in Seq(Int) /\ Len(s \o t) = Len(s) + Len(t)
         /\ \A k \in 1..Len(s) : (s \o t)[k] = s[k]
         /\ \A k \in 1..Len(t) : (s \o t)[Len(s) + k] = t[k]
<1>1. Len(s) \in Nat /\ Len(t) \in Nat
  BY LenProperties
<1>2. /\ s \o t \in Seq(Int) /\ Len(s \o t) = Len(s) + Len(t)
      /\ \A k \in 1..Len(s) + Len(t) :
           (s \o t)[k] = IF k <= Len(s) THEN s[k] ELSE t[k - Len(s)]
  BY ConcatProperties
<1>3. ASSUME NEW k \in 1..Len(s) PROVE (s \o t)[k] = s[k]
  BY <1>1, <1>2
<1>4. ASSUME NEW k \in 1..Len(t) PROVE (s \o t)[Len(s) + k] = t[k]
  <2>1. Len(s) + k \in 1..Len(s) + Len(t) /\ ~(Len(s) + k <= Len(s)) /\ (Len(s) + k) - Len(s) = k
    BY <1>1
  <2>2. QED BY <1>2, <2>1
<1>5. QED BY <1>2, <1>3, <1>4

CrcLow(p) == modbus_crc16(p) % 256
CrcHigh(p) == modbus_crc16(p) \div 256

\* A frame is its payload, the low byte of its checksum and the high byte.
LEMMA WithCrcIs ==
  ASSUME NEW p \in Seq(Int)
  PROVE  /\ WithCrc(p) \in Seq(Int) /\ Len(WithCrc(p)) = Len(p) + 2
         /\ \A i \in 1..Len(p) : WithCrc(p)[i] = p[i]
         /\ WithCrc(p)[Len(p) + 1] = CrcLow(p) /\ WithCrc(p)[Len(p) + 2] = CrcHigh(p)
         /\ CrcLow(p) \in Int /\ CrcHigh(p) \in Int
         /\ SubSeq(WithCrc(p), 1, Len(p)) = p
<1> DEFINE tail == <<CrcLow(p), CrcHigh(p)>>
           n == Len(p)
<1>1. n \in Nat /\ modbus_crc16(p) \in Nat
  BY CrcIsWord, LenProperties DEF Words
<1>2. /\ CrcLow(p) \in Int /\ CrcHigh(p) \in Int
      /\ tail \in Seq(Int) /\ Len(tail) = 2 /\ tail[1] = CrcLow(p) /\ tail[2] = CrcHigh(p)
  <2>1. CrcLow(p) \in Int /\ CrcHigh(p) \in Int
    BY <1>1 DEF CrcLow, CrcHigh
  <2>2. QED BY <2>1
<1> HIDE DEF tail, n
<1> DEFINE f == p \o tail
<1>3. WithCrc(p) = f
  BY DEF WithCrc, tail, CrcLow, CrcHigh
<1>4. /\ f \in Seq(Int) /\ Len(f) = Len(p) + Len(tail)
      /\ \A i \in 1..Len(p) : f[i] = p[i]
      /\ \A i \in 1..Len(tail) : f[Len(p) + i] = tail[i]
  BY <1>2, Chain, Zenon
<1> HIDE DEF f
<1>5. Len(f) = n + 2 /\ \A i \in 1..n : f[i] = p[i]
  BY <1>2, <1>4 DEF n
<1>6. f[n + 1] = CrcLow(p) /\ f[n + 2] = CrcHigh(p)
  BY <1>2, <1>4 DEF n
<1>7. SubSeq(f, 1, n) = p
  <2>1. \A i \in 1..n : f[i] \in Int
    BY <1>1, <1>4, <1>5, ElementOfSeq
  <2>2. /\ SubSeq(f, 1, n) \in Seq(Int) /\ Len(SubSeq(f, 1, n)) = n
        /\ \A i \in 1..n : SubSeq(f, 1, n)[i] = f[i]
    BY <1>1, <1>5, <2>1, SubSeqProperties
  <2>3. QED BY <1>5, <2>2, SeqEqual DEF n
<1>8. QED BY <1>2, <1>3, <1>4, <1>5, <1>6, <1>7 DEF n

\* A register on the wire.
HighByte(v) == (v % 65536) \div 256
LowByte(v) == (v % 65536) % 256

\* What a register is on the wire, the high byte first.
LEMMA WordIs ==
  ASSUME NEW v \in Int
  PROVE  Word(v) = <<HighByte(v), LowByte(v)>> /\ HighByte(v) \in Int /\ LowByte(v) \in Int
BY SMT DEF Word, HighByte, LowByte

Payload(r) == <<Slave, 3, 4>> \o Word(r[1]) \o Word(r[2])

\* The seven bytes under the checksum: header, temperature, humidity.
LEMMA PayloadIs ==
  ASSUME NEW r, r[1] \in Int, r[2] \in Int
  PROVE  /\ Payload(r) \in Seq(Int) /\ Len(Payload(r)) = 7
         /\ Payload(r)[1] = Slave /\ Payload(r)[2] = 3 /\ Payload(r)[3] = 4
         /\ Payload(r)[4] = HighByte(r[1]) /\ Payload(r)[5] = LowByte(r[1])
         /\ Payload(r)[6] = HighByte(r[2]) /\ Payload(r)[7] = LowByte(r[2])
<1> DEFINE a == HighByte(r[1])
           b == LowByte(r[1])
           c == HighByte(r[2])
           d == LowByte(r[2])
<1>1. a \in Int /\ b \in Int /\ c \in Int /\ d \in Int
  BY WordIs, Zenon
<1>2. Payload(r) = <<Slave, 3, 4>> \o <<a, b>> \o <<c, d>>
  BY WordIs, Zenon DEF Payload
<1> HIDE DEF a, b, c, d
<1>3. /\ Payload(r) \in Seq(Int) /\ Len(Payload(r)) = 7
      /\ Payload(r)[1] = Slave /\ Payload(r)[2] = 3 /\ Payload(r)[3] = 4
      /\ Payload(r)[4] = a /\ Payload(r)[5] = b
      /\ Payload(r)[6] = c /\ Payload(r)[7] = d
  BY <1>1, <1>2, SMT DEF Slave
<1>4. QED BY <1>3 DEF a, b, c, d

\* The sensor accepts what the gateway asks.
LEMMA AnswerIs ==
  ASSUME NEW r PROVE Answer(build_read_request, r) = WithCrc(Payload(r))
<1> DEFINE q == <<Slave, 3, 0, 0, 0, 2>>
<1>1. q \in Seq(Int) /\ Len(q) = 6 /\ q[1] = Slave
  BY DEF Slave
<1>2. build_read_request = WithCrc(q)
  BY DEF build_read_request
<1> HIDE DEF q
<1>3. SubSeq(WithCrc(q), 1, 6) = q /\ WithCrc(q)[1] = Slave
  <2>1. SubSeq(WithCrc(q), 1, Len(q)) = q /\ \A i \in 1..Len(q) : WithCrc(q)[i] = q[i]
    BY <1>1, WithCrcIs, Zenon
  <2>2. QED BY <1>1, <2>1
<1>4. QED BY <1>2, <1>3 DEF Answer, Payload

\* A word from its two bytes.
LEMMA BytesOfWord ==
  ASSUME NEW w \in Int PROVE 256 * (w \div 256) + (w % 256) = w
BY SMT

\* Two's complement.
LEMMA RegisterIs ==
  ASSUME NEW v \in Int
  PROVE  /\ 0 <= v /\ v <= 65535 => BigEndian(HighByte(v), LowByte(v)) = v
         /\ -32768 <= v /\ v <= 32767 => Signed16(BigEndian(HighByte(v), LowByte(v))) = v
<1> DEFINE w == v % 65536
<1>1. w \in Int /\ (v >= 0 /\ v <= 65535 => w = v) /\ (v < 0 /\ -65536 <= v => w = v + 65536)
  BY SMT
<1>2. BigEndian(HighByte(v), LowByte(v)) = w
  BY <1>1, BytesOfWord, SMT DEF BigEndian, HighByte, LowByte
<1> HIDE DEF w
<1>3. -32768 <= v /\ v <= 32767 => Signed16(w) = v
  BY <1>1, SMT DEF Signed16
<1>4. 0 <= v /\ v <= 65535 => w = v
  BY <1>1, SMT
<1>5. QED BY <1>2, <1>3, <1>4

\* What decoding takes from the answer: nine bytes with a header, the checksum of
\* the payload, low byte first, and the registers, high byte first.
LEMMA AnswerBytes ==
  ASSUME NEW r, r[1] \in Int, r[2] \in Int, NEW f, f = WithCrc(Payload(r))
  PROVE  /\ f \in Seq(Int) /\ Len(f) = 9 /\ \A j \in 1..9 : f[j] \in Int
         /\ f[1] = Slave /\ f[2] = 3 /\ f[3] = 4
         /\ f[4] = HighByte(r[1]) /\ f[5] = LowByte(r[1])
         /\ f[6] = HighByte(r[2]) /\ f[7] = LowByte(r[2])
         /\ BigEndian(f[9], f[8]) = modbus_crc16(SubSeq(f, 1, 7))
<1> DEFINE p == Payload(r)
<1>1. /\ p \in Seq(Int) /\ Len(p) = 7
      /\ p[1] = Slave /\ p[2] = 3 /\ p[3] = 4
      /\ p[4] = HighByte(r[1]) /\ p[5] = LowByte(r[1])
      /\ p[6] = HighByte(r[2]) /\ p[7] = LowByte(r[2])
  BY PayloadIs
<1> HIDE DEF p
<1>2. f = WithCrc(p)
  BY DEF p
<1>3. /\ f \in Seq(Int) /\ Len(f) = Len(p) + 2
      /\ \A i \in 1..Len(p) : f[i] = p[i]
      /\ f[Len(p) + 1] = CrcLow(p) /\ f[Len(p) + 2] = CrcHigh(p)
      /\ SubSeq(f, 1, Len(p)) = p
  BY <1>1, <1>2, WithCrcIs, Zenon
<1>4. f[8] = CrcLow(p) /\ f[9] = CrcHigh(p) /\ SubSeq(f, 1, 7) = p
  BY <1>1, <1>3
<1>5. BigEndian(CrcHigh(p), CrcLow(p)) = modbus_crc16(p)
  <2>1. modbus_crc16(p) \in Int
    BY <1>1, CrcIsWord DEF Words
  <2>2. QED BY <2>1, BytesOfWord DEF BigEndian, CrcHigh, CrcLow
<1>6. BigEndian(f[9], f[8]) = modbus_crc16(SubSeq(f, 1, 7))
  BY <1>4, <1>5, Zenon
<1>7. \A j \in 1..9 : f[j] \in Int
  <2>1. Len(f) = 9
    BY <1>1, <1>3
  <2>2. QED BY <1>3, <2>1, ElementOfSeq
<1>8. QED BY <1>1, <1>3, <1>6, <1>7

\* What the sensor has measured is what the gateway decodes.
LEMMA AnswerDecodes ==
  ASSUME NEW r \in Int \X Nat, -32768 <= r[1], r[1] <= 32767, r[2] <= 65535
  PROVE  decode_temp_humidity_response(WithCrc(Payload(r)))
           = IF InRange(r[1], r[2]) THEN r ELSE Refused
<1> DEFINE f == WithCrc(Payload(r))
<1>1. r[1] \in Int /\ r[2] \in Int /\ 0 <= r[2] /\ r = <<r[1], r[2]>>
  OBVIOUS
<1>2. /\ Len(f) = 9 /\ f[1] = Slave /\ f[2] = 3 /\ f[3] = 4
      /\ f[4] = HighByte(r[1]) /\ f[5] = LowByte(r[1])
      /\ f[6] = HighByte(r[2]) /\ f[7] = LowByte(r[2])
      /\ BigEndian(f[9], f[8]) = modbus_crc16(SubSeq(f, 1, 7))
  BY <1>1, AnswerBytes
<1> HIDE DEF f
<1>3. /\ Signed16(BigEndian(HighByte(r[1]), LowByte(r[1]))) = r[1]
      /\ BigEndian(HighByte(r[2]), LowByte(r[2])) = r[2]
  BY <1>1, RegisterIs
<1>4. Signed16(BigEndian(f[4], f[5])) = r[1] /\ BigEndian(f[6], f[7]) = r[2]
  BY <1>2, <1>3
<1>5. decode_temp_humidity_response(f) = IF InRange(r[1], r[2]) THEN <<r[1], r[2]>> ELSE Refused
  BY <1>2, <1>4 DEF decode_temp_humidity_response
<1>6. QED BY <1>1, <1>5 DEF f

\* A number from its half and its lowest bit.
LEMMA Halved ==
  ASSUME NEW n \in Int PROVE 2 * (n \div 2) + (n % 2) = n /\ n % 2 \in {0, 1}
<1>1. n % 2 = 0 \/ n % 2 = 1
  BY SMT
<1>2. 2 * (n \div 2) + (n % 2) = n
  BY SMT
<1>3. QED BY <1>1, <1>2
-----------------------------------------------------------------------------
(* Bits                                                                    *)

\* Induction over a range, with a set of numbers for what is claimed of them.
LEMMA Ladder ==
  ASSUME NEW a \in Nat, NEW n \in Nat, NEW S, a \in S,
         \A m \in a..n - 1 : m \in S => m + 1 \in S
  PROVE  \A m \in a..n : m \in S
<1> DEFINE T == {m \in a..n : m \notin S}
<1> SUFFICES ASSUME T # {} PROVE FALSE
  OBVIOUS
<1>1. PICK m \in T : \A j \in T : m <= j
  <2>1. T \in SUBSET Nat
    OBVIOUS
  <2>2. QED BY <2>1, LeastNumber
<1>2. m # a /\ m \in a..n
  BY <1>1
<1>3. m - 1 \in a..n - 1 /\ (m - 1) + 1 = m
  BY <1>2
<1>4. m - 1 \in S
  BY <1>1, <1>3
<1>5. m \in S
  BY <1>3, <1>4
<1>6. QED BY <1>1, <1>5

ByteWeights == {1, 2, 4, 8, 16, 32, 64, 128}
WordWeights == ByteWeights \cup {256 * w : w \in ByteWeights}

\* The weights of a word, in two bytes.
LEMMA WordWeightsAre ==
  WordWeights = ByteWeights \cup {256, 512, 1024, 2048, 4096, 8192, 16384, 32768}
BY DEF WordWeights, ByteWeights

\* Each bit of a byte has a weight of its own.
LEMMA WeightsAre ==
  \A a \in 1..8 : Weights[a] \in ByteWeights /\ \A b \in 1..8 : Weights[a] = Weights[b] <=> a = b
<1>1. /\ Weights[1] = 1 /\ Weights[2] = 2 /\ Weights[3] = 4 /\ Weights[4] = 8
      /\ Weights[5] = 16 /\ Weights[6] = 32 /\ Weights[7] = 64 /\ Weights[8] = 128
  BY DEF Weights
<1>2. QED BY <1>1 DEF ByteWeights

\* A bit is 0 or 1.
LEMMA BitIsBit ==
  ASSUME NEW n \in Int, NEW w \in WordWeights PROVE BitOf(n, w) \in {0, 1}
BY WordWeightsAre, SMT DEF BitOf, ByteWeights

\* Flipping a bit of a byte changes the number, and flipping it again undoes that.
LEMMA FlippedBack ==
  ASSUME NEW n \in Int, NEW w \in ByteWeights
  PROVE  Flipped(n, w) \in Int /\ Flipped(n, w) # n /\ Flipped(Flipped(n, w), w) = n
<1>1. Flipped(n, w) \in Int /\ Flipped(n, w) # n
  BY SMT DEF Flipped, BitOf, ByteWeights
<1>2. Flipped(Flipped(n, w), w) = n
  BY SMTT(30) DEF Flipped, BitOf, ByteWeights
<1>3. QED BY <1>1, <1>2

\* Flipping a bit of a byte changes that bit and no other.
LEMMA BitsOfFlipped ==
  ASSUME NEW n \in Int, NEW v \in ByteWeights
  PROVE  \A w \in ByteWeights : BitOf(Flipped(n, w), v) = BitOf(n, v) <=> v # w
<1>1. BitOf(Flipped(n, 1), v) = BitOf(n, v) <=> v # 1
  BY SMTT(30) DEF Flipped, BitOf, ByteWeights
<1>2. BitOf(Flipped(n, 2), v) = BitOf(n, v) <=> v # 2
  BY SMTT(30) DEF Flipped, BitOf, ByteWeights
<1>3. BitOf(Flipped(n, 4), v) = BitOf(n, v) <=> v # 4
  BY SMTT(30) DEF Flipped, BitOf, ByteWeights
<1>4. BitOf(Flipped(n, 8), v) = BitOf(n, v) <=> v # 8
  BY SMTT(30) DEF Flipped, BitOf, ByteWeights
<1>5. BitOf(Flipped(n, 16), v) = BitOf(n, v) <=> v # 16
  BY SMTT(30) DEF Flipped, BitOf, ByteWeights
<1>6. BitOf(Flipped(n, 32), v) = BitOf(n, v) <=> v # 32
  BY SMTT(30) DEF Flipped, BitOf, ByteWeights
<1>7. BitOf(Flipped(n, 64), v) = BitOf(n, v) <=> v # 64
  BY SMTT(30) DEF Flipped, BitOf, ByteWeights
<1>8. BitOf(Flipped(n, 128), v) = BitOf(n, v) <=> v # 128
  BY SMTT(30) DEF Flipped, BitOf, ByteWeights
<1>9. QED BY <1>1, <1>2, <1>3, <1>4, <1>5, <1>6, <1>7, <1>8 DEF ByteWeights

\* A flipped byte is a byte.
LEMMA FlippedByte ==
  ASSUME NEW n \in Nat, n <= 255, NEW w \in ByteWeights
  PROVE  Flipped(n, w) \in Nat /\ Flipped(n, w) <= 255
BY SMTT(30) DEF Flipped, BitOf, ByteWeights

\* The bits of a word are those of its two bytes.
LEMMA BitsOfBytes ==
  ASSUME NEW h \in Int, NEW l \in Nat, l <= 255, NEW w \in ByteWeights
  PROVE  /\ BitOf(BigEndian(h, l), w) = BitOf(l, w)
         /\ BitOf(BigEndian(h, l), 256 * w) = BitOf(h, w)
<1>1. BitOf(BigEndian(h, l), w) = BitOf(l, w)
  BY SMTT(30) DEF BigEndian, BitOf, ByteWeights
<1>2. BitOf(BigEndian(h, l), 256 * w) = BitOf(h, w)
  BY SMTT(30) DEF BigEndian, BitOf, ByteWeights
<1>3. QED BY <1>1, <1>2

-----------------------------------------------------------------------------
(* The register as sixteen bits                                            *)

\* A word from its two bytes.
LEMMA WordInBytes ==
  ASSUME NEW n \in Words
  PROVE  /\ n \div 256 \in Nat /\ n \div 256 <= 255 /\ n % 256 \in Nat /\ n % 256 <= 255
         /\ n = BigEndian(n \div 256, n % 256)
BY SMT DEF Words, BigEndian

\* Flipping a bit of a word flips that bit of one of its bytes.
LEMMA FlippedInBytes ==
  ASSUME NEW h \in Int, NEW l \in Nat, l <= 255, NEW w \in ByteWeights
  PROVE  /\ Flipped(BigEndian(h, l), w) = BigEndian(h, Flipped(l, w))
         /\ Flipped(BigEndian(h, l), 256 * w) = BigEndian(Flipped(h, w), l)
<1>1. w \in Int
  BY DEF ByteWeights
<1>2. /\ BitOf(BigEndian(h, l), w) = BitOf(l, w)
      /\ BitOf(BigEndian(h, l), 256 * w) = BitOf(h, w)
  BY BitsOfBytes
<1>3. QED BY <1>1, <1>2, SMT DEF Flipped, BigEndian

\* The weights of the high byte are those of the low one, 256 times over.
LEMMA ByteWeightsApart ==
  ASSUME NEW v \in ByteWeights, NEW w \in ByteWeights
  PROVE  256 * v # w /\ (256 * v = 256 * w <=> v = w)
BY SMT DEF ByteWeights

\* Flipping a bit of a word leaves a word, with that bit changed and no other.
LEMMA BitsOfFlippedWord ==
  ASSUME NEW n \in Words, NEW v \in WordWeights
  PROVE  /\ Flipped(n, v) \in Words
         /\ \A w \in WordWeights : BitOf(Flipped(n, v), w) = BitOf(n, w) <=> v # w
<1> DEFINE h == n \div 256
           l == n % 256
<1>1. /\ h \in Nat /\ h <= 255 /\ l \in Nat /\ l <= 255 /\ n = BigEndian(h, l)
  BY WordInBytes
<1> HIDE DEF h, l
<1>2. ASSUME NEW a \in Nat, a <= 255, NEW b \in Nat, b <= 255 PROVE BigEndian(a, b) \in Words
  BY <1>2, SMT DEF BigEndian, Words
<1>3. CASE v \in ByteWeights
  <2> DEFINE k == Flipped(l, v)
  <2>1. k \in Nat /\ k <= 255 /\ Flipped(n, v) = BigEndian(h, k)
    BY <1>1, <1>3, FlippedByte, FlippedInBytes
  <2>2. \A w \in ByteWeights : BitOf(k, w) = BitOf(l, w) <=> v # w
    BY <1>1, <1>3, BitsOfFlipped
  <2> HIDE DEF k
  <2>3. ASSUME NEW w \in ByteWeights PROVE BitOf(Flipped(n, v), w) = BitOf(n, w) <=> v # w
    BY <1>1, <2>1, <2>2, BitsOfBytes
  <2>4. ASSUME NEW w \in ByteWeights PROVE BitOf(Flipped(n, v), 256 * w) = BitOf(n, 256 * w) /\ v # 256 * w
    <3>1. BitOf(Flipped(n, v), 256 * w) = BitOf(n, 256 * w)
      BY <1>1, <2>1, BitsOfBytes
    <3>2. v # 256 * w
      BY <1>3, ByteWeightsApart
    <3>3. QED BY <3>1, <3>2
  <2>5. Flipped(n, v) \in Words
    BY <1>1, <1>2, <2>1
  <2>6. QED BY <2>3, <2>4, <2>5 DEF WordWeights
<1>4. CASE v \notin ByteWeights
  <2>1. PICK u \in ByteWeights : v = 256 * u
    BY <1>4 DEF WordWeights
  <2> DEFINE k == Flipped(h, u)
  <2>2. k \in Nat /\ k <= 255 /\ Flipped(n, v) = BigEndian(k, l)
    BY <1>1, <2>1, FlippedByte, FlippedInBytes
  <2>3. \A w \in ByteWeights : BitOf(k, w) = BitOf(h, w) <=> u # w
    BY <1>1, BitsOfFlipped
  <2> HIDE DEF k
  <2>4. ASSUME NEW w \in ByteWeights PROVE BitOf(Flipped(n, v), w) = BitOf(n, w) /\ v # w
    <3>1. BitOf(Flipped(n, v), w) = BitOf(n, w)
      BY <1>1, <2>2, BitsOfBytes
    <3>2. v # w
      BY <2>1, ByteWeightsApart
    <3>3. QED BY <3>1, <3>2
  <2>5. ASSUME NEW w \in ByteWeights
        PROVE  BitOf(Flipped(n, v), 256 * w) = BitOf(n, 256 * w) <=> v # 256 * w
    <3>1. /\ BitOf(Flipped(n, v), 256 * w) = BitOf(k, w)
          /\ BitOf(n, 256 * w) = BitOf(h, w)
      BY <1>1, <2>2, BitsOfBytes
    <3>2. v = 256 * w <=> u = w
      BY <2>1, ByteWeightsApart
    <3>3. QED BY <2>3, <3>1, <3>2
  <2>6. Flipped(n, v) \in Words
    BY <1>1, <1>2, <2>2
  <2>7. QED BY <2>4, <2>5, <2>6 DEF WordWeights
<1>5. QED BY <1>3, <1>4

\* Half a word has the bits of the word, one place lower.
LEMMA BitsOfHalf ==
  ASSUME NEW c \in Words
  PROVE  /\ c \div 2 \in Words
         /\ \A w \in WordWeights : BitOf(c \div 2, w) = BitOf(c, 2 * w)
<1>1. c \in Nat /\ c <= 65535
  BY DEF Words
<1>2. c \div 2 \in Words
  BY <1>1 DEF Words
<1>3. \A w \in {1, 2, 4, 8} : BitOf(c \div 2, w) = BitOf(c, 2 * w)
  BY <1>1, SMTT(30) DEF BitOf
<1>4. \A w \in {16, 32, 64, 128} : BitOf(c \div 2, w) = BitOf(c, 2 * w)
  BY <1>1, SMTT(30) DEF BitOf
<1>5. \A w \in {256, 512, 1024, 2048} : BitOf(c \div 2, w) = BitOf(c, 2 * w)
  BY <1>1, SMTT(30) DEF BitOf
<1>6. \A w \in {4096, 8192, 16384, 32768} : BitOf(c \div 2, w) = BitOf(c, 2 * w)
  BY <1>1, SMTT(30) DEF BitOf
<1>7. QED BY <1>2, <1>3, <1>4, <1>5, <1>6, WordWeightsAre, SMT DEF ByteWeights

\* The places that 0xA001 comes in at.
Tap(w) == IF w \in {32768, 8192, 1} THEN 1 ELSE 0

\* The bits of a shifted register.
LEMMA ShiftedBits ==
  ASSUME NEW c \in Words, NEW b \in {0, 1}
  PROVE  \A w \in WordWeights :
           /\ c % 2 = b => BitOf(Shifted(c, b), w) = BitOf(c, 2 * w)
           /\ c % 2 # b => (BitOf(Shifted(c, b), w) = BitOf(c, 2 * w) <=> Tap(w) = 0)
<1> DEFINE h == c \div 2
           i == Flipped(h, 32768)
           j == Flipped(i, 8192)
           k == Flipped(j, 1)
<1>1. h \in Words /\ \A w \in WordWeights : BitOf(h, w) = BitOf(c, 2 * w)
  BY BitsOfHalf
<1>2. c % 2 = b => Shifted(c, b) = h
  BY DEF Shifted
<1>3. c % 2 # b => Shifted(c, b) = k
  <2>1. h \in Nat /\ h <= 32767
    BY SMT DEF Words
  <2> HIDE DEF h
  <2>2. i = h + 32768
    BY <2>1, SMT DEF Flipped, BitOf
  <2>3. QED BY <2>2 DEF Shifted, h
<1> HIDE DEF h
<1>4. 32768 \in WordWeights /\ 8192 \in WordWeights /\ 1 \in WordWeights
  BY WordWeightsAre DEF ByteWeights
<1>5. i \in Words /\ \A w \in WordWeights : BitOf(i, w) = BitOf(h, w) <=> 32768 # w
  BY <1>1, <1>4, BitsOfFlippedWord
<1> HIDE DEF i
<1>6. j \in Words /\ \A w \in WordWeights : BitOf(j, w) = BitOf(i, w) <=> 8192 # w
  BY <1>4, <1>5, BitsOfFlippedWord
<1> HIDE DEF j
<1>7. k \in Words /\ \A w \in WordWeights : BitOf(k, w) = BitOf(j, w) <=> 1 # w
  BY <1>4, <1>6, BitsOfFlippedWord
<1> HIDE DEF k
<1>8. ASSUME NEW w \in WordWeights PROVE BitOf(k, w) = BitOf(h, w) <=> Tap(w) = 0
  <2>1. /\ BitOf(h, w) \in {0, 1} /\ BitOf(i, w) \in {0, 1}
        /\ BitOf(j, w) \in {0, 1} /\ BitOf(k, w) \in {0, 1}
    <3>1. h \in Int /\ i \in Int /\ j \in Int /\ k \in Int
      BY <1>1, <1>5, <1>6, <1>7 DEF Words
    <3>2. QED BY <3>1, BitIsBit
  <2>2. /\ BitOf(i, w) = BitOf(h, w) <=> 32768 # w
        /\ BitOf(j, w) = BitOf(i, w) <=> 8192 # w
        /\ BitOf(k, w) = BitOf(j, w) <=> 1 # w
    BY <1>5, <1>6, <1>7
  <2>3. Tap(w) = 0 <=> (32768 # w /\ 8192 # w /\ 1 # w)
    BY SMT DEF Tap
  <2>4. QED BY <2>1, <2>2, <2>3, SMT
<1>9. QED BY <1>1, <1>2, <1>3, <1>8

\* e has a bit where c and d differ.
IsXor(e, c, d) == \A w \in WordWeights : BitOf(e, w) = 1 <=> BitOf(c, w) # BitOf(d, w)

\* The register is linear in what it takes in: the difference of two registers is
\* shifted as a register of its own, with the difference of the two bits.
LEMMA ShiftedXor ==
  ASSUME NEW c \in Words, NEW d \in Words, NEW e \in Words, IsXor(e, c, d),
         NEW a \in {0, 1}, NEW b \in {0, 1}, NEW x \in {0, 1}, x = 1 <=> a # b
  PROVE  IsXor(Shifted(e, x), Shifted(c, a), Shifted(d, b))
<1>1. c \in Int /\ d \in Int /\ e \in Int
  BY DEF Words
<1>2. (e % 2 = 1 <=> c % 2 # d % 2) /\ c % 2 \in {0, 1} /\ d % 2 \in {0, 1} /\ e % 2 \in {0, 1}
  <2>1. 1 \in WordWeights
    BY DEF WordWeights, ByteWeights
  <2>2. BitOf(e, 1) = 1 <=> BitOf(c, 1) # BitOf(d, 1)
    BY <2>1 DEF IsXor
  <2>3. BitOf(c, 1) = c % 2 /\ BitOf(d, 1) = d % 2 /\ BitOf(e, 1) = e % 2
    BY <1>1, SMT DEF BitOf
  <2>4. QED BY <1>1, <2>2, <2>3, Halved
<1>3. SUFFICES ASSUME NEW w \in WordWeights
               PROVE  BitOf(Shifted(e, x), w) = 1 <=> BitOf(Shifted(c, a), w) # BitOf(Shifted(d, b), w)
  BY DEF IsXor
<1> DEFINE cc == BitOf(c, 2 * w)
           dd == BitOf(d, 2 * w)
           ee == BitOf(e, 2 * w)
           c1 == BitOf(Shifted(c, a), w)
           d1 == BitOf(Shifted(d, b), w)
           e1 == BitOf(Shifted(e, x), w)
<1>4. /\ cc \in {0, 1} /\ dd \in {0, 1} /\ ee \in {0, 1} /\ (ee = 1 <=> cc # dd)
  <2>1. CASE w = 32768
    <3>1. cc = 0 /\ dd = 0 /\ ee = 0
      BY <2>1, SMT DEF BitOf, Words
    <3>2. QED BY <3>1
  <2>2. CASE w # 32768
    <3>1. 2 * w \in WordWeights
      BY <2>2, WordWeightsAre, SMT DEF ByteWeights
    <3>2. QED BY <1>1, <3>1, BitIsBit DEF IsXor
  <2>3. QED BY <2>1, <2>2
<1>5. c1 \in {0, 1} /\ d1 \in {0, 1} /\ e1 \in {0, 1}
  <2>1. Shifted(c, a) \in Int /\ Shifted(d, b) \in Int /\ Shifted(e, x) \in Int
    BY ShiftedIsWord DEF Words
  <2>2. QED BY <2>1, BitIsBit
<1>6. /\ (c % 2 = a => c1 = cc) /\ (c % 2 # a => (c1 = cc <=> Tap(w) = 0))
      /\ (d % 2 = b => d1 = dd) /\ (d % 2 # b => (d1 = dd <=> Tap(w) = 0))
      /\ (e % 2 = x => e1 = ee) /\ (e % 2 # x => (e1 = ee <=> Tap(w) = 0))
  BY ShiftedBits
<1> HIDE DEF cc, dd, ee, c1, d1, e1
<1>7. e1 = 1 <=> c1 # d1
  BY <1>2, <1>4, <1>5, <1>6, SMT
<1>8. QED BY <1>7 DEF c1, d1, e1

-----------------------------------------------------------------------------
(* What a flipped bit does to the checksum                                 *)

\* Where the flip of each of the 72 bits of a frame shows when the checksum it
\* carries is compared with the one computed: for the bits of the payload the
\* register that 0xA001 becomes while the rest is taken in, for those of the
\* checksum the bit itself.
Columns ==
  <<49168, 49187, 49221, 49289, 49425, 49697, 50241, 51329,
    53505, 57857, 33793, 18433, 36866, 24583, 49166, 49183,
    49213, 49273, 49393, 49633, 50113, 51073, 52993, 56833,
    64513, 47105, 12289, 24578, 49156, 49163, 49173, 49193,
    49233, 49313, 49473, 49793, 50433, 51713, 54273, 59393,
    36865, 24577, 49154, 49159, 49165, 49177, 49201, 49249,
    49345, 49537, 49921, 50689, 52225, 55297, 61441, 40961,
    1, 2, 4, 8, 16, 32, 64, 128,
    256, 512, 1024, 2048, 4096, 8192, 16384, 32768>>

\* What the columns are made of: the last bit of the payload brings in 0xA001, one
\* that comes before it is shifted once more.
LEMMA ColumnsAre ==
  /\ \A k \in 1..72 : Columns[k] \in Words
  /\ Columns[56] = Shifted(0, 1)
  /\ \A k \in 1..55 : Columns[k] = Shifted(Columns[k + 1], 0)
<1>1. \A k \in 1..72 : Columns[k] \in Words
  BY SMTT(60) DEF Columns, Words
<1>2. Columns[56] = Shifted(0, 1)
  BY SMT DEF Columns, Shifted, Flipped, BitOf
<1>3. \A k \in 1..55 : Columns[k] = Shifted(Columns[k + 1], 0)
  BY SMTT(120) DEF Columns, Shifted, Flipped, BitOf
<1>4. QED BY <1>1, <1>2, <1>3

\* No two columns are the same.
LEMMA ColumnsDiffer ==
  \A j \in 1..72, k \in 1..72 : Columns[j] = Columns[k] => j = k
BY SMTT(120) DEF Columns

\* An odd number of the bits of a word is set.
OddBits(n) ==
  (  BitOf(n, 1) + BitOf(n, 2) + BitOf(n, 4) + BitOf(n, 8)
   + BitOf(n, 16) + BitOf(n, 32) + BitOf(n, 64) + BitOf(n, 128)
   + BitOf(n, 256) + BitOf(n, 512) + BitOf(n, 1024) + BitOf(n, 2048)
   + BitOf(n, 4096) + BitOf(n, 8192) + BitOf(n, 16384) + BitOf(n, 32768)) % 2 = 1

\* Every column has an odd number of bits: 0xA001 has three.
LEMMA ColumnsOdd == \A k \in 1..72 : OddBits(Columns[k])
BY SMTT(120) DEF Columns, OddBits, BitOf

\* The sixteen bits tell the word.
LEMMA SameBits ==
  ASSUME NEW c \in Words, NEW d \in Words, \A w \in WordWeights : BitOf(c, w) = BitOf(d, w)
  PROVE  c = d
<1>1. ASSUME NEW n \in Nat, n <= 255
      PROVE  n =   BitOf(n, 1) + 2 * BitOf(n, 2) + 4 * BitOf(n, 4) + 8 * BitOf(n, 8)
                 + 16 * BitOf(n, 16) + 32 * BitOf(n, 32) + 64 * BitOf(n, 64) + 128 * BitOf(n, 128)
  BY <1>1, SMTT(30) DEF BitOf
<1>2. ASSUME NEW n \in Nat, n <= 255, NEW m \in Nat, m <= 255,
             \A w \in ByteWeights : BitOf(n, w) = BitOf(m, w)
      PROVE  n = m
  <2>1. /\ BitOf(n, 1) = BitOf(m, 1) /\ BitOf(n, 2) = BitOf(m, 2)
        /\ BitOf(n, 4) = BitOf(m, 4) /\ BitOf(n, 8) = BitOf(m, 8)
        /\ BitOf(n, 16) = BitOf(m, 16) /\ BitOf(n, 32) = BitOf(m, 32)
        /\ BitOf(n, 64) = BitOf(m, 64) /\ BitOf(n, 128) = BitOf(m, 128)
    BY <1>2 DEF ByteWeights
  <2>2. QED BY <1>1, <1>2, <2>1
<1> DEFINE h == c \div 256
           l == c % 256
           i == d \div 256
           m == d % 256
<1>3. /\ h \in Nat /\ h <= 255 /\ l \in Nat /\ l <= 255 /\ c = BigEndian(h, l)
      /\ i \in Nat /\ i <= 255 /\ m \in Nat /\ m <= 255 /\ d = BigEndian(i, m)
  BY WordInBytes
<1> HIDE DEF h, l, i, m
<1>4. ASSUME NEW w \in ByteWeights
      PROVE  BitOf(l, w) = BitOf(m, w) /\ BitOf(h, w) = BitOf(i, w)
  <2>1. /\ BitOf(c, w) = BitOf(l, w) /\ BitOf(c, 256 * w) = BitOf(h, w)
        /\ BitOf(d, w) = BitOf(m, w) /\ BitOf(d, 256 * w) = BitOf(i, w)
    BY <1>3, BitsOfBytes
  <2>2. w \in WordWeights /\ 256 * w \in WordWeights
    BY DEF WordWeights
  <2>3. QED BY <2>1, <2>2
<1>5. l = m
  BY <1>2, <1>3, <1>4
<1>6. h = i
  BY <1>2, <1>3, <1>4
<1>7. QED BY <1>3, <1>5, <1>6

\* The byte that the k-th bit is in, and its place in that byte.
ByteOf(k) == ((k - 1) \div 8) + 1
PlaceOf(k) == ((k - 1) % 8) + 1

\* Every bit of the payload is taken in once.
LEMMA BitPosition ==
  ASSUME NEW k \in 1..56, NEW i \in 1..7, NEW b \in 1..8
  PROVE  /\ ByteOf(k) \in 1..7 /\ PlaceOf(k) \in 1..8
         /\ ByteOf(k) = i /\ PlaceOf(k) = b <=> k = 8 * (i - 1) + b
<1> DEFINE u == (k - 1) \div 8
           v == (k - 1) % 8
<1>1. u \in Int /\ 0 <= u /\ u <= 6
  BY SMT
<1>2. v \in Int /\ 0 <= v /\ v <= 7
  BY SMT
<1>3. 8 * u + v = k - 1
  BY SMT
<1> HIDE DEF u, v
<1>4. u + 1 \in 1..7 /\ v + 1 \in 1..8
  BY <1>1, <1>2
<1>5. ASSUME u + 1 = i, v + 1 = b PROVE k = 8 * (i - 1) + b
  BY <1>1, <1>2, <1>3, <1>5
<1>6. ASSUME k = 8 * (i - 1) + b PROVE u + 1 = i /\ v + 1 = b
  BY <1>1, <1>2, <1>3, <1>6
<1>7. QED BY <1>4, <1>5, <1>6 DEF ByteOf, PlaceOf, u, v

\* Two payloads that differ in one bit: their registers are the same up to that bit,
\* and differ from there on by what becomes of 0xA001.
LEMMA OneBitXor ==
  ASSUME NEW p, NEW q, Len(p) = 7, Len(q) = 7, NEW k0 \in 1..56,
         \A k \in 1..56 :
           /\ PayloadBit(p, k) \in {0, 1} /\ PayloadBit(q, k) \in {0, 1}
           /\ PayloadBit(p, k) = PayloadBit(q, k) <=> k # k0
  PROVE  IsXor(Columns[k0], modbus_crc16(p), modbus_crc16(q))
<1> DEFINE c == Crcs(p)
           d == Crcs(q)
<1>1. Taken(p, c, 56) /\ Taken(q, d, 56)
  <2>1. Taken(p, c, 8 * Len(p)) /\ Taken(q, d, 8 * Len(q))
    <3>1. Len(p) \in Nat /\ Len(q) \in Nat
      OBVIOUS
    <3>2. QED BY <3>1, CrcsTaken
  <2>2. 8 * Len(p) = 56 /\ 8 * Len(q) = 56
    OBVIOUS
  <2>3. QED BY <2>1, <2>2
<1>2. modbus_crc16(p) = c[56] /\ modbus_crc16(q) = d[56]
  <2>1. modbus_crc16(p) = c[8 * Len(p)] /\ modbus_crc16(q) = d[8 * Len(q)]
    BY DEF modbus_crc16
  <2>2. 8 * Len(p) = 56 /\ 8 * Len(q) = 56
    OBVIOUS
  <2>3. QED BY <2>1, <2>2
<1> HIDE DEF c, d
<1>3. \A k \in 1..56 : /\ PayloadBit(p, k) \in {0, 1} /\ PayloadBit(q, k) \in {0, 1}
                       /\ PayloadBit(p, k) = PayloadBit(q, k) <=> k # k0
  OBVIOUS
<1>4. c[0] = d[0]
  BY <1>1 DEF Taken
<1>5. ASSUME NEW m \in 0..55
      PROVE  /\ m + 1 \in 1..56 /\ c[m] \in Words /\ d[m] \in Words
             /\ c[m + 1] = Shifted(c[m], PayloadBit(p, m + 1))
             /\ d[m + 1] = Shifted(d[m], PayloadBit(q, m + 1))
  <2>1. m \in 0..56 /\ m + 1 \in 1..56 /\ (m + 1) - 1 = m
    OBVIOUS
  <2>2. c[m] \in Words /\ d[m] \in Words
    BY <1>1, <2>1 DEF Taken
  <2>3. /\ c[m + 1] = Shifted(c[(m + 1) - 1], PayloadBit(p, m + 1))
        /\ d[m + 1] = Shifted(d[(m + 1) - 1], PayloadBit(q, m + 1))
    BY <1>1, <2>1, Zenon DEF Taken
  <2>4. QED BY <2>1, <2>2, <2>3
<1>6. c[k0 - 1] = d[k0 - 1]
  <2> DEFINE S == {m \in 0..k0 - 1 : c[m] = d[m]}
  <2>1. 0 \in S
    BY <1>4
  <2>2. ASSUME NEW m \in 0..(k0 - 1) - 1, m \in S PROVE m + 1 \in S
    <3>1. m \in 0..55 /\ m + 1 \in 0..k0 - 1 /\ m + 1 # k0 /\ c[m] = d[m]
      BY <2>2
    <3>2. PayloadBit(p, m + 1) = PayloadBit(q, m + 1)
      BY <1>3, <1>5, <3>1
    <3>3. c[m + 1] = d[m + 1]
      BY <1>5, <3>1, <3>2
    <3>4. QED BY <3>1, <3>3
  <2>3. k0 - 1 \in Nat /\ k0 - 1 \in 0..k0 - 1
    OBVIOUS
  <2> HIDE DEF S
  <2>4. \A m \in 0..k0 - 1 : m \in S
    BY <2>1, <2>2, <2>3, Ladder
  <2>5. k0 - 1 \in S
    BY <2>3, <2>4
  <2>6. QED BY <2>5 DEF S
<1>7. IsXor(Columns[56], c[k0], d[k0])
  <2>1. k0 - 1 \in 0..55 /\ (k0 - 1) + 1 = k0
    OBVIOUS
  <2>2. /\ c[k0 - 1] \in Words /\ d[k0 - 1] \in Words
        /\ c[k0] = Shifted(c[k0 - 1], PayloadBit(p, k0))
        /\ d[k0] = Shifted(d[k0 - 1], PayloadBit(q, k0))
    <3>1. /\ c[k0 - 1] \in Words /\ d[k0 - 1] \in Words
          /\ c[(k0 - 1) + 1] = Shifted(c[k0 - 1], PayloadBit(p, (k0 - 1) + 1))
          /\ d[(k0 - 1) + 1] = Shifted(d[k0 - 1], PayloadBit(q, (k0 - 1) + 1))
      BY <1>5, <2>1, Zenon
    <3>2. QED BY <2>1, <3>1
  <2>3. 0 \in Words /\ IsXor(0, c[k0 - 1], d[k0 - 1])
    <3>1. \A w \in WordWeights : BitOf(0, w) = 0
      BY WordWeightsAre, SMT DEF BitOf, ByteWeights
    <3>2. QED BY <1>6, <3>1 DEF IsXor, Words
  <2>4. /\ PayloadBit(p, k0) \in {0, 1} /\ PayloadBit(q, k0) \in {0, 1}
        /\ PayloadBit(p, k0) # PayloadBit(q, k0)
    BY <1>3
  <2>5. IsXor(Shifted(0, 1), c[k0], d[k0])
    BY <2>2, <2>3, <2>4, ShiftedXor
  <2>6. QED BY <2>5, ColumnsAre
<1>8. IsXor(Columns[k0], c[56], d[56])
  <2> DEFINE S == {m \in k0..56 : IsXor(Columns[(56 + k0) - m], c[m], d[m])}
  <2>1. k0 \in S
    <3>1. (56 + k0) - k0 = 56 /\ k0 \in k0..56
      OBVIOUS
    <3>2. IsXor(Columns[(56 + k0) - k0], c[k0], d[k0])
      BY <1>7, <3>1
    <3>3. QED BY <3>1, <3>2
  <2>2. ASSUME NEW m \in k0..56 - 1, m \in S PROVE m + 1 \in S
    <3> DEFINE e == (56 + k0) - (m + 1)
    <3>1. /\ m \in 0..55 /\ m + 1 \in k0..56 /\ m + 1 # k0
          /\ e \in 1..55 /\ e + 1 = (56 + k0) - m /\ e + 1 \in 1..72
      OBVIOUS
    <3>2. IsXor(Columns[e + 1], c[m], d[m])
      <4>1. IsXor(Columns[(56 + k0) - m], c[m], d[m])
        BY <2>2
      <4>2. QED BY <3>1, <4>1
    <3> HIDE DEF e
    <3>3. /\ Columns[e + 1] \in Words /\ Columns[e] = Shifted(Columns[e + 1], 0)
      BY <3>1, ColumnsAre
    <3>4. /\ PayloadBit(p, m + 1) \in {0, 1}
          /\ PayloadBit(q, m + 1) = PayloadBit(p, m + 1)
      BY <1>3, <1>5, <3>1
    <3>5. c[m] \in Words /\ d[m] \in Words
      BY <1>5, <3>1
    <3> DEFINE b == PayloadBit(p, m + 1)
    <3>6. c[m + 1] = Shifted(c[m], b) /\ d[m + 1] = Shifted(d[m], b)
      BY <1>5, <3>1, <3>4
    <3> HIDE DEF b
    <3>7. b \in {0, 1}
      BY <3>4 DEF b
    <3>8. IsXor(Shifted(Columns[e + 1], 0), Shifted(c[m], b), Shifted(d[m], b))
      BY <3>2, <3>3, <3>5, <3>7, ShiftedXor
    <3>9. IsXor(Columns[e], c[m + 1], d[m + 1])
      BY <3>3, <3>6, <3>8
    <3>10. QED BY <3>1, <3>9 DEF e
  <2> HIDE DEF S
  <2>3. \A m \in k0..56 : m \in S
    BY <2>1, <2>2, Ladder
  <2>4. 56 \in S /\ (56 + k0) - 56 = k0
    BY <2>3
  <2>5. IsXor(Columns[(56 + k0) - 56], c[56], d[56])
    BY <2>4 DEF S
  <2>6. QED BY <2>4, <2>5
<1>9. QED BY <1>2, <1>8

\* A flipped bit of the seven bytes under the checksum changes the checksum by its column.
LEMMA PayloadFlipShows ==
  ASSUME NEW p \in Seq(Int), NEW q \in Seq(Int), Len(p) = 7, Len(q) = 7,
         NEW i \in 1..7, NEW b \in 1..8,
         \A j \in 1..7 : q[j] = IF j = i THEN Flipped(p[i], Weights[b]) ELSE p[j]
  PROVE  IsXor(Columns[8 * (i - 1) + b], modbus_crc16(p), modbus_crc16(q))
<1> DEFINE k0 == 8 * (i - 1) + b
<1>1. k0 \in 1..56
  OBVIOUS
<1>2. ASSUME NEW k \in 1..56
      PROVE  /\ PayloadBit(p, k) \in {0, 1} /\ PayloadBit(q, k) \in {0, 1}
             /\ PayloadBit(p, k) = PayloadBit(q, k) <=> k # k0
  <2> DEFINE j == ByteOf(k)
             a == PlaceOf(k)
  <2>1. j \in 1..7 /\ a \in 1..8 /\ (j = i /\ a = b <=> k = k0)
    BY BitPosition
  <2>2. PayloadBit(p, k) = BitOf(p[j], Weights[a]) /\ PayloadBit(q, k) = BitOf(q[j], Weights[a])
    BY Zenon DEF PayloadBit, ByteOf, PlaceOf
  <2> HIDE DEF j, a, k0
  <2>3. p[j] \in Int /\ q[j] \in Int
    BY <2>1, ElementOfSeq
  <2>4. /\ Weights[a] \in ByteWeights /\ Weights[b] \in ByteWeights
        /\ Weights[a] = Weights[b] <=> a = b
    BY <2>1, WeightsAre
  <2>5. PayloadBit(p, k) \in {0, 1} /\ PayloadBit(q, k) \in {0, 1}
    BY <2>2, <2>3, <2>4, BitIsBit DEF WordWeights
  <2>6. CASE j # i
    <3>1. q[j] = p[j]
      BY <2>1, <2>6
    <3>2. QED BY <2>1, <2>2, <2>5, <2>6, <3>1
  <2>7. CASE j = i
    <3>1. q[j] = Flipped(p[j], Weights[b])
      BY <2>1, <2>7
    <3>2. BitOf(q[j], Weights[a]) = BitOf(p[j], Weights[a]) <=> Weights[a] # Weights[b]
      BY <2>3, <2>4, <2>7, <3>1, BitsOfFlipped
    <3>3. QED BY <2>1, <2>2, <2>4, <2>5, <2>7, <3>2
  <2>8. QED BY <2>5, <2>6, <2>7
<1> HIDE DEF k0
<1>3. QED
  <2>1. IsXor(Columns[k0], modbus_crc16(p), modbus_crc16(q))
    BY <1>1, <1>2, OneBitXor
  <2>2. QED BY <2>1 DEF k0

-----------------------------------------------------------------------------
(* The frame on the line                                                   *)

\* Nine numbers, the low byte of the checksum a byte.
IsFrame(f) == f \in Seq(Int) /\ Len(f) = 9 /\ f[8] \in Nat /\ f[8] <= 255

FlipAt(f, i, b) == [f EXCEPT ![i] = Flipped(@, Weights[b])]

Sent(f) == BigEndian(f[9], f[8])
Computed(f) == modbus_crc16(SubSeq(f, 1, 7))

\* Whether the checksum a frame carries and the one of its payload differ in a bit.
Gap(f, w) == IF BitOf(Sent(f), w) = BitOf(Computed(f), w) THEN 0 ELSE 1

\* The elements of a frame of which a bit flips.
LEMMA FlipAtIs ==
  ASSUME NEW f, IsFrame(f), NEW i \in 1..9, NEW b \in 1..8
  PROVE  /\ IsFrame(FlipAt(f, i, b))
         /\ \A j \in 1..9 : /\ f[j] \in Int /\ FlipAt(f, i, b)[j] \in Int
                            /\ FlipAt(f, i, b)[j] = IF j = i THEN Flipped(f[i], Weights[b]) ELSE f[j]
<1> DEFINE x == Flipped(f[i], Weights[b])
           g == FlipAt(f, i, b)
<1>1. /\ f \in Seq(Int) /\ Len(f) = 9 /\ f[8] \in Nat /\ f[8] <= 255
      /\ \A j \in 1..9 : f[j] \in Int
  <2>1. f \in Seq(Int) /\ Len(f) = 9 /\ f[8] \in Nat /\ f[8] <= 255
    BY DEF IsFrame
  <2>2. QED BY <2>1, ElementOfSeq
<1>2. Weights[b] \in ByteWeights
  BY WeightsAre
<1>3. x \in Int /\ i \in 1..Len(f)
  BY <1>1, <1>2, FlippedBack
<1>4. i = 8 => x \in Nat /\ x <= 255
  BY <1>1, <1>2, FlippedByte
<1>5. g = [f EXCEPT ![i] = x]
  BY DEF FlipAt
<1> HIDE DEF x, g
<1>6. g \in Seq(Int) /\ Len(g) = Len(f) /\ \A j \in 1..Len(f) : g[j] = IF j = i THEN x ELSE f[j]
  <2>1. f \in Seq(Int)
    BY <1>1
  <2> DEFINE e == [f EXCEPT ![i] = x]
  <2>2. e \in Seq(Int)
    BY <1>3, <2>1, ExceptSeq
  <2>3. Len(e) = Len(f) /\ \A j \in 1..Len(f) : e[j] = IF j = i THEN x ELSE f[j]
    BY <1>3, <2>1, ExceptSeq
  <2> HIDE DEF e
  <2>4. QED BY <1>5, <2>2, <2>3 DEF e
<1>7. \A j \in 1..9 : g[j] = IF j = i THEN x ELSE f[j]
  BY <1>1, <1>6
<1>8. \A j \in 1..9 : g[j] \in Int
  BY <1>1, <1>3, <1>7
<1>9. g[8] \in Nat /\ g[8] <= 255
  BY <1>1, <1>4, <1>7
<1>10. IsFrame(g)
  BY <1>1, <1>6, <1>9 DEF IsFrame
<1>11. QED BY <1>1, <1>7, <1>8, <1>10 DEF x, g

\* The payload of a frame.
LEMMA PayloadOf ==
  ASSUME NEW f, IsFrame(f)
  PROVE  /\ SubSeq(f, 1, 7) \in Seq(Int) /\ Len(SubSeq(f, 1, 7)) = 7
         /\ \A j \in 1..7 : SubSeq(f, 1, 7)[j] = f[j]
<1>1. f \in Seq(Int) /\ Len(f) = 9
  BY DEF IsFrame
<1>2. \A j \in 1..9 : f[j] \in Int
  BY <1>1, ElementOfSeq
<1>3. \A j \in 1..7 : f[j] \in Int
  BY <1>2
<1>4. QED BY <1>3, SubSeqProperties

\* Both checksums of a frame are numbers, so their bits are bits.
LEMMA ChecksumBits ==
  ASSUME NEW f, IsFrame(f), NEW w \in WordWeights
  PROVE  BitOf(Sent(f), w) \in {0, 1} /\ BitOf(Computed(f), w) \in {0, 1}
<1>1. f[9] \in Int /\ f[8] \in Int
  <2>1. f \in Seq(Int) /\ Len(f) = 9
    BY DEF IsFrame
  <2>2. \A j \in 1..9 : f[j] \in Int
    BY <2>1, ElementOfSeq
  <2>3. QED BY <2>2
<1>2. Sent(f) \in Int
  BY <1>1, SMT DEF Sent, BigEndian
<1>3. Computed(f) \in Int
  <2>1. Len(SubSeq(f, 1, 7)) \in Nat
    BY PayloadOf
  <2>2. QED BY <2>1, CrcIsWord DEF Computed, Words
<1>4. QED BY <1>2, <1>3, BitIsBit

\* The columns of the checksum's own bits.
LEMMA OwnColumns ==
  \A b \in 1..8 : Columns[56 + b] = Weights[b] /\ Columns[64 + b] = 256 * Weights[b]
BY SMTT(30) DEF Columns, Weights

\* The bits of a weight: that one and no other.
LEMMA BitsOfWeight ==
  ASSUME NEW v \in ByteWeights
  PROVE  /\ \A w \in WordWeights : BitOf(v, w) = 1 <=> v = w
         /\ \A w \in WordWeights : BitOf(256 * v, w) = 1 <=> 256 * v = w
<1>1. \A w \in WordWeights : BitOf(v, w) = 1 <=> v = w
  BY WordWeightsAre, SMTT(60) DEF BitOf, ByteWeights
<1>2. \A w \in WordWeights : BitOf(256 * v, w) = 1 <=> 256 * v = w
  BY WordWeightsAre, SMTT(60) DEF BitOf, ByteWeights
<1>3. QED BY <1>1, <1>2

\* A flipped bit changes the gap by its column, wherever in the frame it is.
LEMMA FlipShows ==
  ASSUME NEW f, IsFrame(f), NEW i \in 1..9, NEW b \in 1..8
  PROVE  \A w \in WordWeights :
           BitOf(Columns[8 * (i - 1) + b], w) = 1 <=> Gap(f, w) # Gap(FlipAt(f, i, b), w)
<1> DEFINE g == FlipAt(f, i, b)
           k == 8 * (i - 1) + b
<1>1. IsFrame(g) /\ \A j \in 1..9 : /\ f[j] \in Int /\ g[j] \in Int
                                    /\ g[j] = IF j = i THEN Flipped(f[i], Weights[b]) ELSE f[j]
  BY FlipAtIs
<1> HIDE DEF g
<1>2. Weights[b] \in ByteWeights
  BY WeightsAre
<1> DEFINE p == SubSeq(f, 1, 7)
           q == SubSeq(g, 1, 7)
<1>3. /\ p \in Seq(Int) /\ Len(p) = 7 /\ \A j \in 1..7 : p[j] = f[j]
      /\ q \in Seq(Int) /\ Len(q) = 7 /\ \A j \in 1..7 : q[j] = g[j]
  BY <1>1, PayloadOf
<1>4. Computed(f) = modbus_crc16(p) /\ Computed(g) = modbus_crc16(q)
  BY DEF Computed
<1> HIDE DEF p, q
<1>5. ASSUME NEW w \in WordWeights
      PROVE  /\ BitOf(Sent(f), w) \in {0, 1} /\ BitOf(Computed(f), w) \in {0, 1}
             /\ BitOf(Sent(g), w) \in {0, 1} /\ BitOf(Computed(g), w) \in {0, 1}
  BY <1>1, ChecksumBits
<1>6. CASE i \in 1..7
  <2>1. \A j \in 1..7 : q[j] = IF j = i THEN Flipped(p[i], Weights[b]) ELSE p[j]
    <3>1. p[i] = f[i]
      BY <1>3, <1>6
    <3>2. ASSUME NEW j \in 1..7 PROVE q[j] = IF j = i THEN Flipped(p[i], Weights[b]) ELSE p[j]
      <4>1. q[j] = g[j] /\ p[j] = f[j]
        BY <1>3, Zenon
      <4>2. j \in 1..9
        OBVIOUS
      <4>3. QED BY <1>1, <3>1, <4>1, <4>2
    <3>3. QED BY <3>2
  <2>2. IsXor(Columns[k], Computed(f), Computed(g))
    BY <1>3, <1>4, <1>6, <2>1, PayloadFlipShows
  <2>3. Sent(f) = Sent(g)
    BY <1>1, <1>6 DEF Sent
  <2>4. ASSUME NEW w \in WordWeights PROVE BitOf(Columns[k], w) = 1 <=> Gap(f, w) # Gap(g, w)
    <3>1. BitOf(Columns[k], w) = 1 <=> BitOf(Computed(f), w) # BitOf(Computed(g), w)
      BY <2>2 DEF IsXor
    <3>2. QED BY <1>5, <2>3, <3>1 DEF Gap
  <2>5. QED BY <2>4 DEF g
<1>7. CASE i \in {8, 9}
  <2>1. Computed(f) = Computed(g)
    <3>1. ASSUME NEW j \in 1..7 PROVE p[j] = q[j]
      <4>1. j \in 1..9 /\ j # i
        BY <1>7
      <4>2. QED BY <1>1, <1>3, <4>1
    <3>2. p = q
      BY <1>3, <3>1, SeqEqual
    <3>3. QED BY <1>4, <3>2
  <2>2. /\ f[8] \in Nat /\ f[8] <= 255 /\ g[8] \in Nat /\ g[8] <= 255
        /\ f[9] \in Int /\ g[9] \in Int
    BY <1>1 DEF IsFrame
  <2>3. ASSUME NEW u \in ByteWeights
        PROVE  /\ BitOf(Sent(f), u) = BitOf(f[8], u) /\ BitOf(Sent(f), 256 * u) = BitOf(f[9], u)
               /\ BitOf(Sent(g), u) = BitOf(g[8], u) /\ BitOf(Sent(g), 256 * u) = BitOf(g[9], u)
    BY <2>2, BitsOfBytes DEF Sent
  <2>4. ASSUME NEW w \in WordWeights
        PROVE  BitOf(Columns[k], w) = 1 <=> BitOf(Sent(f), w) # BitOf(Sent(g), w)
    <3>1. PICK u \in ByteWeights : w = u \/ w = 256 * u
      BY DEF WordWeights
    <3>2. Weights[b] # 256 * u /\ 256 * Weights[b] # u /\ (256 * Weights[b] = 256 * u <=> Weights[b] = u)
      BY <1>2, ByteWeightsApart
    <3>3. CASE i = 8
      <4>1. k = 56 + b /\ Columns[k] = Weights[b]
        BY <3>3, OwnColumns
      <4>2. BitOf(Columns[k], w) = 1 <=> Weights[b] = w
        BY <1>2, <4>1, BitsOfWeight
      <4>3. g[9] = f[9] /\ g[8] = Flipped(f[8], Weights[b])
        BY <1>1, <3>3
      <4>4. BitOf(g[8], u) = BitOf(f[8], u) <=> u # Weights[b]
        BY <1>2, <2>2, <4>3, BitsOfFlipped
      <4>5. QED BY <2>3, <3>1, <3>2, <4>2, <4>3, <4>4
    <3>4. CASE i = 9
      <4>1. k = 64 + b /\ Columns[k] = 256 * Weights[b]
        BY <3>4, OwnColumns
      <4>2. BitOf(Columns[k], w) = 1 <=> 256 * Weights[b] = w
        BY <1>2, <4>1, BitsOfWeight
      <4>3. g[8] = f[8] /\ g[9] = Flipped(f[9], Weights[b])
        BY <1>1, <3>4
      <4>4. BitOf(g[9], u) = BitOf(f[9], u) <=> u # Weights[b]
        BY <1>2, <2>2, <4>3, BitsOfFlipped
      <4>5. QED BY <2>3, <3>1, <3>2, <4>2, <4>3, <4>4
    <3>5. QED BY <1>7, <3>3, <3>4
  <2>5. ASSUME NEW w \in WordWeights PROVE BitOf(Columns[k], w) = 1 <=> Gap(f, w) # Gap(g, w)
    BY <1>5, <2>1, <2>4 DEF Gap
  <2>6. QED BY <2>5 DEF g
<1>8. QED BY <1>6, <1>7

\* Four bits, each where two others differ: the number of bits is even.
LEMMA EvenFour ==
  ASSUME NEW a \in {0, 1}, NEW b \in {0, 1}, NEW c \in {0, 1}, NEW d \in {0, 1},
         NEW i \in {0, 1}, NEW j \in {0, 1}, NEW k \in {0, 1}, NEW l \in {0, 1},
         NEW p \in {0, 1}, NEW q \in {0, 1}, NEW r \in {0, 1}, NEW s \in {0, 1},
         a = 1 <=> i # p, b = 1 <=> j # q, c = 1 <=> k # r, d = 1 <=> l # s
  PROVE  ((a + b + c + d) + (i + j + k + l) + (p + q + r + s)) % 2 = 0
<1>1. a + i + p = 0 \/ a + i + p = 2
  OBVIOUS
<1>2. b + j + q = 0 \/ b + j + q = 2
  OBVIOUS
<1>3. c + k + r = 0 \/ c + k + r = 2
  OBVIOUS
<1>4. d + l + s = 0 \/ d + l + s = 2
  OBVIOUS
<1>5. QED BY <1>1, <1>2, <1>3, <1>4, SMT

\* An odd number of bits differs between the checksum carried and the one computed.
OddGap(f) ==
  (  Gap(f, 1) + Gap(f, 2) + Gap(f, 4) + Gap(f, 8)
   + Gap(f, 16) + Gap(f, 32) + Gap(f, 64) + Gap(f, 128)
   + Gap(f, 256) + Gap(f, 512) + Gap(f, 1024) + Gap(f, 2048)
   + Gap(f, 4096) + Gap(f, 8192) + Gap(f, 16384) + Gap(f, 32768)) % 2 = 1

\* With every bit that flips, the number of bits that differ turns from even to odd
\* or from odd to even.
LEMMA FlipTurns ==
  ASSUME NEW f, IsFrame(f), NEW i \in 1..9, NEW b \in 1..8
  PROVE  OddGap(FlipAt(f, i, b)) <=> ~OddGap(f)
<1> DEFINE C(w) == BitOf(Columns[8 * (i - 1) + b], w)
           X(w) == Gap(f, w)
           Y(w) == Gap(FlipAt(f, i, b), w)
<1>1. Columns[8 * (i - 1) + b] \in Words /\ OddBits(Columns[8 * (i - 1) + b])
  <2>1. 8 * (i - 1) + b \in 1..72
    OBVIOUS
  <2>2. QED BY <2>1, ColumnsAre, ColumnsOdd
<1>2. ASSUME NEW w \in WordWeights
      PROVE  C(w) \in {0, 1} /\ X(w) \in {0, 1} /\ Y(w) \in {0, 1} /\ (C(w) = 1 <=> X(w) # Y(w))
  <2>1. C(w) \in {0, 1}
    BY <1>1, BitIsBit DEF Words
  <2>2. X(w) \in {0, 1} /\ Y(w) \in {0, 1}
    BY DEF Gap
  <2>3. QED BY <2>1, <2>2, FlipShows
<1> DEFINE c1 == C(1) + C(2) + C(4) + C(8)
           x1 == X(1) + X(2) + X(4) + X(8)
           y1 == Y(1) + Y(2) + Y(4) + Y(8)
<1>3. /\ C(1) \in Int /\ X(1) \in Int /\ Y(1) \in Int
      /\ C(2) \in Int /\ X(2) \in Int /\ Y(2) \in Int
      /\ C(4) \in Int /\ X(4) \in Int /\ Y(4) \in Int
      /\ C(8) \in Int /\ X(8) \in Int /\ Y(8) \in Int
      /\ (c1 + x1 + y1) % 2 = 0
  <2>1. 1 \in WordWeights /\ 2 \in WordWeights /\ 4 \in WordWeights /\ 8 \in WordWeights
    BY WordWeightsAre DEF ByteWeights
  <2> HIDE DEF C, X, Y
  <2>2. C(1) \in {0, 1} /\ X(1) \in {0, 1} /\ Y(1) \in {0, 1} /\ (C(1) = 1 <=> X(1) # Y(1))
    BY <1>2, <2>1
  <2>3. C(2) \in {0, 1} /\ X(2) \in {0, 1} /\ Y(2) \in {0, 1} /\ (C(2) = 1 <=> X(2) # Y(2))
    BY <1>2, <2>1
  <2>4. C(4) \in {0, 1} /\ X(4) \in {0, 1} /\ Y(4) \in {0, 1} /\ (C(4) = 1 <=> X(4) # Y(4))
    BY <1>2, <2>1
  <2>5. C(8) \in {0, 1} /\ X(8) \in {0, 1} /\ Y(8) \in {0, 1} /\ (C(8) = 1 <=> X(8) # Y(8))
    BY <1>2, <2>1
  <2>6. (c1 + x1 + y1) % 2 = 0
    BY <2>2, <2>3, <2>4, <2>5, EvenFour
  <2> HIDE DEF c1, x1, y1
  <2>7. QED BY <2>2, <2>3, <2>4, <2>5, <2>6, SMT
<1> DEFINE c2 == C(16) + C(32) + C(64) + C(128)
           x2 == X(16) + X(32) + X(64) + X(128)
           y2 == Y(16) + Y(32) + Y(64) + Y(128)
<1>4. /\ C(16) \in Int /\ X(16) \in Int /\ Y(16) \in Int
      /\ C(32) \in Int /\ X(32) \in Int /\ Y(32) \in Int
      /\ C(64) \in Int /\ X(64) \in Int /\ Y(64) \in Int
      /\ C(128) \in Int /\ X(128) \in Int /\ Y(128) \in Int
      /\ (c2 + x2 + y2) % 2 = 0
  <2>1. 16 \in WordWeights /\ 32 \in WordWeights /\ 64 \in WordWeights /\ 128 \in WordWeights
    BY WordWeightsAre DEF ByteWeights
  <2> HIDE DEF C, X, Y
  <2>2. C(16) \in {0, 1} /\ X(16) \in {0, 1} /\ Y(16) \in {0, 1} /\ (C(16) = 1 <=> X(16) # Y(16))
    BY <1>2, <2>1
  <2>3. C(32) \in {0, 1} /\ X(32) \in {0, 1} /\ Y(32) \in {0, 1} /\ (C(32) = 1 <=> X(32) # Y(32))
    BY <1>2, <2>1
  <2>4. C(64) \in {0, 1} /\ X(64) \in {0, 1} /\ Y(64) \in {0, 1} /\ (C(64) = 1 <=> X(64) # Y(64))
    BY <1>2, <2>1
  <2>5. C(128) \in {0, 1} /\ X(128) \in {0, 1} /\ Y(128) \in {0, 1} /\ (C(128) = 1 <=> X(128) # Y(128))
    BY <1>2, <2>1
  <2>6. (c2 + x2 + y2) % 2 = 0
    BY <2>2, <2>3, <2>4, <2>5, EvenFour
  <2> HIDE DEF c2, x2, y2
  <2>7. QED BY <2>2, <2>3, <2>4, <2>5, <2>6, SMT
<1> DEFINE c3 == C(256) + C(512) + C(1024) + C(2048)
           x3 == X(256) + X(512) + X(1024) + X(2048)
           y3 == Y(256) + Y(512) + Y(1024) + Y(2048)
<1>5. /\ C(256) \in Int /\ X(256) \in Int /\ Y(256) \in Int
      /\ C(512) \in Int /\ X(512) \in Int /\ Y(512) \in Int
      /\ C(1024) \in Int /\ X(1024) \in Int /\ Y(1024) \in Int
      /\ C(2048) \in Int /\ X(2048) \in Int /\ Y(2048) \in Int
      /\ (c3 + x3 + y3) % 2 = 0
  <2>1. 256 \in WordWeights /\ 512 \in WordWeights /\ 1024 \in WordWeights /\ 2048 \in WordWeights
    BY WordWeightsAre DEF ByteWeights
  <2> HIDE DEF C, X, Y
  <2>2. C(256) \in {0, 1} /\ X(256) \in {0, 1} /\ Y(256) \in {0, 1} /\ (C(256) = 1 <=> X(256) # Y(256))
    BY <1>2, <2>1
  <2>3. C(512) \in {0, 1} /\ X(512) \in {0, 1} /\ Y(512) \in {0, 1} /\ (C(512) = 1 <=> X(512) # Y(512))
    BY <1>2, <2>1
  <2>4. C(1024) \in {0, 1} /\ X(1024) \in {0, 1} /\ Y(1024) \in {0, 1} /\ (C(1024) = 1 <=> X(1024) # Y(1024))
    BY <1>2, <2>1
  <2>5. C(2048) \in {0, 1} /\ X(2048) \in {0, 1} /\ Y(2048) \in {0, 1} /\ (C(2048) = 1 <=> X(2048) # Y(2048))
    BY <1>2, <2>1
  <2>6. (c3 + x3 + y3) % 2 = 0
    BY <2>2, <2>3, <2>4, <2>5, EvenFour
  <2> HIDE DEF c3, x3, y3
  <2>7. QED BY <2>2, <2>3, <2>4, <2>5, <2>6, SMT
<1> DEFINE c4 == C(4096) + C(8192) + C(16384) + C(32768)
           x4 == X(4096) + X(8192) + X(16384) + X(32768)
           y4 == Y(4096) + Y(8192) + Y(16384) + Y(32768)
<1>6. /\ C(4096) \in Int /\ X(4096) \in Int /\ Y(4096) \in Int
      /\ C(8192) \in Int /\ X(8192) \in Int /\ Y(8192) \in Int
      /\ C(16384) \in Int /\ X(16384) \in Int /\ Y(16384) \in Int
      /\ C(32768) \in Int /\ X(32768) \in Int /\ Y(32768) \in Int
      /\ (c4 + x4 + y4) % 2 = 0
  <2>1. 4096 \in WordWeights /\ 8192 \in WordWeights /\ 16384 \in WordWeights /\ 32768 \in WordWeights
    BY WordWeightsAre DEF ByteWeights
  <2> HIDE DEF C, X, Y
  <2>2. C(4096) \in {0, 1} /\ X(4096) \in {0, 1} /\ Y(4096) \in {0, 1} /\ (C(4096) = 1 <=> X(4096) # Y(4096))
    BY <1>2, <2>1
  <2>3. C(8192) \in {0, 1} /\ X(8192) \in {0, 1} /\ Y(8192) \in {0, 1} /\ (C(8192) = 1 <=> X(8192) # Y(8192))
    BY <1>2, <2>1
  <2>4. C(16384) \in {0, 1} /\ X(16384) \in {0, 1} /\ Y(16384) \in {0, 1} /\ (C(16384) = 1 <=> X(16384) # Y(16384))
    BY <1>2, <2>1
  <2>5. C(32768) \in {0, 1} /\ X(32768) \in {0, 1} /\ Y(32768) \in {0, 1} /\ (C(32768) = 1 <=> X(32768) # Y(32768))
    BY <1>2, <2>1
  <2>6. (c4 + x4 + y4) % 2 = 0
    BY <2>2, <2>3, <2>4, <2>5, EvenFour
  <2> HIDE DEF c4, x4, y4
  <2>7. QED BY <2>2, <2>3, <2>4, <2>5, <2>6, SMT
<1>7. OddBits(Columns[8 * (i - 1) + b]) <=> (c1 + c2 + c3 + c4) % 2 = 1
  <2>1. OddBits(Columns[8 * (i - 1) + b]) <=>
          (  C(1) + C(2) + C(4) + C(8)
           + C(16) + C(32) + C(64) + C(128)
           + C(256) + C(512) + C(1024) + C(2048)
           + C(4096) + C(8192) + C(16384) + C(32768)) % 2 = 1
    BY DEF OddBits
  <2> HIDE DEF C, X, Y
  <2>2. QED BY <1>3, <1>4, <1>5, <1>6, <2>1, SMT
<1>8. OddGap(f) <=> (x1 + x2 + x3 + x4) % 2 = 1
  <2>1. OddGap(f) <=>
          (  X(1) + X(2) + X(4) + X(8)
           + X(16) + X(32) + X(64) + X(128)
           + X(256) + X(512) + X(1024) + X(2048)
           + X(4096) + X(8192) + X(16384) + X(32768)) % 2 = 1
    BY DEF OddGap
  <2> HIDE DEF C, X, Y
  <2>2. QED BY <1>3, <1>4, <1>5, <1>6, <2>1, SMT
<1>9. OddGap(FlipAt(f, i, b)) <=> (y1 + y2 + y3 + y4) % 2 = 1
  <2>1. OddGap(FlipAt(f, i, b)) <=>
          (  Y(1) + Y(2) + Y(4) + Y(8)
           + Y(16) + Y(32) + Y(64) + Y(128)
           + Y(256) + Y(512) + Y(1024) + Y(2048)
           + Y(4096) + Y(8192) + Y(16384) + Y(32768)) % 2 = 1
    BY DEF OddGap
  <2> HIDE DEF C, X, Y
  <2>2. QED BY <1>3, <1>4, <1>5, <1>6, <2>1, SMT
<1> HIDE DEF C, X, Y
<1>10. /\ c1 \in Int /\ c2 \in Int /\ c3 \in Int /\ c4 \in Int
      /\ x1 \in Int /\ x2 \in Int /\ x3 \in Int /\ x4 \in Int
      /\ y1 \in Int /\ y2 \in Int /\ y3 \in Int /\ y4 \in Int
      /\ (c1 + x1 + y1) % 2 = 0 /\ (c2 + x2 + y2) % 2 = 0
      /\ (c3 + x3 + y3) % 2 = 0 /\ (c4 + x4 + y4) % 2 = 0
  BY <1>3, <1>4, <1>5, <1>6, SMT
<1> HIDE DEF c1, c2, c3, c4, x1, x2, x3, x4, y1, y2, y3, y4
<1>11. (c1 + c2 + c3 + c4) % 2 = 1 => ((y1 + y2 + y3 + y4) % 2 = 1 <=> ~((x1 + x2 + x3 + x4) % 2 = 1))
  BY <1>10, SMT
<1>12. QED BY <1>1, <1>7, <1>8, <1>9, <1>11

\* The checksum a frame carries is that of its payload.
Agree(f) == Sent(f) = Computed(f)

\* Then they have no bit in which they differ.
LEMMA NoGap ==
  ASSUME NEW f, Agree(f)
  PROVE  ~OddGap(f) /\ \A w \in WordWeights : Gap(f, w) = 0
<1>1. \A w : Gap(f, w) = 0
  BY DEF Gap, Agree
<1>2. /\ Gap(f, 1) = 0 /\ Gap(f, 2) = 0 /\ Gap(f, 4) = 0 /\ Gap(f, 8) = 0
      /\ Gap(f, 16) = 0 /\ Gap(f, 32) = 0 /\ Gap(f, 64) = 0 /\ Gap(f, 128) = 0
      /\ Gap(f, 256) = 0 /\ Gap(f, 512) = 0 /\ Gap(f, 1024) = 0 /\ Gap(f, 2048) = 0
      /\ Gap(f, 4096) = 0 /\ Gap(f, 8192) = 0 /\ Gap(f, 16384) = 0 /\ Gap(f, 32768) = 0
  BY <1>1
<1>3. QED BY <1>1, <1>2, SMT DEF OddGap

\* The bytes of a frame, and the bits of a byte.
Places == 1..9
Bits == 1..8

\* Two flips after which the checksums of a frame agree again are of the same bit.
LEMMA TwoFlips ==
  ASSUME NEW f, IsFrame(f), Agree(f),
         NEW i \in Places, NEW b \in Bits, NEW j \in Places, NEW c \in Bits
  PROVE  Agree(FlipAt(FlipAt(f, i, b), j, c)) => FlipAt(FlipAt(f, i, b), j, c) = f
<1> DEFINE g == FlipAt(f, i, b)
           h == FlipAt(g, j, c)
           k == 8 * (i - 1) + b
           m == 8 * (j - 1) + c
<1> SUFFICES ASSUME Agree(h) PROVE h = f
  OBVIOUS
<1>1. i \in 1..9 /\ b \in 1..8 /\ j \in 1..9 /\ c \in 1..8
  BY DEF Places, Bits
<1>2. IsFrame(g) /\ \A l \in 1..9 : /\ f[l] \in Int /\ g[l] \in Int
                                    /\ g[l] = IF l = i THEN Flipped(f[i], Weights[b]) ELSE f[l]
  BY <1>1, FlipAtIs
<1>3. IsFrame(h) /\ \A l \in 1..9 : h[l] = IF l = j THEN Flipped(g[j], Weights[c]) ELSE g[l]
  BY <1>1, <1>2, FlipAtIs
<1>4. \A w \in WordWeights : BitOf(Columns[k], w) = 1 <=> Gap(f, w) # Gap(g, w)
  BY <1>1, FlipShows
<1>5. \A w \in WordWeights : BitOf(Columns[m], w) = 1 <=> Gap(g, w) # Gap(h, w)
  BY <1>1, <1>2, FlipShows
<1>6. \A w \in WordWeights : Gap(f, w) = 0 /\ Gap(h, w) = 0
  BY NoGap
<1>7. k \in 1..72 /\ m \in 1..72 /\ (k = m => i = j /\ b = c)
  BY <1>1
<1> HIDE DEF g, h, k, m
<1>8. Columns[k] \in Words /\ Columns[m] \in Words
  BY <1>7, ColumnsAre
<1>9. ASSUME NEW w \in WordWeights PROVE BitOf(Columns[k], w) = BitOf(Columns[m], w)
  <2>1. BitOf(Columns[k], w) \in {0, 1} /\ BitOf(Columns[m], w) \in {0, 1}
    BY <1>8, BitIsBit DEF Words
  <2>2. BitOf(Columns[k], w) = 1 <=> BitOf(Columns[m], w) = 1
    BY <1>4, <1>5, <1>6
  <2>3. QED BY <2>1, <2>2
<1>10. Columns[k] = Columns[m]
  BY <1>8, <1>9, SameBits
<1>11. i = j /\ b = c
  BY <1>7, <1>10, ColumnsDiffer
<1>12. \A l \in 1..9 : h[l] = f[l]
  <2>1. Weights[b] \in ByteWeights
    BY <1>1, WeightsAre
  <2>2. Flipped(Flipped(f[i], Weights[b]), Weights[b]) = f[i]
    BY <1>1, <1>2, <2>1, FlippedBack
  <2>3. g[i] = Flipped(f[i], Weights[b])
    BY <1>1, <1>2
  <2>4. ASSUME NEW l \in 1..9 PROVE h[l] = f[l]
    <3>1. CASE l = i
      BY <1>3, <1>11, <2>2, <2>3, <3>1
    <3>2. CASE l # i
      BY <1>2, <1>3, <1>11, <3>2
    <3>3. QED BY <3>1, <3>2
  <2>5. QED BY <2>4
<1>13. QED BY <1>3, <1>12, SeqEqual DEF IsFrame

\* The answer of the sensor is a frame whose checksums agree.
LEMMA AnswerIsFrame ==
  ASSUME NEW r, r[1] \in Int, r[2] \in Int
  PROVE  IsFrame(WithCrc(Payload(r))) /\ Agree(WithCrc(Payload(r)))
<1> DEFINE p == Payload(r)
           f == WithCrc(p)
<1>1. f \in Seq(Int) /\ Len(f) = 9 /\ BigEndian(f[9], f[8]) = modbus_crc16(SubSeq(f, 1, 7))
  BY AnswerBytes
<1>2. p \in Seq(Int) /\ Len(p) = 7
  BY PayloadIs
<1> HIDE DEF p
<1>3. f[8] = CrcLow(p)
  <2>1. f[Len(p) + 1] = CrcLow(p)
    BY <1>2, WithCrcIs, Zenon
  <2>2. QED BY <1>2, <2>1
<1>4. CrcLow(p) \in Nat /\ CrcLow(p) <= 255
  <2>1. modbus_crc16(p) \in Nat
    BY <1>2, CrcIsWord DEF Words
  <2>2. QED BY <2>1, SMT DEF CrcLow
<1> HIDE DEF f
<1>5. QED BY <1>1, <1>3, <1>4 DEF IsFrame, Agree, Sent, Computed, f, p

\* A frame whose checksums do not agree is refused, and so is one of another length.
LEMMA GapRefused ==
  ASSUME NEW f, ~Agree(f) \/ Len(f) # 9
  PROVE  decode_temp_humidity_response(f) = Refused
BY DEF decode_temp_humidity_response, Agree, Sent, Computed

FrameInv ==
  /\ raw \in Raw /\ written = WithCrc(Payload(raw))
  /\ shown = decode_temp_humidity_response(frame)

\* What the gateway shows is what it decodes from what arrived.
LEMMA FrameInductive == FrameSpec => []FrameInv
<1>1. FrameInit => FrameInv
  BY AnswerIs DEF FrameInit, FrameInv
<1>2. FrameInv /\ [FrameNext]_frameVars => FrameInv'
  BY DEF FrameInv, FrameNext, Flip, CutFrame, frameVars
<1>3. QED BY <1>1, <1>2, PTL DEF FrameSpec

\* For any registers: a frame that arrives as it was written shows what the sensor
\* measured, below zero too, or is refused for its range.
THEOREM ReadingHolds == FrameSpec => []ReadingArrives
<1>1. FrameInv => ReadingArrives
  BY AnswerDecodes, FrameAssumption DEF FrameInv, ReadingArrives, Intact
<1>2. QED BY <1>1, FrameInductive, PTL

\* How far a frame is from what was written: with every flip the number of bits in
\* which its checksums differ turns from even to odd or back, and up to two flips
\* are told one by one.
LineInv ==
  /\ flips \in Nat
  /\ cut => flips = 0 /\ Len(frame) # 9
  /\ ~cut => IsFrame(frame) /\ (OddGap(frame) <=> flips % 2 = 1)
  /\ ~cut /\ flips = 0 => frame = written
  /\ flips = 1 => \E i \in 1..9, b \in 1..8 : frame = FlipAt(written, i, b)
  /\ flips = 2 => \E i \in 1..9, b \in 1..8, j \in 1..9, c \in 1..8 :
                    frame = FlipAt(FlipAt(written, i, b), j, c)

\* What the line does to a frame.
LEMMA LineInductive == FrameSpec => []LineInv
<1>1. FrameInv => IsFrame(written) /\ Agree(written)
  <2> SUFFICES ASSUME FrameInv PROVE IsFrame(written) /\ Agree(written)
    OBVIOUS
  <2>1. raw[1] \in Int /\ raw[2] \in Int
    BY FrameAssumption DEF FrameInv
  <2>2. QED BY <2>1, AnswerIsFrame DEF FrameInv
<1>2. FrameInit /\ FrameInv => LineInv
  <2> SUFFICES ASSUME FrameInit, FrameInv PROVE LineInv
    OBVIOUS
  <2>1. frame = written /\ flips = 0 /\ ~cut
    BY DEF FrameInit
  <2>2. IsFrame(frame) /\ ~OddGap(frame)
    BY <1>1, <2>1, NoGap
  <2>3. QED BY <2>1, <2>2 DEF LineInv
<1>3. FrameInv /\ LineInv /\ [FrameNext]_frameVars => LineInv'
  <2> SUFFICES ASSUME FrameInv, LineInv, [FrameNext]_frameVars PROVE LineInv'
    OBVIOUS
  <2>1. CASE Flip
    <3>1. PICK i \in 1..Len(frame), b \in 1..8 : frame' = FlipAt(frame, i, b)
      BY <2>1 DEF Flip, FlipAt
    <3>2. ~cut /\ ~cut' /\ flips' = flips + 1 /\ written' = written /\ flips \in Nat
      BY <2>1 DEF Flip, LineInv
    <3>3. IsFrame(frame) /\ (OddGap(frame) <=> flips % 2 = 1) /\ i \in 1..9
      BY <3>2 DEF LineInv, IsFrame
    <3>4. IsFrame(frame') /\ (OddGap(frame') <=> ~OddGap(frame))
      BY <3>1, <3>3, FlipAtIs, FlipTurns
    <3>5. flips' \in Nat /\ flips' # 0 /\ (flips' % 2 = 1 <=> ~(flips % 2 = 1))
      BY <3>2
    <3>6. flips' = 1 => \E j \in 1..9, c \in 1..8 : frame' = FlipAt(written', j, c)
      <4> SUFFICES ASSUME flips' = 1 PROVE \E j \in 1..9, c \in 1..8 : frame' = FlipAt(written', j, c)
        OBVIOUS
      <4>1. flips = 0
        BY <3>2
      <4>2. frame' = FlipAt(written', i, b)
        BY <3>1, <3>2, <4>1 DEF LineInv
      <4>3. QED BY <3>3, <4>2, Zenon
    <3>7. flips' = 2 => \E j \in 1..9, c \in 1..8, k \in 1..9, d \in 1..8 :
                          frame' = FlipAt(FlipAt(written', j, c), k, d)
      <4> SUFFICES ASSUME flips' = 2
                   PROVE \E j \in 1..9, c \in 1..8, k \in 1..9, d \in 1..8 :
                           frame' = FlipAt(FlipAt(written', j, c), k, d)
        OBVIOUS
      <4>1. flips = 1
        BY <3>2
      <4>2. PICK j \in 1..9, c \in 1..8 : frame = FlipAt(written, j, c)
        BY <4>1 DEF LineInv
      <4>3. frame' = FlipAt(FlipAt(written', j, c), i, b)
        BY <3>1, <3>2, <4>2
      <4>4. QED BY <3>3, <4>3, Zenon
    <3>8. QED BY <3>2, <3>3, <3>4, <3>5, <3>6, <3>7 DEF LineInv
  <2>2. CASE CutFrame
    <3>1. PICK n \in 0..8 : frame' = SubSeq(frame, 1, n)
      BY <2>2 DEF CutFrame
    <3>2. ~cut /\ flips = 0 /\ flips' = 0 /\ cut'
      BY <2>2 DEF CutFrame
    <3>3. frame \in Seq(Int) /\ Len(frame) = 9
      BY <3>2 DEF LineInv, IsFrame
    <3>4. Len(frame') = n
      <4>1. \A k \in 1..9 : frame[k] \in Int
        BY <3>3, ElementOfSeq
      <4>2. \A k \in 1..n : frame[k] \in Int
        BY <4>1
      <4>3. QED BY <3>1, <4>2, SubSeqProperties
    <3>5. QED BY <3>2, <3>4 DEF LineInv
  <2>3. CASE UNCHANGED frameVars
    BY <2>3 DEF LineInv, frameVars
  <2>4. QED BY <2>1, <2>2, <2>3 DEF FrameNext
<1>4. QED BY <1>2, <1>3, FrameInductive, PTL DEF FrameSpec

\* For any registers and any number of flips: a frame of which an odd number of bits
\* has flipped is refused, wherever they are.
THEOREM OddFlipsHold == FrameSpec => [](flips % 2 = 1 => shown = Refused)
<1>1. FrameInv /\ LineInv => (flips % 2 = 1 => shown = Refused)
  <2> SUFFICES ASSUME FrameInv, LineInv, flips % 2 = 1 PROVE shown = Refused
    OBVIOUS
  <2>1. ~cut
    BY DEF LineInv
  <2>2. OddGap(frame)
    BY <2>1 DEF LineInv
  <2>3. ~Agree(frame)
    BY <2>2, NoGap
  <2>4. QED BY <2>3, GapRefused DEF FrameInv
<1>2. QED BY <1>1, FrameInductive, LineInductive, PTL

\* For any registers: a frame that is cut short, or of which up to three bits have
\* flipped, in the registers or in the checksum, is never shown as a reading.
THEOREM ThreeFlipsHold == FrameSpec => [](flips <= 3 => CorruptionRefused)
<1>1. FrameInv /\ LineInv => (flips <= 3 => CorruptionRefused)
  <2> SUFFICES ASSUME FrameInv, LineInv, flips <= 3, frame # written PROVE shown = Refused
    BY DEF CorruptionRefused, Intact
  <2>1. shown = decode_temp_humidity_response(frame)
    BY DEF FrameInv
  <2>2. CASE cut
    BY <2>1, <2>2, GapRefused DEF LineInv
  <2>3. CASE ~cut /\ flips % 2 = 1
    <3>1. ~Agree(frame)
      BY <2>3, NoGap DEF LineInv
    <3>2. QED BY <2>1, <3>1, GapRefused
  <2>4. CASE ~cut /\ flips % 2 # 1
    <3>1. flips = 2
      BY <2>4 DEF LineInv
    <3>2. PICK i \in 1..9, b \in 1..8, j \in 1..9, c \in 1..8 :
                 frame = FlipAt(FlipAt(written, i, b), j, c)
      BY <3>1 DEF LineInv
    <3>3. IsFrame(written) /\ Agree(written)
      <4>1. raw[1] \in Int /\ raw[2] \in Int
        BY FrameAssumption DEF FrameInv
      <4>2. QED BY <4>1, AnswerIsFrame DEF FrameInv
    <3> DEFINE h == FlipAt(FlipAt(written, i, b), j, c)
    <3>4. i \in Places /\ b \in Bits /\ j \in Places /\ c \in Bits
      BY DEF Places, Bits
    <3>5. Agree(h) => h = written
      BY <3>3, <3>4, TwoFlips
    <3> HIDE DEF h
    <3>6. frame = h
      BY <3>2 DEF h
    <3>7. ~Agree(frame)
      BY <3>5, <3>6
    <3>8. QED BY <2>1, <3>7, GapRefused
  <2>5. QED BY <2>2, <2>3, <2>4
<1>2. QED BY <1>1, FrameInductive, LineInductive, PTL

\* The line flips no more bits than it may.
LEMMA FlipsBounded == ASSUME MaxFlips \in Nat PROVE FrameSpec => [](flips \in Nat /\ flips <= MaxFlips)
<1>1. FrameInit => flips \in Nat /\ flips <= MaxFlips
  BY DEF FrameInit
<1>2. flips \in Nat /\ flips <= MaxFlips /\ [FrameNext]_frameVars => (flips \in Nat /\ flips <= MaxFlips)'
  BY DEF FrameNext, Flip, CutFrame, frameVars
<1>3. QED BY <1>1, <1>2, PTL DEF FrameSpec

\* For any registers: a line that flips up to three bits of a frame, or cuts it
\* short, has none shown that is not what the sensor wrote. After four
\* the checksums can agree again: the last bit of the payload changes three of them.
THEOREM CorruptionHolds == ASSUME MaxFlips \in 0..3 PROVE FrameSpec => []CorruptionRefused
<1>1. MaxFlips \in Nat /\ MaxFlips <= 3
  OBVIOUS
<1>2. flips \in Nat /\ flips <= MaxFlips => flips <= 3
  BY <1>1
<1>3. FrameSpec => [](flips \in Nat /\ flips <= MaxFlips)
  BY <1>1, FlipsBounded
<1>4. QED BY <1>2, <1>3, ThreeFlipsHold, PTL
=============================================================================
