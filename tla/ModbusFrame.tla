----------------------------- MODULE ModbusFrame -----------------------------
(***************************************************************************)
(* The Modbus frames of the LES11B (serial_sensor.py): what the gateway    *)
(* asks, what the sensor answers, and what decoding makes of an answer     *)
(* that the line has flipped bits of or cut short.                         *)
(***************************************************************************)
EXTENDS Integers, Sequences

CONSTANTS
  Raw,         \* registers: pairs of a temperature and a humidity, times ten
  MaxFlips     \* bits that the line flips

\* Both registers have sixteen bits, the first of them with a sign.
ASSUME FrameAssumption ==
  \A r \in Raw : /\ r \in Int \X Nat
                 /\ -32768 <= r[1] /\ r[1] <= 32767 /\ r[2] <= 65535

VARIABLES
  raw,         \* what the sensor measured
  written,     \* what it answered
  frame,       \* what arrives of that
  shown,       \* what the gateway makes of it
  flips, cut

frameVars == <<raw, written, frame, shown, flips, cut>>

Slave == 1
Refused == <<>>

\* Bits are named by their weight.
Weights == <<1, 2, 4, 8, 16, 32, 64, 128>>
BitOf(n, w) == (n \div w) % 2
Flipped(n, w) == IF BitOf(n, w) = 1 THEN n - w ELSE n + w

\* The bits of a payload in the order they are taken in, lowest first.
PayloadBit(bytes, k) ==
  BitOf(bytes[((k - 1) \div 8) + 1], Weights[((k - 1) % 8) + 1])

\* Shifted to the right with 0xA001, bits 15, 13 and 0.
Shifted(crc, bit) ==
  IF crc % 2 # bit THEN Flipped(Flipped((crc \div 2) + 32768, 8192), 1) ELSE crc \div 2

CrcStart == 65535

\* The register after each bit; that a byte is taken in bit by bit comes to the
\* same as all at once.
Crcs(bytes) ==
  LET crc[k \in 0..8 * Len(bytes)] ==
        IF k = 0 THEN CrcStart ELSE Shifted(crc[k - 1], PayloadBit(bytes, k))
  IN crc

modbus_crc16(bytes) == Crcs(bytes)[8 * Len(bytes)]

\* Low byte first, unlike the registers.
WithCrc(bytes) ==
  LET crc == modbus_crc16(bytes) IN bytes \o <<crc % 256, crc \div 256>>

build_read_request == WithCrc(<<Slave, 3, 0, 0, 0, 2>>)

BigEndian(high, low) == 256 * high + low

\* Mutant: registers without a sign.
Unsigned(word) == word

Signed16(word) == IF word >= 32768 THEN word - 65536 ELSE word

\* The operating range of the SHT40, in tenths.
InRange(temperature, humidity) == temperature \in -400..1250 /\ humidity \in 0..1000

\* Mutant: the checksum is not compared.
NoChecksum(f) ==
  IF Len(f) # 9 \/ f[1] # Slave \/ f[2] # 3 \/ f[3] # 4
  THEN Refused
  ELSE LET temperature == Signed16(BigEndian(f[4], f[5]))
           humidity == BigEndian(f[6], f[7])
       IN IF InRange(temperature, humidity)
          THEN <<temperature, humidity>> ELSE Refused

\* The readings in tenths, or Refused for each way decoding raises.
decode_temp_humidity_response(f) ==
  IF \/ Len(f) # 9
     \/ f[1] # Slave \/ f[2] # 3 \/ f[3] # 4
     \/ BigEndian(f[9], f[8]) # modbus_crc16(SubSeq(f, 1, 7))
  THEN Refused
  ELSE LET temperature == Signed16(BigEndian(f[4], f[5]))
           humidity == BigEndian(f[6], f[7])
       IN IF InRange(temperature, humidity)
          THEN <<temperature, humidity>> ELSE Refused
-----------------------------------------------------------------------------
(* The sensor and the line                                                 *)

Word(n) == LET w == n % 65536 IN <<w \div 256, w % 256>>

\* It answers a request whose CRC is right.
Answer(request, r) ==
  IF request = WithCrc(SubSeq(request, 1, 6)) /\ request[1] = Slave
  THEN WithCrc(<<Slave, 3, 4>> \o Word(r[1]) \o Word(r[2])) ELSE <<>>

FrameInit ==
  /\ raw \in Raw /\ written = Answer(build_read_request, raw)
  /\ frame = written /\ shown = decode_temp_humidity_response(frame)
  /\ flips = 0 /\ cut = FALSE

Flip ==
  /\ flips < MaxFlips /\ ~cut
  /\ \E i \in 1..Len(frame), b \in 1..8 : frame' = [frame EXCEPT ![i] = Flipped(@, Weights[b])]
  /\ shown' = decode_temp_humidity_response(frame')
  /\ flips' = flips + 1
  /\ UNCHANGED <<raw, written, cut>>

\* read(9) times out.
CutFrame ==
  /\ ~cut /\ flips = 0
  /\ \E n \in 0..8 : frame' = SubSeq(frame, 1, n)
  /\ shown' = decode_temp_humidity_response(frame')
  /\ cut' = TRUE
  /\ UNCHANGED <<raw, written, flips>>

FrameNext == Flip \/ CutFrame

FrameSpec == FrameInit /\ [][FrameNext]_frameVars
-----------------------------------------------------------------------------
Intact == frame = written

\* What the sensor measured is what the gateway shows, below zero too, and a
\* reading outside its range is refused (decode_temp_humidity_response).
ReadingArrives ==
  Intact => shown = IF InRange(raw[1], raw[2]) THEN raw ELSE Refused

\* No frame that the line has changed or cut is ever shown as a reading: the
\* checksum is the sensor's, its byte order included.
CorruptionRefused == ~Intact => shown = Refused
=============================================================================
