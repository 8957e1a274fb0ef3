--------------------------- MODULE WsFrameProofs ----------------------------
(***************************************************************************)
(* For bytes of any size that FrameAssumption allows, and every payload:   *)
(* the constructors of WebSocketFrame and its accessors agree, decode()    *)
(* inverts what a client sends in any form of the length, reads bytes that *)
(* were not received exactly if recv() has split the frame, wherever, and  *)
(* enlarges the buffer by the announced length unless that has its top bit *)
(* set.                                                                    *)
(***************************************************************************)
EXTENDS WsFrame, SequenceTheorems, TLAPS

\* Division with remainder.
LEMMA DivMod ==
  ASSUME NEW a \in Nat, NEW b \in Nat, b > 0,
         NEW q \in Int, q = a \div b, NEW r \in Int, r = a % b
  PROVE  q \in Nat /\ r \in 0 .. b - 1 /\ a = q * b + r
<1>1. r \in 0 .. b - 1 /\ a - r = b * q
  OBVIOUS
<1>2. q >= 0
  <2>1. SUFFICES ASSUME q <= -1, q \in Int, r \in 0 .. b - 1, a - r = b * q PROVE FALSE
    BY <1>1
  <2>2. b * q <= -b
    BY <2>1
  <2> QED
    BY <2>1, <2>2
<1> QED
  BY <1>1, <1>2

\* A product is bounded by a product only if a factor is.
LEMMA DivBound ==
  ASSUME NEW q \in Nat, NEW r \in Nat, NEW b \in Nat, b > 0, q * b + r < b * b
  PROVE  q < b
<1>1. SUFFICES ASSUME q >= b PROVE FALSE
  OBVIOUS
<1>2. q * b >= b * b
  BY <1>1
<1> QED
  BY <1>2

\* What is less than the divisor is its own remainder.
LEMMA ModSmall ==
  ASSUME NEW a \in Nat, NEW b \in Nat, a < b
  PROVE  a % b = a
  OBVIOUS

\* The sizes of a byte, of its lower half and of the lengths with a meaning.
LEMMA Bytes ==
  /\ Base \in Nat /\ Base > 31
  /\ Half \in Nat /\ Half > 15 /\ Base = Half + Half
  /\ Len16 \in Nat /\ Len16 < Half /\ Len64 = Len16 + 1 /\ Len64 < Half
BY FrameAssumption DEF FrameAssumption, Half, Len16, Len64, MaxOpcode

\* hton and ntoh are inverse, and hton makes bytes.
LEMMA HtonNtoh ==
  ASSUME NEW v \in 0 .. UINT16_MAX
  PROVE  \E a, b \in Byte : Hton16(v) = <<a, b>> /\ Ntoh16(<<a, b>>) = v
<1> DEFINE q == v \div Base  r == v % Base
<1>1. v \in Nat /\ v < Base * Base
  <2>1. Base * Base \in Nat
    BY Bytes
  <2> QED
    BY <2>1, Bytes DEF UINT16_MAX
<1>2. q \in Nat /\ r \in 0 .. Base - 1 /\ v = q * Base + r
  <2>1. Base > 0
    BY Bytes
  <2> QED
    BY <1>1, <2>1, DivMod, Bytes
<1>3. q < Base
  <2> HIDE DEF q, r
  <2> QED
    BY <1>1, <1>2, DivBound, Bytes
<1>4. q % Base = q
  <2> HIDE DEF q, r
  <2> QED
  BY <1>2, <1>3, ModSmall, Bytes
<1>5. Hton16(v) = <<q, r>>
  BY <1>4 DEF Hton16
<1> HIDE DEF q, r
<1>6. q \in Byte /\ r \in Byte
  BY <1>2, <1>3, Bytes DEF Byte
<1>7. Ntoh16(<<q, r>>) = v
  BY <1>2 DEF Ntoh16
<1> QED
  BY <1>5, <1>6, <1>7
-----------------------------------------------------------------------------
(* What a constructed frame consists of.                                   *)

\* The first byte tells FIN from the opcode.
LEMMA FirstByte ==
  ASSUME NEW fin \in BOOLEAN, NEW opcode \in 0 .. MaxOpcode,
         NEW h, h = (IF fin THEN Half ELSE 0) + opcode
  PROVE  h \in Byte /\ (h >= Half <=> fin)
<1>1. CASE fin
  BY <1>1, Bytes DEF MaxOpcode, Byte
<1>2. CASE ~fin
  BY <1>2, Bytes DEF MaxOpcode, Byte
<1> QED
  BY <1>1, <1>2

\* A payload behind a header.
LEMMA Concat ==
  ASSUME NEW S, NEW hdr \in Seq(S), NEW payload \in Seq(S)
  PROVE  /\ hdr \o payload \in Seq(S)
         /\ Len(hdr \o payload) = Len(hdr) + Len(payload)
         /\ \A i \in 1 .. Len(hdr) : (hdr \o payload)[i] = hdr[i]
         /\ \A i \in 1 .. Len(payload) : (hdr \o payload)[Len(hdr) + i] = payload[i]
  OBVIOUS

\* The header of the short form.
LEMMA ShortHeader ==
  ASSUME NEW S, NEW h \in S, NEW n \in S, NEW hdr, hdr = <<h>> \o <<n>>
  PROVE  hdr \in Seq(S) /\ Len(hdr) = 2 /\ hdr[1] = h /\ hdr[2] = n
<1>1. <<h>> \in Seq(S) /\ <<n>> \in Seq(S)
  OBVIOUS
<1>2. Len(<<h>>) = 1 /\ Len(<<n>>) = 1 /\ <<h>>[1] = h /\ <<n>>[1] = n
  OBVIOUS
<1>3. /\ hdr \in Seq(S) /\ Len(hdr) = 1 + 1
      /\ hdr[1] = h /\ hdr[1 + 1] = n
  BY <1>1, <1>2, Concat
<1> QED
  BY <1>3

\* The header of the 16-bit form.
LEMMA LongHeader ==
  ASSUME NEW S, NEW h \in S, NEW n \in S, NEW a \in S, NEW b \in S,
         NEW hdr, hdr = <<h>> \o (<<n>> \o <<a, b>>)
  PROVE  /\ hdr \in Seq(S) /\ Len(hdr) = 4
         /\ hdr[1] = h /\ hdr[2] = n /\ hdr[3] = a /\ hdr[4] = b
<1> DEFINE tail == <<n>> \o <<a, b>>
<1>1. <<h>> \in Seq(S) /\ <<n>> \in Seq(S) /\ <<a, b>> \in Seq(S)
  OBVIOUS
<1>2. /\ Len(<<h>>) = 1 /\ Len(<<n>>) = 1 /\ Len(<<a, b>>) = 2
      /\ <<h>>[1] = h /\ <<n>>[1] = n /\ <<a, b>>[1] = a /\ <<a, b>>[2] = b
  OBVIOUS
<1>3. /\ tail \in Seq(S) /\ Len(tail) = 1 + 2
      /\ tail[1] = n /\ tail[1 + 1] = a /\ tail[1 + 2] = b
  BY <1>1, <1>2, Concat
<1> HIDE DEF tail
<1>4. /\ hdr \in Seq(S) /\ Len(hdr) = 1 + 3
      /\ hdr[1] = h /\ hdr[1 + 1] = n /\ hdr[1 + 2] = a /\ hdr[1 + 3] = b
  <2>1. hdr = <<h>> \o tail
    BY DEF tail
  <2>2. tail \in Seq(S) /\ Len(tail) = 3 /\ tail[1] = n /\ tail[2] = a /\ tail[3] = b
    BY <1>3
  <2> QED
    BY <1>1, <1>2, <2>1, <2>2, Concat
<1> QED
  BY <1>4

\* The bytes of a frame, in either form of its length.
LEMMA FrameBytes ==
  ASSUME NEW payload \in Seq(Byte), NEW fin \in BOOLEAN, NEW opcode \in 0 .. MaxOpcode,
         Len(payload) <= UINT16_MAX, NEW d, d = Frame(payload, fin, opcode)
  PROVE  /\ d \in Seq(Byte)
         /\ d[1] = (IF fin THEN Half ELSE 0) + opcode
         /\ Len(payload) < Len16 =>
              /\ Len(d) = 2 + Len(payload)
              /\ d[2] = Len(payload)
              /\ \A i \in 1 .. Len(payload) : d[2 + i] = payload[i]
         /\ Len(payload) >= Len16 =>
              /\ Len(d) = 4 + Len(payload)
              /\ d[2] = Len16 /\ Ntoh16(<<d[3], d[4]>>) = Len(payload)
              /\ \A i \in 1 .. Len(payload) : d[4 + i] = payload[i]
<1> DEFINE h == (IF fin THEN Half ELSE 0) + opcode
           n == Len(payload)
<1>1. h \in Byte
  BY FirstByte
<1>2. n \in Nat /\ n \in 0 .. UINT16_MAX
  BY LenProperties
<1>3. d = <<h>> \o LengthField(n) \o payload
  BY DEF Frame
<1> HIDE DEF h, n
<1>4. CASE n < Len16
  <2> DEFINE hdr == <<h>> \o <<n>>
  <2>1. n \in Byte
    BY <1>2, <1>4, Bytes DEF Byte
  <2>2. hdr \in Seq(Byte) /\ Len(hdr) = 2 /\ hdr[1] = h /\ hdr[2] = n
    BY <1>1, <2>1, ShortHeader
  <2>3. d = hdr \o payload
    BY <1>3, <1>4 DEF LengthField
  <2> HIDE DEF hdr
  <2>4. /\ d \in Seq(Byte) /\ Len(d) = 2 + Len(payload) /\ d[1] = h /\ d[2] = n
        /\ \A i \in 1 .. Len(payload) : d[2 + i] = payload[i]
    <3>1. /\ hdr \o payload \in Seq(Byte)
          /\ Len(hdr \o payload) = Len(hdr) + Len(payload)
          /\ \A i \in 1 .. Len(hdr) : (hdr \o payload)[i] = hdr[i]
          /\ \A i \in 1 .. Len(payload) : (hdr \o payload)[Len(hdr) + i] = payload[i]
      BY <2>2, Concat
    <3> QED
      BY <3>1, <2>2, <2>3
  <2>5. d[1] = (IF fin THEN Half ELSE 0) + opcode
    BY <2>4, Zenon DEF h
  <2>6. ~(Len(payload) >= Len16)
    BY <1>2, <1>4, Bytes DEF n
  <2> QED
    BY <2>4, <2>5, <2>6, Zenon DEF n
<1>5. CASE ~(n < Len16)
  <2>1. PICK a \in Byte, b \in Byte : Hton16(n) = <<a, b>> /\ Ntoh16(<<a, b>>) = n
    BY <1>2, HtonNtoh
  <2> DEFINE hdr == <<h>> \o (<<Len16>> \o <<a, b>>)
  <2>2. Len16 \in Byte
    BY Bytes DEF Byte
  <2>3. /\ hdr \in Seq(Byte) /\ Len(hdr) = 4
        /\ hdr[1] = h /\ hdr[2] = Len16 /\ hdr[3] = a /\ hdr[4] = b
    BY <1>1, <2>1, <2>2, LongHeader
  <2>4. d = hdr \o payload
    BY <1>3, <1>5, <2>1 DEF LengthField
  <2> HIDE DEF hdr
  <2>5. /\ d \in Seq(Byte) /\ Len(d) = 4 + Len(payload)
        /\ d[1] = h /\ d[2] = Len16 /\ d[3] = a /\ d[4] = b
        /\ \A i \in 1 .. Len(payload) : d[4 + i] = payload[i]
    <3>1. /\ hdr \o payload \in Seq(Byte)
          /\ Len(hdr \o payload) = Len(hdr) + Len(payload)
          /\ \A i \in 1 .. Len(hdr) : (hdr \o payload)[i] = hdr[i]
          /\ \A i \in 1 .. Len(payload) : (hdr \o payload)[Len(hdr) + i] = payload[i]
      <4>1. hdr \in Seq(Byte)
        BY <2>3
      <4> QED
        BY <4>1, Concat
    <3>2. d[1] = h /\ d[2] = Len16 /\ d[3] = a /\ d[4] = b
      <4>1. \A i \in 1 .. 4 : d[i] = hdr[i]
        BY <3>1, <2>3, <2>4
      <4> QED
        BY <4>1, <2>3
    <3>3. \A i \in 1 .. Len(payload) : d[4 + i] = payload[i]
      BY <3>1, <2>3, <2>4
    <3> QED
      BY <3>1, <3>2, <3>3, <2>3, <2>4
  <2>6. d[1] = (IF fin THEN Half ELSE 0) + opcode
    BY <2>5, Zenon DEF h
  <2>7. Ntoh16(<<d[3], d[4]>>) = Len(payload)
    BY <2>1, <2>5, Zenon DEF n
  <2> QED
    BY <2>5, <2>6, <2>7, <1>5, Zenon DEF n
<1> QED
  BY <1>4, <1>5

\* The accessors return what the constructor was given: fin(), masked(),
\* payloadLength() and payload(), for every payload that is accepted.
LEMMA FrameAccessors ==
  ASSUME NEW payload \in Seq(Byte), NEW fin \in BOOLEAN, NEW opcode \in Nat,
         Accepts(Len(payload), opcode), NEW d, d = Frame(payload, fin, opcode)
  PROVE  /\ PayloadLength(d) = Len(payload)
         /\ Payload(d) = payload
         /\ FIN(d) <=> fin
         /\ ~MASK(d)
<1> DEFINE n == Len(payload)
<1>1. opcode \in 0 .. MaxOpcode /\ n <= UINT16_MAX /\ n \in Nat
  BY LenProperties DEF Accepts, MaxOpcode
<1>2. /\ d \in Seq(Byte)
      /\ d[1] = (IF fin THEN Half ELSE 0) + opcode
      /\ n < Len16 =>
           /\ d[2] = n
           /\ \A i \in 1 .. n : d[2 + i] = payload[i]
      /\ n >= Len16 =>
           /\ d[2] = Len16 /\ Ntoh16(<<d[3], d[4]>>) = n
           /\ \A i \in 1 .. n : d[4 + i] = payload[i]
  BY <1>1, FrameBytes
<1>3. FIN(d) <=> fin
  BY <1>1, <1>2, FirstByte DEF FIN
<1>4. payload = [i \in 1 .. n |-> payload[i]]
  BY LenProperties
<1> HIDE DEF n
<1>5. CASE n < Len16
  <2>1. Length7(d) = n /\ ~MASK(d)
    BY <1>1, <1>2, <1>5, Bytes, ModSmall DEF Length7, MASK
  <2>2. PayloadLength(d) = n
    BY <1>1, <1>5, <2>1, Bytes DEF PayloadLength
  <2>3. Payload(d) = [i \in 1 .. n |-> d[2 + i]]
    BY <1>5, <2>2 DEF Payload
  <2> QED
    BY <1>2, <1>3, <1>4, <1>5, <2>1, <2>2, <2>3 DEF n
<1>6. CASE ~(n < Len16)
  <2>0. n >= Len16
    BY <1>1, <1>6, Bytes
  <2>1. Length7(d) = Len16 /\ ~MASK(d)
    BY <1>2, <2>0, Bytes, ModSmall DEF Length7, MASK
  <2>2. PayloadLength(d) = n
    BY <1>2, <2>0, <2>1 DEF PayloadLength
  <2>3. Payload(d) = [i \in 1 .. n |-> d[4 + i]]
    BY <1>6, <2>2 DEF Payload
  <2> QED
    BY <1>2, <1>3, <1>4, <2>0, <2>1, <2>2, <2>3 DEF n
<1> QED
  BY <1>5, <1>6

\* What the constructor was given, as long as the frame lives.
FrameKept ==
  msg.by = "server" /\ state # "refused" =>
    /\ msg.payload \in Seq(Byte)
    /\ msg.fin \in BOOLEAN
    /\ msg.opcode \in Nat
    /\ Accepts(Len(msg.payload), msg.opcode)
    /\ data = Frame(msg.payload, msg.fin, msg.opcode)

\* The payloads that are tried are sequences of bytes.
LEMMA PayloadOfBytes ==
  ASSUME NEW n \in Nat
  PROVE  PayloadOf(n) \in Seq(Byte) /\ Len(PayloadOf(n)) = n
<1>1. \A i \in 1 .. n : (7 * i + n) % Base \in Byte
  BY Bytes DEF Byte
<1> QED
  BY <1>1 DEF PayloadOf

\* Nothing has been constructed at first.
LEMMA FrameKeptInitially == Init => FrameKept
BY DEF Init, NoMessage, FrameKept

\* No step changes a frame that was constructed.
LEMMA FrameKeptStep == FrameKept /\ [Next]_vars => FrameKept'
<1> SUFFICES ASSUME FrameKept, [Next]_vars PROVE FrameKept'
  OBVIOUS
<1>1. ASSUME NEW n \in Lengths, NEW fin \in BOOLEAN, NEW opcode \in {1, 10, 16},
             Construct(n, fin, opcode)
      PROVE  FrameKept'
  <2>1. n \in Nat
    BY FrameAssumption DEF FrameAssumption
  <2>2. PayloadOf(n) \in Seq(Byte) /\ Len(PayloadOf(n)) = n
    BY <2>1, PayloadOfBytes
  <2>3. CASE Accepts(n, opcode)
    <3>1. /\ msg' = [by |-> "server", payload |-> PayloadOf(n), fin |-> fin, opcode |-> opcode]
          /\ data' = Frame(PayloadOf(n), fin, opcode)
      BY <1>1, <2>3 DEF Construct
    <3> QED
      BY <3>1, <2>2, <2>3 DEF FrameKept
  <2>4. CASE ~Accepts(n, opcode)
    BY <1>1, <2>4 DEF Construct, FrameKept
  <2> QED
    BY <2>3, <2>4
<1>2. ASSUME NEW n \in Lengths, NEW fin \in BOOLEAN, NEW opcode \in {0, 2},
             NEW form \in {"7", "16", "64"}, ClientSends(n, fin, opcode, form)
      PROVE  FrameKept'
  BY <1>2 DEF ClientSends, FrameKept
<1>7. ASSUME NEW field \in LongFields, NEW fin \in BOOLEAN, NEW opcode \in {0, 2},
             ClientStarts(field, fin, opcode)
      PROVE  FrameKept'
  BY <1>7 DEF ClientStarts, FrameKept
<1>3. CASE Receive
  BY <1>3 DEF Receive, FrameKept
<1>4. CASE Decode
  BY <1>4 DEF Decode, FrameKept
<1>5. CASE NextFrame
  BY <1>5 DEF NextFrame, NoMessage, FrameKept
<1>6. CASE UNCHANGED vars
  BY <1>6 DEF vars, FrameKept
<1> QED
  BY <1>1, <1>2, <1>3, <1>4, <1>5, <1>6, <1>7 DEF Next

\* A frame agrees with itself as long as it lives, for every size of a byte,
\* every xor and every set of payload lengths.
THEOREM FrameAgreement == Spec => []AccessorsAgree
<1>1. FrameKept => AccessorsAgree
  <2> SUFFICES ASSUME FrameKept, msg.by = "server", state # "refused"
               PROVE  /\ PayloadLength(data) = Len(msg.payload)
                      /\ Payload(data) = msg.payload
                      /\ FIN(data) = msg.fin
                      /\ ~MASK(data)
    BY DEF AccessorsAgree
  <2>1. /\ msg.payload \in Seq(Byte) /\ msg.fin \in BOOLEAN /\ msg.opcode \in Nat
        /\ Accepts(Len(msg.payload), msg.opcode)
        /\ data = Frame(msg.payload, msg.fin, msg.opcode)
    BY DEF FrameKept
  <2>2. /\ PayloadLength(data) = Len(msg.payload) /\ Payload(data) = msg.payload
        /\ FIN(data) <=> msg.fin
        /\ ~MASK(data)
    BY <2>1, FrameAccessors
  <2>3. FIN(data) = msg.fin
    BY <2>1, <2>2 DEF FIN
  <2> QED
    BY <2>2, <2>3
<1> QED
  BY <1>1, FrameKeptInitially, FrameKeptStep, PTL DEF Spec

-----------------------------------------------------------------------------
(* decode() on what a client sends.                                        *)

Masked(payload) == [i \in 1 .. Len(payload) |-> XorByte(payload[i], Key[((i - 1) % 4) + 1])]

\* The masking key has four bytes, and cnt % 4 selects one of them.
LEMMA KeyBytes ==
  /\ Key \in Seq(Byte) /\ Len(Key) = 4
  /\ \A i \in Nat \ {0} : ((i - 1) % 4) + 1 \in 1 .. 4 /\ Key[((i - 1) % 4) + 1] \in Byte
<1>1. 1 \in Byte /\ Half \in Byte /\ Base - 1 \in Byte /\ 3 \in Byte
  BY Bytes DEF Byte
<1>2. Key \in Seq(Byte) /\ Len(Key) = 4
  BY <1>1 DEF Key
<1>3. \A k \in 1 .. 4 : Key[k] \in Byte
  BY <1>2
<1>4. \A i \in Nat \ {0} : ((i - 1) % 4) + 1 \in 1 .. 4
  OBVIOUS
<1> QED
  BY <1>2, <1>3, <1>4

\* Masking makes bytes of bytes.
LEMMA MaskedBytes ==
  ASSUME NEW payload \in Seq(Byte)
  PROVE  Masked(payload) \in Seq(Byte) /\ Len(Masked(payload)) = Len(payload)
<1>1. Len(payload) \in Nat /\ \A i \in 1 .. Len(payload) : payload[i] \in Byte
  BY LenProperties
<1>2. \A i \in 1 .. Len(payload) : XorByte(payload[i], Key[((i - 1) % 4) + 1]) \in Byte
  BY <1>1, KeyBytes, FrameAssumption DEF FrameAssumption
<1> QED
  BY <1>1, <1>2 DEF Masked

\* d consists of p, q and r in a row.
Row(p, q, r, d) ==
  /\ d \in Seq(Byte)
  /\ Len(d) = Len(p) + Len(q) + Len(r)
  /\ \A i \in 1 .. Len(p) : d[i] = p[i]
  /\ \A i \in 1 .. Len(q) : d[Len(p) + i] = q[i]
  /\ \A i \in 1 .. Len(r) : d[Len(p) + Len(q) + i] = r[i]

\* Three sequences that are concatenated are in a row.
LEMMA ThreeParts ==
  \A p, q, r \in Seq(Byte) : Row(p, q, r, p \o q \o r)
BY DEF Row

\* A header, the key and the masked payload: where the key and the payload are.
LEMMA MaskedParts ==
  ASSUME NEW hdr \in Seq(Byte), NEW payload \in Seq(Byte),
         NEW d, d = hdr \o Key \o Masked(payload)
  PROVE  Row(hdr, Key, Masked(payload), d)
BY MaskedBytes, KeyBytes, ThreeParts

\* The sequence of bytes d says of itself what it was made of.
Encoded(d, payload, fin, opcode, masked) ==
  /\ d \in Seq(Byte)
  /\ Len(d) = HeaderSize(d) + Len(payload)
  /\ FrameLen(d) = Len(payload)
  /\ MASK(d) = masked
  /\ FIN(d) = fin
  /\ d[1] % (MaxOpcode + 1) = opcode
  /\ \A i \in 1 .. Len(payload) : Unmasked(d, i) = payload[i]

\* The opcode is what remains of the first byte.
LEMMA OpcodeOfFirst ==
  ASSUME NEW fin \in BOOLEAN, NEW opcode \in 0 .. MaxOpcode,
         NEW h, h = (IF fin THEN Half ELSE 0) + opcode
  PROVE  h % (MaxOpcode + 1) = opcode
<1>1. Half % 16 = 0 /\ Half \in Nat
  BY Bytes, FrameAssumption DEF FrameAssumption, MaxOpcode
<1>2. (Half + opcode) % 16 = opcode
  BY <1>1 DEF MaxOpcode
<1>3. opcode % 16 = opcode /\ 0 + opcode = opcode
  BY DEF MaxOpcode
<1> QED
  BY <1>2, <1>3 DEF MaxOpcode

\* Unmasking undoes masking.
LEMMA MaskedDecode ==
  ASSUME NEW hdr \in Seq(Byte), NEW payload \in Seq(Byte), NEW fin \in BOOLEAN,
         NEW opcode \in 0 .. MaxOpcode, NEW d, d = hdr \o Key \o Masked(payload),
         Len(hdr) >= 1, hdr[1] = (IF fin THEN Half ELSE 0) + opcode,
         MASK(d), PayloadOffset(d) = Len(hdr), FrameLen(d) = Len(payload)
  PROVE  Encoded(d, payload, fin, opcode, TRUE)
<1>1. /\ d \in Seq(Byte)
      /\ Len(d) = Len(hdr) + 4 + Len(payload)
      /\ \A k \in 1 .. Len(hdr) : d[k] = hdr[k]
      /\ \A k \in 1 .. 4 : d[Len(hdr) + k] = Key[k]
      /\ \A i \in 1 .. Len(payload) : d[Len(hdr) + 4 + i] = Masked(payload)[i]
  <2>1. Row(hdr, Key, Masked(payload), d)
    BY MaskedParts
  <2>2. Len(Key) = 4 /\ Len(Masked(payload)) = Len(payload)
    BY KeyBytes, MaskedBytes
  <2> QED
    BY <2>1, <2>2, Zenon DEF Row
<1>2. HeaderSize(d) = Len(hdr) + 4
  BY DEF HeaderSize
<1>3. Len(hdr) \in Nat /\ Len(payload) \in Nat
  BY LenProperties
<1>4. ASSUME NEW i \in 1 .. Len(payload)
      PROVE  Unmasked(d, i) = payload[i]
  <2> DEFINE k == (i - 1) % 4
  <2>1. i \in Nat \ {0} /\ payload[i] \in Byte
    BY <1>3
  <2>2. k + 1 \in 1 .. 4 /\ Key[k + 1] \in Byte /\ k \in Int
    BY <2>1, KeyBytes
  <2>3. d[HeaderSize(d) + i] = XorByte(payload[i], Key[k + 1])
    BY <1>1, <1>2 DEF Masked
  <2> HIDE DEF k
  <2>4. d[Len(hdr) + 1 + k] = Key[k + 1]
    <3>1. Len(hdr) + 1 + k = Len(hdr) + (k + 1)
      BY <1>3, <2>2
    <3> QED
      BY <1>1, <2>2, <3>1
  <2>5. Unmasked(d, i) = XorByte(XorByte(payload[i], Key[k + 1]), Key[k + 1])
    BY <2>3, <2>4 DEF Unmasked, k
  <2> QED
    BY <2>1, <2>2, <2>5, FrameAssumption DEF FrameAssumption
<1>5. d[1] = (IF fin THEN Half ELSE 0) + opcode
  BY <1>1, <1>3
<1>6. FIN(d) = fin
  <2>1. d[1] >= Half <=> fin
    BY <1>5, FirstByte
  <2> QED
    BY <2>1 DEF FIN
<1>7. d[1] % (MaxOpcode + 1) = opcode
  BY <1>5, OpcodeOfFirst
<1>8. MASK(d) = TRUE
  BY DEF MASK
<1> QED
  BY <1>1, <1>2, <1>4, <1>6, <1>7, <1>8 DEF Encoded

\* The recursion of ntoh for std::uint64_t, step by step.
LEMMA Ntoh64Steps ==
  ASSUME NEW d
  PROVE  \E f : /\ f[0] = 0
                /\ \A i \in 1 .. 8 : f[i] = f[i - 1] * Base + d[i]
                /\ Ntoh64(d) = f[8]
<1> DEFINE Rule(f) == f = [i \in 0 .. 8 |-> IF i = 0 THEN 0 ELSE f[i - 1] * Base + d[i]]
<1>1. \E f : Rule(f)
  <2>0. PICK a0 : a0 = 0
    OBVIOUS
  <2>1. PICK a1 : a1 = a0 * Base + d[1]
    OBVIOUS
  <2>2. PICK a2 : a2 = a1 * Base + d[2]
    OBVIOUS
  <2>3. PICK a3 : a3 = a2 * Base + d[3]
    OBVIOUS
  <2>4. PICK a4 : a4 = a3 * Base + d[4]
    OBVIOUS
  <2>5. PICK a5 : a5 = a4 * Base + d[5]
    OBVIOUS
  <2>6. PICK a6 : a6 = a5 * Base + d[6]
    OBVIOUS
  <2>7. PICK a7 : a7 = a6 * Base + d[7]
    OBVIOUS
  <2>8. PICK a8 : a8 = a7 * Base + d[8]
    OBVIOUS
  <2> DEFINE f == [i \in 0 .. 8 |-> CASE i = 0 -> a0 [] i = 1 -> a1 [] i = 2 -> a2 [] i = 3 -> a3 [] i = 4 -> a4
                                    [] i = 5 -> a5 [] i = 6 -> a6 [] i = 7 -> a7 [] i = 8 -> a8]
  <2>9. /\ f[0] = a0 /\ f[1] = a1 /\ f[2] = a2 /\ f[3] = a3 /\ f[4] = a4
        /\ f[5] = a5 /\ f[6] = a6 /\ f[7] = a7 /\ f[8] = a8
    OBVIOUS
  <2>10. f = [i \in 0 .. 8 |-> f[i]]
    OBVIOUS
  <2> HIDE DEF f
  <2>11. \A i \in 0 .. 8 : f[i] = IF i = 0 THEN 0 ELSE f[i - 1] * Base + d[i]
    BY <2>0, <2>1, <2>2, <2>3, <2>4, <2>5, <2>6, <2>7, <2>8, <2>9
  <2> QED
    BY <2>10, <2>11
<1> DEFINE g == CHOOSE f : Rule(f)
<1>2. Rule(g)
  BY <1>1, Zenon
<1>3. Ntoh64(d) = g[8]
  BY DEF Ntoh64
<1> HIDE DEF g
<1> QED
  BY <1>2, <1>3

\* Twice a quotient and a remainder.
LEMMA DivTwice ==
  ASSUME NEW n \in Nat, NEW b \in Nat, b > 0, n < b * b * b
  PROVE  \E q, r, t \in 0 .. b - 1 :
           /\ n \div (b * b) = q /\ (n \div b) % b = r /\ n % b = t
           /\ n = (q * b + r) * b + t
<1>1. PICK m \in Nat, t \in 0 .. b - 1 : m = n \div b /\ t = n % b /\ n = m * b + t
  <2>1. n \div b \in Int /\ n % b \in Int
    OBVIOUS
  <2> QED
    BY <2>1, DivMod
<1>2. PICK q \in Nat, r \in 0 .. b - 1 : q = m \div b /\ r = m % b /\ m = q * b + r
  <2>1. m \div b \in Int /\ m % b \in Int
    OBVIOUS
  <2> QED
    BY <2>1, DivMod
<1>3. PICK c \in Nat : c = b * b /\ c > 0
  OBVIOUS
<1>4. PICK k \in Nat, s \in 0 .. c - 1 : k = n \div c /\ s = n % c /\ n = k * c + s
  <2>1. n \div c \in Int /\ n % c \in Int
    BY <1>3
  <2> QED
    BY <1>3, <2>1, DivMod
<1>5. PICK u \in Nat : u = r * b + t /\ u < c
  <2>1. r * b <= (b - 1) * b
    OBVIOUS
  <2>2. (b - 1) * b = b * b - b
    OBVIOUS
  <2>3. r * b \in Nat
    OBVIOUS
  <2> QED
    BY <1>3, <2>1, <2>2, <2>3
<1>6. n = q * c + u
  <2>1. (q * b + r) * b = q * (b * b) + r * b
    OBVIOUS
  <2> QED
    BY <1>1, <1>2, <1>3, <1>5, <2>1
<1>7. k = q
  <2>1. ~(k > q)
    <3> SUFFICES ASSUME k >= q + 1 PROVE FALSE
      OBVIOUS
    <3>1. k * c >= (q + 1) * c
      BY <1>3
    <3>2. (q + 1) * c = q * c + c
      BY <1>3
    <3> QED
      BY <1>3, <1>4, <1>5, <1>6, <3>1, <3>2
  <2>2. ~(q > k)
    <3> SUFFICES ASSUME q >= k + 1 PROVE FALSE
      OBVIOUS
    <3>1. q * c >= (k + 1) * c
      BY <1>3
    <3>2. (k + 1) * c = k * c + c
      BY <1>3
    <3> QED
      BY <1>3, <1>4, <1>5, <1>6, <3>1, <3>2
  <2> QED
    BY <2>1, <2>2
<1>8. q < b
  <2> SUFFICES ASSUME q >= b PROVE FALSE
    OBVIOUS
  <2>1. q * c >= b * c
    BY <1>3
  <2>2. b * c = b * b * b
    BY <1>3
  <2> QED
    BY <1>3, <1>5, <1>6, <2>1, <2>2
<1>9. q \in 0 .. b - 1
  BY <1>8
<1>10. /\ n \div (b * b) = q /\ (n \div b) % b = r /\ n % b = t
       /\ n = (q * b + r) * b + t
  BY <1>1, <1>2, <1>3, <1>4, <1>7
<1> QED
  BY <1>9, <1>10

\* Eight bytes of which the first five are zero.
LEMMA Ntoh64Value ==
  ASSUME NEW d, \A i \in 1 .. 5 : d[i] = 0, d[6] \in Nat, d[7] \in Nat, d[8] \in Nat
  PROVE  Ntoh64(d) = (d[6] * Base + d[7]) * Base + d[8]
<1>1. PICK f : /\ f[0] = 0
               /\ \A i \in 1 .. 8 : f[i] = f[i - 1] * Base + d[i]
               /\ Ntoh64(d) = f[8]
  BY Ntoh64Steps
<1>2. Base \in Nat
  BY Bytes
<1>3. f[1] = 0
  BY <1>1, <1>2
<1>4. f[2] = 0
  BY <1>1, <1>2, <1>3
<1>5. f[3] = 0
  BY <1>1, <1>2, <1>4
<1>6. f[4] = 0
  BY <1>1, <1>2, <1>5
<1>7. f[5] = 0
  BY <1>1, <1>2, <1>6
<1>8. f[6] = d[6]
  BY <1>1, <1>2, <1>7
<1>9. f[7] = d[6] * Base + d[7]
  BY <1>1, <1>8
<1> QED
  BY <1>1, <1>9

\* A function on 1 .. n is a sequence.
LEMMA FunctionSeq ==
  ASSUME NEW S, NEW n \in Nat, NEW t \in [1 .. n -> S]
  PROVE  t \in Seq(S) /\ Len(t) = n
OBVIOUS

\* x consists of s, of length k, and t, of length l.
Joint(x, s, k, t, l) ==
  /\ x \in Seq(Byte) /\ Len(x) = k + l
  /\ \A i \in 1 .. k : x[i] = s[i]
  /\ \A i \in 1 .. l : x[k + i] = t[i]

\* One sequence behind another.
LEMMA Behind ==
  ASSUME NEW s \in Seq(Byte), NEW t \in Seq(Byte)
  PROVE  Joint(s \o t, s, Len(s), t, Len(t))
<1>1. /\ s \o t \in Seq(Byte)
      /\ Len(s \o t) = Len(s) + Len(t)
      /\ \A i \in 1 .. Len(s) : (s \o t)[i] = s[i]
      /\ \A i \in 1 .. Len(t) : (s \o t)[Len(s) + i] = t[i]
  BY Concat
<1> QED
  BY <1>1, Zenon DEF Joint

\* Ten bytes, of which the third to the seventh are zero.
Ten(hdr, h, m, a, b, c) ==
  /\ hdr \in Seq(Byte) /\ Len(hdr) = 10
  /\ hdr[1] = h /\ hdr[2] = m /\ hdr[8] = a /\ hdr[9] = b /\ hdr[10] = c
  /\ \A i \in 3 .. 7 : hdr[i] = 0

\* The header of the 64-bit form.
LEMMA HugeHeader ==
  ASSUME NEW h \in Byte, NEW m \in Byte, NEW a \in Byte, NEW b \in Byte, NEW c \in Byte
  PROVE  Ten(<<h>> \o (<<m>> \o Zeros(5) \o <<a>> \o <<b, c>>), h, m, a, b, c)
<1>0. PICK hdr : hdr = <<h>> \o (<<m>> \o Zeros(5) \o <<a>> \o <<b, c>>)
  OBVIOUS
<1>1. PICK z \in Seq(Byte) : z = Zeros(5) /\ Len(z) = 5 /\ \A i \in 1 .. 5 : z[i] = 0
  <2>1. 0 \in Byte
    BY Bytes DEF Byte
  <2>2. PICK z : z = [i \in 1 .. 5 |-> 0]
    OBVIOUS
  <2>3. z \in [1 .. 5 -> Byte] /\ \A i \in 1 .. 5 : z[i] = 0
    BY <2>1, <2>2
  <2>4. z \in Seq(Byte) /\ Len(z) = 5
    BY <2>3, FunctionSeq
  <2> QED
    BY <2>2, <2>3, <2>4 DEF Zeros
<1>2. PICK sh, sm, sa, sbc, x, y, w :
        /\ sh = <<h>> /\ sm = <<m>> /\ sa = <<a>> /\ sbc = <<b, c>>
        /\ x = sm \o z /\ y = x \o sa /\ w = y \o sbc /\ hdr = sh \o w
  BY <1>0, <1>1, Zenon
<1>3. /\ sh \in Seq(Byte) /\ Len(sh) = 1 /\ sh[1] = h
      /\ sm \in Seq(Byte) /\ Len(sm) = 1 /\ sm[1] = m
  BY <1>2
<1>4. /\ sa \in Seq(Byte) /\ Len(sa) = 1 /\ sa[1] = a
      /\ sbc \in Seq(Byte) /\ Len(sbc) = 2 /\ sbc[1] = b /\ sbc[2] = c
  BY <1>2
<1>5. x \in Seq(Byte) /\ Len(x) = 6 /\ x[1] = m /\ \A i \in 2 .. 6 : x[i] = 0
  <2>1. /\ x \in Seq(Byte) /\ Len(x) = 1 + 5
        /\ \A i \in 1 .. 1 : x[i] = sm[i]
        /\ \A i \in 1 .. 5 : x[1 + i] = z[i]
    <3>1. x = sm \o z /\ sm \in Seq(Byte) /\ z \in Seq(Byte) /\ Len(sm) = 1 /\ Len(z) = 5
      BY <1>1, <1>2, <1>3, Zenon
    <3>2. Joint(x, sm, 1, z, 5)
      BY <3>1, Behind, Zenon
    <3> QED
      BY <3>2 DEF Joint
  <2>2. ASSUME NEW i \in 2 .. 6 PROVE x[i] = 0
    <3>1. i - 1 \in 1 .. 5 /\ 1 + (i - 1) = i
      OBVIOUS
    <3>2. x[1 + (i - 1)] = z[i - 1] /\ z[i - 1] = 0
      BY <1>1, <2>1, <3>1
    <3> QED
      BY <3>1, <3>2
  <2> QED
    BY <1>3, <2>1, <2>2
<1>6. y \in Seq(Byte) /\ Len(y) = 7 /\ y[1] = m /\ y[7] = a /\ \A i \in 2 .. 6 : y[i] = 0
  <2>1. /\ y \in Seq(Byte) /\ Len(y) = 6 + 1
        /\ \A i \in 1 .. 6 : y[i] = x[i]
        /\ \A i \in 1 .. 1 : y[6 + i] = sa[i]
    <3>1. y = x \o sa /\ x \in Seq(Byte) /\ sa \in Seq(Byte) /\ Len(x) = 6 /\ Len(sa) = 1
      BY <1>2, <1>4, <1>5, Zenon
    <3>2. Joint(y, x, 6, sa, 1)
      BY <3>1, Behind, Zenon
    <3> QED
      BY <3>2 DEF Joint
  <2>2. y[6 + 1] = a
    BY <1>4, <2>1
  <2> QED
    BY <1>5, <2>1, <2>2
<1>7. /\ w \in Seq(Byte) /\ Len(w) = 9 /\ w[1] = m /\ w[7] = a /\ w[8] = b /\ w[9] = c
      /\ \A i \in 2 .. 6 : w[i] = 0
  <2>1. /\ w \in Seq(Byte) /\ Len(w) = 7 + 2
        /\ \A i \in 1 .. 7 : w[i] = y[i]
        /\ \A i \in 1 .. 2 : w[7 + i] = sbc[i]
    <3>1. w = y \o sbc /\ y \in Seq(Byte) /\ sbc \in Seq(Byte) /\ Len(y) = 7 /\ Len(sbc) = 2
      BY <1>2, <1>4, <1>6, Zenon
    <3>2. Joint(w, y, 7, sbc, 2)
      BY <3>1, Behind, Zenon
    <3> QED
      BY <3>2 DEF Joint
  <2>2. w[7 + 1] = b /\ w[7 + 2] = c
    BY <1>4, <2>1
  <2> QED
    BY <1>6, <2>1, <2>2
<1>8. /\ hdr \in Seq(Byte) /\ Len(hdr) = 1 + 9
      /\ \A i \in 1 .. 1 : hdr[i] = sh[i]
      /\ \A i \in 1 .. 9 : hdr[1 + i] = w[i]
  <2>1. hdr = sh \o w /\ sh \in Seq(Byte) /\ w \in Seq(Byte) /\ Len(sh) = 1 /\ Len(w) = 9
    BY <1>2, <1>3, <1>7, Zenon
  <2>2. Joint(hdr, sh, 1, w, 9)
    BY <2>1, Behind, Zenon
  <2> QED
    BY <2>2 DEF Joint
<1>9. \A i \in 3 .. 7 : hdr[i] = 0
  <2> TAKE i \in 3 .. 7
  <2>1. i - 1 \in 1 .. 9 /\ i - 1 \in 2 .. 6 /\ 1 + (i - 1) = i
    OBVIOUS
  <2>2. hdr[1 + (i - 1)] = w[i - 1] /\ w[i - 1] = 0
    BY <1>7, <1>8, <2>1
  <2> QED
    BY <2>1, <2>2
<1>10. hdr[1 + 1] = m /\ hdr[1 + 7] = a /\ hdr[1 + 8] = b /\ hdr[1 + 9] = c
  BY <1>7, <1>8
<1>11. Ten(hdr, h, m, a, b, c)
  BY <1>3, <1>8, <1>9, <1>10 DEF Ten
<1> QED
  BY <1>0, <1>11, Zenon

-----------------------------------------------------------------------------
(* What the encoders make.                                                 *)

\* A client's frame, in any form of its length.
LEMMA ClientEncoded ==
  ASSUME NEW payload \in Seq(Byte), NEW fin \in BOOLEAN, NEW opcode \in 0 .. MaxOpcode,
         NEW form \in {"7", "16", "64"}, Fits(Len(payload), form),
         NEW d, d = ClientFrame(payload, fin, opcode, form)
  PROVE  Encoded(d, payload, fin, opcode, TRUE)
<1> DEFINE h == (IF fin THEN Half ELSE 0) + opcode
           n == Len(payload)
           hdr == <<h>> \o ClientHeader(n, form)
<1>1. h \in Byte
  BY FirstByte
<1>2. n \in Nat
  BY LenProperties
<1>3. d = hdr \o Key \o Masked(payload)
  BY DEF ClientFrame, Masked
<1> HIDE DEF n
<1> HIDE DEF h
<1>4. CASE form = "7"
  <2>1. n < Len16 /\ hdr = <<h>> \o <<Half + n>>
    BY <1>4 DEF Fits, ClientHeader, n
  <2>2. Half + n \in Byte
    BY <1>2, <2>1, Bytes DEF Byte
  <2> HIDE DEF hdr
  <2>3. hdr \in Seq(Byte) /\ Len(hdr) = 2 /\ hdr[1] = h /\ hdr[2] = Half + n
    BY <1>1, <2>1, <2>2, ShortHeader
  <2>4. Row(hdr, Key, Masked(payload), d)
    BY <1>3, <2>3, MaskedParts
  <2>5. d[2] = Half + n
    BY <2>3, <2>4 DEF Row
  <2>6. MASK(d) /\ Length7(d) = n
    <3>1. Half + n >= Half /\ (Half + n) % Half = n
      BY <1>2, <2>1, Bytes
    <3> QED
      BY <2>5, <3>1 DEF MASK, Length7
  <2>7. PayloadOffset(d) = 2 /\ FrameLen(d) = n
    <3>1. n # Len16 /\ n # Len64
      BY <1>2, <2>1, Bytes
    <3> QED
      BY <2>6, <3>1 DEF PayloadOffset, FrameLen
  <2>8. hdr \in Seq(Byte) /\ Len(hdr) >= 1 /\ hdr[1] = (IF fin THEN Half ELSE 0) + opcode
    BY <2>3 DEF h
  <2>9. PayloadOffset(d) = Len(hdr) /\ FrameLen(d) = Len(payload)
    BY <2>3, <2>7 DEF n
  <2> QED
    BY <1>3, <2>6, <2>8, <2>9, MaskedDecode
<1>5. CASE form = "16"
  <2>1. n \in 0 .. UINT16_MAX /\ ClientHeader(n, form) = <<Half + Len16>> \o Hton16(n)
    BY <1>2, <1>5 DEF Fits, ClientHeader, n
  <2>2. PICK a \in Byte, b \in Byte : Hton16(n) = <<a, b>> /\ Ntoh16(<<a, b>>) = n
    BY <2>1, HtonNtoh
  <2>3. hdr = <<h>> \o (<<Half + Len16>> \o <<a, b>>)
    BY <2>1, <2>2, Zenon
  <2>4. Half + Len16 \in Byte
    BY Bytes DEF Byte
  <2> HIDE DEF hdr
  <2>5. /\ hdr \in Seq(Byte) /\ Len(hdr) = 4
        /\ hdr[1] = h /\ hdr[2] = Half + Len16 /\ hdr[3] = a /\ hdr[4] = b
    BY <1>1, <2>2, <2>3, <2>4, LongHeader
  <2>6. Row(hdr, Key, Masked(payload), d)
    BY <1>3, <2>5, MaskedParts
  <2>7. d[2] = Half + Len16 /\ d[3] = a /\ d[4] = b
    BY <2>5, <2>6 DEF Row
  <2>8. MASK(d) /\ Length7(d) = Len16
    <3>1. Half + Len16 >= Half /\ (Half + Len16) % Half = Len16
      BY Bytes
    <3> QED
      BY <2>7, <3>1 DEF MASK, Length7
  <2>9. PayloadOffset(d) = 4 /\ FrameLen(d) = n
    <3>1. Ntoh16(<<d[3], d[4]>>) = n
      BY <2>2, <2>7, Zenon
    <3>2. Len16 # Len64
      BY Bytes
    <3> QED
      BY <2>8, <3>1, <3>2 DEF PayloadOffset, FrameLen
  <2>10. hdr \in Seq(Byte) /\ Len(hdr) >= 1 /\ hdr[1] = (IF fin THEN Half ELSE 0) + opcode
    BY <2>5 DEF h
  <2>11. PayloadOffset(d) = Len(hdr) /\ FrameLen(d) = Len(payload)
    BY <2>5, <2>9 DEF n
  <2> QED
    BY <1>3, <2>8, <2>10, <2>11, MaskedDecode
<1>6. CASE form = "64"
  <2>1. /\ n < Base * Base * Base
        /\ ClientHeader(n, form) = <<Half + Len64>> \o Zeros(5) \o <<n \div (Base * Base)>> \o Hton16(n)
    BY <1>6 DEF Fits, ClientHeader, n
  <2>2. PICK a \in 0 .. Base - 1, b \in 0 .. Base - 1, c \in 0 .. Base - 1 :
          /\ n \div (Base * Base) = a /\ (n \div Base) % Base = b /\ n % Base = c
          /\ n = (a * Base + b) * Base + c
    <3>1. Base \in Nat /\ Base > 0
      BY Bytes
    <3> QED
      BY <1>2, <2>1, <3>1, DivTwice
  <2>3. a \in Byte /\ b \in Byte /\ c \in Byte /\ a \in Nat /\ b \in Nat /\ c \in Nat
    BY <2>2 DEF Byte
  <2>4. Hton16(n) = <<b, c>>
    BY <2>2 DEF Hton16
  <2>5. hdr = <<h>> \o (<<Half + Len64>> \o Zeros(5) \o <<a>> \o <<b, c>>)
    BY <2>1, <2>2, <2>4, Zenon
  <2>6. Half + Len64 \in Byte
    BY Bytes DEF Byte
  <2> HIDE DEF hdr
  <2>7. /\ hdr \in Seq(Byte) /\ Len(hdr) = 10
        /\ hdr[1] = h /\ hdr[2] = Half + Len64 /\ hdr[8] = a /\ hdr[9] = b /\ hdr[10] = c
        /\ \A i \in 3 .. 7 : hdr[i] = 0
    <3>1. Ten(hdr, h, Half + Len64, a, b, c)
      BY <1>1, <2>3, <2>5, <2>6, HugeHeader, Zenon
    <3> QED
      BY <3>1 DEF Ten
  <2>8. Row(hdr, Key, Masked(payload), d)
    BY <1>3, <2>7, MaskedParts
  <2>9. d \in Seq(Byte) /\ Len(d) >= 10 /\ \A i \in 1 .. 10 : d[i] = hdr[i]
    <3>1. Len(d) = 10 + 4 + Len(payload) /\ d \in Seq(Byte) /\ \A i \in 1 .. 10 : d[i] = hdr[i]
      BY <2>7, <2>8, KeyBytes, MaskedBytes DEF Row
    <3> QED
      BY <1>2, <3>1 DEF n
  <2>10. MASK(d) /\ Length7(d) = Len64
    <3>1. Half + Len64 >= Half /\ (Half + Len64) % Half = Len64
      BY Bytes
    <3>2. d[2] = Half + Len64
      <4>1. 2 \in 1 .. 10
        OBVIOUS
      <4> QED
        BY <2>7, <2>9, <4>1, Zenon
    <3> QED
      BY <3>1, <3>2 DEF MASK, Length7
  <2>11. Ntoh64(SubSeq(d, 3, 10)) = n
    <3>1. PICK e : e = SubSeq(d, 3, 10)
      OBVIOUS
    <3>2. \A i \in 1 .. 8 : e[i] = d[i + 2]
      BY <2>9, <3>1
    <3>3. e[6] = a /\ e[7] = b /\ e[8] = c
      <4>1. e[6] = d[6 + 2] /\ e[7] = d[7 + 2] /\ e[8] = d[8 + 2]
        BY <3>2
      <4> QED
        BY <2>7, <2>9, <4>1
    <3>4. ASSUME NEW i \in 1 .. 5 PROVE e[i] = 0
      <4>1. i \in 1 .. 8 /\ i + 2 \in 1 .. 10 /\ i + 2 \in 3 .. 7
        OBVIOUS
      <4> QED
        BY <2>7, <2>9, <3>2, <4>1
    <3>5. Ntoh64(e) = (a * Base + b) * Base + c
      BY <2>3, <3>3, <3>4, Ntoh64Value
    <3> QED
      BY <2>2, <3>1, <3>5
  <2>12. PayloadOffset(d) = 10 /\ FrameLen(d) = n
    <3>1. Len16 # Len64
      BY Bytes
    <3> QED
      BY <2>10, <2>11, <3>1 DEF PayloadOffset, FrameLen
  <2>13. hdr \in Seq(Byte) /\ Len(hdr) >= 1 /\ hdr[1] = (IF fin THEN Half ELSE 0) + opcode
    BY <2>7 DEF h
  <2>14. PayloadOffset(d) = Len(hdr) /\ FrameLen(d) = Len(payload)
    BY <2>7, <2>12 DEF n
  <2> QED
    BY <1>3, <2>10, <2>13, <2>14, MaskedDecode
<1> QED
  BY <1>4, <1>5, <1>6

\* A frame that the server constructed.
LEMMA ServerEncoded ==
  ASSUME NEW payload \in Seq(Byte), NEW fin \in BOOLEAN, NEW opcode \in Nat,
         Accepts(Len(payload), opcode), NEW d, d = Frame(payload, fin, opcode)
  PROVE  Encoded(d, payload, fin, opcode, FALSE)
<1>1. opcode \in 0 .. MaxOpcode /\ Len(payload) <= UINT16_MAX /\ Len(payload) \in Nat
  BY LenProperties DEF Accepts, MaxOpcode
<1>2. PICK n \in Nat : n = Len(payload)
  BY <1>1
<1>3. /\ d \in Seq(Byte)
      /\ d[1] = (IF fin THEN Half ELSE 0) + opcode
      /\ n < Len16 =>
           /\ Len(d) = 2 + n
           /\ d[2] = n
           /\ \A i \in 1 .. n : d[2 + i] = payload[i]
      /\ n >= Len16 =>
           /\ Len(d) = 4 + n
           /\ d[2] = Len16 /\ Ntoh16(<<d[3], d[4]>>) = n
           /\ \A i \in 1 .. n : d[4 + i] = payload[i]
  BY <1>1, <1>2, FrameBytes
<1>4. FIN(d) = fin
  <2>1. d[1] >= Half <=> fin
    BY <1>1, <1>3, FirstByte
  <2> QED
    BY <2>1 DEF FIN
<1>5. d[1] % (MaxOpcode + 1) = opcode
  BY <1>1, <1>3, OpcodeOfFirst
<1>6. Len16 # Len64
  BY Bytes
<1>7. CASE n < Len16
  <2>1. Length7(d) = n /\ ~MASK(d)
    BY <1>3, <1>7, Bytes, ModSmall DEF Length7, MASK
  <2>2. PayloadOffset(d) = 2 /\ FrameLen(d) = n
    <3>1. n # Len16 /\ n # Len64
      BY <1>7, Bytes
    <3> QED
      BY <2>1, <3>1 DEF PayloadOffset, FrameLen
  <2>3. HeaderSize(d) = 2
    BY <2>1, <2>2 DEF HeaderSize
  <2>4. \A i \in 1 .. n : Unmasked(d, i) = payload[i]
    BY <1>3, <1>7, <2>1, <2>3 DEF Unmasked
  <2>5. MASK(d) = FALSE
    BY <2>1 DEF MASK
  <2> QED
    BY <1>2, <1>3, <1>4, <1>5, <1>7, <2>2, <2>3, <2>4, <2>5 DEF Encoded
<1>8. CASE ~(n < Len16)
  <2>0. n >= Len16
    BY <1>8, Bytes
  <2>1. Length7(d) = Len16 /\ ~MASK(d)
    BY <1>3, <2>0, Bytes, ModSmall DEF Length7, MASK
  <2>2. PayloadOffset(d) = 4 /\ FrameLen(d) = n
    BY <1>3, <1>6, <2>0, <2>1 DEF PayloadOffset, FrameLen
  <2>3. HeaderSize(d) = 4
    BY <2>1, <2>2 DEF HeaderSize
  <2>4. \A i \in 1 .. n : Unmasked(d, i) = payload[i]
    BY <1>3, <2>0, <2>1, <2>3 DEF Unmasked
  <2>5. MASK(d) = FALSE
    BY <2>1 DEF MASK
  <2> QED
    BY <1>2, <1>3, <1>4, <1>5, <2>0, <2>2, <2>3, <2>4, <2>5 DEF Encoded
<1> QED
  BY <1>7, <1>8

-----------------------------------------------------------------------------
(* decode() on what recv() delivers of a frame.                            *)

\* The bytes d are those of a frame, as far as both go: a part of it, the whole
\* or more.
Delivered(frame, d) ==
  /\ d \in Seq(Byte)
  /\ \A i \in 1 .. Len(d) : i <= Len(frame) => d[i] = frame[i]

\* Where the payload starts, for any frame.
LEMMA HeaderSizes ==
  ASSUME NEW d
  PROVE  /\ PayloadOffset(d) \in {2, 4, 10}
         /\ HeaderSize(d) \in {2, 4, 6, 8, 10, 14}
         /\ Length7(d) = Len16 => PayloadOffset(d) = 4
         /\ Length7(d) = Len64 => PayloadOffset(d) = 10
<1>1. Len16 # Len64
  BY Bytes
<1>2. PayloadOffset(d) \in {2, 4, 10}
  BY DEF PayloadOffset
<1>3. HeaderSize(d) = PayloadOffset(d) + 4 \/ HeaderSize(d) = PayloadOffset(d) + 0
  BY DEF HeaderSize
<1>4. HeaderSize(d) \in {2, 4, 6, 8, 10, 14}
  BY <1>2, <1>3
<1> QED
  BY <1>1, <1>2, <1>4 DEF PayloadOffset

\* The second byte tells the size of the header.
LEMMA SameHeader ==
  ASSUME NEW frame, NEW d, d[2] = frame[2]
  PROVE  /\ MASK(d) = MASK(frame) /\ Length7(d) = Length7(frame)
         /\ PayloadOffset(d) = PayloadOffset(frame) /\ HeaderSize(d) = HeaderSize(frame)
BY DEF MASK, Length7, PayloadOffset, HeaderSize

\* The header tells the length.
LEMMA SameLength ==
  ASSUME NEW frame \in Seq(Byte), NEW d, Delivered(frame, d),
         Len(frame) >= HeaderSize(frame), Len(d) >= HeaderSize(frame)
  PROVE  FrameLen(d) = FrameLen(frame)
<1>1. /\ HeaderSize(frame) \in {2, 4, 6, 8, 10, 14}
      /\ Length7(frame) = Len16 => HeaderSize(frame) >= 4
      /\ Length7(frame) = Len64 => HeaderSize(frame) >= 10
  BY HeaderSizes DEF HeaderSize
<1>2. PICK k \in Nat : k = HeaderSize(frame)
  BY <1>1
<1>3. /\ d \in Seq(Byte) /\ Len(d) \in Nat /\ Len(frame) \in Nat
      /\ k >= 2 /\ k <= Len(d) /\ k <= Len(frame)
      /\ \A i \in 1 .. k : d[i] = frame[i]
  BY <1>1, <1>2, LenProperties DEF Delivered
<1>4. Length7(d) = Length7(frame)
  BY <1>3 DEF Length7
<1>5. CASE Length7(frame) = Len16
  <2>1. d[3] = frame[3] /\ d[4] = frame[4]
    BY <1>1, <1>2, <1>3, <1>5
  <2> QED
    BY <1>4, <1>5, <2>1 DEF FrameLen
<1>6. CASE Length7(frame) = Len64
  <2>1. k >= 10
    BY <1>1, <1>2, <1>6
  <2>2. SubSeq(d, 3, 10) = SubSeq(frame, 3, 10)
    <3>1. \A i \in 1 .. 10 : d[i] = frame[i]
      BY <1>3, <2>1
    <3>2. Len(d) >= 10 /\ Len(frame) >= 10
      BY <1>3, <2>1
    <3>3. \A i \in 1 .. 8 : i + 2 \in 1 .. 10
      OBVIOUS
    <3>4. /\ SubSeq(d, 3, 10) = [i \in 1 .. 8 |-> d[i + 2]]
          /\ SubSeq(frame, 3, 10) = [i \in 1 .. 8 |-> frame[i + 2]]
      BY <1>3, <3>2
    <3> QED
      BY <3>1, <3>3, <3>4
  <2>3. Len16 # Len64
    BY Bytes
  <2> QED
    BY <1>4, <1>6, <2>2, <2>3 DEF FrameLen
<1>7. CASE Length7(frame) # Len16 /\ Length7(frame) # Len64
  BY <1>4, <1>7 DEF FrameLen
<1> QED
  BY <1>5, <1>6, <1>7

\* What decode() finds in the bytes that were delivered of a frame.
Found(d, payload, fin, opcode, masked) ==
  /\ FrameLen(d) = Len(payload)
  /\ MASK(d) = masked
  /\ FIN(d) = fin
  /\ d[1] % (MaxOpcode + 1) = opcode
  /\ \A i \in 1 .. Len(payload) :
       PayloadByte(d, i) = IF HeaderSize(d) + i <= Len(d) THEN payload[i] ELSE Stale

\* With the whole header it finds the payload, as far as it was delivered.
LEMMA DecodeDelivered ==
  ASSUME NEW payload \in Seq(Byte), NEW fin, NEW opcode, NEW masked, NEW frame,
         Encoded(frame, payload, fin, opcode, masked), NEW d, Delivered(frame, d),
         Len(d) >= HeaderSize(d), Len(d) >= 2
  PROVE  /\ Found(d, payload, fin, opcode, masked)
         /\ HeaderSize(d) = HeaderSize(frame)
<1>1. /\ frame \in Seq(Byte) /\ Len(frame) \in Nat /\ Len(payload) \in Nat
      /\ Len(frame) = HeaderSize(frame) + Len(payload)
      /\ d \in Seq(Byte) /\ Len(d) \in Nat
  BY LenProperties DEF Encoded, Delivered
<1>2. PICK k \in Nat : k = HeaderSize(frame) /\ k >= 2
  BY HeaderSizes
<1>3. Len(frame) >= k
  BY <1>1, <1>2
<1>4. d[1] = frame[1] /\ d[2] = frame[2]
  BY <1>1, <1>2, <1>3 DEF Delivered
<1>5. /\ MASK(d) = MASK(frame) /\ PayloadOffset(d) = PayloadOffset(frame)
      /\ HeaderSize(d) = HeaderSize(frame)
  BY <1>4, SameHeader
<1>6. FrameLen(d) = FrameLen(frame)
  BY <1>1, <1>2, <1>3, <1>5, SameLength
<1>7. ASSUME NEW i \in 1 .. Len(payload), HeaderSize(d) + i <= Len(d)
      PROVE  Unmasked(d, i) = payload[i]
  <2>1. k + i \in 1 .. Len(d) /\ k + i <= Len(frame)
    BY <1>1, <1>2, <1>5, <1>7
  <2>2. d[HeaderSize(d) + i] = frame[HeaderSize(frame) + i]
    BY <1>2, <1>5, <2>1 DEF Delivered
  <2>3. CASE MASK(frame)
    <3>1. PICK o \in {2, 4, 10} : o = PayloadOffset(frame)
      BY HeaderSizes
    <3>2. k = o + 4
      BY <1>2, <2>3, <3>1 DEF HeaderSize
    <3>3. PICK j \in 0 .. 3 : j = (i - 1) % 4
      BY <1>1
    <3>4. o + 1 + j \in 1 .. Len(d) /\ o + 1 + j <= Len(frame)
      BY <1>1, <1>2, <1>3, <1>5, <3>2
    <3>5. d[o + 1 + j] = frame[o + 1 + j]
      BY <3>4 DEF Delivered
    <3>6. d[PayloadOffset(d) + 1 + ((i - 1) % 4)] = frame[PayloadOffset(frame) + 1 + ((i - 1) % 4)]
      BY <1>5, <3>1, <3>3, <3>5
    <3> QED
      BY <1>5, <2>2, <2>3, <3>6 DEF Unmasked, Encoded
  <2>4. CASE ~MASK(frame)
    BY <1>5, <2>2, <2>4 DEF Unmasked, Encoded
  <2> QED
    BY <2>3, <2>4
<1>8. FIN(d) = FIN(frame)
  BY <1>4 DEF FIN
<1>9. \A i \in 1 .. Len(payload) :
        PayloadByte(d, i) = IF HeaderSize(d) + i <= Len(d) THEN payload[i] ELSE Stale
  BY <1>7 DEF PayloadByte
<1>10. Found(d, payload, fin, opcode, masked)
  BY <1>4, <1>5, <1>6, <1>8, <1>9 DEF Found, Encoded
<1> QED
  BY <1>5, <1>10

\* The payload as decode() reads it.
Part(d) == [i \in 1 .. FrameLen(d) |-> PayloadByte(d, i)]

\* A whole payload is found as it was sent.
LEMMA WholePayload ==
  ASSUME NEW payload \in Seq(Byte), NEW fin, NEW opcode, NEW masked, NEW d,
         Found(d, payload, fin, opcode, masked), HeaderSize(d) + Len(payload) <= Len(d), Len(d) \in Nat
  PROVE  Part(d) = payload
<1>1. PICK k \in Nat, n \in Nat : k = HeaderSize(d) /\ n = Len(payload)
  BY HeaderSizes, LenProperties
<1>2. ASSUME NEW i \in 1 .. n PROVE PayloadByte(d, i) = payload[i]
  <2>1. k + i <= Len(d)
    BY <1>1
  <2> QED
    BY <1>1, <2>1 DEF Found
<1>3. payload = [i \in 1 .. n |-> payload[i]]
  BY <1>1, LenProperties
<1>4. [i \in 1 .. n |-> PayloadByte(d, i)] = [i \in 1 .. n |-> payload[i]]
  BY <1>2, Zenon
<1> QED
  BY <1>1, <1>3, <1>4 DEF Found, Part

\* What a client sends, in any form of its length and whatever recv() delivers
\* behind it, is decoded to the payload that was sent, behind what the buffer
\* had, with its FIN and its opcode: for every payload and every size of a byte.
THEOREM DecodeClientFrame ==
  ASSUME NEW payload \in Seq(Byte), NEW fin \in BOOLEAN, NEW opcode \in 0 .. MaxOpcode,
         NEW form \in {"7", "16", "64"}, Fits(Len(payload), form),
         NEW rest \in Seq(Byte), NEW buf,
         NEW d, d = ClientFrame(payload, fin, opcode, form) \o rest
  PROVE  /\ HeaderSize(d) <= Len(d)
         /\ FrameLen(d) = Len(payload)
         /\ Decoded(d, buf) = buf \o payload
         /\ FIN(d) <=> fin
         /\ d[1] % (MaxOpcode + 1) = opcode
<1>1. PICK frame : frame = ClientFrame(payload, fin, opcode, form)
  OBVIOUS
<1>2. Encoded(frame, payload, fin, opcode, TRUE)
  BY <1>1, ClientEncoded
<1>3. /\ frame \in Seq(Byte) /\ Len(frame) \in Nat /\ Len(rest) \in Nat /\ Len(payload) \in Nat
      /\ Len(frame) = HeaderSize(frame) + Len(payload)
  BY <1>2, LenProperties DEF Encoded
<1>4. /\ d \in Seq(Byte) /\ Len(d) = Len(frame) + Len(rest)
      /\ \A i \in 1 .. Len(frame) : d[i] = frame[i]
  BY <1>1, <1>3, Concat
<1>5. Delivered(frame, d)
  BY <1>3, <1>4 DEF Delivered
<1>6. PICK k \in Nat : k = HeaderSize(frame) /\ k >= 2
  BY HeaderSizes
<1>7. d[2] = frame[2] /\ Len(d) >= 2 /\ Len(d) >= k + Len(payload) /\ Len(d) >= k /\ Len(d) \in Nat
  BY <1>3, <1>4, <1>6
<1>8. HeaderSize(d) = k
  BY <1>6, <1>7, SameHeader
<1>9. Found(d, payload, fin, opcode, TRUE)
  BY <1>2, <1>5, <1>7, <1>8, DecodeDelivered
<1>10. Part(d) = payload
  <2>1. HeaderSize(d) + Len(payload) <= Len(d) /\ Len(d) \in Nat
    BY <1>7, <1>8
  <2> QED
    BY <1>9, <2>1, WholePayload
<1>11. Decoded(d, buf) = buf \o payload
  BY <1>9, <1>10, Zenon DEF Decoded, Found, Part
<1> QED
  BY <1>7, <1>8, <1>9, <1>11 DEF Found

\* The buffer after decode(), and where stale bytes get into it.
Filled(d, buf, payload, masked, out) ==
  /\ out \in Seq(Byte \cup {Stale}) /\ Len(out) = Len(buf) + Len(payload)
  /\ Len(d) < HeaderSize(d) + Len(payload) => \E i \in 1 .. Len(out) : out[i] = Stale
  /\ HeaderSize(d) + Len(payload) <= Len(d) =>
       /\ out \in Seq(Byte)
       /\ masked \/ buf = <<>> => out = buf \o payload

\* The buffer after decode(): stale bytes get into it exactly if the payload is
\* not whole.
LEMMA DecodedBuffer ==
  ASSUME NEW payload \in Seq(Byte), NEW fin, NEW opcode, NEW masked \in BOOLEAN, NEW d,
         Found(d, payload, fin, opcode, masked), Len(d) \in Nat, HeaderSize(d) <= Len(d),
         NEW buf \in Seq(Byte), NEW out, out = Decoded(d, buf)
  PROVE  Filled(d, buf, payload, masked, out)
<1> USE DEF Filled
<1>1. PICK k \in Nat, n \in Nat, m \in Nat : k = HeaderSize(d) /\ n = Len(payload) /\ m = Len(buf)
  BY HeaderSizes, LenProperties
<1>2. FrameLen(d) = n /\ MASK(d) = masked
  BY <1>1 DEF Found
<1>3. PICK part : part = [i \in 1 .. n |-> PayloadByte(d, i)]
  OBVIOUS
<1>4. /\ \A i \in 1 .. n : part[i] = IF k + i <= Len(d) THEN payload[i] ELSE Stale
      /\ \A i \in 1 .. n : payload[i] \in Byte
      /\ \A i \in 1 .. m : buf[i] \in Byte
  BY <1>1, <1>3, LenProperties DEF Found
<1>5. part \in [1 .. n -> Byte \cup {Stale}]
  BY <1>3, <1>4
<1>6. part \in Seq(Byte \cup {Stale}) /\ Len(part) = n
  BY <1>5, FunctionSeq
<1>7. k + n <= Len(d) => part = payload
  <2>1. HeaderSize(d) + Len(payload) <= Len(d) => Part(d) = payload
    BY WholePayload
  <2> QED
    BY <1>1, <1>2, <1>3, <2>1 DEF Part
<1>8. Len(d) < k + n => n \in 1 .. n /\ part[n] = Stale
  <2>1. Len(d) < k + n => n \in 1 .. n /\ ~(k + n <= Len(d))
    BY <1>1
  <2> QED
    BY <1>4, <2>1
<1>9. CASE masked
  <2>1. out = buf \o part
    BY <1>2, <1>3, <1>9, Zenon DEF Decoded
  <2>2. buf \in Seq(Byte \cup {Stale})
    BY <1>4
  <2>3. /\ out \in Seq(Byte \cup {Stale}) /\ Len(out) = Len(buf) + Len(part)
        /\ \A i \in 1 .. Len(part) : out[Len(buf) + i] = part[i]
    BY <1>6, <2>1, <2>2, Concat
  <2>4. Len(d) < k + n => m + n \in 1 .. Len(out) /\ out[m + n] = Stale
    <3>1. Len(out) = m + n /\ \A i \in 1 .. n : out[m + i] = part[i]
      BY <1>1, <1>6, <2>3
    <3>2. n \in 1 .. n => m + n \in 1 .. m + n
      OBVIOUS
    <3> QED
      BY <1>8, <3>1, <3>2
  <2>5. k + n <= Len(d) => out = buf \o payload /\ out \in Seq(Byte)
    BY <1>7, <2>1, Concat
  <2> QED
    BY <1>1, <1>6, <2>3, <2>4, <2>5
<1>10. CASE ~masked
  <2>1. out = [i \in 1 .. m + n |-> IF i <= n THEN PayloadByte(d, i) ELSE IF i <= m THEN buf[i] ELSE 0]
    BY <1>1, <1>2, <1>10 DEF Decoded
  <2>2. \A i \in 1 .. m + n : out[i] = IF i <= n THEN part[i] ELSE IF i <= m THEN buf[i] ELSE 0
    BY <1>3, <2>1
  <2>3. 0 \in Byte
    BY Bytes DEF Byte
  <2>4. out \in [1 .. m + n -> Byte \cup {Stale}]
    <3>1. ASSUME NEW i \in 1 .. m + n PROVE out[i] \in Byte \cup {Stale}
      BY <1>4, <2>2, <2>3
    <3> QED
      BY <2>1, <3>1
  <2>5. out \in Seq(Byte \cup {Stale}) /\ Len(out) = m + n
    <3>1. m + n \in Nat
      OBVIOUS
    <3> QED
      BY <2>4, <3>1, FunctionSeq
  <2>6. Len(d) < k + n => n \in 1 .. Len(out) /\ out[n] = Stale
    BY <1>8, <2>2, <2>5
  <2>7. ASSUME k + n <= Len(d) PROVE out \in Seq(Byte) /\ (buf = <<>> => out = buf \o payload)
    <3>1. ASSUME NEW i \in 1 .. m + n PROVE out[i] \in Byte
      BY <1>4, <1>7, <2>2, <2>3, <2>7
    <3>2. out \in [1 .. m + n -> Byte] /\ m + n \in Nat
      BY <2>1, <3>1
    <3>3. out \in Seq(Byte)
      BY <3>2, FunctionSeq
    <3>4. ASSUME buf = <<>> PROVE out = buf \o payload
      <4>1. m = 0
        BY <1>1, <3>4
      <4>2. out = [i \in 1 .. n |-> PayloadByte(d, i)]
        BY <2>1, <4>1
      <4>3. out = payload
        BY <1>3, <1>7, <2>7, <4>2
      <4>4. <<>> \o payload = payload
        BY ConcatEmptySeq
      <4> QED
        BY <3>4, <4>3, <4>4
    <3> QED
      BY <3>3, <3>4
  <2> QED
    BY <1>1, <1>10, <2>5, <2>6, <2>7
<1> QED
  BY <1>9, <1>10

-----------------------------------------------------------------------------
(* The invariant.                                                          *)

Outcomes == {"header missing", "stale header", "length error", "overrun", "decoded"}
Sending == {"sent", "received"} \cup Outcomes

\* The types; stale bytes are in the buffer only right after a decode().
CodecTyped ==
  /\ msg.payload \in Seq(Byte) /\ msg.fin \in BOOLEAN /\ msg.by \in {"nobody", "server", "client", "starter"}
  /\ data \in Seq(Byte) /\ got \in Seq(Byte) /\ before \in Seq(Byte)
  /\ inBuf \in Seq(Byte \cup {Stale})
  /\ Len(inBuf) <= MaxVector /\ Len(before) <= MaxVector
  /\ frames \in 0 .. MaxFrames
  /\ state \in {"idle", "refused"} \cup Sending
  /\ state \notin Outcomes => inBuf \in Seq(Byte)

\* A header of a frame that no recv() can deliver whole.
Announced(d) ==
  /\ d \in Seq(Byte)
  /\ Len(d) = HeaderSize(d)
  /\ FrameLen(d) \in MaxSize + 1 .. SizeMax - 1

\* What is sent is a frame, or the header of a long one, what is received a
\* part of it, or more, and the buffer is what decode() made of that.
CodecKept ==
  /\ state \in Sending =>
       /\ msg.by \in {"server", "client", "starter"}
       /\ msg.by # "starter" => Encoded(data, msg.payload, msg.fin, msg.opcode, msg.by = "client")
       /\ msg.by = "starter" => Announced(data)
  /\ state \in Sending \ {"sent"} => Delivered(data, got) /\ Len(got) <= MaxSize
  /\ state \in Outcomes =>
       /\ state = Outcome(got, before)
       /\ inBuf = IF state = "decoded" THEN Decoded(got, before) ELSE before

CodecInv == CodecTyped /\ CodecKept

\* The two bytes that may follow a frame are the beginning of another.
LEMMA DeliveredMore ==
  ASSUME NEW frame \in Seq(Byte), NEW rest \in Seq(Byte)
  PROVE  Delivered(frame, frame \o rest)
<1>1. Joint(frame \o rest, frame, Len(frame), rest, Len(rest))
  BY Behind
<1> QED
  BY <1>1, LenProperties DEF Joint, Delivered

\* recv() may deliver a part of a frame.
LEMMA DeliveredPart ==
  ASSUME NEW frame \in Seq(Byte), NEW k \in 1 .. Len(frame) - 1
  PROVE  Delivered(frame, SubSeq(frame, 1, k))
<1>1. Len(frame) \in Nat /\ \A i \in 1 .. Len(frame) : frame[i] \in Byte
  BY LenProperties
<1>2. PICK d : d = SubSeq(frame, 1, k)
  OBVIOUS
<1>3. d = [i \in 1 .. k |-> frame[i]]
  BY <1>1, <1>2
<1>4. d \in [1 .. k -> Byte] /\ k \in Nat
  BY <1>1, <1>3
<1>5. d \in Seq(Byte) /\ Len(d) = k
  BY <1>4, FunctionSeq
<1> QED
  BY <1>2, <1>3, <1>5 DEF Delivered

\* If the sum did not wrap, and resize() did not throw, the payload fits.
LEMMA NoWrap ==
  ASSUME NEW d, NEW buf, Outcome(d, buf) = "decoded", Len(buf) \in Nat, FrameLen(d) \in Nat
  PROVE  Len(buf) + FrameLen(d) <= MaxVector
<1>1. PICK n \in Nat, k \in {Resized(d, buf)} : n = Len(buf) + FrameLen(d)
  OBVIOUS
<1>2. k = IF n < SizeMax THEN n ELSE n - SizeMax
  BY <1>1 DEF Resized
<1>3. ~(k > MaxVector) /\ ~(k < n)
  BY <1>1 DEF Outcome
<1> QED
  BY <1>1, <1>2, <1>3, FrameAssumption DEF FrameAssumption

\* The sum wraps only for a length of at least half the values of std::size_t.
LEMMA Wrap ==
  ASSUME NEW d, NEW buf, Outcome(d, buf) = "overrun", Len(buf) \in Nat, Len(buf) <= MaxVector,
         FrameLen(d) \in Nat
  PROVE  FrameLen(d) >= SizeMax \div 2
<1>1. PICK m \in Nat, n \in Nat, k \in {Resized(d, buf)} : m = Len(buf) /\ n = FrameLen(d)
  OBVIOUS
<1>0. PICK sum \in Nat : sum = m + n /\ sum = Len(buf) + FrameLen(d)
  BY <1>1
<1>2. k = IF sum < SizeMax THEN sum ELSE sum - SizeMax
  BY <1>0 DEF Resized
<1>3. k < sum
  BY <1>0 DEF Outcome
<1>4. PICK h \in Int : h = SizeMax \div 2 /\ 2 * h <= SizeMax /\ SizeMax \in Nat
  BY FrameAssumption DEF FrameAssumption
<1>5. MaxVector \in Nat /\ MaxVector < h /\ m <= MaxVector
  BY <1>1, <1>4, FrameAssumption DEF FrameAssumption
<1>6. m + n >= SizeMax
  BY <1>0, <1>2, <1>3, <1>4
<1>7. n >= h
  BY <1>4, <1>5, <1>6
<1> QED
  BY <1>1, <1>4, <1>7

\* The buffer grows by the announced length.
Sized(d, buf) ==
  /\ Outcome(d, buf) \in Outcomes
  /\ Outcome(d, buf) \in {"decoded", "overrun"} => FrameLen(d) \in Nat
  /\ Outcome(d, buf) = "decoded" =>
       /\ Decoded(d, buf) \in Seq(Byte \cup {Stale})
       /\ Len(Decoded(d, buf)) = Len(buf) + FrameLen(d)
       /\ Len(Decoded(d, buf)) <= MaxVector

\* What decode() says of the bytes it is given of a frame, and what it leaves in
\* the buffer.
Decision(frame, d, buf, payload, fin, opcode, masked) ==
  /\ Sized(d, buf)
  /\ Outcome(d, buf) = "stale header" => Len(d) < Len(frame)
  /\ Outcome(d, buf) = "decoded" =>
       /\ Len(d) < Len(frame) =>
            \E i \in 1 .. Len(Decoded(d, buf)) : Decoded(d, buf)[i] = Stale
       /\ Len(frame) <= Len(d) =>
            /\ Decoded(d, buf) \in Seq(Byte)
            /\ masked \/ buf = <<>> => Decoded(d, buf) = buf \o payload
       /\ FIN(d) = fin
       /\ d[1] % (MaxOpcode + 1) = opcode

\* That is so for every frame and whatever is delivered of it.
LEMMA AfterDecode ==
  ASSUME NEW payload \in Seq(Byte), NEW fin, NEW opcode, NEW masked \in BOOLEAN, NEW frame,
         Encoded(frame, payload, fin, opcode, masked), NEW d, Delivered(frame, d),
         NEW buf \in Seq(Byte), Len(buf) <= MaxVector
  PROVE  Decision(frame, d, buf, payload, fin, opcode, masked)
<1>1. Outcome(d, buf) \in Outcomes
  BY DEF Outcome, Outcomes
<1>2. /\ d \in Seq(Byte) /\ Len(d) \in Nat /\ frame \in Seq(Byte) /\ Len(frame) \in Nat
      /\ Len(payload) \in Nat /\ Len(frame) = HeaderSize(frame) + Len(payload)
  BY LenProperties DEF Encoded, Delivered
<1>3. PICK k \in Nat : k = HeaderSize(frame) /\ k >= 2 /\ k <= Len(frame)
  BY <1>2, HeaderSizes
<1>4. Len(d) >= 2 => HeaderSize(d) = k
  <2>1. Len(d) >= 2 => d[2] = frame[2]
    BY <1>2, <1>3 DEF Delivered
  <2> QED
    BY <1>3, <2>1, SameHeader
<1>5. ASSUME Outcome(d, buf) = "stale header" PROVE Len(d) < Len(frame)
  <2>1. ~(Len(d) < 2) /\ Len(d) < HeaderSize(d)
    BY <1>5 DEF Outcome
  <2>2. HeaderSize(d) = k
    BY <1>2, <1>4, <2>1
  <2> QED
    BY <1>2, <1>3, <2>1, <2>2
<1>6. ASSUME Outcome(d, buf) = "decoded"
      PROVE  /\ Decoded(d, buf) \in Seq(Byte \cup {Stale})
             /\ Len(Decoded(d, buf)) = Len(buf) + FrameLen(d)
             /\ Len(Decoded(d, buf)) <= MaxVector
             /\ Len(d) < Len(frame) =>
                  \E i \in 1 .. Len(Decoded(d, buf)) : Decoded(d, buf)[i] = Stale
             /\ Len(frame) <= Len(d) =>
                  /\ Decoded(d, buf) \in Seq(Byte)
                  /\ masked \/ buf = <<>> => Decoded(d, buf) = buf \o payload
             /\ FIN(d) = fin
             /\ d[1] % (MaxOpcode + 1) = opcode
  <2>1. ~(Len(d) < 2) /\ ~(Len(d) < HeaderSize(d))
    BY <1>6 DEF Outcome
  <2>2. Len(d) >= 2 /\ HeaderSize(d) = k /\ Len(d) >= HeaderSize(d)
    BY <1>2, <1>4, <2>1
  <2>3. Found(d, payload, fin, opcode, masked)
    BY <2>2, DecodeDelivered
  <2>4. FrameLen(d) = Len(payload) /\ Len(buf) \in Nat /\ Len(buf) + Len(payload) <= MaxVector
    <3>1. FrameLen(d) = Len(payload) /\ Len(buf) \in Nat
      BY <2>3, LenProperties DEF Found
    <3> QED
      BY <1>2, <1>6, <3>1, NoWrap
  <2>5. PICK out : out = Decoded(d, buf)
    OBVIOUS
  <2>6. Filled(d, buf, payload, masked, out)
    <3>1. HeaderSize(d) <= Len(d)
      BY <1>2, <1>3, <2>2
    <3> QED
      BY <1>2, <2>3, <2>5, <3>1, DecodedBuffer
  <2>7. HeaderSize(d) + Len(payload) = Len(frame)
    BY <1>2, <1>3, <2>2
  <2> QED
    BY <2>3, <2>4, <2>5, <2>6, <2>7 DEF Found, Filled
<1>7. ASSUME Outcome(d, buf) \in {"decoded", "overrun"} PROVE FrameLen(d) \in Nat
  <2>1. ~(Len(d) < 2) /\ ~(Len(d) < HeaderSize(d))
    BY <1>7 DEF Outcome
  <2>2. Len(d) >= 2 /\ HeaderSize(d) = k /\ Len(d) >= HeaderSize(d)
    BY <1>2, <1>4, <2>1
  <2>3. Found(d, payload, fin, opcode, masked)
    BY <2>2, DecodeDelivered
  <2> QED
    BY <1>2, <2>3 DEF Found
<1> QED
  BY <1>1, <1>5, <1>6, <1>7, Zenon DEF Decision, Sized

\* Whatever bytes there are behind a header, they are those of some payload.
LEMMA SomePayload ==
  ASSUME NEW d \in Seq(Byte), Len(d) >= 2, Len(d) >= HeaderSize(d), FrameLen(d) \in Nat
  PROVE  \E payload \in Seq(Byte) : Found(d, payload, FIN(d), d[1] % (MaxOpcode + 1), MASK(d))
<1> DEFINE Known(i) == HeaderSize(d) + i <= Len(d)
           payload == [i \in 1 .. FrameLen(d) |-> IF Known(i) THEN Unmasked(d, i) ELSE 0]
<1>1. Len(d) \in Nat /\ \A i \in 1 .. Len(d) : d[i] \in Byte
  BY LenProperties
<1>2. ASSUME NEW i \in 1 .. FrameLen(d), Known(i) PROVE Unmasked(d, i) \in Byte
  <2>1. PICK k \in Nat : k = HeaderSize(d) /\ k >= 2
    BY HeaderSizes
  <2>2. k + i \in 1 .. Len(d)
    BY <1>1, <1>2, <2>1
  <2>3. d[HeaderSize(d) + i] \in Byte
    BY <1>1, <2>1, <2>2
  <2>4. CASE MASK(d)
    <3>1. PICK o \in {2, 4, 10} : o = PayloadOffset(d)
      BY HeaderSizes
    <3>2. k = o + 4
      BY <2>1, <2>4, <3>1 DEF HeaderSize
    <3>3. PICK j \in 0 .. 3 : j = (i - 1) % 4
      OBVIOUS
    <3>4. o + 1 + j \in 1 .. Len(d)
      BY <1>1, <2>1, <3>2
    <3>5. d[PayloadOffset(d) + 1 + ((i - 1) % 4)] \in Byte
      BY <1>1, <3>1, <3>3, <3>4
    <3> QED
      BY <2>3, <2>4, <3>5, FrameAssumption DEF FrameAssumption, Unmasked
  <2>5. CASE ~MASK(d)
    BY <2>3, <2>5 DEF Unmasked
  <2> QED
    BY <2>4, <2>5
<1>3. 0 \in Byte
  BY Bytes DEF Byte
<1>4. payload \in [1 .. FrameLen(d) -> Byte]
  BY <1>2, <1>3
<1>5. \A i \in 1 .. FrameLen(d) : payload[i] = IF Known(i) THEN Unmasked(d, i) ELSE 0
  OBVIOUS
<1> HIDE DEF payload
<1>6. payload \in Seq(Byte) /\ Len(payload) = FrameLen(d)
  BY <1>4, FunctionSeq
<1>7. Found(d, payload, FIN(d), d[1] % (MaxOpcode + 1), MASK(d))
  BY <1>5, <1>6 DEF Found, PayloadByte
<1> QED
  BY <1>6, <1>7

\* Of a frame that no recv() can deliver whole, decode() finds no whole payload.
LEMMA AfterStart ==
  ASSUME NEW frame, Announced(frame), NEW d, Delivered(frame, d), Len(d) <= MaxSize,
         NEW buf \in Seq(Byte), Len(buf) <= MaxVector
  PROVE  /\ Sized(d, buf)
         /\ Outcome(d, buf) = "decoded" =>
              \E i \in 1 .. Len(Decoded(d, buf)) : Decoded(d, buf)[i] = Stale
<1>1. /\ d \in Seq(Byte) /\ Len(d) \in Nat /\ frame \in Seq(Byte) /\ Len(frame) \in Nat
      /\ Len(frame) = HeaderSize(frame) /\ Len(buf) \in Nat
  BY LenProperties DEF Announced, Delivered
<1>2. PICK k \in Nat : k = HeaderSize(frame) /\ k >= 2
  BY HeaderSizes
<1>3. Outcome(d, buf) \in Outcomes
  BY DEF Outcome, Outcomes
<1>4. ASSUME Outcome(d, buf) \in {"decoded", "overrun"}
      PROVE  Len(d) >= 2 /\ Len(d) >= HeaderSize(d) /\ FrameLen(d) \in Nat /\ FrameLen(d) > MaxSize
  <2>1. ~(Len(d) < 2) /\ ~(Len(d) < HeaderSize(d))
    BY <1>4 DEF Outcome
  <2>2. Len(d) >= 2 /\ d[2] = frame[2]
    BY <1>1, <1>2, <2>1 DEF Delivered
  <2>3. HeaderSize(d) = k /\ Len(d) >= k
    BY <1>1, <1>2, <2>1, <2>2, SameHeader
  <2>4. FrameLen(d) = FrameLen(frame)
    BY <1>1, <1>2, <2>3, SameLength
  <2>5. FrameLen(frame) \in Nat /\ FrameLen(frame) > MaxSize
    BY FrameAssumption DEF Announced, FrameAssumption
  <2> QED
    BY <2>2, <2>3, <2>4, <2>5
<1>5. ASSUME Outcome(d, buf) = "decoded"
      PROVE  /\ Decoded(d, buf) \in Seq(Byte \cup {Stale})
             /\ Len(Decoded(d, buf)) = Len(buf) + FrameLen(d)
             /\ Len(Decoded(d, buf)) <= MaxVector
             /\ \E i \in 1 .. Len(Decoded(d, buf)) : Decoded(d, buf)[i] = Stale
  <2>1. Len(d) >= 2 /\ Len(d) >= HeaderSize(d) /\ FrameLen(d) \in Nat /\ FrameLen(d) > MaxSize
    BY <1>4, <1>5
  <2>2. PICK payload \in Seq(Byte), masked \in BOOLEAN, fin \in {FIN(d)}, opcode \in {d[1] % (MaxOpcode + 1)} :
          Found(d, payload, fin, opcode, masked)
    <3>1. MASK(d) \in BOOLEAN
      BY DEF MASK
    <3> QED
      BY <1>1, <2>1, <3>1, SomePayload
  <2>3. PICK out : out = Decoded(d, buf)
    OBVIOUS
  <2>4. PICK h \in Nat : h = HeaderSize(d)
    BY HeaderSizes
  <2>5. h <= Len(d) /\ Len(d) < h + Len(payload) /\ Len(payload) = FrameLen(d)
    BY <1>1, <2>1, <2>2, <2>4, FrameAssumption DEF Found, FrameAssumption
  <2>6. Filled(d, buf, payload, masked, out)
    BY <1>1, <2>2, <2>3, <2>4, <2>5, DecodedBuffer
  <2>7. Len(buf) + FrameLen(d) <= MaxVector
    BY <1>1, <1>5, <2>1, NoWrap
  <2> QED
    BY <2>3, <2>4, <2>5, <2>6, <2>7 DEF Filled
<1> QED
  BY <1>3, <1>4, <1>5 DEF Sized

\* Nothing has been sent at first.
LEMMA CodecInitially == Init => CodecInv
<1> SUFFICES ASSUME Init PROVE CodecInv
  OBVIOUS
<1>1. /\ msg = NoMessage /\ data = <<>> /\ got = <<>> /\ inBuf = <<>> /\ before = <<>>
      /\ frames = 0 /\ state = "idle"
  BY DEF Init
<1>2. <<>> \in Seq(Byte) /\ <<>> \in Seq(Byte \cup {Stale}) /\ Len(<<>>) = 0
  BY EmptySeq
<1>3. 0 <= MaxVector /\ 0 \in 0 .. MaxFrames
  BY FrameAssumption
<1>4. CodecTyped
  BY <1>1, <1>2, <1>3 DEF CodecTyped, NoMessage
<1>5. CodecKept
  BY <1>1 DEF CodecKept, Sending, Outcomes
<1> QED
  BY <1>4, <1>5 DEF CodecInv

\* A frame is made: by the server, or by a client.
LEMMA CodecSend ==
  ASSUME CodecInv, state = "idle", UNCHANGED <<got, inBuf, before>>,
         NEW by \in {"server", "client", "starter"}, NEW payload \in Seq(Byte), NEW fin \in BOOLEAN, NEW opcode,
         msg' = [by |-> by, payload |-> payload, fin |-> fin, opcode |-> opcode],
         frames' \in 0 .. MaxFrames,
         \/ state' = "sent" /\ by # "starter" /\ Encoded(data', payload, fin, opcode, by = "client")
         \/ state' = "sent" /\ by = "starter" /\ Announced(data')
         \/ state' = "refused" /\ data' = <<>>
  PROVE  CodecInv'
<1>1. data' \in Seq(Byte)
  BY EmptySeq DEF Encoded, Announced
<1>2. state' \in {"sent", "refused"}
  OBVIOUS
<1>3. inBuf \in Seq(Byte)
  BY DEF CodecInv, CodecTyped, Outcomes
<1>4. CodecTyped'
  BY <1>1, <1>2, <1>3 DEF CodecInv, CodecTyped, Sending
<1>5. CodecKept'
  BY <1>2 DEF CodecKept, Sending, Outcomes
<1> QED
  BY <1>4, <1>5 DEF CodecInv

\* The constructor of WebSocketFrame.
LEMMA CodecConstruct ==
  ASSUME CodecInv, NEW n \in Lengths, NEW fin \in BOOLEAN, NEW opcode \in {1, 10, 16},
         Construct(n, fin, opcode)
  PROVE  CodecInv'
<1>1. n \in Nat /\ opcode \in Nat /\ MaxFrames \in 0 .. MaxFrames
  BY FrameAssumption
<1>2. PayloadOf(n) \in Seq(Byte) /\ Len(PayloadOf(n)) = n
  BY <1>1, PayloadOfBytes
<1>3. PICK payload \in Seq(Byte) : payload = PayloadOf(n) /\ Len(payload) = n
  BY <1>2
<1>4. /\ state = "idle" /\ UNCHANGED <<got, inBuf, before>> /\ frames' = MaxFrames
      /\ msg' = [by |-> "server", payload |-> payload, fin |-> fin, opcode |-> opcode]
  BY <1>3 DEF Construct
<1>5. CASE Accepts(n, opcode)
  <2>1. data' = Frame(payload, fin, opcode) /\ state' = "sent"
    BY <1>3, <1>5 DEF Construct
  <2>2. Encoded(data', payload, fin, opcode, FALSE)
    BY <1>1, <1>3, <1>5, <2>1, ServerEncoded
  <2>3. ("server" = "client") = FALSE
    OBVIOUS
  <2>4. Encoded(data', payload, fin, opcode, "server" = "client")
    BY <2>2, <2>3
  <2> QED
    BY <1>1, <1>4, <2>1, <2>4, CodecSend
<1>6. CASE ~Accepts(n, opcode)
  <2>1. data' = <<>> /\ state' = "refused"
    BY <1>6 DEF Construct
  <2> QED
    BY <1>1, <1>4, <2>1, CodecSend
<1> QED
  BY <1>5, <1>6

\* A client's frame.
LEMMA CodecClient ==
  ASSUME CodecInv, NEW n \in Lengths, NEW fin \in BOOLEAN, NEW opcode \in {0, 2},
         NEW form \in {"7", "16", "64"}, ClientSends(n, fin, opcode, form)
  PROVE  CodecInv'
<1>1. n \in Nat /\ opcode \in 0 .. MaxOpcode
  BY FrameAssumption DEF MaxOpcode
<1>2. PayloadOf(n) \in Seq(Byte) /\ Len(PayloadOf(n)) = n
  BY <1>1, PayloadOfBytes
<1>3. PICK payload \in Seq(Byte) : payload = PayloadOf(n) /\ Len(payload) = n
  BY <1>2
<1>4. /\ state = "idle" /\ UNCHANGED <<got, inBuf, before>>
      /\ msg' = [by |-> "client", payload |-> payload, fin |-> fin, opcode |-> opcode]
      /\ data' = ClientFrame(payload, fin, opcode, form) /\ state' = "sent" /\ Fits(Len(payload), form)
  BY <1>3 DEF ClientSends
<1>5. frames' \in 0 .. MaxFrames
  <2>1. frames \in 0 .. MaxFrames /\ MaxFrames \in Nat /\ frames < MaxFrames /\ frames' = frames + 1
    BY FrameAssumption DEF CodecInv, CodecTyped, ClientSends
  <2> QED
    BY <2>1
<1>6. Encoded(data', payload, fin, opcode, TRUE)
  BY <1>1, <1>4, ClientEncoded
<1>7. ("client" = "client") = TRUE
  OBVIOUS
<1>8. Encoded(data', payload, fin, opcode, "client" = "client")
  BY <1>6, <1>7
<1> QED
  BY <1>4, <1>5, <1>8, CodecSend

\* The header of a long frame tells its length.
LEMMA Beginning ==
  ASSUME NEW field \in [1 .. 8 -> Byte], Ntoh64(field) \in MaxSize + 1 .. SizeMax - 1,
         NEW fin \in BOOLEAN, NEW opcode \in 0 .. MaxOpcode,
         NEW d, d = ClientBeginning(field, fin, opcode)
  PROVE  Announced(d)
<1>1. PICK hd, h, m : hd = <<h, m>> /\ h = (IF fin THEN Half ELSE 0) + opcode /\ m = Half + Len64
  OBVIOUS
<1>2. h \in Byte /\ m \in Byte
  <2>1. h \in Byte
    BY <1>1, FirstByte
  <2> QED
    BY <1>1, <2>1, Bytes DEF Byte
<1>3. hd \in Seq(Byte) /\ Len(hd) = 2 /\ hd[2] = m
  BY <1>1, <1>2
<1>4. field \in Seq(Byte) /\ Len(field) = 8
  BY FunctionSeq
<1>5. d = hd \o field \o Key
  BY <1>1 DEF ClientBeginning
<1>6. Row(hd, field, Key, d)
  BY <1>3, <1>4, <1>5, KeyBytes, ThreeParts
<1>7. d \in Seq(Byte) /\ Len(d) = 14 /\ d[2] = m /\ \A i \in 1 .. 8 : d[2 + i] = field[i]
  <2>1. /\ d \in Seq(Byte) /\ Len(d) = 2 + 8 + 4
        /\ \A i \in 1 .. 2 : d[i] = hd[i]
        /\ \A i \in 1 .. 8 : d[2 + i] = field[i]
    BY <1>3, <1>4, <1>6, KeyBytes DEF Row
  <2> QED
    BY <1>3, <2>1
<1>8. MASK(d) /\ Length7(d) = Len64
  <2>1. Half + Len64 >= Half /\ (Half + Len64) % Half = Len64
    BY Bytes
  <2> QED
    BY <1>1, <1>7, <2>1 DEF MASK, Length7
<1>9. Len16 # Len64
  BY Bytes
<1>10. HeaderSize(d) = 14
  BY <1>8, <1>9 DEF HeaderSize, PayloadOffset
<1>11. SubSeq(d, 3, 10) = field
  <2>1. SubSeq(d, 3, 10) = [i \in 1 .. 8 |-> d[2 + i]]
    BY <1>7
  <2>2. field = [i \in 1 .. 8 |-> field[i]]
    OBVIOUS
  <2> QED
    BY <1>7, <2>1, <2>2
<1>12. FrameLen(d) = Ntoh64(field)
  BY <1>8, <1>9, <1>11 DEF FrameLen
<1> QED
  BY <1>7, <1>10, <1>12 DEF Announced

\* The header of a long frame.
LEMMA CodecStarts ==
  ASSUME CodecInv, NEW field \in LongFields, NEW fin \in BOOLEAN, NEW opcode \in {0, 2},
         ClientStarts(field, fin, opcode)
  PROVE  CodecInv'
<1>1. opcode \in 0 .. MaxOpcode
  BY DEF MaxOpcode
<1>2. field \in [1 .. 8 -> Byte] /\ Ntoh64(field) \in MaxSize + 1 .. SizeMax - 1
  BY FrameAssumption, Zenon DEF FrameAssumption
<1>3. PICK payload \in Seq(Byte) : payload = <<>>
  BY EmptySeq
<1>4. /\ state = "idle" /\ UNCHANGED <<got, inBuf, before>>
      /\ msg' = [by |-> "starter", payload |-> payload, fin |-> fin, opcode |-> opcode]
      /\ data' = ClientBeginning(field, fin, opcode) /\ state' = "sent"
  BY <1>3 DEF ClientStarts
<1>5. frames' \in 0 .. MaxFrames
  <2>1. frames \in 0 .. MaxFrames /\ MaxFrames \in Nat /\ frames < MaxFrames /\ frames' = frames + 1
    BY FrameAssumption DEF CodecInv, CodecTyped, ClientStarts, FrameAssumption
  <2> QED
    BY <2>1
<1>6. Announced(data')
  BY <1>1, <1>2, <1>4, Beginning
<1> QED
  BY <1>4, <1>5, <1>6, CodecSend

\* recv().
LEMMA CodecReceive ==
  ASSUME CodecInv, Receive
  PROVE  CodecInv'
<1>1. state = "sent" /\ state' = "received" /\ UNCHANGED <<msg, data, inBuf, before, frames>>
  BY DEF Receive
<1>2. data \in Seq(Byte)
  BY DEF CodecInv, CodecTyped
<1>3. Delivered(data, got')
  <2>1. CASE got' = data
    BY <1>2, <2>1 DEF Delivered
  <2>2. CASE got' = data \o <<Half + 1, Half + 1>>
    <3>1. PICK rest : rest = <<Half + 1, Half + 1>>
      OBVIOUS
    <3>2. Half + 1 \in Byte
      BY Bytes DEF Byte
    <3>3. rest \in Seq(Byte)
      BY <3>1, <3>2
    <3> QED
      BY <1>2, <2>2, <3>1, <3>3, DeliveredMore
  <2>3. ASSUME NEW k \in 1 .. Len(data) - 1, got' = SubSeq(data, 1, k)
        PROVE  Delivered(data, got')
    BY <1>2, <2>3, DeliveredPart
  <2> QED
    BY <2>1, <2>2, <2>3 DEF Receive
<1>4. CodecTyped'
  BY <1>1, <1>3 DEF CodecInv, CodecTyped, Sending, Outcomes, Delivered
<1>6. Len(got') <= MaxSize
  BY DEF Receive
<1>5. CodecKept'
  BY <1>1, <1>3, <1>6 DEF CodecInv, CodecKept, Sending, Outcomes
<1> QED
  BY <1>4, <1>5 DEF CodecInv

\* The buffer grows by the announced length, whichever frame was begun.
LEMMA SizedEither ==
  ASSUME NEW buf \in Seq(Byte), Len(buf) <= MaxVector, msg.payload \in Seq(Byte),
         msg.by # "starter" => Encoded(data, msg.payload, msg.fin, msg.opcode, msg.by = "client"),
         msg.by = "starter" => Announced(data),
         Delivered(data, got), Len(got) <= MaxSize
  PROVE  Sized(got, buf)
<1>1. CASE msg.by = "starter"
  BY <1>1, AfterStart
<1>2. CASE msg.by # "starter"
  <2>1. PICK masked, payload, fin, opcode :
          masked \in BOOLEAN /\ payload \in Seq(Byte) /\ Encoded(data, payload, fin, opcode, masked)
    BY <1>2
  <2>2. Decision(data, got, buf, payload, fin, opcode, masked)
    BY <2>1, AfterDecode
  <2> QED
    BY <2>2, Zenon DEF Decision
<1> QED
  BY <1>1, <1>2

\* decode().
LEMMA CodecDecode ==
  ASSUME CodecInv, Decode
  PROVE  CodecInv'
<1>1. /\ state = "received" /\ state' = Outcome(got, inBuf) /\ before' = inBuf
      /\ inBuf' = IF Outcome(got, inBuf) = "decoded" THEN Decoded(got, inBuf) ELSE inBuf
      /\ UNCHANGED <<msg, data, got, frames>>
  BY DEF Decode
<1>2. /\ inBuf \in Seq(Byte) /\ Len(inBuf) <= MaxVector /\ msg.payload \in Seq(Byte)
      /\ msg.by # "starter" => Encoded(data, msg.payload, msg.fin, msg.opcode, msg.by = "client")
      /\ msg.by = "starter" => Announced(data)
      /\ Delivered(data, got) /\ Len(got) <= MaxSize
  BY <1>1 DEF CodecInv, CodecTyped, CodecKept, Sending, Outcomes
<1>6. Sized(got, inBuf)
  BY <1>2, SizedEither
<1>3. /\ Outcome(got, inBuf) \in Outcomes
      /\ Outcome(got, inBuf) = "decoded" =>
           /\ Decoded(got, inBuf) \in Seq(Byte \cup {Stale})
           /\ Len(Decoded(got, inBuf)) <= MaxVector
  BY <1>6, Zenon DEF Sized
<1>4. CodecTyped'
  BY <1>1, <1>2, <1>3 DEF CodecInv, CodecTyped, Sending
<1>5. CodecKept'
  BY <1>1, <1>2, <1>3 DEF CodecInv, CodecKept, Sending, Outcomes
<1> QED
  BY <1>4, <1>5 DEF CodecInv

\* Of two lengths.
LEMMA Shorter ==
  ASSUME NEW a \in Nat, NEW b \in Nat
  PROVE  ~(a <= b) <=> b < a
OBVIOUS

\* Bytes are not stale.
LEMMA StaleNotIn ==
  ASSUME NEW s \in Seq(Byte)
  PROVE  ~\E i \in 1 .. Len(s) : s[i] = Stale
<1>1. \A b \in Byte : b >= 0
  BY Bytes DEF Byte
<1>2. ~(Stale >= 0)
  BY DEF Stale
<1>3. \A i \in 1 .. Len(s) : s[i] \in Byte
  BY LenProperties
<1> QED
  BY <1>1, <1>2, <1>3, Zenon

\* What holds between a decode() and the next frame.
LEMMA AfterDecoded ==
  ASSUME CodecInv
  PROVE  /\ state = "stale header" => ~Whole
         /\ state = "decoded" =>
              /\ ~Whole => \E i \in 1 .. Len(inBuf) : inBuf[i] = Stale
              /\ Whole => /\ inBuf \in Seq(Byte)
                          /\ msg.by = "client" \/ before = <<>> => inBuf = before \o msg.payload
                          /\ FIN(got) = msg.fin
                          /\ got[1] % (MaxOpcode + 1) = msg.opcode
<1> SUFFICES ASSUME state \in {"stale header", "decoded"}
             PROVE  /\ state = "stale header" => ~Whole
                    /\ state = "decoded" =>
                         /\ ~Whole => \E i \in 1 .. Len(inBuf) : inBuf[i] = Stale
                         /\ Whole => /\ inBuf \in Seq(Byte)
                                     /\ msg.by = "client" \/ before = <<>> => inBuf = before \o msg.payload
                                     /\ FIN(got) = msg.fin
                                     /\ got[1] % (MaxOpcode + 1) = msg.opcode
  OBVIOUS
<1>1. /\ before \in Seq(Byte) /\ Len(before) <= MaxVector /\ msg.payload \in Seq(Byte)
      /\ msg.by # "starter" => Encoded(data, msg.payload, msg.fin, msg.opcode, msg.by = "client")
      /\ msg.by = "starter" => Announced(data)
      /\ Delivered(data, got) /\ Len(got) <= MaxSize /\ Outcome(got, before) = state
      /\ state = "decoded" => inBuf = Decoded(got, before)
  BY DEF CodecInv, CodecTyped, CodecKept, Sending, Outcomes
<1>2. CASE msg.by = "starter"
  <2>1. ~Whole
    BY <1>2 DEF Whole
  <2>2. state = "decoded" => \E i \in 1 .. Len(inBuf) : inBuf[i] = Stale
    BY <1>1, <1>2, AfterStart
  <2> QED
    BY <2>1, <2>2
<1>3. CASE msg.by # "starter"
  <2>2. PICK masked \in BOOLEAN, payload \in Seq(Byte), fin \in {msg.fin}, opcode \in {msg.opcode} :
          /\ masked = (msg.by = "client") /\ payload = msg.payload /\ fin = msg.fin /\ opcode = msg.opcode
          /\ Encoded(data, payload, fin, opcode, masked)
    BY <1>1, <1>3
  <2>3. Len(got) \in Nat /\ Len(data) \in Nat
    BY <1>1, <2>2, LenProperties DEF Encoded, Delivered
  <2>4. Whole <=> Len(data) <= Len(got)
    BY <1>3, <2>3 DEF Whole
  <2>5. ~Whole <=> Len(got) < Len(data)
    <3>1. ~(Len(data) <= Len(got)) <=> Len(got) < Len(data)
      BY <2>3, Shorter, Zenon
    <3> QED
      BY <2>4, <3>1, Zenon
  <2>6. /\ state = "stale header" => Len(got) < Len(data)
        /\ state = "decoded" =>
             /\ Len(got) < Len(data) => \E i \in 1 .. Len(inBuf) : inBuf[i] = Stale
             /\ Len(data) <= Len(got) =>
                  /\ inBuf \in Seq(Byte)
                  /\ masked \/ before = <<>> => inBuf = before \o payload
             /\ FIN(got) = fin
             /\ got[1] % (MaxOpcode + 1) = opcode
    <3>1. Decision(data, got, before, payload, fin, opcode, masked)
      BY <1>1, <2>2, AfterDecode
    <3> QED
      BY <1>1, <3>1, Zenon DEF Decision
  <2>7. /\ state = "stale header" => ~Whole
        /\ state = "decoded" =>
             /\ ~Whole => \E i \in 1 .. Len(inBuf) : inBuf[i] = Stale
             /\ Whole => /\ inBuf \in Seq(Byte)
                         /\ masked \/ before = <<>> => inBuf = before \o payload
             /\ FIN(got) = fin
             /\ got[1] % (MaxOpcode + 1) = opcode
    BY <2>4, <2>5, <2>6, Zenon
  <2> QED
    BY <2>2, <2>7, Zenon
<1> QED
  BY <1>2, <1>3

\* The message goes on: the frame was whole, so no stale byte is left.
LEMMA CodecNext ==
  ASSUME CodecInv, NextFrame
  PROVE  CodecInv'
<1>1. /\ state = "decoded" /\ Whole /\ state' = "idle" /\ msg' = NoMessage
      /\ data' = <<>> /\ got' = <<>> /\ UNCHANGED <<inBuf, before, frames>>
  BY DEF NextFrame
<1>2. inBuf \in Seq(Byte)
  BY <1>1, AfterDecoded, Zenon
<1>4. CodecTyped'
  <2>1. <<>> \in Seq(Byte)
    BY EmptySeq
  <2> QED
    BY <1>1, <1>2, <2>1 DEF CodecInv, CodecTyped, NoMessage
<1>5. CodecKept'
  BY <1>1 DEF CodecKept, Sending, Outcomes
<1> QED
  BY <1>4, <1>5 DEF CodecInv

\* The invariant holds in every behaviour: decode() is given a part of a frame
\* or more than one, and its buffer is what it makes of that, in every form of a
\* frame's length.
THEOREM CodecInductive == Spec => []CodecInv
<1>1. ASSUME CodecInv, [Next]_vars PROVE CodecInv'
  <2>1. CASE UNCHANGED vars
    BY <1>1, <2>1 DEF vars, CodecInv, CodecTyped, CodecKept
  <2>2. CASE Next
    BY <1>1, <2>2, CodecConstruct, CodecClient, CodecStarts, CodecReceive, CodecDecode, CodecNext DEF Next
  <2> QED
    BY <1>1, <2>1, <2>2
<1> QED
  BY <1>1, CodecInitially, PTL DEF Spec

\* Every byte of a frame is one, whatever is sent and however it is split; the
\* buffer has bytes and stale bytes only, and no more than a vector may have.
THEOREM CodecTyping == Spec => []TypeOK
<1>1. CodecInv => TypeOK
  <2> SUFFICES ASSUME CodecInv PROVE TypeOK
    OBVIOUS
  <2>1. /\ \A i \in 1 .. Len(msg.payload) : msg.payload[i] \in Byte
        /\ \A i \in 1 .. Len(data) : data[i] \in Byte
        /\ \A i \in 1 .. Len(got) : got[i] \in Byte
        /\ \A i \in 1 .. Len(before) : before[i] \in Byte
        /\ \A i \in 1 .. Len(inBuf) : inBuf[i] \in Byte \cup {Stale}
    BY DEF CodecInv, CodecTyped
  <2> QED
    BY <2>1 DEF CodecInv, CodecTyped, TypeOK, Sending, Outcomes
<1> QED
  BY <1>1, CodecInductive, PTL

\* A frame that arrived in one piece is decoded to what was sent.
THEOREM CodecInverts == Spec => []DecodeInverts
<1>1. CodecInv => DecodeInverts
  <2> SUFFICES ASSUME CodecInv, state = "decoded", Whole, msg.by = "server" => before = <<>>
               PROVE  /\ inBuf = before \o msg.payload
                      /\ FIN(got) = msg.fin
                      /\ got[1] % (MaxOpcode + 1) = msg.opcode
    BY DEF DecodeInverts
  <2>1. msg.by = "client" \/ before = <<>>
    BY DEF CodecInv, CodecKept, Sending, Outcomes, Whole
  <2> QED
    BY <2>1, AfterDecoded
<1> QED
  BY <1>1, CodecInductive, PTL

\* decode() works on bytes that were not received exactly if the frame was
\* split: after any byte, and however long the frame is.
THEOREM CodecStale == Spec => []StaleIffSplit
<1>1. CodecInv => StaleIffSplit
  <2> SUFFICES ASSUME CodecInv, state \in {"decoded", "stale header"}
               PROVE  (~Whole) = (state = "stale header" \/ \E i \in 1 .. Len(inBuf) : inBuf[i] = Stale)
    BY DEF StaleIffSplit
  <2>1. state = "stale header" => ~Whole
    BY AfterDecoded
  <2>2. state = "decoded" /\ ~Whole => \E i \in 1 .. Len(inBuf) : inBuf[i] = Stale
    BY AfterDecoded
  <2>3. state = "decoded" /\ Whole => inBuf \in Seq(Byte)
    BY AfterDecoded
  <2>4. state = "decoded" /\ Whole => ~\E i \in 1 .. Len(inBuf) : inBuf[i] = Stale
    BY <2>3, StaleNotIn, Zenon
  <2>5. ~Whole <=> (state = "stale header" \/ \E i \in 1 .. Len(inBuf) : inBuf[i] = Stale)
    BY <2>1, <2>2, <2>4, Zenon
  <2> QED
    BY <2>5, Zenon DEF Whole
<1> QED
  BY <1>1, CodecInductive, PTL

\* decode() enlarges the buffer by the announced length or throws, unless the
\* length has its top bit set.
THEOREM CodecLengths == Spec => []LengthsKept
<1>1. CodecInv => LengthsKept
  <2> SUFFICES ASSUME CodecInv, state \in {"decoded", "overrun"}
               PROVE  /\ state = "decoded" => Len(inBuf) = Len(before) + FrameLen(got)
                      /\ state = "overrun" => FrameLen(got) >= SizeMax \div 2
    BY DEF LengthsKept
  <2>1. /\ before \in Seq(Byte) /\ Len(before) <= MaxVector /\ msg.payload \in Seq(Byte)
        /\ msg.by # "starter" => Encoded(data, msg.payload, msg.fin, msg.opcode, msg.by = "client")
        /\ msg.by = "starter" => Announced(data)
        /\ Delivered(data, got) /\ Len(got) <= MaxSize /\ Outcome(got, before) = state
        /\ state = "decoded" => inBuf = Decoded(got, before)
    BY DEF CodecInv, CodecTyped, CodecKept, Sending, Outcomes
  <2>2. Sized(got, before)
    BY <2>1, SizedEither
  <2>3. state = "decoded" => Len(inBuf) = Len(before) + FrameLen(got)
    BY <2>1, <2>2, Zenon DEF Sized
  <2>4. FrameLen(got) \in Nat /\ Len(before) \in Nat
    BY <2>1, <2>2, LenProperties DEF Sized
  <2>5. state = "overrun" => FrameLen(got) >= SizeMax \div 2
    BY <2>1, <2>4, Wrap
  <2> QED
    BY <2>3, <2>5
<1> QED
  BY <1>1, CodecInductive, PTL
=============================================================================
