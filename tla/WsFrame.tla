------------------------------ MODULE WsFrame -------------------------------
(***************************************************************************)
(* The frame codec: class WebSocketFrame (src/http/socks_ws_frame.cpp) and *)
(* hton and ntoh (src/tcp/socks_tcp_util.hpp), between the server, a       *)
(* client that encodes and masks as RFC 6455 says, and recv(), which       *)
(* delivers any prefix of what was sent, up to MAX_SIZE bytes, or more     *)
(* than one frame.                                                         *)
(*                                                                         *)
(* Bytes have Base values, 256 in the code: the upper half has bit 0x80    *)
(* set, and the two largest lengths of the lower half, 126 and 127, mark   *)
(* the longer forms.  The opcode is the lower four bits of a byte.         *)
(***************************************************************************)
EXTENDS Integers, Sequences

CONSTANTS
  Base,        \* number of values of a byte
  XorByte(_, _),  \* the operator ^ on bytes
  MaxSize,     \* MAX_SIZE: bytes one recv() may deliver
  MaxVector,   \* bytes a WsBuffer may have
  SizeMax,     \* number of values of std::size_t
  Lengths,     \* lengths of the payloads that are tried
  LongFields,  \* 64-bit length fields of frames that no recv() can deliver whole
  MaxFrames,   \* bound on the frames of a message
  MaxMessage   \* bound on the bytes of a message

Byte == 0 .. Base - 1
Half == Base \div 2
MaxOpcode == 15

-----------------------------------------------------------------------------
(* hton and ntoh for std::uint16_t, and ntoh for std::uint64_t.            *)

UINT16_MAX == Base * Base - 1

Hton16(value) == <<(value \div Base) % Base, value % Base>>
Ntoh16(d) == d[1] * Base + d[2]

Ntoh64(d) ==
  LET value[i \in 0 .. 8] == IF i = 0 THEN 0 ELSE value[i - 1] * Base + d[i]
  IN  value[8]

\* A vector has at most half as many bytes as std::size_t has values.
ASSUME FrameAssumption ==
  /\ Base \in Nat /\ Base > 2 * MaxOpcode + 1 /\ Base = 2 * Half /\ Half % (MaxOpcode + 1) = 0
  /\ \A a, b \in Byte : XorByte(a, b) \in Byte /\ XorByte(XorByte(a, b), b) = a
  /\ MaxSize \in Nat /\ MaxSize > 1
  /\ MaxVector \in Nat /\ SizeMax \in Nat /\ MaxVector < SizeMax \div 2
  /\ Lengths \subseteq Nat
  /\ \A field \in LongFields :
       field \in [1 .. 8 -> Byte] /\ Ntoh64(field) \in MaxSize + 1 .. SizeMax - 1
  /\ MaxFrames \in Nat /\ MaxMessage \in Nat

-----------------------------------------------------------------------------
(* The constructors and accessors of WebSocketFrame.                       *)

Len16 == Half - 2
Len64 == Half - 1

\* Mutant: the short form is also used for the length that marks the longer.
LengthFieldOffByOne(n) == IF n <= Len16 THEN <<n>> ELSE <<Len16>> \o Hton16(n)

LengthField(n) == IF n < Len16 THEN <<n>> ELSE <<Len16>> \o Hton16(n)

\* Otherwise the constructor throws std::invalid_argument.
Accepts(n, opcode) == opcode <= MaxOpcode /\ n <= UINT16_MAX

Frame(payload, fin, opcode) ==
  <<(IF fin THEN Half ELSE 0) + opcode>> \o LengthField(Len(payload)) \o payload

FIN(d) == d[1] >= Half
MASK(d) == d[2] >= Half
Length7(d) == d[2] % Half

\* payloadLength() throws for the 64-bit form, which no constructor produces.
PayloadLength(d) == IF Length7(d) = Len16 THEN Ntoh16(<<d[3], d[4]>>) ELSE Length7(d)

\* What payload() points to.
Payload(d) ==
  [i \in 1 .. PayloadLength(d) |-> d[(IF PayloadLength(d) < Len16 THEN 2 ELSE 4) + i]]

-----------------------------------------------------------------------------
(* WebSocketFrame::decode, given what recv() left in the buffer.           *)

\* A byte of the buffer that recv() did not write.
Stale == -1

PayloadOffset(d) ==
  CASE Length7(d) = Len16 -> 4
    [] Length7(d) = Len64 -> 10
    [] OTHER -> 2

\* Mutant: the masking key is not counted.
HeaderSizeWithoutKey(d) == PayloadOffset(d)

HeaderSize(d) == PayloadOffset(d) + IF MASK(d) THEN 4 ELSE 0

FrameLen(d) ==
  CASE Length7(d) = Len16 -> Ntoh16(<<d[3], d[4]>>)
    [] Length7(d) = Len64 -> Ntoh64(SubSeq(d, 3, 10))
    [] OTHER -> Length7(d)

\* Mutant: the key starts again with its second byte.
UnmaskedOffByOne(d, i) ==
  IF MASK(d) THEN XorByte(d[HeaderSize(d) + i], d[PayloadOffset(d) + 1 + (i % 4)])
  ELSE d[HeaderSize(d) + i]

Unmasked(d, i) ==
  IF MASK(d) THEN XorByte(d[HeaderSize(d) + i], d[PayloadOffset(d) + 1 + ((i - 1) % 4)])
  ELSE d[HeaderSize(d) + i]

\* The i-th payload byte, if it was received.
PayloadByte(d, i) == IF HeaderSize(d) + i <= Len(d) THEN Unmasked(d, i) ELSE Stale

\* The masked payload is appended to the buffer; an unmasked one is copied
\* to the start of the enlarged buffer, whose new bytes are zero.
Decoded(d, buf) ==
  IF MASK(d) THEN buf \o [i \in 1 .. FrameLen(d) |-> PayloadByte(d, i)]
  ELSE [i \in 1 .. Len(buf) + FrameLen(d) |->
          IF i <= FrameLen(d) THEN PayloadByte(d, i) ELSE IF i <= Len(buf) THEN buf[i] ELSE 0]

\* Mutant: the sum is computed in an integer of four bytes.
ResizedNarrow(d, buf) == (Len(buf) + FrameLen(d)) % (Base * Base * Base * Base)

\* payloadBuf.size() + frameLen: a sum of two std::size_t, which wraps.
Resized(d, buf) ==
  LET n == Len(buf) + FrameLen(d) IN IF n < SizeMax THEN n ELSE n - SizeMax

\* decode() throws for less than two bytes, and resize() when the sum is too
\* large.  With the header cut off it works with what the buffer held before;
\* with a sum that wrapped it writes behind the end of the buffer.
Outcome(d, buf) ==
  IF Len(d) < 2 THEN "header missing"
  ELSE IF Len(d) < HeaderSize(d) THEN "stale header"
  ELSE IF Resized(d, buf) > MaxVector THEN "length error"
  ELSE IF Resized(d, buf) < Len(buf) + FrameLen(d) THEN "overrun"
  ELSE "decoded"

-----------------------------------------------------------------------------
(* The client's encoder.                                                   *)

Zeros(n) == [i \in 1 .. n |-> 0]

\* The extended forms may be used for lengths that would fit a shorter one.
ClientHeader(n, form) ==
  CASE form = "7" -> <<Half + n>>
    [] form = "16" -> <<Half + Len16>> \o Hton16(n)
    [] form = "64" -> <<Half + Len64>> \o Zeros(5) \o <<n \div (Base * Base)>> \o Hton16(n)

Fits(n, form) ==
  CASE form = "7" -> n < Len16
    [] form = "16" -> n <= UINT16_MAX
    [] form = "64" -> n < Base * Base * Base

Key == <<1, Half, Base - 1, 3>>
ClientFrame(payload, fin, opcode, form) ==
  <<(IF fin THEN Half ELSE 0) + opcode>> \o ClientHeader(Len(payload), form) \o Key
    \o [i \in 1 .. Len(payload) |-> XorByte(payload[i], Key[((i - 1) % 4) + 1])]

\* A frame of which so far only the header was sent.
ClientBeginning(field, fin, opcode) ==
  <<(IF fin THEN Half ELSE 0) + opcode, Half + Len64>> \o field \o Key

-----------------------------------------------------------------------------
VARIABLES
  msg,     \* what the sender wants to send: by, payload, fin, opcode
  data,    \* the frame's bytes, as far as they were sent
  got,     \* what one recv() delivered of them, or of them and the next frame
  inBuf,   \* the message assembled so far
  before,  \* history: inBuf before the last decode
  frames,  \* history: frames sent
  state    \* "idle", "sent", "refused", "received", or the outcome of decode

vars == <<msg, data, got, inBuf, before, frames, state>>

NoMessage == [by |-> "nobody", payload |-> <<>>, fin |-> FALSE, opcode |-> 0]

Init ==
  /\ msg = NoMessage
  /\ data = <<>>
  /\ got = <<>>
  /\ inBuf = <<>>
  /\ before = <<>>
  /\ frames = 0
  /\ state = "idle"

\* A payload whose bytes differ from their neighbours.
PayloadOf(n) == [i \in 1 .. n |-> (7 * i + n) % Base]

Construct(n, fin, opcode) ==
  /\ state = "idle"
  /\ frames = 0
  /\ msg' = [by |-> "server", payload |-> PayloadOf(n), fin |-> fin, opcode |-> opcode]
  /\ IF Accepts(n, opcode)
     THEN data' = Frame(PayloadOf(n), fin, opcode) /\ state' = "sent"
     ELSE data' = <<>> /\ state' = "refused"
  /\ frames' = MaxFrames
  /\ UNCHANGED <<got, inBuf, before>>

ClientSends(n, fin, opcode, form) ==
  /\ state = "idle"
  /\ frames < MaxFrames
  /\ Fits(n, form)
  /\ Len(inBuf) + n <= MaxMessage
  /\ msg' = [by |-> "client", payload |-> PayloadOf(n), fin |-> fin, opcode |-> opcode]
  /\ data' = ClientFrame(PayloadOf(n), fin, opcode, form)
  /\ state' = "sent"
  /\ frames' = frames + 1
  /\ UNCHANGED <<got, inBuf, before>>

\* The payload, of the length that the field says, is still to be sent.
ClientStarts(field, fin, opcode) ==
  /\ state = "idle"
  /\ frames < MaxFrames
  /\ msg' = [by |-> "starter", payload |-> <<>>, fin |-> fin, opcode |-> opcode]
  /\ data' = ClientBeginning(field, fin, opcode)
  /\ state' = "sent"
  /\ frames' = frames + 1
  /\ UNCHANGED <<got, inBuf, before>>

\* recv() delivers what was sent, with what follows it, or any part of it.
Receive ==
  /\ state = "sent"
  /\ \/ got' = data \/ got' = data \o <<Half + 1, Half + 1>>
     \/ \E k \in 1 .. Len(data) - 1 : got' = SubSeq(data, 1, k)
  /\ Len(got') <= MaxSize
  /\ state' = "received"
  /\ UNCHANGED <<msg, data, inBuf, before, frames>>

Decode ==
  /\ state = "received"
  /\ state' = Outcome(got, inBuf)
  /\ before' = inBuf
  /\ inBuf' = IF Outcome(got, inBuf) = "decoded" THEN Decoded(got, inBuf) ELSE inBuf
  /\ UNCHANGED <<msg, data, got, frames>>

\* Every byte of the frame was received.
Whole == msg.by # "starter" /\ Len(got) >= Len(data)

\* The message goes on after a frame without FIN.
NextFrame ==
  /\ state = "decoded"
  /\ ~FIN(got)
  /\ Whole
  /\ state' = "idle"
  /\ msg' = NoMessage
  /\ data' = <<>>
  /\ got' = <<>>
  /\ UNCHANGED <<inBuf, before, frames>>

Next ==
  \/ \E n \in Lengths, fin \in BOOLEAN :
       \/ \E opcode \in {1, 10, 16} : Construct(n, fin, opcode)
       \/ \E opcode \in {0, 2}, form \in {"7", "16", "64"} : ClientSends(n, fin, opcode, form)
  \/ \E field \in LongFields, fin \in BOOLEAN, opcode \in {0, 2} :
       ClientStarts(field, fin, opcode)
  \/ Receive \/ Decode \/ NextFrame

Spec == Init /\ [][Next]_vars

-----------------------------------------------------------------------------
(* Properties.                                                             *)

\* Every variable has its type; in particular every byte of a frame is one.
TypeOK ==
  /\ \A i \in 1 .. Len(msg.payload) : msg.payload[i] \in Byte
  /\ msg.by \in {"nobody", "server", "client", "starter"}
  /\ msg.fin \in BOOLEAN
  /\ \A s \in {data, got} : \A i \in 1 .. Len(s) : s[i] \in Byte
  /\ \A s \in {inBuf, before} : \A i \in 1 .. Len(s) : s[i] \in Byte \cup {Stale}
  /\ Len(inBuf) <= MaxVector
  /\ frames \in 0 .. MaxFrames
  /\ state \in {"idle", "sent", "refused", "received", "header missing", "stale header",
                "length error", "overrun", "decoded"}

\* A frame that was constructed says of itself what it was constructed with,
\* whichever form its length has: payload(), payloadLength() and fin().
AccessorsAgree ==
  msg.by = "server" /\ state # "refused" =>
    /\ PayloadLength(data) = Len(msg.payload)
    /\ Payload(data) = msg.payload
    /\ FIN(data) = msg.fin
    /\ ~MASK(data)

\* A frame that arrives in one piece, alone or with others behind it, is
\* decoded to what was sent, in every form of its length and at every length:
\* FIN and opcode, and the payload after what the message had before.  Only an
\* unmasked frame, as a server sends it, needs an empty buffer.
DecodeInverts ==
  state = "decoded" /\ Whole /\ (msg.by = "server" => before = <<>>) =>
    /\ inBuf = before \o msg.payload
    /\ FIN(got) = msg.fin
    /\ got[1] % (MaxOpcode + 1) = msg.opcode

\* The extent of what ReceivedOnly shows to fail: decode() works on bytes that
\* were not received exactly if the frame was split, wherever that was, at
\* MAX_SIZE too.
StaleIffSplit ==
  state \in {"decoded", "stale header"} =>
    (~Whole) = (state = "stale header" \/ \E i \in 1 .. Len(inBuf) : inBuf[i] = Stale)

\* decode() enlarges the buffer by the announced length, however long, or
\* throws; the sum wraps, and the payload is written behind the end of a buffer
\* that became smaller, only for a length with the top bit set, which RFC 6455
\* forbids.
LengthsKept ==
  /\ state = "decoded" => Len(inBuf) = Len(before) + FrameLen(got)
  /\ state = "overrun" => FrameLen(got) >= SizeMax \div 2

\* decode() works only with bytes that were received.
ReceivedOnly ==
  /\ state # "stale header"
  /\ \A i \in 1 .. Len(inBuf) : inBuf[i] # Stale
=============================================================================
