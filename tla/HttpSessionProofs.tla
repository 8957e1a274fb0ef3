------------------------- MODULE HttpSessionProofs --------------------------
(***************************************************************************)
(* For any buffer size, number of frames, traffic and callbacks: types,    *)
(* nothing follows a Close frame on the wire, and a WsHandler is called in *)
(* the order it was promised.  With a client and callbacks that are        *)
(* Conforming, messages reach it whole, in order, and none is skipped.     *)
(***************************************************************************)
EXTENDS HttpSession, FiniteSetTheorems, FunctionTheorems, LeastNumber, TLAPS

Words == {"101", "response", "frame", "payload", "close"}
ConnType == [closed : BOOLEAN, wire : Seq(Words)]

CloseLast(wire) == \A i \in 1 .. Len(wire) : wire[i] = "close" => i = Len(wire)

\* A connection is open or has written its last word.
Orderly(cn) ==
  /\ cn \in ConnType
  /\ CloseLast(cn.wire)
  /\ cn.closed = TRUE \/ NoClose(cn.wire)

\* Appending to a wire without a Close frame.
LEMMA AppendWire ==
  ASSUME NEW wire \in Seq(Words), NoClose(wire), NEW what \in Words
  PROVE  /\ Append(wire, what) \in Seq(Words)
         /\ CloseLast(Append(wire, what))
         /\ what # "close" => NoClose(Append(wire, what))
BY DEF NoClose, CloseLast

\* Connection::send keeps the order, unless it sends the Close frame.
LEMMA SendOrderly ==
  ASSUME NEW cn, Orderly(cn), NEW what \in Words, what # "close"
  PROVE  Orderly(Send(cn, what))
<1>1. CASE cn.closed
  BY <1>1 DEF Send
<1>2. CASE ~cn.closed
  <2>1. NoClose(cn.wire) /\ cn.wire \in Seq(Words)
    BY <1>2 DEF Orderly, ConnType
  <2>2. Send(cn, what) = [closed |-> cn.closed, wire |-> Append(cn.wire, what)]
    BY <1>2 DEF Send, Orderly, ConnType
  <2> QED
    BY <2>1, <2>2, AppendWire DEF Orderly, ConnType
<1> QED
  BY <1>1, <1>2

\* Raising the flag keeps it.
LEMMA TcpCloseOrderly ==
  ASSUME NEW cn, Orderly(cn)
  PROVE  Orderly(TcpClose(cn))
BY DEF Orderly, ConnType, TcpClose

\* WsConnection::close sends the Close frame and then raises the flag.
LEMMA WsCloseOrderly ==
  ASSUME NEW cn, Orderly(cn)
  PROVE  Orderly(WsClose(cn))
<1>1. CASE cn.closed
  <2>1. WsClose(cn) = TcpClose(cn)
    BY <1>1 DEF WsClose, Send
  <2> QED
    BY <2>1, TcpCloseOrderly
<1>2. CASE ~cn.closed
  <2>1. NoClose(cn.wire) /\ cn.wire \in Seq(Words)
    BY <1>2 DEF Orderly, ConnType
  <2>2. Send(cn, "close") = [closed |-> cn.closed, wire |-> Append(cn.wire, "close")]
    BY <1>2 DEF Send, Orderly, ConnType
  <2>3. CloseLast(Append(cn.wire, "close")) /\ Append(cn.wire, "close") \in Seq(Words)
    BY <2>1, AppendWire DEF Words
  <2>4. Send(cn, "close") \in ConnType
    BY <2>2, <2>3 DEF Orderly, ConnType
  <2>5. /\ WsClose(cn) \in ConnType
        /\ WsClose(cn).closed = TRUE
        /\ WsClose(cn).wire = Send(cn, "close").wire
    BY <2>4 DEF WsClose, TcpClose, ConnType
  <2>6. WsClose(cn).wire = Append(cn.wire, "close")
    BY <2>2, <2>5
  <2> QED
    BY <2>3, <2>5, <2>6, Zenon DEF Orderly
<1> QED
  BY <1>1, <1>2

\* So does whatever a callback does.
LEMMA ReplyOrderly ==
  ASSUME NEW cn, Orderly(cn), NEW r
  PROVE  Orderly(Reply(cn, r))
<1>1. CASE r = "echo"
  BY <1>1, SendOrderly DEF Reply, Words
<1>2. CASE r = "close"
  BY <1>2, WsCloseOrderly DEF Reply
<1>3. CASE r = "closeThenSend"
  <2>1. Orderly(WsClose(cn))
    BY WsCloseOrderly
  <2>2. Orderly(Send(WsClose(cn), "frame"))
    BY <2>1, SendOrderly DEF Words
  <2> QED
    BY <1>3, <2>2 DEF Reply
<1>4. CASE r \notin {"echo", "close", "closeThenSend"}
  BY <1>4 DEF Reply
<1> QED
  BY <1>1, <1>2, <1>3, <1>4

\* Every step keeps the wire in order.
LEMMA StepOrderly ==
  ASSUME Orderly(conn), [Next]_vars
  PROVE  Orderly(conn')
<1>1. CASE UNCHANGED conn
  BY <1>1
<1>2. ASSUME NEW k, InitBad(k) \/ InitGet(k) \/ InitUpgrade(k)
      PROVE  Orderly(conn')
  <2>1. Orderly(TcpClose(conn))
    BY TcpCloseOrderly
  <2>2. Orderly(TcpClose(Send(conn, "response")))
    BY SendOrderly, TcpCloseOrderly DEF Words
  <2>3. Orderly(TcpClose(Send(conn, "101")))
    BY SendOrderly, TcpCloseOrderly DEF Words
  <2>4. ASSUME NEW result PROVE Orderly(Reply(Send(conn, "101"), result))
    BY SendOrderly, ReplyOrderly DEF Words
  <2>5. CASE InitBad(k) \/ InitGet(k)
    BY <2>1, <2>2, <2>5 DEF InitBad, InitGet
  <2>6. CASE InitUpgrade(k)
    BY <2>1, <2>3, <2>4, <2>6 DEF InitUpgrade
  <2> QED
    BY <1>2, <2>5, <2>6
<1>3. ASSUME NEW k, WsCloseFrame(k) \/ WsPing(k) \/ WsMessage(k)
      PROVE  Orderly(conn')
  <2>1. CASE WsCloseFrame(k)
    BY <2>1, WsCloseOrderly DEF WsCloseFrame
  <2>2. CASE WsPing(k)
    BY <2>2, SendOrderly DEF WsPing, Words
  <2>3. CASE WsMessage(k)
    BY <2>3, ReplyOrderly DEF WsMessage
  <2> QED
    BY <1>3, <2>1, <2>2, <2>3
<1>4. CASE OnDisconnect
  BY <1>4, ReplyOrderly DEF OnDisconnect
<1> QED
  BY <1>1, <1>2, <1>3, <1>4
     DEF Next, vars, Over, OnReceive, Client, ClientRequest, ClientFrame, Leave, InitWait,
         InitOverrun, WsStray, WsFragment, WsContinuationError, WsOther

\* Nothing is written after a Close frame.
THEOREM CloseEndsTheWire == Spec => []CloseIsLast
<1>1. Init => Orderly(conn)
  BY DEF Init, Orderly, ConnType, CloseLast, NoClose
<1>2. Orderly(conn) /\ [Next]_vars => Orderly(conn)'
  BY StepOrderly
<1>3. Orderly(conn) => CloseIsLast
  BY DEF Orderly, CloseLast, CloseIsLast
<1> QED
  BY <1>1, <1>2, <1>3, PTL DEF Spec

-----------------------------------------------------------------------------
(* Types.  That a request which recvBuf can hold stays in it, and that     *)
(* HttpWsState gets frames and not the rest of a request unless one was    *)
(* cut off, depends on how much of the request has been read at any time:  *)
(* Requesting, Overlong and Speaking.                                      *)

Chars == {"a", "b", "nul"}
Ops == DataOps \cup ControlOps \cup {"cont"}
RequestItems == {Item("part"), Item("end")}
Items == Frames \cup RequestItems
Message == [op : DataOps, data : Seq(Chars)]
CallType == [op : DataOps \cup {"onConnect", "onDisconnect"}, data : Seq(Chars), threw : BOOLEAN]

Typed ==
  /\ request \in Requests
  /\ stream \in Seq(Items)
  /\ parts \in 0 .. MaxParts
  /\ asked \in BOOLEAN
  /\ frames \in 0 .. MaxFrames
  /\ building \in Seq(Message)
  /\ Len(building) \in {0, 1}
  /\ sentMsgs \in Seq(Message)
  /\ Len(sentMsgs) <= frames
  /\ gone \in BOOLEAN
  /\ phase \in Phases
  /\ Orderly(conn)
  /\ curState \in {"init", "get", "ws"}
  /\ numRecv \in 0 .. BufSize
  /\ opcode \in Ops
  /\ inBuf \in Seq(Chars)
  /\ calls \in Seq(CallType)

\* In HttpInitState nothing was written, what was received and what waits is
\* the request, and the terminator is the last of it.
Requesting ==
  curState = "init" /\ ~conn.closed /\ phase = "idle" =>
    /\ conn.wire = <<>>
    /\ numRecv + Len(stream) = parts
    /\ \A i \in 1 .. Len(stream) : stream[i] \in RequestItems
    /\ \A i \in 1 .. Len(stream) : stream[i].op = "end" => i = Len(stream) /\ asked
    /\ building = <<>>
    /\ sentMsgs = <<>>
    /\ inBuf = <<>>

\* Only a request that recvBuf cannot hold is written beyond it.
Overlong == phase = "overrun" => parts > BufSize

\* The request was cut off, and HttpWsState has yet to read the rest of it.
Straying == IF stream = <<>> THEN ~asked ELSE stream[1] \in RequestItems

\* In HttpWsState the request is over and only frames wait, or it was cut off.
Speaking ==
  curState = "ws" /\ phase = "idle" =>
    \/ Straying
    \/ asked /\ \A i \in 1 .. Len(stream) : stream[i] \in Frames

SessionInv == Typed /\ Requesting /\ Overlong /\ Speaking

\* A request item is no frame, and ends no message.
LEMMA RequestItemFields ==
  ASSUME NEW item \in RequestItems
  PROVE  item.op \in RequestOps /\ item.fin = FALSE
BY DEF RequestItems, Item, RequestOps

LEMMA FrameNoRequest ==
  ASSUME NEW f \in Frames
  PROVE  f.op \notin RequestOps
BY DEF Frames, RequestOps, DataOps, ControlOps

\* A step that leaves the worker's loop has nothing left to show but types.
LEMMA OverInv ==
  ASSUME SessionInv, Typed', phase' # "idle", phase' # "overrun"
  PROVE  SessionInv'
BY DEF SessionInv, Requesting, Overlong, Speaking

\* The fields of frames and request items.
LEMMA FrameFields ==
  ASSUME NEW f \in Frames
  PROVE  /\ f.op \in Ops
         /\ f.data \in Seq(Chars)
<1>1. f.op \in Ops /\ f.data \in Payloads
  BY DEF Frames, Ops
<1>2. <<>> \in Seq(Chars) /\ <<"a">> \in Seq(Chars) /\ <<"b">> \in Seq(Chars) /\ <<"nul">> \in Seq(Chars)
  BY DEF Chars
<1> QED
  BY <1>1, <1>2 DEF Payloads

\* The first k items are taken off a stream.
LEMMA Rest ==
  ASSUME NEW s \in Seq(Items), NEW k \in 1 .. Len(s)
  PROVE  /\ SubSeq(s, k + 1, Len(s)) \in Seq(Items)
         /\ Len(SubSeq(s, k + 1, Len(s))) = Len(s) - k
         /\ \A i \in 1 .. Len(s) - k : SubSeq(s, k + 1, Len(s))[i] = s[k + i]
<1>1. Len(s) \in Nat
  OBVIOUS
<1>2. \A i \in k + 1 .. Len(s) : s[i] \in Items
  OBVIOUS
<1> HIDE DEF Items
<1> QED
  BY <1>1, <1>2

\* So is onReceive's part of the stream.
LEMMA ReceiveRest ==
  ASSUME Typed, NEW s, NEW k, Receive(s, k)
  PROVE  /\ k \in 1 .. Len(stream)
         /\ stream' \in Seq(Items)
         /\ Len(stream') = Len(stream) - k
         /\ \A i \in 1 .. Len(stream') : stream'[i] = stream[k + i]
<1>1. stream \in Seq(Items) /\ k \in 1 .. Len(stream) /\ stream' = SubSeq(stream, k + 1, Len(stream))
  BY DEF Typed, Receive
<1> QED
  BY <1>1, Rest

\* The C string in a buffer is some beginning of it.
LEMMA CStringType ==
  ASSUME NEW buf \in Seq(Chars)
  PROVE  CString(buf) \in Seq(Chars)
<1> DEFINE T == {n \in Nat : n < Len(buf) /\ buf[n + 1] = "nul"}
           Fits(n) == /\ \A i \in 1 .. n : buf[i] # "nul"
                      /\ n < Len(buf) => buf[n + 1] = "nul"
<1>1. \E n \in 0 .. Len(buf) : Fits(n)
  <2>1. CASE T = {}
    <3>1. \A i \in 1 .. Len(buf) : buf[i] # "nul"
      <4> SUFFICES ASSUME NEW i \in 1 .. Len(buf), buf[i] = "nul" PROVE FALSE
        OBVIOUS
      <4>1. i - 1 \in T
        OBVIOUS
      <4> QED
        BY <2>1, <4>1
    <3>2. Fits(Len(buf)) /\ Len(buf) \in 0 .. Len(buf)
      BY <3>1
    <3> QED
      BY <3>2
  <2>2. CASE T # {}
    <3>1. PICK n \in T : \A m \in T : n <= m
      <4> HIDE DEF T
      <4>1. T \in SUBSET Nat
        BY DEF T
      <4> QED
        BY <2>2, <4>1, Least
    <3>2. \A i \in 1 .. n : buf[i] # "nul"
      <4> SUFFICES ASSUME NEW i \in 1 .. n, buf[i] = "nul" PROVE FALSE
        OBVIOUS
      <4>1. i - 1 \in T /\ i - 1 < n
        OBVIOUS
      <4> QED
        BY <3>1, <4>1
    <3> QED
      BY <3>1, <3>2
  <2> QED
    BY <2>1, <2>2
<1>2. PICK n \in 0 .. Len(buf) : n = CHOOSE m \in 0 .. Len(buf) : Fits(m)
  <2> HIDE DEF Fits
  <2> QED
    BY <1>1
<1>3. CString(buf) = SubSeq(buf, 1, n)
  BY <1>2 DEF CString
<1> QED
  BY <1>3

\* Decoding a frame into the buffer.
LEMMA DecodeType ==
  ASSUME NEW buf \in Seq(Chars), NEW f \in Frames
  PROVE  Decode(buf, f) \in Seq(Chars)
<1>1. f.data \in Seq(Chars)
  BY FrameFields
<1> PICK data \in Seq(Chars) : data = f.data
  BY <1>1
<1>2. CASE f.masked
  BY <1>2 DEF Decode
<1>3. CASE ~f.masked
  <2>1. Decode(buf, f) = [i \in 1 .. Len(buf) + Len(data) |->
          IF i <= Len(data) THEN data[i] ELSE IF i <= Len(buf) THEN buf[i] ELSE "nul"]
    BY <1>3 DEF Decode
  <2>2. \A i \in 1 .. Len(buf) + Len(data) :
          (IF i <= Len(data) THEN data[i] ELSE IF i <= Len(buf) THEN buf[i] ELSE "nul") \in Chars
    BY DEF Chars
  <2>3. Len(buf) + Len(data) \in Nat
    OBVIOUS
  <2> QED
    BY <2>1, <2>2, <2>3
<1> QED
  BY <1>2, <1>3

\* What onText and onData are given.
LEMMA DeliveredType ==
  ASSUME NEW buf \in Seq(Chars)
  PROVE  Terminated(buf) \in Seq(Chars) /\ Delivered(buf) \in Seq(Chars)
<1>1. Append(buf, "nul") \in Seq(Chars)
  BY DEF Chars
<1>2. Terminated(buf) \in Seq(Chars)
  BY <1>1 DEF Terminated
<1> QED
  BY <1>2, CStringType DEF Delivered

\* A callback that was entered is on record.
LEMMA CallRecorded ==
  ASSUME Typed, NEW op \in DataOps \cup {"onConnect", "onDisconnect"}, NEW data \in Seq(Chars),
         NEW r, Call(op, data, r)
  PROVE  /\ calls' \in Seq(CallType)
         /\ calls' = Append(calls, [op |-> op, data |-> data, threw |-> Throws(r)])
<1>1. Throws(r) \in BOOLEAN
  BY DEF Throws
<1>2. [op |-> op, data |-> data, threw |-> Throws(r)] \in CallType
  BY <1>1 DEF CallType
<1>3. calls' = Append(calls, [op |-> op, data |-> data, threw |-> Throws(r)]) /\ calls \in Seq(CallType)
  BY DEF Call, Typed
<1> QED
  BY <1>2, <1>3

\* More of a request that was cut off does not make up for it.
LEMMA StrayingStays ==
  ASSUME Typed, Straying, NEW item \in Items, stream' = Append(stream, item),
         stream = <<>> => item \in RequestItems
  PROVE  Straying'
<1>1. stream \in Seq(Items)
  BY DEF Typed
<1>2. /\ stream' # <<>>
      /\ stream = <<>> => stream'[1] = item
      /\ stream # <<>> => stream'[1] = stream[1]
  BY <1>1
<1> QED
  BY <1>2 DEF Straying

LEMMA ClientRequestStrays ==
  ASSUME SessionInv, ClientRequest, curState = "ws", phase = "idle"
  PROVE  Straying'
<1>1. PICK op \in {"part", "end"} : stream' = Append(stream, Item(op))
  BY DEF ClientRequest, RequestOps
<1>2. Item(op) \in Items /\ Item(op) \in RequestItems
  BY DEF Items, RequestItems
<1>3. Straying
  BY DEF SessionInv, Speaking, ClientRequest
<1> QED
  BY <1>1, <1>2, <1>3, StrayingStays DEF SessionInv

LEMMA ClientFrameStrays ==
  ASSUME SessionInv, NEW f \in Frames, ClientFrame(f), Straying
  PROVE  Straying'
<1>1. stream' = Append(stream, f) /\ stream # <<>> /\ f \in Items
  BY DEF ClientFrame, Straying, Items
<1> QED
  BY <1>1, StrayingStays DEF SessionInv

\* ClientRequest: the request grows at the end of the stream.
LEMMA ClientRequestInv ==
  ASSUME SessionAssumption, SessionInv, Orderly(conn'), ClientRequest
  PROVE  SessionInv'
<1>1. PICK op \in {"part", "end"} : stream' = Append(stream, Item(op)) /\ asked' = (op = "end")
  BY DEF ClientRequest, RequestOps
<1>2. Item(op) \in Items /\ Item(op) \in RequestItems
  BY DEF Items, RequestItems
<1>3. Item(op).op = op
  BY DEF Item
<1> PICK item \in Items : item = Item(op) /\ item \in RequestItems /\ item.op = op
  BY <1>2, <1>3
<1>4. stream \in Seq(Items) /\ stream' = Append(stream, item)
  BY <1>1 DEF SessionInv, Typed
<1>5. /\ stream' \in Seq(Items)
      /\ Len(stream') = Len(stream) + 1
      /\ stream'[Len(stream) + 1] = item
      /\ \A i \in 1 .. Len(stream) : stream'[i] = stream[i]
  BY <1>4
<1>6. Typed'
  BY <1>1, <1>5 DEF SessionInv, Typed, ClientRequest, wsVars, SessionAssumption
<1>7. Requesting'
  <2> SUFFICES ASSUME curState = "init", ~conn.closed, phase = "idle"
               PROVE  Requesting'
    BY DEF Requesting, ClientRequest
  <2>1. \A i \in 1 .. Len(stream) : stream[i] \in RequestItems /\ stream[i].op # "end"
    BY DEF SessionInv, Requesting, ClientRequest
  <2>2. \A i \in 1 .. Len(stream') : stream'[i] \in RequestItems
    BY <1>4, <1>5, <2>1
  <2>3. \A i \in 1 .. Len(stream') : stream'[i].op = "end" => i = Len(stream') /\ asked'
    <3> SUFFICES ASSUME NEW i \in 1 .. Len(stream'), stream'[i].op = "end"
                 PROVE  i = Len(stream') /\ asked'
      OBVIOUS
    <3>1. i = Len(stream')
      BY <1>4, <1>5, <2>1
    <3>2. op = "end"
      BY <1>5, <3>1
    <3> QED
      BY <1>1, <3>1, <3>2
  <2>4. numRecv' + Len(stream') = parts'
    BY <1>4, <1>5 DEF SessionInv, Requesting, ClientRequest, Typed
  <2> QED
    BY <2>2, <2>3, <2>4 DEF SessionInv, Requesting, ClientRequest, wsVars
<1>8. Speaking'
  BY ClientRequestStrays DEF Speaking, ClientRequest
<1>9. Overlong'
  BY DEF SessionInv, Overlong, Typed, ClientRequest, SessionAssumption
<1> QED
  BY <1>6, <1>7, <1>8, <1>9 DEF SessionInv

\* The message a frame starts or goes on with.
LEMMA ExtendedType ==
  ASSUME NEW message \in Seq(Message), NEW f \in Frames,
         message = <<>> => f.op \in DataOps, Len(message) \in {0, 1}
  PROVE  Extended(message, f) \in Message
<1>1. f.data \in Seq(Chars)
  BY FrameFields
<1>2. CASE message = <<>>
  BY <1>1, <1>2 DEF Extended, Message
<1>3. CASE message # <<>>
  <2>1. message[1] \in Message
    BY <1>3
  <2>2. message[1].op \in DataOps /\ message[1].data \in Seq(Chars)
    BY <2>1 DEF Message
  <2>3. message[1].data \o f.data \in Seq(Chars)
    BY <1>1, <2>2
  <2> QED
    BY <1>3, <2>2, <2>3 DEF Extended, Message
<1> QED
  BY <1>2, <1>3

\* A frame of a data message: what it does to the client's record.
LEMMA DataFrameType ==
  ASSUME Typed, NEW f \in Frames, DataFrame(f)
  PROVE  /\ building' \in Seq(Message)
         /\ Len(building') \in {0, 1}
         /\ sentMsgs' \in Seq(Message)
         /\ Len(sentMsgs') <= Len(sentMsgs) + 1
<1>1. building \in Seq(Message) /\ Len(building) \in {0, 1} /\ sentMsgs \in Seq(Message)
  BY DEF Typed
<1>2. building = <<>> => f.op \in DataOps
  BY DEF DataFrame
<1>3. Extended(building, f) \in Message
  BY <1>1, <1>2, ExtendedType
<1> PICK m \in Message : m = Extended(building, f)
  BY <1>3
<1>4. /\ building' = IF f.fin THEN <<>> ELSE <<m>>
      /\ sentMsgs' = IF f.fin THEN Append(sentMsgs, m) ELSE sentMsgs
  BY DEF DataFrame
<1> HIDE DEF Message
<1> QED
  BY <1>1, <1>4

\* ClientFrame: a frame at the end of the stream, once the session is
\* upgraded.
LEMMA ClientFrameInv ==
  ASSUME SessionAssumption, SessionInv, Orderly(conn'), NEW f \in Frames, ClientFrame(f)
  PROVE  SessionInv'
<1>1. f \in Items
  BY DEF Items
<1>2. stream \in Seq(Items) /\ stream' = Append(stream, f)
  BY DEF SessionInv, Typed, ClientFrame
<1>3. /\ stream' \in Seq(Items)
      /\ Len(stream') = Len(stream) + 1
      /\ stream'[Len(stream) + 1] = f
      /\ \A i \in 1 .. Len(stream) : stream'[i] = stream[i]
  BY <1>1, <1>2
<1>4. /\ building' \in Seq(Message)
      /\ Len(building') \in {0, 1}
      /\ sentMsgs' \in Seq(Message)
      /\ Len(sentMsgs') <= Len(sentMsgs) + 1
  <2>1. CASE DataFrame(f)
    BY <2>1, DataFrameType DEF SessionInv
  <2>2. CASE ControlFrame(f)
    BY <2>2 DEF ControlFrame, SessionInv, Typed
  <2> QED
    BY <2>1, <2>2 DEF ClientFrame
<1>5. frames' \in 0 .. MaxFrames /\ Len(sentMsgs') <= frames'
  <2>1. Len(sentMsgs') \in Nat /\ Len(sentMsgs) \in Nat
    BY <1>4 DEF SessionInv, Typed
  <2> QED
    BY <1>4, <2>1 DEF ClientFrame, SessionInv, Typed, SessionAssumption
<1>6. Typed'
  BY <1>3, <1>4, <1>5 DEF ClientFrame, SessionInv, Typed, wsVars
<1>7. Requesting'
  <2>1. ~(curState = "init" /\ ~conn.closed /\ phase = "idle")
    BY DEF ClientFrame, SessionInv, Requesting, Upgraded
  <2> QED
    BY <2>1 DEF ClientFrame, Requesting
<1>8. Speaking'
  <2> SUFFICES ASSUME curState = "ws", phase = "idle"
               PROVE  Straying' \/ (asked' /\ \A i \in 1 .. Len(stream') : stream'[i] \in Frames)
    BY DEF Speaking, ClientFrame
  <2>1. asked /\ asked'
    BY DEF ClientFrame
  <2>2. CASE Straying
    BY <2>2, ClientFrameStrays
  <2>3. CASE \A i \in 1 .. Len(stream) : stream[i] \in Frames
    BY <1>2, <1>3, <2>1, <2>3
  <2> QED
    BY <2>2, <2>3 DEF SessionInv, Speaking
<1>9. Overlong'
  BY DEF SessionInv, Overlong, ClientFrame
<1> QED
  BY <1>6, <1>7, <1>8, <1>9 DEF SessionInv

\* The request is complete: nothing of it is left in the stream and the client
\* sends no more of it, or it was cut off.
LEMMA RequestOver ==
  ASSUME SessionAssumption, SessionInv, NEW k, InitRequest(k)
  PROVE  /\ \A i \in 1 .. Len(stream') : stream'[i] \in RequestItems
         /\ Straying' \/ (asked' /\ stream' = <<>>)
<1>1. Receive("init", k) /\ Complete(k)
  BY DEF InitRequest
<1>2. /\ k \in 1 .. Len(stream)
      /\ Len(stream') = Len(stream) - k
      /\ stream' \in Seq(Items)
      /\ \A i \in 1 .. Len(stream') : stream'[i] = stream[k + i]
  BY <1>1, ReceiveRest DEF SessionInv
<1>3. \A i \in 1 .. Len(stream) : stream[i] \in RequestItems
  BY <1>1 DEF SessionInv, Requesting, Receive
<1>4. \A i \in 1 .. Len(stream') : k + i \in 1 .. Len(stream)
  <2>1. Len(stream) \in Nat
    BY DEF SessionInv, Typed
  <2> QED
    BY <1>2, <2>1
<1>5. \A i \in 1 .. Len(stream') : stream'[i] \in RequestItems
  BY <1>2, <1>3, <1>4
<1>6. CASE stream' = <<>>
  BY <1>5, <1>6 DEF Straying, Receive, clientVars, SessionInv, Typed
<1>7. CASE stream' # <<>>
  <2>1. 1 \in 1 .. Len(stream')
    BY <1>2, <1>7
  <2> QED
    BY <1>5, <1>7, <2>1 DEF Straying
<1> QED
  BY <1>5, <1>6, <1>7

\* The buffer holds what was received of the request.
LEMMA ReceivedFits ==
  ASSUME SessionAssumption, SessionInv, NEW k, Receive("init", k), InBounds(k)
  PROVE  numRecv + k \in 0 .. BufSize
<1>1. k \in 1 .. Len(stream)
  BY ReceiveRest DEF SessionInv
<1> QED
  BY <1>1 DEF SessionInv, Typed, SessionAssumption, InBounds

\* InitOverrun: the request was too long.
LEMMA InitOverrunInv ==
  ASSUME SessionAssumption, SessionInv, Orderly(conn'), NEW k, InitOverrun(k)
  PROVE  SessionInv'
<1>1. Receive("init", k) /\ ~InBounds(k) /\ phase' = "overrun" /\ phase = "idle"
  BY DEF InitOverrun, Receive
<1>2. k \in 1 .. Len(stream) /\ stream' \in Seq(Items)
  BY <1>1, ReceiveRest DEF SessionInv
<1>3. Typed'
  BY <1>1, <1>2 DEF InitOverrun, Receive, SessionInv, Typed, clientVars, wsVars, Phases
<1>4. numRecv + Len(stream) = parts /\ parts' = parts
  BY <1>1 DEF Receive, SessionInv, Requesting, clientVars
<1>5. parts > BufSize
  <2>1. Len(stream) \in Nat /\ numRecv \in Nat /\ BufSize \in Nat
    BY DEF SessionInv, Typed, SessionAssumption
  <2> QED
    BY <1>1, <1>2, <1>4, <2>1 DEF InBounds
<1> QED
  BY <1>1, <1>3, <1>4, <1>5 DEF SessionInv, Requesting, Overlong, Speaking

\* HttpInitState: the request, or one more piece of it, was received.
LEMMA InitWaitInv ==
  ASSUME SessionAssumption, SessionInv, Orderly(conn'), NEW k, InitWait(k)
  PROVE  SessionInv'
<1>1. Receive("init", k)
  BY DEF InitWait
<1>2. /\ k \in 1 .. Len(stream)
      /\ stream' \in Seq(Items)
      /\ Len(stream') = Len(stream) - k
      /\ \A i \in 1 .. Len(stream') : stream'[i] = stream[k + i]
  BY <1>1, ReceiveRest DEF SessionInv
<1>3. numRecv' \in 0 .. BufSize
  BY <1>1, ReceivedFits DEF InitWait
<1>4. Typed'
  BY <1>2, <1>3 DEF InitWait, Receive, SessionInv, Typed, clientVars, wsVars
<1>5. Requesting'
  <2>1. Len(stream) \in Nat /\ numRecv \in Nat /\ k \in Nat /\ Len(stream') = Len(stream) - k
    BY <1>2 DEF SessionInv, Typed
  <2>2. \A i \in 1 .. Len(stream') : k + i \in 1 .. Len(stream)
    BY <1>2, <2>1
  <2>3. /\ numRecv + Len(stream) = parts
        /\ \A i \in 1 .. Len(stream) : stream[i] \in RequestItems
        /\ \A i \in 1 .. Len(stream) : stream[i].op = "end" => i = Len(stream) /\ asked
    BY <1>1 DEF Receive, SessionInv, Requesting
  <2>4. numRecv' + Len(stream') = parts'
    <3>1. numRecv' = numRecv + k /\ parts' = parts
      BY DEF InitWait, Receive, clientVars
    <3> QED
      BY <2>1, <2>3, <3>1
  <2>5. \A i \in 1 .. Len(stream') : stream'[i] \in RequestItems
    BY <1>2, <2>2, <2>3
  <2>6. \A i \in 1 .. Len(stream') : stream'[i].op = "end" => i = Len(stream') /\ asked
    <3> SUFFICES ASSUME NEW i \in 1 .. Len(stream'), stream'[i].op = "end"
                 PROVE  i = Len(stream') /\ asked
      OBVIOUS
    <3>1. stream[k + i].op = "end" /\ k + i \in 1 .. Len(stream)
      BY <1>2, <2>2
    <3>2. k + i = Len(stream) /\ asked
      BY <2>3, <3>1
    <3> QED
      BY <2>1, <3>2
  <2> QED
    BY <2>4, <2>5, <2>6 DEF InitWait, Receive, clientVars, wsVars, SessionInv, Requesting
<1>6. Speaking' /\ Overlong'
  BY DEF InitWait, Receive, Speaking, SessionInv, Overlong, clientVars
<1> QED
  BY <1>4, <1>5, <1>6 DEF SessionInv

\* A connection that was closed is closed.
LEMMA TcpCloseCloses ==
  ASSUME NEW cn, Orderly(cn)
  PROVE  TcpClose(cn).closed = TRUE
BY DEF Orderly, ConnType, TcpClose

\* HttpInitState: the request is answered, or the connection closed.
LEMMA InitAnswerInv ==
  ASSUME SessionAssumption, SessionInv, Orderly(conn'), NEW k, InitBad(k) \/ InitGet(k) \/ InitUpgrade(k)
  PROVE  SessionInv'
<1>0. InitRequest(k)
  BY DEF InitBad, InitGet, InitUpgrade
<1>1. /\ Receive("init", k) /\ InBounds(k) /\ numRecv' = numRecv + k
      /\ UNCHANGED <<phase, wsVars>>
  BY <1>0 DEF InitRequest, InitBad, InitGet, InitUpgrade
<1>2. Straying' \/ (asked' /\ stream' = <<>>)
  BY <1>0, RequestOver
<1>3. numRecv' \in 0 .. BufSize
  BY <1>1, ReceivedFits
<1>4. Orderly(conn) /\ Orderly(Send(conn, "101")) /\ Orderly(Send(conn, "response"))
  BY SendOrderly DEF SessionInv, Typed, Words
<1>5. /\ curState' \in {"init", "get", "ws"}
      /\ curState' = "init" => conn'.closed = TRUE
      /\ calls' \in Seq(CallType)
  <2>1. CASE InitBad(k)
    BY <1>1, <1>4, <2>1, TcpCloseCloses DEF InitBad, Receive, SessionInv, Typed
  <2>2. CASE InitGet(k)
    <3>1. calls' \in Seq(CallType)
      BY <2>2 DEF InitGet, SessionInv, Typed
    <3>2. TcpClose(conn).closed = TRUE /\ TcpClose(Send(conn, "response")).closed = TRUE
      BY <1>4, TcpCloseCloses
    <3>3. (curState' = "get" \/ curState' = curState)
          /\ (conn' = TcpClose(conn) \/ conn' = TcpClose(Send(conn, "response")))
      BY <2>2 DEF InitGet
    <3> QED
      BY <1>1, <3>1, <3>2, <3>3 DEF Receive
  <2>3. CASE InitUpgrade(k)
    <3>1. CASE UNCHANGED <<curState, calls>> /\ conn' = TcpClose(conn)
      BY <1>1, <1>4, <3>1, TcpCloseCloses DEF Receive, SessionInv, Typed
    <3>2. ASSUME NEW r \in HandlerResults, Call("onConnect", <<>>, r),
                 conn' = IF Throws(r) THEN TcpClose(Send(conn, "101")) ELSE Reply(Send(conn, "101"), r),
                 curState' = IF Throws(r) THEN "init" ELSE "ws"
          PROVE  /\ curState' \in {"init", "get", "ws"}
                 /\ curState' = "init" => conn'.closed = TRUE
                 /\ calls' \in Seq(CallType)
      <4>1. calls' \in Seq(CallType)
        <5>1. <<>> \in Seq(Chars) /\ "onConnect" \in DataOps \cup {"onConnect", "onDisconnect"}
          OBVIOUS
        <5> QED
          BY <3>2, <5>1, CallRecorded DEF SessionInv
      <4>2. TcpClose(Send(conn, "101")).closed = TRUE
        BY <1>4, TcpCloseCloses
      <4> QED
        BY <3>2, <4>1, <4>2
    <3> QED
      BY <2>3, <3>1, <3>2 DEF InitUpgrade
  <2> QED
    BY <2>1, <2>2, <2>3
<1>6. Typed'
  <2>1. stream' \in Seq(Items)
    BY <1>1, ReceiveRest DEF SessionInv
  <2> QED
    BY <1>1, <1>3, <1>5, <2>1 DEF Receive, SessionInv, Typed, clientVars, wsVars
<1>7. Requesting'
  BY <1>5 DEF Requesting
<1>8. Speaking'
  BY <1>2 DEF Speaking
<1>9. Overlong'
  BY <1>1 DEF Overlong, Receive
<1> QED
  BY <1>6, <1>7, <1>8, <1>9 DEF SessionInv

\* HttpWsState::onReceive gets a frame, and its opcode is one.
LEMMA WsFrameFirst ==
  ASSUME SessionInv, NEW k, WsReceive(k)
  PROVE  /\ Frame \in Frames
         /\ MessageOp \in Ops
         /\ Decode(inBuf, Frame) \in Seq(Chars)
<1>1. k \in 1 .. Len(stream) /\ stream \in Seq(Items) /\ curState = "ws"
  BY ReceiveRest DEF WsReceive, SessionInv, Typed, Receive
<1>2. 1 \in 1 .. Len(stream)
  BY <1>1
<1>3. Frame \in Frames
  <2>1. stream[1] \in Items /\ stream[1].op \notin RequestOps
    BY <1>1, <1>2 DEF WsReceive, Frame
  <2> QED
    BY <2>1, RequestItemFields DEF Items, Frame
<1>4. Frame.op \in Ops
  BY <1>3, FrameFields
<1>5. inBuf \in Seq(Chars) /\ opcode \in Ops
  BY DEF SessionInv, Typed
<1> QED
  BY <1>3, <1>4, <1>5, DecodeType DEF MessageOp

\* What is taken for a frame is no rest of a request.
LEMMA NotStraying ==
  ASSUME SessionInv, NEW k, WsReceive(k)
  PROVE  ~Straying
<1>1. k \in 1 .. Len(stream) /\ stream \in Seq(Items)
  BY ReceiveRest DEF WsReceive, SessionInv, Typed
<1>2. stream # <<>> /\ stream[1].op \notin RequestOps
  BY <1>1 DEF WsReceive, Frame
<1> QED
  BY <1>2, RequestItemFields DEF Straying

\* HttpWsState::onReceive keeps the invariant if it keeps the types.
LEMMA WsReceiveInv ==
  ASSUME SessionInv, Orderly(conn'), NEW k, WsReceive(k),
         inBuf' \in Seq(Chars), calls' \in Seq(CallType), phase' \in {"idle", "failed"}
  PROVE  SessionInv'
<1>1. Receive("ws", k) /\ opcode' = MessageOp /\ UNCHANGED <<curState, numRecv>>
  BY DEF WsReceive
<1>2. /\ k \in 1 .. Len(stream)
      /\ stream' \in Seq(Items)
      /\ Len(stream') = Len(stream) - k
      /\ \A i \in 1 .. Len(stream') : stream'[i] = stream[k + i]
  BY <1>1, ReceiveRest DEF SessionInv
<1>3. MessageOp \in Ops
  BY WsFrameFirst
<1>4. Typed'
  BY <1>1, <1>2, <1>3 DEF Receive, SessionInv, Typed, clientVars, Phases
<1>5. Requesting' /\ Overlong'
  BY <1>1 DEF Receive, Requesting, Overlong
<1>6. Speaking'
  <2>0. asked /\ \A i \in 1 .. Len(stream) : stream[i] \in Frames
    BY <1>1, NotStraying DEF Receive, SessionInv, Speaking
  <2>1. Len(stream) \in Nat /\ k \in Nat /\ Len(stream') = Len(stream) - k
    BY <1>2 DEF SessionInv, Typed
  <2>2. \A i \in 1 .. Len(stream') : k + i \in 1 .. Len(stream)
    BY <2>1
  <2>3. \A i \in 1 .. Len(stream') : stream'[i] \in Frames
    BY <1>2, <2>0, <2>2
  <2> QED
    BY <1>1, <2>0, <2>3 DEF Receive, Speaking, clientVars
<1> QED
  BY <1>4, <1>5, <1>6 DEF SessionInv

\* HttpWsState: a frame was received.
LEMMA WsInv ==
  ASSUME SessionInv, Orderly(conn'), NEW k,
         \/ WsFragment(k) \/ WsContinuationError(k) \/ WsCloseFrame(k)
         \/ WsPing(k) \/ WsMessage(k) \/ WsOther(k)
  PROVE  SessionInv'
<1>1. WsReceive(k)
  BY DEF WsFragment, WsContinuationError, WsCloseFrame, WsPing, WsMessage, WsOther
<1>2. Decode(inBuf, Frame) \in Seq(Chars) /\ <<>> \in Seq(Chars)
  BY <1>1, WsFrameFirst
<1>3. calls \in Seq(CallType) /\ phase = "idle"
  BY <1>1 DEF SessionInv, Typed, WsReceive, Receive
<1>4. CASE WsMessage(k)
  <2>1. PICK r \in HandlerResults, buf \in {Decode(inBuf, Frame)} :
          /\ Call(MessageOp, Delivered(buf), r)
          /\ inBuf' = IF Throws(r) THEN Terminated(buf) ELSE <<>>
          /\ phase' = IF r = "throw" THEN "failed" ELSE phase
    BY <1>4 DEF WsMessage
  <2>2. Terminated(buf) \in Seq(Chars) /\ Delivered(buf) \in Seq(Chars)
    BY <1>2, <2>1, DeliveredType
  <2>3. MessageOp \in DataOps \cup {"onConnect", "onDisconnect"}
    BY <1>4 DEF WsMessage
  <2>4. calls' \in Seq(CallType)
    BY <2>1, <2>2, <2>3, CallRecorded DEF SessionInv
  <2> QED
    BY <1>1, <1>2, <1>3, <2>1, <2>2, <2>4, WsReceiveInv
<1>5. CASE ~WsMessage(k)
  <2>1. /\ inBuf' \in {Decode(inBuf, Frame), <<>>}
        /\ calls' = calls
        /\ phase' \in {phase, "failed"}
    BY <1>5 DEF WsFragment, WsContinuationError, WsCloseFrame, WsPing, WsOther
  <2> QED
    BY <1>1, <1>2, <1>3, <2>1, WsReceiveInv
<1> QED
  BY <1>4, <1>5

\* WsStray: the rest of a request was taken for a frame.
LEMMA WsStrayInv ==
  ASSUME SessionInv, Orderly(conn'), NEW k, WsStray(k)
  PROVE  SessionInv'
<1>1. Receive("ws", k) /\ phase' = "garbled"
  BY DEF WsStray
<1>2. stream' \in Seq(Items)
  BY <1>1, ReceiveRest DEF SessionInv
<1>3. Typed'
  BY <1>1, <1>2 DEF WsStray, Receive, SessionInv, Typed, clientVars, wsVars, Phases
<1> QED
  BY <1>1, <1>3, OverInv

\* The worker leaves its loop.
LEMMA OnDisconnectInv ==
  ASSUME SessionInv, Orderly(conn'), OnDisconnect
  PROVE  SessionInv'
<1>1. calls' \in Seq(CallType)
  <2>1. CASE curState # "ws"
    BY <2>1 DEF OnDisconnect, SessionInv, Typed
  <2>2. CASE curState = "ws"
    <3>1. PICK r \in HandlerResults : Call("onDisconnect", <<>>, r)
      BY <2>2 DEF OnDisconnect
    <3>2. <<>> \in Seq(Chars) /\ "onDisconnect" \in DataOps \cup {"onConnect", "onDisconnect"}
      OBVIOUS
    <3> QED
      BY <3>1, <3>2, CallRecorded DEF SessionInv
  <2> QED
    BY <2>1, <2>2
<1>2. phase' \in {"disconnected", "failed"}
  BY DEF OnDisconnect
<1>3. Typed'
  BY <1>1, <1>2 DEF OnDisconnect, SessionInv, Typed, clientVars, wsVars, Phases
<1> QED
  BY <1>2, <1>3, OverInv

\* Every step keeps the invariant.
LEMMA SessionStep ==
  ASSUME SessionAssumption, SessionInv, [Next]_vars
  PROVE  SessionInv'
<1>1. Orderly(conn')
  BY StepOrderly DEF SessionInv, Typed
<1>2. CASE UNCHANGED vars
  BY <1>2 DEF vars, clientVars, wsVars, SessionInv, Typed, Requesting, Overlong, Speaking, Straying
<1>3. CASE OnReceive
  BY <1>1, <1>3, InitWaitInv, InitOverrunInv, InitAnswerInv, WsStrayInv, WsInv DEF OnReceive
<1>4. CASE Leave
  BY <1>4 DEF Leave, clientVars, wsVars, SessionInv, Typed, Requesting, Overlong, Speaking, Straying
<1> QED
  BY <1>1, <1>2, <1>3, <1>4, OnDisconnectInv, ClientRequestInv, ClientFrameInv
     DEF Next, Client, Over

\* The initial states have it.
LEMMA SessionInit ==
  ASSUME SessionAssumption, Init
  PROVE  SessionInv
<1>1. Orderly(conn)
  BY DEF Init, Orderly, ConnType, CloseLast, NoClose
<1>2. /\ stream \in Seq(Items)
      /\ building \in Seq(Message) /\ Len(building) \in {0, 1}
      /\ sentMsgs \in Seq(Message) /\ Len(sentMsgs) <= frames
      /\ inBuf \in Seq(Chars)
      /\ calls \in Seq(CallType)
  BY DEF Init
<1>3. parts \in 0 .. MaxParts /\ frames \in 0 .. MaxFrames /\ numRecv \in 0 .. BufSize
  BY DEF Init, SessionAssumption
<1>4. opcode \in Ops
  BY DEF Init, Ops
<1>5. asked \in BOOLEAN /\ gone \in BOOLEAN /\ request \in Requests
      /\ phase \in Phases /\ curState \in {"init", "get", "ws"}
  BY DEF Init, Phases
<1>6. Typed
  BY <1>1, <1>2, <1>3, <1>4, <1>5 DEF Typed
<1> QED
  BY <1>6 DEF Init, SessionInv, Requesting, Overlong, Speaking

\* The types, and where the request ends.
THEOREM SessionInductive == Spec => []SessionInv
<1>1. Init => SessionInv
  BY SessionAssumption, SessionInit
<1>2. SessionInv /\ [Next]_vars => SessionInv'
  BY SessionAssumption, SessionStep
<1> QED
  BY <1>1, <1>2, PTL DEF Spec

\* Only a request longer than recvBuf is ever written beyond it, in whatever
\* pieces it arrives.
THEOREM RequestKept == Spec => []RequestFits
<1>1. SessionInv => RequestFits
  BY DEF SessionInv, Overlong, RequestFits
<1> QED
  BY <1>1, SessionInductive, PTL

\* TypeOK, of requests of any length.
THEOREM SessionTyping == Spec => []TypeOK
<1>1. SessionInv => TypeOK
  <2> SUFFICES ASSUME SessionInv PROVE TypeOK
    OBVIOUS
  <2>1. \A i \in 1 .. Len(stream) : stream[i] \in Frames \cup {Item("part"), Item("end")}
    BY DEF SessionInv, Typed, Items, RequestItems
  <2>2. \A i \in 1 .. Len(inBuf) : inBuf[i] \in {"a", "b", "nul"}
    BY DEF SessionInv, Typed, Chars
  <2>3. \A i \in 1 .. Len(calls) : calls[i] \in CallType
    BY DEF SessionInv, Typed
  <2>4. \A i \in 1 .. Len(calls) :
          calls[i].op \in DataOps \cup {"onConnect", "onDisconnect"} /\ calls[i].threw \in BOOLEAN
    BY <2>3 DEF CallType
  <2>5. conn \in ConnType
    BY DEF SessionInv, Typed, Orderly
  <2>6. conn.closed \in BOOLEAN /\ conn.wire \in Seq(Words)
    BY <2>5 DEF ConnType
  <2>7. \A i \in 1 .. Len(conn.wire) :
          conn.wire[i] \in {"101", "response", "frame", "payload", "close"}
    BY <2>6 DEF Words
  <2> QED
    BY <2>1, <2>2, <2>4, <2>6, <2>7 DEF SessionInv, Typed, TypeOK, Ops
<1> QED
  BY <1>1, SessionInductive, PTL

-----------------------------------------------------------------------------
(* The contract of a WsHandler.                                            *)

\* onConnect threw, and the connection was closed.
Refused ==
  /\ conn.closed = TRUE
  /\ Len(calls) = 1
  /\ calls[1].op = "onConnect"
  /\ calls[1].threw = TRUE

\* onConnect returned; the only call that ends a session is the last one.
Accepted ==
  /\ Len(calls) >= 1
  /\ calls[1].op = "onConnect"
  /\ calls[1].threw = FALSE
  /\ \A i \in 2 .. Len(calls) : calls[i].op # "onConnect"
  /\ \A i \in 1 .. Len(calls) : calls[i].op = "onDisconnect" => i = Len(calls) /\ phase # "idle"

Contract ==
  /\ curState # "ws" => calls = <<>> \/ Refused
  /\ curState = "ws" => Accepted
  /\ curState = "ws" /\ phase = "disconnected" => calls[Len(calls)].op = "onDisconnect"

\* Steps that call no callback.
LEMMA NoCallContract ==
  ASSUME Contract, UNCHANGED <<calls, curState>>,
         conn.closed = TRUE => conn'.closed = TRUE,
         phase' # phase => phase = "idle" /\ (phase' # "disconnected" \/ curState # "ws")
  PROVE  Contract'
BY DEF Contract, Refused, Accepted

\* HttpInitState: onConnect is the first call.
LEMMA InitContract ==
  ASSUME SessionInv, Contract, Orderly(conn'), NEW k,
         InitWait(k) \/ InitBad(k) \/ InitGet(k) \/ InitUpgrade(k)
  PROVE  Contract'
<1>1. curState = "init" /\ ~conn.closed /\ phase = "idle" /\ phase' = phase
  BY DEF InitWait, InitBad, InitGet, InitUpgrade, InitRequest, Receive
<1>2. calls = <<>>
  BY <1>1 DEF Contract, Refused
<1>3. CASE UNCHANGED calls
  <2>1. curState' # "ws"
    BY <1>1, <1>2, <1>3 DEF InitWait, InitBad, InitGet, InitUpgrade, Call
  <2> QED
    BY <1>2, <1>3, <2>1 DEF Contract
<1>4. CASE ~UNCHANGED calls
  <2>1. InitUpgrade(k)
    BY <1>4 DEF InitWait, InitBad, InitGet
  <2>2. PICK r \in HandlerResults :
          /\ Call("onConnect", <<>>, r)
          /\ conn' = IF Throws(r) THEN TcpClose(Send(conn, "101")) ELSE Reply(Send(conn, "101"), r)
          /\ curState' = IF Throws(r) THEN "init" ELSE "ws"
    BY <1>4, <2>1 DEF InitUpgrade
  <2>3. calls' = <<[op |-> "onConnect", data |-> <<>>, threw |-> Throws(r)]>>
    BY <1>2, <2>2 DEF Call
  <2>4. Len(calls') = 1 /\ calls'[1].op = "onConnect" /\ calls'[1].threw = Throws(r)
    BY <2>3
  <2>5. CASE Throws(r)
    <3>1. Orderly(Send(conn, "101"))
      BY SendOrderly DEF SessionInv, Typed, Words
    <3>2. conn'.closed = TRUE
      BY <2>2, <2>5, <3>1, TcpCloseCloses
    <3>3. calls'[1].threw = TRUE
      BY <2>4, <2>5 DEF Throws
    <3>4. Refused'
      BY <2>4, <3>2, <3>3 DEF Refused
    <3>5. curState' = "init"
      BY <2>2, <2>5
    <3> QED
      BY <3>4, <3>5 DEF Contract
  <2>6. CASE ~Throws(r)
    <3>1. calls'[1].threw = FALSE
      <4>1. Throws(r) = FALSE
        BY <2>6 DEF Throws
      <4> QED
        BY <2>4, <4>1, Zenon
    <3>2. Accepted'
      BY <2>4, <3>1 DEF Accepted
    <3>3. curState' = "ws"
      BY <2>2, <2>6
    <3> QED
      BY <1>1, <3>2, <3>3 DEF Contract
  <2> QED
    BY <2>5, <2>6
<1> QED
  BY <1>3, <1>4

\* One more call, in a session that goes on.
LEMMA MessageContract ==
  ASSUME SessionInv, Contract, NEW k, WsMessage(k)
  PROVE  Contract'
<1>1. curState = "ws" /\ curState' = "ws" /\ phase = "idle" /\ phase' \in {"idle", "failed"}
  BY DEF WsMessage, WsReceive, Receive
<1>2. PICK r \in HandlerResults, buf \in {Decode(inBuf, Frame)} : Call(MessageOp, Delivered(buf), r)
  BY DEF WsMessage
<1>3. MessageOp \in DataOps
  BY DEF WsMessage
<1> DEFINE c == [op |-> MessageOp, data |-> Delivered(buf), threw |-> Throws(r)]
<1>4. calls' = Append(calls, c) /\ c.op = MessageOp
  BY <1>2 DEF Call
<1> HIDE DEF c
<1>5. calls \in Seq(CallType) /\ Accepted
  BY <1>1 DEF SessionInv, Typed, Contract
<1>6. /\ Len(calls') = Len(calls) + 1
      /\ calls'[Len(calls) + 1] = c
      /\ \A i \in 1 .. Len(calls) : calls'[i] = calls[i]
      /\ Len(calls) \in Nat
  BY <1>4, <1>5
<1>7. c.op # "onConnect" /\ c.op # "onDisconnect"
  BY <1>3, <1>4 DEF DataOps
<1>8. \A i \in 1 .. Len(calls) : calls[i].op # "onDisconnect"
  BY <1>1, <1>5 DEF Accepted
<1>9. \A i \in 1 .. Len(calls') : calls'[i].op # "onDisconnect"
  BY <1>6, <1>7, <1>8
<1>10. \A i \in 2 .. Len(calls') : calls'[i].op # "onConnect"
  BY <1>5, <1>6, <1>7 DEF Accepted
<1>11. Len(calls') >= 1 /\ calls'[1].op = "onConnect" /\ calls'[1].threw = FALSE
  BY <1>5, <1>6 DEF Accepted
<1> QED
  BY <1>1, <1>9, <1>10, <1>11 DEF Contract, Accepted

\* The last call.
LEMMA DisconnectContract ==
  ASSUME SessionInv, Contract, OnDisconnect
  PROVE  Contract'
<1>1. CASE curState # "ws"
  <2>1. UNCHANGED <<calls, curState, conn>> /\ phase = "idle"
    BY <1>1 DEF OnDisconnect
  <2> QED
    BY <1>1, <2>1, NoCallContract
<1>2. CASE curState = "ws"
  <2>1. PICK r \in HandlerResults : Call("onDisconnect", <<>>, r)
    BY <1>2 DEF OnDisconnect
  <2>2. phase = "idle" /\ phase' # "idle" /\ curState' = "ws"
    BY <1>2 DEF OnDisconnect
  <2> DEFINE c == [op |-> "onDisconnect", data |-> <<>>, threw |-> Throws(r)]
  <2>3. calls' = Append(calls, c) /\ c.op = "onDisconnect"
    BY <2>1 DEF Call
  <2> HIDE DEF c
  <2>4. calls \in Seq(CallType) /\ Accepted
    BY <1>2 DEF SessionInv, Typed, Contract
  <2>5. /\ Len(calls') = Len(calls) + 1
        /\ calls'[Len(calls) + 1] = c
        /\ \A i \in 1 .. Len(calls) : calls'[i] = calls[i]
        /\ Len(calls) \in Nat
    BY <2>3, <2>4
  <2>6. \A i \in 1 .. Len(calls) : calls[i].op # "onDisconnect"
    BY <2>2, <2>4 DEF Accepted
  <2>7. \A i \in 1 .. Len(calls') : calls'[i].op = "onDisconnect" => i = Len(calls')
    BY <2>5, <2>6
  <2>8. \A i \in 2 .. Len(calls') : calls'[i].op # "onConnect"
    BY <2>3, <2>4, <2>5 DEF Accepted
  <2>9. Len(calls') >= 1 /\ calls'[1].op = "onConnect" /\ calls'[1].threw = FALSE
    BY <2>4, <2>5 DEF Accepted
  <2>10. calls'[Len(calls')].op = "onDisconnect"
    BY <2>3, <2>5
  <2> QED
    BY <2>2, <2>7, <2>8, <2>9, <2>10 DEF Contract, Accepted
<1> QED
  BY <1>1, <1>2

\* Every step keeps the contract.
LEMMA ContractStep ==
  ASSUME SessionInv, Contract, [Next]_vars
  PROVE  Contract'
<1>1. Orderly(conn')
  BY StepOrderly DEF SessionInv, Typed
<1>2. CASE UNCHANGED vars
  BY <1>2, NoCallContract DEF vars
<1>3. CASE \E k \in 1 .. Len(stream) : InitWait(k) \/ InitBad(k) \/ InitGet(k) \/ InitUpgrade(k)
  BY <1>1, <1>3, InitContract
<1>4. CASE \E k \in 1 .. Len(stream) : WsMessage(k)
  BY <1>4, MessageContract
<1>5. ASSUME NEW k, \/ WsFragment(k) \/ WsContinuationError(k) \/ WsCloseFrame(k) \/ WsPing(k)
                    \/ WsOther(k)
      PROVE  Contract'
  <2>1. UNCHANGED <<calls, curState>> /\ phase' \in {phase, "failed"} /\ phase = "idle" /\ ~conn.closed
    BY <1>5 DEF WsFragment, WsContinuationError, WsCloseFrame, WsPing, WsOther, WsReceive, Receive
  <2> QED
    BY <2>1, NoCallContract
<1>6. CASE Client
  BY <1>6, NoCallContract DEF Client, ClientRequest, ClientFrame, Leave
<1>7. ASSUME NEW k, InitOverrun(k) \/ WsStray(k)
      PROVE  Contract'
  <2>1. UNCHANGED <<calls, curState, conn>> /\ phase' \in {"overrun", "garbled"} /\ phase = "idle"
    BY <1>7 DEF InitOverrun, WsStray, Receive
  <2> QED
    BY <2>1, NoCallContract
<1> QED
  BY <1>2, <1>3, <1>4, <1>5, <1>6, <1>7, DisconnectContract DEF Next, OnReceive, Over

\* onConnect first and onDisconnect last, and nothing after an onConnect that
\* threw.
THEOREM HandlerContract == Spec => []WsContract
<1>1. Init => SessionInv /\ Contract
  BY SessionAssumption, SessionInit DEF Init, Contract
<1>2. SessionInv /\ Contract /\ [Next]_vars => SessionInv' /\ Contract'
  BY SessionAssumption, SessionStep, ContractStep
<1>3. SessionInv /\ Contract => WsContract
  <2> SUFFICES ASSUME SessionInv, Contract PROVE WsContract
    OBVIOUS
  <2>1. Len(calls) \in Nat
    BY DEF SessionInv, Typed
  <2>2. CASE calls = <<>>
    BY <2>2 DEF WsContract
  <2>3. CASE Refused
    BY <2>3 DEF WsContract, Refused
  <2>4. CASE curState = "ws"
    BY <2>1, <2>4 DEF WsContract, Contract, Accepted
  <2> QED
    BY <2>2, <2>3, <2>4 DEF Contract
<1> QED
  BY <1>1, <1>2, <1>3, PTL DEF Spec

-----------------------------------------------------------------------------
(* Messages, of a client and callbacks that keep clear of what corrupts    *)
(* them: one frame at a time, masked and without NUL, no empty first       *)
(* fragment, no control frame inside a message, no std::invalid_argument.  *)
(* Peers that reset the connection and callbacks that close it or throw    *)
(* anything else are not excluded.                                         *)

Conforming == Traffic \subseteq {"reset"} /\ "invalid" \notin HandlerResults

Letters == {"a", "b"}
Plain == [op : DataOps, data : Seq(Letters)]
EndsMessage(f) == f.fin /\ f.op \in DataOps \cup {"cont"}

\* Frame f takes a reader that has the message p open and has read the first
\* d of the messages msgs to q and e.
Link(msgs, p, d, f, q, e) ==
  \/ /\ f.op \in ControlOps
     /\ f.fin
     /\ p = <<>>
     /\ q = <<>>
     /\ e = d
  \/ /\ f.op \in DataOps \cup {"cont"}
     /\ f.masked
     /\ f.op = "cont" <=> p # <<>>
     /\ f.fin \/ f.op = "cont" \/ f.data # <<>>
     /\ Extended(p, f) \in Plain
     /\ q = IF f.fin THEN <<>> ELSE <<Extended(p, f)>>
     /\ e = IF f.fin THEN d + 1 ELSE d
     /\ f.fin => e \in 1 .. Len(msgs) /\ msgs[e] = Extended(p, f)

\* A reader's way through a sequence of frames: the message open before each
\* frame and at the end, and the messages read by then.
Chain(msgs, items, part, done) ==
  /\ part \in [1 .. Len(items) + 1 -> Seq(Plain)]
  /\ done \in [1 .. Len(items) + 1 -> Nat]
  /\ \A i \in 1 .. Len(items) + 1 : part[i] # <<>> => Len(part[i]) = 1 /\ part[i][1].data # <<>>
  /\ \A i \in 1 .. Len(items) : Link(msgs, part[i], done[i], items[i], part[i + 1], done[i + 1])

\* Its ghosts without the first value, and with one more.
Later(g, n) == [i \in 1 .. n |-> g[i + 1]]
Longer(g, n, x) == [i \in 1 .. n + 1 |-> IF i <= n THEN g[i] ELSE x]

\* What is left of the way after the first frame.
LEMMA ChainTail ==
  ASSUME NEW msgs, NEW items \in Seq(Items), Len(items) >= 1, NEW rest \in Seq(Items),
         Len(rest) = Len(items) - 1, \A i \in 1 .. Len(rest) : rest[i] = items[i + 1],
         NEW part, NEW done, Chain(msgs, items, part, done)
  PROVE  Chain(msgs, rest, Later(part, Len(rest) + 1), Later(done, Len(rest) + 1))
<1> USE DEF Later
<1> DEFINE part2 == Later(part, Len(rest) + 1)
           done2 == Later(done, Len(rest) + 1)
<1>1. Len(items) \in Nat /\ Len(rest) \in Nat
  OBVIOUS
<1>2. \A i \in 1 .. Len(rest) + 1 : i + 1 \in 1 .. Len(items) + 1
  BY <1>1
<1>3. part2 \in [1 .. Len(rest) + 1 -> Seq(Plain)] /\ done2 \in [1 .. Len(rest) + 1 -> Nat]
  BY <1>2 DEF Chain
<1>4. \A i \in 1 .. Len(rest) + 1 : part2[i] = part[i + 1] /\ done2[i] = done[i + 1]
  OBVIOUS
<1>5. \A i \in 1 .. Len(rest) + 1 : part2[i] # <<>> => Len(part2[i]) = 1 /\ part2[i][1].data # <<>>
  BY <1>2, <1>4 DEF Chain
<1>6. ASSUME NEW i \in 1 .. Len(rest)
      PROVE  Link(msgs, part2[i], done2[i], rest[i], part2[i + 1], done2[i + 1])
  <2>1. i + 1 \in 1 .. Len(items) /\ i \in 1 .. Len(rest) + 1 /\ i + 1 \in 1 .. Len(rest) + 1
    BY <1>1
  <2>2. Link(msgs, part[i + 1], done[i + 1], items[i + 1], part[(i + 1) + 1], done[(i + 1) + 1])
    BY <2>1 DEF Chain
  <2>3. rest[i] = items[i + 1]
    OBVIOUS
  <2>4. /\ part2[i] = part[i + 1] /\ part2[i + 1] = part[(i + 1) + 1]
        /\ done2[i] = done[i + 1] /\ done2[i + 1] = done[(i + 1) + 1]
    BY <1>4, <2>1
  <2> HIDE DEF part2, done2
  <2> QED
    BY <2>2, <2>3, <2>4
<1> HIDE DEF part2, done2
<1>7. Chain(msgs, rest, part2, done2)
  BY <1>3, <1>5, <1>6 DEF Chain
<1> QED
  BY <1>7 DEF part2, done2

\* A message more at the end of msgs changes no link.
LEMMA LinkMore ==
  ASSUME NEW msgs \in Seq(Message), NEW more \in Seq(Message), Len(msgs) <= Len(more),
         \A i \in 1 .. Len(msgs) : more[i] = msgs[i],
         NEW p, NEW d, NEW f, NEW q, NEW e, Link(msgs, p, d, f, q, e)
  PROVE  Link(more, p, d, f, q, e)
<1>1. \A i \in 1 .. Len(msgs) : i \in 1 .. Len(more)
  OBVIOUS
<1> QED
  BY <1>1 DEF Link

\* The way through one frame more.
LEMMA ChainMore ==
  ASSUME NEW msgs \in Seq(Message), NEW more \in Seq(Message), Len(msgs) <= Len(more),
         \A i \in 1 .. Len(msgs) : more[i] = msgs[i],
         NEW items \in Seq(Items), NEW f \in Items,
         NEW part, NEW done, Chain(msgs, items, part, done),
         NEW q \in Seq(Plain), NEW e \in Nat,
         q # <<>> => Len(q) = 1 /\ q[1].data # <<>>,
         Link(more, part[Len(items) + 1], done[Len(items) + 1], f, q, e)
  PROVE  Chain(more, Append(items, f), Longer(part, Len(items) + 1, q), Longer(done, Len(items) + 1, e))
<1> DEFINE n == Len(items)
           part2 == Longer(part, n + 1, q)
           done2 == Longer(done, n + 1, e)
           items2 == Append(items, f)
<1>1. n \in Nat /\ Len(items2) = n + 1 /\ items2[n + 1] = f /\ \A i \in 1 .. n : items2[i] = items[i]
  OBVIOUS
<1>2. /\ \A i \in 1 .. n + 1 : part2[i] = part[i] /\ done2[i] = done[i]
      /\ part2[n + 2] = q /\ done2[n + 2] = e
  BY <1>1 DEF Longer
<1>3. part2 \in [1 .. n + 2 -> Seq(Plain)] /\ done2 \in [1 .. n + 2 -> Nat]
  BY <1>1 DEF Chain, Longer
<1> HIDE DEF part2, done2, items2, n
<1>4. \A i \in 1 .. n + 2 : part2[i] # <<>> => Len(part2[i]) = 1 /\ part2[i][1].data # <<>>
  <2> SUFFICES ASSUME NEW i \in 1 .. n + 2, part2[i] # <<>>
               PROVE  Len(part2[i]) = 1 /\ part2[i][1].data # <<>>
    OBVIOUS
  <2>1. CASE i = n + 2
    BY <1>2, <2>1
  <2>2. CASE i # n + 2
    <3>1. i \in 1 .. n + 1 /\ part2[i] = part[i]
      BY <1>1, <1>2, <2>2
    <3> QED
      BY <3>1 DEF Chain, n
  <2> QED
    BY <2>1, <2>2
<1>5. ASSUME NEW i \in 1 .. n + 1
      PROVE  Link(more, part2[i], done2[i], items2[i], part2[i + 1], done2[i + 1])
  <2>1. CASE i = n + 1
    <3>1. n + 1 \in 1 .. n + 1 /\ (n + 1) + 1 = n + 2
      BY <1>1
    <3>2. part2[i] = part[n + 1] /\ done2[i] = done[n + 1] /\ items2[i] = f
          /\ part2[i + 1] = q /\ done2[i + 1] = e
      BY <1>1, <1>2, <2>1, <3>1
    <3> QED
      BY <3>2 DEF n
  <2>2. CASE i # n + 1
    <3>1. i \in 1 .. n /\ i + 1 \in 1 .. n + 1
      BY <1>1, <2>2
    <3>2. Link(msgs, part[i], done[i], items[i], part[i + 1], done[i + 1])
      BY <3>1 DEF Chain, n
    <3>3. Link(more, part[i], done[i], items[i], part[i + 1], done[i + 1])
      BY <3>2, LinkMore
    <3>4. part2[i] = part[i] /\ done2[i] = done[i] /\ items2[i] = items[i]
          /\ part2[i + 1] = part[i + 1] /\ done2[i + 1] = done[i + 1]
      BY <1>1, <1>2, <3>1
    <3> QED
      BY <3>3, <3>4
  <2> QED
    BY <2>1, <2>2
<1>6. Len(items2) + 1 = n + 2
  BY <1>1
<1>7. Chain(more, items2, part2, done2)
  BY <1>1, <1>3, <1>4, <1>5, <1>6 DEF Chain
<1> QED
  BY <1>7 DEF part2, done2, items2, n

\* The session is upgraded and goes on; its request was not cut off.
Live == curState = "ws" /\ ~conn.closed /\ phase = "idle"
Open == Live /\ ~Straying

\* The message HttpWsState is in the middle of.
Partial == IF inBuf = <<>> THEN <<>> ELSE <<[op |-> opcode, data |-> inBuf]>>

\* The frames that wait lead from what the server has read to what the client
\* has sent.
Along(part, done) ==
  /\ Chain(sentMsgs, stream, part, done)
  /\ part[1] = Partial
  /\ done[1] + 1 = Len(calls)
  /\ part[Len(stream) + 1] = building
  /\ done[Len(stream) + 1] = Len(sentMsgs)

Chained == Open => \E part, done : Along(part, done)

\* A text without NUL arrives as it is.
LEMMA DeliveredPlain ==
  ASSUME NEW buf \in Seq(Letters)
  PROVE  Delivered(buf) = buf
<1> DEFINE b == Append(buf, "nul")
           Fits(n) == /\ \A i \in 1 .. n : b[i] # "nul"
                      /\ n < Len(b) => b[n + 1] = "nul"
<1>1. /\ Len(buf) \in Nat
      /\ Len(b) = Len(buf) + 1
      /\ b[Len(buf) + 1] = "nul"
      /\ \A i \in 1 .. Len(buf) : b[i] = buf[i] /\ b[i] # "nul"
  BY DEF Letters
<1>2. Len(buf) \in 0 .. Len(b) /\ Fits(Len(buf))
  BY <1>1
<1>3. \A n \in 0 .. Len(b) : Fits(n) => n = Len(buf)
  <2> SUFFICES ASSUME NEW n \in 0 .. Len(b), Fits(n), n # Len(buf) PROVE FALSE
    OBVIOUS
  <2>1. CASE n < Len(buf)
    <3>1. n + 1 \in 1 .. Len(buf) /\ n < Len(b)
      BY <1>1, <2>1
    <3> QED
      BY <1>1, <3>1
  <2>2. CASE n > Len(buf)
    <3>1. Len(buf) + 1 \in 1 .. n
      BY <1>1, <2>2
    <3> QED
      BY <1>1, <3>1
  <2> QED
    BY <1>1, <2>1, <2>2
<1>4. (CHOOSE n \in 0 .. Len(b) : Fits(n)) = Len(buf)
  <2> HIDE DEF Fits, b
  <2> QED
    BY <1>2, <1>3
<1>5. CString(b) = SubSeq(b, 1, Len(buf))
  BY <1>4 DEF CString
<1>6. SubSeq(b, 1, Len(buf)) = buf
  <2>1. b \in Seq(Letters \cup {"nul"}) /\ Len(SubSeq(b, 1, Len(buf))) = Len(buf)
    BY <1>1
  <2> QED
    BY <1>1, <2>1
<1> QED
  BY <1>5, <1>6 DEF Delivered, Terminated

\* What HttpWsState makes of a frame: a control frame finds the buffer empty,
\* and a data frame extends the message.
LEMMA FrameRead ==
  ASSUME Conforming, SessionInv, NEW part, NEW done, Along(part, done), NEW k, WsReceive(k)
  PROVE  /\ k = 1
         /\ Link(sentMsgs, part[1], done[1], Frame, part[2], done[2])
         /\ Frame.op \in ControlOps => Frame.fin /\ MessageOp = Frame.op /\ part[2] = <<>> /\ done[2] = done[1]
         /\ Frame.op \notin ControlOps =>
              /\ Extended(part[1], Frame) = [op |-> MessageOp, data |-> Decode(inBuf, Frame)]
              /\ MessageOp \in DataOps
              /\ Decode(inBuf, Frame) \in Seq(Letters)
<1>1. k \in 1 .. Len(stream) /\ k = 1
  BY ReceiveRest DEF WsReceive, SessionInv, Conforming
<1>2. Link(sentMsgs, part[1], done[1], Frame, part[2], done[2])
  <2>1. 1 \in 1 .. Len(stream) /\ 1 + 1 = 2
    BY <1>1
  <2> QED
    BY <2>1 DEF Along, Chain, Frame
<1>3. part[1] = Partial /\ inBuf \in Seq(Chars) /\ Frame \in Frames
  BY WsFrameFirst DEF Along, SessionInv, Typed
<1>4. CASE Frame.op \in ControlOps
  <2>1. Frame.op \notin DataOps \cup {"cont"}
    BY <1>4 DEF ControlOps, DataOps
  <2>2. Frame.fin /\ part[1] = <<>> /\ part[2] = <<>> /\ done[2] = done[1]
    BY <1>2, <2>1 DEF Link
  <2>3. <<[op |-> opcode, data |-> inBuf]>> # <<>>
    OBVIOUS
  <2>4. inBuf = <<>>
    BY <1>3, <2>2, <2>3, Zenon DEF Partial
  <2> QED
    BY <1>1, <1>2, <1>4, <2>2, <2>4 DEF MessageOp
<1>5. CASE Frame.op \notin ControlOps
  <2>1. /\ Frame.op = "cont" <=> part[1] # <<>>
        /\ Frame.masked
        /\ Extended(part[1], Frame) \in Plain
    BY <1>2, <1>5 DEF Link
  <2>2. Extended(part[1], Frame) = [op |-> MessageOp, data |-> Decode(inBuf, Frame)]
    <3>1. CASE inBuf = <<>>
      <4>1. part[1] = <<>> /\ MessageOp = Frame.op
        BY <1>3, <3>1 DEF Partial, MessageOp
      <4>2. Decode(inBuf, Frame) = Frame.data
        <5>1. Frame.data \in Seq(Chars)
          BY <1>3, FrameFields
        <5>2. Decode(inBuf, Frame) = <<>> \o Frame.data
          BY <2>1, <3>1 DEF Decode
        <5> QED
          BY <5>1, <5>2
      <4> QED
        BY <4>1, <4>2 DEF Extended
    <3>2. CASE inBuf # <<>>
      <4>1. part[1] = <<[op |-> opcode, data |-> inBuf]>> /\ MessageOp = opcode
        BY <1>3, <3>2 DEF Partial, MessageOp
      <4>2. Decode(inBuf, Frame) = inBuf \o Frame.data
        BY <2>1 DEF Decode
      <4>3. part[1] # <<>> /\ part[1][1].op = opcode /\ part[1][1].data = inBuf
        BY <4>1
      <4> QED
        BY <4>1, <4>2, <4>3 DEF Extended
    <3> QED
      BY <3>1, <3>2
  <2>3. MessageOp \in DataOps /\ Decode(inBuf, Frame) \in Seq(Letters)
    BY <2>1, <2>2 DEF Plain
  <2> QED
    BY <1>1, <1>2, <1>5, <2>2, <2>3
<1> QED
  BY <1>4, <1>5

\* The server has read one frame, and stands where the chain says.
LEMMA ReadOn ==
  ASSUME SessionInv, NEW part, NEW done, Along(part, done), WsReceive(1),
         Partial' = part[2], done[2] + 1 = Len(calls')
  PROVE  \E p, d : Along(p, d)'
<1>1. /\ 1 \in 1 .. Len(stream)
      /\ stream \in Seq(Items)
      /\ stream' \in Seq(Items)
      /\ Len(stream') = Len(stream) - 1
      /\ \A i \in 1 .. Len(stream') : stream'[i] = stream[1 + i]
      /\ UNCHANGED <<building, sentMsgs>>
  <2>1. Typed /\ Receive("ws", 1) /\ stream \in Seq(Items)
    BY DEF WsReceive, SessionInv, Typed
  <2>2. UNCHANGED <<building, sentMsgs>>
    BY <2>1 DEF Receive, clientVars
  <2> QED
    BY <2>1, <2>2, ReceiveRest
<1>2. PICK items \in Seq(Items), rest \in Seq(Items), msgs \in {sentMsgs}, open \in {building} :
        items = stream /\ rest = stream' /\ msgs = sentMsgs /\ open = building
  BY <1>1
<1> DEFINE p == Later(part, Len(rest) + 1)
           d == Later(done, Len(rest) + 1)
<1>3. /\ Len(items) >= 1
      /\ Len(rest) = Len(items) - 1
      /\ \A i \in 1 .. Len(rest) : rest[i] = items[i + 1]
  BY <1>1, <1>2
<1>4. Chain(msgs, items, part, done)
  BY <1>2 DEF Along
<1>5. Chain(msgs, rest, p, d)
  BY <1>3, <1>4, ChainTail
<1>6. Len(items) \in Nat /\ Len(rest) \in Nat
  OBVIOUS
<1>7. 1 \in 1 .. Len(rest) + 1 /\ Len(rest) + 1 \in 1 .. Len(rest) + 1 /\ (Len(rest) + 1) + 1 = Len(items) + 1
  BY <1>3, <1>6
<1>8. /\ p[1] = part[2]
      /\ d[1] = done[2]
      /\ p[Len(rest) + 1] = part[Len(items) + 1]
      /\ d[Len(rest) + 1] = done[Len(items) + 1]
  BY <1>7 DEF Later
<1> HIDE DEF p, d
<1>9. part[Len(items) + 1] = open /\ done[Len(items) + 1] = Len(msgs)
  BY <1>2 DEF Along
<1>10. Along(p, d)'
  BY <1>1, <1>2, <1>5, <1>8, <1>9 DEF Along
<1> QED
  BY <1>10

\* The message a frame ends is the next one the client sent.
LEMMA MessageRead ==
  ASSUME Conforming, SessionInv, NEW part, NEW done, Along(part, done), NEW k, WsMessage(k)
  PROVE  /\ done[2] = Len(calls)
         /\ part[2] = <<>>
         /\ done[2] \in 1 .. Len(sentMsgs)
         /\ sentMsgs[done[2]] = [op |-> MessageOp, data |-> Decode(inBuf, Frame)]
         /\ Delivered(Decode(inBuf, Frame)) = Decode(inBuf, Frame)
<1>1. WsReceive(k) /\ Frame.fin /\ MessageOp \in DataOps
  BY DEF WsMessage
<1>2. Frame.op \notin ControlOps
  BY <1>1, FrameRead DEF DataOps, ControlOps
<1>3. /\ Link(sentMsgs, part[1], done[1], Frame, part[2], done[2])
      /\ Extended(part[1], Frame) = [op |-> MessageOp, data |-> Decode(inBuf, Frame)]
      /\ Decode(inBuf, Frame) \in Seq(Letters)
  BY <1>1, <1>2, FrameRead
<1>4. /\ part[2] = <<>>
      /\ done[2] = done[1] + 1
      /\ done[2] \in 1 .. Len(sentMsgs)
      /\ sentMsgs[done[2]] = Extended(part[1], Frame)
  BY <1>1, <1>2, <1>3 DEF Link
<1>5. done[1] + 1 = Len(calls)
  BY DEF Along
<1> QED
  BY <1>3, <1>4, <1>5, DeliveredPlain

\* HttpWsState follows the chain.
LEMMA WsChained ==
  ASSUME Conforming, SessionInv, Chained, NEW k,
         \/ WsFragment(k) \/ WsContinuationError(k) \/ WsCloseFrame(k)
         \/ WsPing(k) \/ WsMessage(k) \/ WsOther(k)
  PROVE  Chained'
<1> SUFFICES ASSUME Open'
             PROVE  \E p, d : Along(p, d)'
  BY DEF Chained
<1>1. WsReceive(k)
  BY DEF WsFragment, WsContinuationError, WsCloseFrame, WsPing, WsMessage, WsOther
<1>2. Open
  BY <1>1, NotStraying DEF WsReceive, Receive, Open, Live
<1>3. PICK part, done : Along(part, done)
  BY <1>2 DEF Chained
<1>4. k = 1 /\ Link(sentMsgs, part[1], done[1], Frame, part[2], done[2])
  BY <1>1, <1>3, FrameRead
<1>5. done[1] + 1 = Len(calls)
  BY <1>3 DEF Along
<1>6. phase' = "idle" /\ ~conn'.closed
  BY DEF Open, Live
<1>7. CASE WsMessage(k)
  <2>1. PICK r \in HandlerResults, buf \in {Decode(inBuf, Frame)} :
          /\ Call(MessageOp, Delivered(buf), r)
          /\ inBuf' = IF Throws(r) THEN Terminated(buf) ELSE <<>>
          /\ phase' = IF r = "throw" THEN "failed" ELSE phase
    BY <1>7 DEF WsMessage
  <2>2. ~Throws(r)
    BY <1>6, <2>1 DEF Throws, Conforming
  <2>3. part[2] = <<>> /\ done[2] = Len(calls)
    BY <1>3, <1>7, MessageRead
  <2>4. Partial' = part[2]
    BY <2>1, <2>2, <2>3 DEF Partial
  <2>5. calls \in Seq(CallType) /\ Len(calls') = Len(calls) + 1
    BY <2>1 DEF Call, SessionInv, Typed
  <2> QED
    BY <1>1, <1>3, <1>4, <2>3, <2>4, <2>5, ReadOn
<1>8. CASE WsFragment(k)
  <2>1. ~Frame.fin /\ inBuf' = Decode(inBuf, Frame) /\ opcode' = MessageOp /\ calls' = calls
    BY <1>8 DEF WsFragment, WsReceive
  <2>2. Frame.op \notin ControlOps
    BY <1>1, <1>3, <2>1, FrameRead
  <2>3. Extended(part[1], Frame) = [op |-> MessageOp, data |-> Decode(inBuf, Frame)]
    BY <1>1, <1>3, <2>2, FrameRead
  <2>4. part[2] = <<[op |-> MessageOp, data |-> Decode(inBuf, Frame)]>> /\ done[2] = done[1]
    BY <1>4, <2>1, <2>2, <2>3 DEF Link
  <2>5. Decode(inBuf, Frame) # <<>>
    <3>1. 2 \in 1 .. Len(stream) + 1
      BY <1>1, <1>4, ReceiveRest DEF WsReceive, SessionInv
    <3>2. part[2] # <<>>
      BY <2>4
    <3>3. part[2][1].data # <<>>
      BY <1>3, <3>1, <3>2 DEF Along, Chain
    <3> QED
      BY <2>4, <3>3
  <2>6. Partial' = part[2]
    BY <2>1, <2>4, <2>5 DEF Partial
  <2> QED
    BY <1>1, <1>3, <1>4, <1>5, <2>1, <2>4, <2>6, ReadOn
<1>9. CASE ~WsMessage(k) /\ ~WsFragment(k)
  <2>1. /\ Frame.fin
        /\ MessageOp \notin DataOps
    BY <1>9 DEF WsContinuationError, WsCloseFrame, WsPing, WsOther, DataOps
  <2>2. Frame.op \in ControlOps
    BY <1>1, <1>3, <2>1, FrameRead
  <2>3. MessageOp \in ControlOps /\ part[2] = <<>> /\ done[2] = done[1]
    BY <1>1, <1>3, <2>2, FrameRead
  <2>4. inBuf' = <<>> /\ calls' = calls
    <3>1. CASE WsContinuationError(k)
      BY <1>6, <3>1 DEF WsContinuationError
    <3>2. CASE WsCloseFrame(k)
      BY <1>6, <3>2 DEF WsCloseFrame
    <3>3. CASE WsPing(k) \/ WsOther(k)
      BY <1>6, <3>3 DEF WsPing, WsOther
    <3> QED
      BY <1>9, <3>1, <3>2, <3>3
  <2>5. Partial' = part[2]
    BY <2>3, <2>4 DEF Partial
  <2> QED
    BY <1>1, <1>3, <1>4, <1>5, <2>3, <2>4, <2>5, ReadOn
<1> QED
  BY <1>7, <1>8, <1>9

\* Without "nul" the payloads are plain.
LEMMA PlainPayloads ==
  ASSUME Conforming, NEW f \in Frames
  PROVE  f.data \in Seq(Letters)
<1>1. f.data \in Payloads
  BY DEF Frames
<1>2. "nul" \notin Traffic
  BY DEF Conforming
<1>3. <<>> \in Seq(Letters) /\ <<"a">> \in Seq(Letters) /\ <<"b">> \in Seq(Letters)
  BY DEF Letters
<1> QED
  BY <1>1, <1>2, <1>3 DEF Payloads

\* The client's frame is the next link.
LEMMA FrameSent ==
  ASSUME Conforming, SessionInv, NEW f \in Frames, ClientFrame(f),
         building \in Seq(Plain), building # <<>> => Len(building) = 1 /\ building[1].data # <<>>
  PROVE  /\ Link(sentMsgs', building, Len(sentMsgs), f, building', Len(sentMsgs'))
         /\ building' \in Seq(Plain)
         /\ building' # <<>> => Len(building') = 1 /\ building'[1].data # <<>>
         /\ sentMsgs' \in Seq(Message)
         /\ Len(sentMsgs) <= Len(sentMsgs')
         /\ \A i \in 1 .. Len(sentMsgs) : sentMsgs'[i] = sentMsgs[i]
<1>1. "unmasked" \notin Traffic /\ "interleaved" \notin Traffic /\ "emptyFirst" \notin Traffic
  BY DEF Conforming
<1>2. f.masked
  BY <1>1 DEF ClientFrame
<1>3. sentMsgs \in Seq(Message) /\ f.data \in Seq(Letters)
  BY PlainPayloads DEF SessionInv, Typed
<1>4. CASE ControlFrame(f)
  <2>1. f.op \in ControlOps /\ f.fin /\ building = <<>> /\ building' = <<>> /\ sentMsgs' = sentMsgs
    BY <1>1, <1>4 DEF ControlFrame
  <2> QED
    BY <1>3, <2>1 DEF Link
<1>5. CASE DataFrame(f)
  <2>1. /\ f.op \in DataOps \cup {"cont"}
        /\ f.op = "cont" <=> building # <<>>
        /\ f.fin \/ f.op = "cont" \/ f.data # <<>>
        /\ building' = IF f.fin THEN <<>> ELSE <<Extended(building, f)>>
        /\ sentMsgs' = IF f.fin THEN Append(sentMsgs, Extended(building, f)) ELSE sentMsgs
    BY <1>1, <1>5 DEF DataFrame
  <2>2. Extended(building, f) \in Plain /\ (~f.fin => Extended(building, f).data # <<>>)
    <3>1. CASE building = <<>>
      <4>1. Extended(building, f) = [op |-> f.op, data |-> f.data] /\ f.op \in DataOps
        BY <2>1, <3>1 DEF Extended
      <4> QED
        BY <1>3, <2>1, <3>1, <4>1 DEF Plain
    <3>2. CASE building # <<>>
      <4>1. building[1] \in Plain /\ building[1].data # <<>>
        BY <3>2
      <4>2. building[1].op \in DataOps /\ building[1].data \in Seq(Letters)
        BY <4>1 DEF Plain
      <4>3. Extended(building, f) = [op |-> building[1].op, data |-> building[1].data \o f.data]
        BY <3>2 DEF Extended
      <4>4. building[1].data \o f.data \in Seq(Letters) /\ building[1].data \o f.data # <<>>
        BY <1>3, <4>1, <4>2
      <4> QED
        BY <4>2, <4>3, <4>4 DEF Plain
    <3> QED
      BY <3>1, <3>2
  <2>3. PICK m \in Plain : m = Extended(building, f) /\ (~f.fin => m.data # <<>>)
    BY <2>2
  <2>4. m \in Message
    BY DEF Plain, Message, Letters, Chars
  <2>5. CASE f.fin
    <3>1. building' = <<>> /\ sentMsgs' = Append(sentMsgs, m)
      BY <2>1, <2>3, <2>5
    <3>2. /\ sentMsgs' \in Seq(Message)
          /\ Len(sentMsgs') = Len(sentMsgs) + 1
          /\ Len(sentMsgs) \in Nat
          /\ sentMsgs'[Len(sentMsgs')] = m
          /\ \A i \in 1 .. Len(sentMsgs) : sentMsgs'[i] = sentMsgs[i]
      BY <1>3, <2>4, <3>1
    <3>3. Len(sentMsgs') \in 1 .. Len(sentMsgs') /\ Len(sentMsgs) <= Len(sentMsgs')
      BY <3>2
    <3>4. Link(sentMsgs', building, Len(sentMsgs), f, building', Len(sentMsgs'))
      BY <1>2, <2>1, <2>3, <2>5, <3>1, <3>2, <3>3 DEF Link
    <3> QED
      BY <3>1, <3>2, <3>3, <3>4
  <2>6. CASE ~f.fin
    <3>1. building' = <<m>> /\ sentMsgs' = sentMsgs
      BY <2>1, <2>3, <2>6
    <3>2. building' \in Seq(Plain) /\ Len(building') = 1 /\ building'[1] = m
      BY <3>1
    <3>3. Link(sentMsgs', building, Len(sentMsgs), f, building', Len(sentMsgs'))
      BY <1>2, <2>1, <2>3, <2>6, <3>1 DEF Link
    <3> QED
      BY <1>3, <2>3, <2>6, <3>1, <3>2, <3>3
  <2> QED
    BY <2>5, <2>6
<1> QED
  BY <1>4, <1>5 DEF ClientFrame

\* So the chain grows at its end.
LEMMA ClientChained ==
  ASSUME Conforming, SessionInv, Chained, NEW f \in Frames, ClientFrame(f)
  PROVE  Chained'
<1> SUFFICES ASSUME Open'
             PROVE  \E p, d : Along(p, d)'
  BY DEF Chained
<1>1. Open
  BY ClientFrameStrays DEF Open, Live, ClientFrame
<1>2. PICK part, done : Along(part, done)
  BY <1>1 DEF Chained
<1>3. stream \in Seq(Items) /\ sentMsgs \in Seq(Message)
  BY DEF SessionInv, Typed
<1>4. Len(stream) + 1 \in 1 .. Len(stream) + 1
  BY <1>3
<1>5. /\ building = part[Len(stream) + 1]
      /\ part[Len(stream) + 1] \in Seq(Plain)
      /\ part[Len(stream) + 1] # <<>> =>
           Len(part[Len(stream) + 1]) = 1 /\ part[Len(stream) + 1][1].data # <<>>
      /\ done[Len(stream) + 1] = Len(sentMsgs)
  BY <1>2, <1>4 DEF Along, Chain
<1>6. building \in Seq(Plain) /\ (building # <<>> => Len(building) = 1 /\ building[1].data # <<>>)
  BY <1>5
<1>7. /\ Link(sentMsgs', building, Len(sentMsgs), f, building', Len(sentMsgs'))
      /\ building' \in Seq(Plain)
      /\ building' # <<>> => Len(building') = 1 /\ building'[1].data # <<>>
      /\ sentMsgs' \in Seq(Message)
      /\ Len(sentMsgs) <= Len(sentMsgs')
      /\ \A i \in 1 .. Len(sentMsgs) : sentMsgs'[i] = sentMsgs[i]
  BY <1>6, FrameSent
<1>8. PICK msgs \in Seq(Message), more \in Seq(Message), items \in Seq(Items), q \in Seq(Plain) :
        msgs = sentMsgs /\ more = sentMsgs' /\ items = stream /\ q = building'
  BY <1>3, <1>7
<1>9. Len(more) \in Nat /\ f \in Items /\ Len(items) \in Nat
  BY DEF Items
<1>10. Link(more, part[Len(items) + 1], done[Len(items) + 1], f, q, Len(more))
  BY <1>5, <1>7, <1>8
<1>11. Chain(msgs, items, part, done)
  BY <1>2, <1>8 DEF Along
<1> DEFINE p == Longer(part, Len(items) + 1, q)
           d == Longer(done, Len(items) + 1, Len(more))
<1>12. /\ Len(msgs) <= Len(more)
       /\ \A i \in 1 .. Len(msgs) : more[i] = msgs[i]
       /\ q # <<>> => Len(q) = 1 /\ q[1].data # <<>>
  BY <1>7, <1>8
<1>13. Chain(more, Append(items, f), p, d)
  BY <1>9, <1>10, <1>11, <1>12, ChainMore
<1>14. /\ p[1] = part[1] /\ d[1] = done[1]
       /\ p[Len(items) + 2] = q /\ d[Len(items) + 2] = Len(more)
  BY <1>9 DEF Longer
<1> HIDE DEF p, d
<1>15. stream' = Append(items, f) /\ Len(stream') + 1 = Len(items) + 2
  BY <1>8, <1>9 DEF ClientFrame
<1>16. Partial' = Partial /\ calls' = calls
  BY DEF Partial, ClientFrame, wsVars
<1>17. part[1] = Partial /\ done[1] + 1 = Len(calls)
  BY <1>2 DEF Along
<1>18. Along(p, d)'
  BY <1>8, <1>13, <1>14, <1>15, <1>16, <1>17 DEF Along
<1> QED
  BY <1>18

\* It starts empty.
LEMMA UpgradeChained ==
  ASSUME SessionAssumption, SessionInv, Contract, NEW k, InitUpgrade(k)
  PROVE  Chained'
<1> SUFFICES ASSUME Open'
             PROVE  \E p, d : Along(p, d)'
  BY DEF Chained
<1>1. Receive("init", k) /\ InitRequest(k)
  BY DEF InitUpgrade, InitRequest
<1>2. stream' = <<>>
  BY <1>1, RequestOver DEF Open
<1>3. calls = <<>> /\ building = <<>> /\ sentMsgs = <<>> /\ inBuf = <<>>
  BY <1>1 DEF Receive, SessionInv, Requesting, Contract, Refused
<1>4. building' = <<>> /\ sentMsgs' = <<>> /\ inBuf' = <<>>
  BY <1>1, <1>3 DEF Receive, clientVars, InitUpgrade, wsVars
<1>5. Len(calls') = 1
  <2>1. curState = "init" /\ curState' = "ws"
    BY <1>1 DEF Open, Live, Receive
  <2>2. PICK r \in HandlerResults : Call("onConnect", <<>>, r)
    BY <2>1 DEF InitUpgrade
  <2> QED
    BY <1>3, <2>2 DEF Call
<1> DEFINE p == [i \in 1 .. 1 |-> <<>>]
           d == [i \in 1 .. 1 |-> 0]
<1>6. /\ p \in [1 .. 1 -> Seq(Plain)] /\ d \in [1 .. 1 -> Nat]
      /\ p[1] = <<>> /\ d[1] = 0
      /\ \A i \in 1 .. 1 : p[i] = <<>>
  OBVIOUS
<1> HIDE DEF p, d
<1>7. Chain(<<>>, <<>>, p, d)
  <2>1. Len(<<>>) = 0 /\ 0 + 1 = 1 /\ 1 .. 0 = {}
    OBVIOUS
  <2> QED
    BY <1>6, <2>1 DEF Chain
<1>8. Partial' = <<>>
  BY <1>4 DEF Partial
<1>9. Along(p, d)'
  <2>1. Len(<<>>) = 0 /\ 0 + 1 = 1
    OBVIOUS
  <2> QED
    BY <1>2, <1>4, <1>5, <1>6, <1>7, <1>8, <2>1 DEF Along
<1> QED
  BY <1>9

\* Every step keeps it.
LEMMA ChainedStep ==
  ASSUME Conforming, SessionAssumption, SessionInv, Contract, Chained, [Next]_vars
  PROVE  Chained'
<1>1. CASE UNCHANGED <<stream, asked, building, sentMsgs, inBuf, opcode, calls, curState, conn, phase>>
  <2>1. Open' = Open
    BY <1>1 DEF Open, Live, Straying
  <2>2. ASSUME NEW p, NEW d, Along(p, d)
        PROVE  Along(p, d)'
    BY <1>1, <2>2 DEF Along, Partial
  <2> QED
    BY <2>1, <2>2 DEF Chained
<1>2. CASE ~Open'
  BY <1>2 DEF Chained
<1>3. CASE \E k \in 1 .. Len(stream) : InitUpgrade(k)
  BY <1>3, UpgradeChained
<1>4. CASE \E k \in 1 .. Len(stream) :
               \/ WsFragment(k) \/ WsContinuationError(k) \/ WsCloseFrame(k)
               \/ WsPing(k) \/ WsMessage(k) \/ WsOther(k)
  BY <1>4, WsChained
<1>5. CASE \E f \in Frames : ClientFrame(f)
  BY <1>5, ClientChained
<1>6. CASE OnDisconnect
  BY <1>2, <1>6 DEF OnDisconnect, Open, Live
<1>7. CASE ClientRequest
  BY <1>2, <1>7, ClientRequestStrays DEF ClientRequest, Open, Live
<1>8. CASE \E k \in 1 .. Len(stream) :
             InitWait(k) \/ InitOverrun(k) \/ InitBad(k) \/ InitGet(k) \/ WsStray(k)
  BY <1>2, <1>8 DEF InitWait, InitOverrun, InitBad, InitGet, InitRequest, WsStray, Receive, Open, Live
<1>9. CASE Leave \/ UNCHANGED vars
  BY <1>1, <1>9 DEF Leave, vars, clientVars, wsVars
<1> QED
  BY <1>3, <1>4, <1>5, <1>6, <1>7, <1>8, <1>9 DEF Next, Client, OnReceive, Over

\* What was handed over is what was sent, and stays so.
LEMMA IntactStep ==
  ASSUME Conforming, SessionAssumption, SessionInv, Contract, Chained, MessagesIntact, [Next]_vars
  PROVE  MessagesIntact'
<1>1. calls \in Seq(CallType) /\ sentMsgs \in Seq(Message)
  BY DEF SessionInv, Typed
<1>2. ASSUME UNCHANGED sentMsgs, NEW c, calls' = Append(calls, c),
             c.op \in DataOps => /\ Len(calls) \in 1 .. Len(sentMsgs)
                                 /\ c.op = sentMsgs[Len(calls)].op
                                 /\ c.data = sentMsgs[Len(calls)].data
      PROVE  MessagesIntact'
  <2>1. /\ Len(calls') = Len(calls) + 1
        /\ Len(calls) \in Nat
        /\ calls'[Len(calls) + 1] = c
        /\ \A i \in 1 .. Len(calls) : calls'[i] = calls[i]
    BY <1>1, <1>2
  <2> SUFFICES ASSUME NEW i \in 1 .. Len(calls'), calls'[i].op \in DataOps
               PROVE  /\ i - 1 \in 1 .. Len(sentMsgs)
                      /\ calls'[i].op = sentMsgs[i - 1].op
                      /\ calls'[i].data = sentMsgs[i - 1].data
    BY <1>2 DEF MessagesIntact
  <2>2. CASE i = Len(calls) + 1
    <3>1. i - 1 = Len(calls) /\ calls'[i] = c
      BY <2>1, <2>2
    <3> QED
      BY <1>2, <3>1
  <2>3. CASE i # Len(calls) + 1
    <3>1. i \in 1 .. Len(calls) /\ calls'[i] = calls[i]
      BY <2>1, <2>3
    <3> QED
      BY <3>1 DEF MessagesIntact
  <2> QED
    BY <2>2, <2>3
<1>3. CASE UNCHANGED <<calls, sentMsgs>>
  BY <1>3 DEF MessagesIntact
<1>4. ASSUME NEW k, InitUpgrade(k)
      PROVE  MessagesIntact'
  <2>1. UNCHANGED sentMsgs
    BY <1>4 DEF InitUpgrade, InitRequest, Receive, clientVars
  <2>2. CASE ~UNCHANGED calls
    <3>1. PICK r \in HandlerResults : Call("onConnect", <<>>, r)
      BY <1>4, <2>2 DEF InitUpgrade
    <3>2. "onConnect" \notin DataOps
      BY DEF DataOps
    <3> QED
      BY <1>2, <2>1, <3>1, <3>2 DEF Call
  <2> QED
    BY <1>3, <2>1, <2>2
<1>5. CASE OnDisconnect
  <2>1. UNCHANGED sentMsgs
    BY <1>5 DEF OnDisconnect, clientVars
  <2>2. CASE ~UNCHANGED calls
    <3>1. PICK r \in HandlerResults : Call("onDisconnect", <<>>, r)
      BY <1>5, <2>2 DEF OnDisconnect
    <3>2. "onDisconnect" \notin DataOps
      BY DEF DataOps
    <3> QED
      BY <1>2, <2>1, <3>1, <3>2 DEF Call
  <2> QED
    BY <1>3, <2>1, <2>2
<1>6. ASSUME NEW k, WsMessage(k)
      PROVE  MessagesIntact'
  <2>1. UNCHANGED sentMsgs /\ Open
    BY <1>6, NotStraying DEF WsMessage, WsReceive, Receive, clientVars, Open, Live
  <2>2. PICK r \in HandlerResults, buf \in {Decode(inBuf, Frame)} : Call(MessageOp, Delivered(buf), r)
    BY <1>6 DEF WsMessage
  <2>3. PICK part, done : Along(part, done)
    BY <2>1 DEF Chained
  <2>4. /\ Len(calls) \in 1 .. Len(sentMsgs)
        /\ sentMsgs[Len(calls)] = [op |-> MessageOp, data |-> Decode(inBuf, Frame)]
        /\ Delivered(buf) = Decode(inBuf, Frame)
    BY <1>6, <2>2, <2>3, MessageRead
  <2> DEFINE c == [op |-> MessageOp, data |-> Delivered(buf), threw |-> Throws(r)]
  <2>5. calls' = Append(calls, c) /\ c.op = sentMsgs[Len(calls)].op /\ c.data = sentMsgs[Len(calls)].data
    BY <2>2, <2>4 DEF Call
  <2> HIDE DEF c
  <2> QED
    BY <1>2, <2>1, <2>4, <2>5
<1>7. ASSUME NEW f \in Frames, ClientFrame(f)
      PROVE  MessagesIntact'
  <2>1. calls' = calls
    BY <1>7 DEF ClientFrame
  <2>2. /\ Len(sentMsgs) <= Len(sentMsgs')
        /\ Len(sentMsgs') \in Nat
        /\ \A i \in 1 .. Len(sentMsgs) : sentMsgs'[i] = sentMsgs[i]
    <3>1. CASE ControlFrame(f)
      BY <1>1, <3>1 DEF ControlFrame
    <3>2. CASE DataFrame(f)
      <4>1. sentMsgs' = Append(sentMsgs, Extended(building, f)) \/ sentMsgs' = sentMsgs
        BY <3>2 DEF DataFrame
      <4> QED
        BY <1>1, <4>1
    <3> QED
      BY <1>7, <3>1, <3>2 DEF ClientFrame
  <2>3. \A i \in 1 .. Len(sentMsgs) : i \in 1 .. Len(sentMsgs')
    BY <1>1, <2>2
  <2> QED
    BY <2>1, <2>2, <2>3 DEF MessagesIntact
<1>8. CASE OnReceive
  <2>1. PICK k \in 1 .. Len(stream) :
          \/ InitWait(k) \/ InitOverrun(k) \/ InitBad(k) \/ InitGet(k) \/ InitUpgrade(k)
          \/ WsStray(k) \/ WsFragment(k) \/ WsContinuationError(k)
          \/ WsCloseFrame(k) \/ WsPing(k) \/ WsMessage(k) \/ WsOther(k)
    BY <1>8 DEF OnReceive
  <2>2. CASE ~InitUpgrade(k) /\ ~WsMessage(k)
    BY <1>3, <2>1, <2>2 DEF InitWait, InitOverrun, InitBad, InitGet, InitRequest, WsStray, WsFragment,
       WsContinuationError, WsCloseFrame, WsPing, WsOther, WsReceive, Receive, clientVars
  <2> QED
    BY <1>4, <1>6, <2>1, <2>2
<1>9. CASE UNCHANGED vars \/ Leave \/ ClientRequest
  BY <1>3, <1>9 DEF vars, clientVars, Leave, ClientRequest
<1> QED
  BY <1>5, <1>7, <1>8, <1>9 DEF Next, Client, Over

\* The messages of conforming traffic reach the handler whole, in order and
\* once, however the callbacks end the session and whatever resets it.
THEOREM MessagesReachHandler == Conforming /\ Spec => []MessagesIntact
<1> SUFFICES ASSUME Conforming
             PROVE  Spec => []MessagesIntact
  OBVIOUS
<1>1. Init => SessionInv /\ Contract /\ Chained /\ MessagesIntact
  <2> SUFFICES ASSUME Init
               PROVE  SessionInv /\ Contract /\ Chained /\ MessagesIntact
    OBVIOUS
  <2>1. SessionInv
    BY SessionAssumption, SessionInit
  <2>2. Contract /\ Chained
    BY DEF Init, Contract, Chained, Open, Live
  <2>3. MessagesIntact
    <3>1. calls = <<>>
      BY DEF Init
    <3> QED
      BY <3>1 DEF MessagesIntact
  <2> QED
    BY <2>1, <2>2, <2>3
<1>2. SessionInv /\ Contract /\ Chained /\ MessagesIntact /\ [Next]_vars
      => SessionInv' /\ Contract' /\ Chained' /\ MessagesIntact'
  BY SessionAssumption, SessionStep, ContractStep, ChainedStep, IntactStep
<1> QED
  BY <1>1, <1>2, PTL DEF Spec

\* The positions of a sequence of items at which a message ends.
EndsOf(items) == {i \in 1 .. Len(items) : EndsMessage(items[i])}

\* There are finitely many.
LEMMA EndsFinite ==
  ASSUME NEW items \in Seq(Items)
  PROVE  IsFiniteSet(EndsOf(items)) /\ Cardinality(EndsOf(items)) \in Nat
<1>1. IsFiniteSet(1 .. Len(items))
  BY FS_Interval
<1>2. EndsOf(items) \in SUBSET (1 .. Len(items))
  BY DEF EndsOf
<1>3. IsFiniteSet(EndsOf(items))
  BY <1>1, <1>2, FS_Subset
<1> QED
  BY <1>3, FS_CardinalityType

\* An item more: one more if it ends a message.
LEMMA EndsMore ==
  ASSUME NEW items \in Seq(Items), NEW f \in Items
  PROVE  Cardinality(EndsOf(Append(items, f))) =
           IF EndsMessage(f) THEN Cardinality(EndsOf(items)) + 1 ELSE Cardinality(EndsOf(items))
<1>1. /\ Len(items) \in Nat
      /\ Len(Append(items, f)) = Len(items) + 1
      /\ Append(items, f)[Len(items) + 1] = f
      /\ \A i \in 1 .. Len(items) : Append(items, f)[i] = items[i]
  OBVIOUS
<1>2. PICK longer : longer = Append(items, f)
  OBVIOUS
<1>3. EndsOf(longer) = IF EndsMessage(f) THEN EndsOf(items) \cup {Len(items) + 1} ELSE EndsOf(items)
  BY <1>1, <1>2 DEF EndsOf
<1>4. Len(items) + 1 \notin EndsOf(items)
  BY <1>1 DEF EndsOf
<1> QED
  BY <1>2, <1>3, <1>4, EndsFinite, FS_AddElement

\* An item less: one less if it ended a message.
LEMMA EndsLess ==
  ASSUME NEW items \in Seq(Items), Len(items) >= 1, NEW rest \in Seq(Items),
         Len(rest) = Len(items) - 1, \A i \in 1 .. Len(rest) : rest[i] = items[i + 1]
  PROVE  Cardinality(EndsOf(items)) =
           IF EndsMessage(items[1]) THEN Cardinality(EndsOf(rest)) + 1 ELSE Cardinality(EndsOf(rest))
<1> DEFINE S == EndsOf(rest)
           T == EndsOf(items) \ {1}
           up == [i \in S |-> i + 1]
<1>1. Len(items) \in Nat /\ Len(rest) \in Nat
  OBVIOUS
<1>2. \A i \in S : i \in Nat /\ i + 1 \in T
  BY <1>1 DEF EndsOf
<1>3. ASSUME NEW j \in T PROVE \E i \in S : i + 1 = j
  <2>1. j \in 1 .. Len(items) /\ j # 1 /\ EndsMessage(items[j])
    BY DEF EndsOf
  <2>2. j - 1 \in 1 .. Len(rest) /\ (j - 1) + 1 = j
    BY <1>1, <2>1
  <2>3. j - 1 \in S
    BY <2>1, <2>2 DEF EndsOf
  <2> QED
    BY <2>2, <2>3
<1> HIDE DEF S, T
<1>4. up \in [S -> T] /\ \A a, b \in S : up[a] = up[b] => a = b
  BY <1>2
<1>5. \A j \in T : \E i \in S : up[i] = j
  BY <1>3
<1>6. ExistsBijection(S, T)
  <2> HIDE DEF up
  <2>1. up \in Bijection(S, T)
    BY <1>4, <1>5, Fun_IsBij
  <2> QED
    BY <2>1, Fun_ExistsBij
<1>7. IsFiniteSet(S) /\ Cardinality(S) \in Nat
  BY EndsFinite DEF S
<1>8. Cardinality(T) = Cardinality(S)
  BY <1>6, <1>7, FS_Bijection
<1>9. IsFiniteSet(EndsOf(items)) /\ Cardinality(EndsOf(items)) \in Nat
  BY EndsFinite
<1>10. Cardinality(T) = IF 1 \in EndsOf(items) THEN Cardinality(EndsOf(items)) - 1
                        ELSE Cardinality(EndsOf(items))
  BY <1>9, FS_RemoveElement DEF T
<1>11. 1 \in EndsOf(items) <=> EndsMessage(items[1])
  BY <1>1 DEF EndsOf
<1> QED
  BY <1>7, <1>8, <1>9, <1>10, <1>11 DEF S

\* In a session that goes on every message sent waits or was handed over: all calls
\* but the first hand one over.
Counted == Live => Cardinality(EndsOf(stream)) + Len(calls) = Len(sentMsgs) + 1

\* HttpGetState has answered.
Answered == curState = "get" => conn.closed = TRUE

\* A message is waiting once its last frame is sent.
LEMMA ClientCounted ==
  ASSUME SessionInv, Counted, NEW f \in Frames, ClientFrame(f)
  PROVE  Counted'
<1> SUFFICES ASSUME Live'
             PROVE  Cardinality(EndsOf(stream')) + Len(calls') = Len(sentMsgs') + 1
  BY DEF Counted
<1>1. Live
  BY DEF Live, ClientFrame
<1>2. /\ stream \in Seq(Items) /\ f \in Items /\ stream' = Append(stream, f) /\ calls' = calls
      /\ sentMsgs \in Seq(Message) /\ calls \in Seq(CallType)
  BY DEF SessionInv, Typed, ClientFrame, Items
<1>3. Cardinality(EndsOf(stream')) =
        IF EndsMessage(f) THEN Cardinality(EndsOf(stream)) + 1 ELSE Cardinality(EndsOf(stream))
  BY <1>2, EndsMore
<1>4. Len(sentMsgs') = IF EndsMessage(f) THEN Len(sentMsgs) + 1 ELSE Len(sentMsgs)
  <2>1. CASE ControlFrame(f)
    BY <2>1 DEF ControlFrame, EndsMessage, ControlOps, DataOps
  <2>2. CASE DataFrame(f)
    <3>1. f.op \in DataOps \cup {"cont"}
          /\ sentMsgs' = IF f.fin THEN Append(sentMsgs, Extended(building, f)) ELSE sentMsgs
      BY <2>2 DEF DataFrame
    <3> QED
      BY <1>2, <3>1 DEF EndsMessage
  <2> QED
    BY <2>1, <2>2 DEF ClientFrame
<1>5. Cardinality(EndsOf(stream)) + Len(calls) = Len(sentMsgs) + 1
  BY <1>1 DEF Counted
<1>6. Cardinality(EndsOf(stream)) \in Nat /\ Len(calls) \in Nat /\ Len(sentMsgs) \in Nat
  BY <1>2, EndsFinite
<1>7. CASE EndsMessage(f)
  <2>1. /\ Cardinality(EndsOf(stream')) = Cardinality(EndsOf(stream)) + 1
        /\ Len(sentMsgs') = Len(sentMsgs) + 1
        /\ Len(calls') = Len(calls)
    BY <1>2, <1>3, <1>4, <1>7
  <2> HIDE DEF EndsOf
  <2> QED
    BY <1>5, <1>6, <2>1
<1>8. CASE ~EndsMessage(f)
  BY <1>2, <1>3, <1>4, <1>5, <1>6, <1>8
<1> QED
  BY <1>7, <1>8

\* It is handed over when that frame is read.
LEMMA WsCounted ==
  ASSUME Conforming, SessionInv, Chained, Counted, NEW k,
         \/ WsFragment(k) \/ WsContinuationError(k) \/ WsCloseFrame(k)
         \/ WsPing(k) \/ WsMessage(k) \/ WsOther(k)
  PROVE  Counted'
<1>1. WsReceive(k)
  BY DEF WsFragment, WsContinuationError, WsCloseFrame, WsPing, WsMessage, WsOther
<1>2. Open
  BY <1>1, NotStraying DEF WsReceive, Receive, Open, Live
<1>3. PICK part, done : Along(part, done)
  BY <1>2 DEF Chained
<1>4. k = 1 /\ Link(sentMsgs, part[1], done[1], Frame, part[2], done[2])
  BY <1>1, <1>3, FrameRead
<1>5. /\ 1 \in 1 .. Len(stream)
      /\ stream \in Seq(Items)
      /\ stream' \in Seq(Items)
      /\ Len(stream') = Len(stream) - 1
      /\ \A i \in 1 .. Len(stream') : stream'[i] = stream[1 + i]
      /\ UNCHANGED sentMsgs
  <2>1. Typed /\ Receive("ws", 1) /\ stream \in Seq(Items)
    BY <1>1, <1>4 DEF WsReceive, SessionInv, Typed
  <2>2. UNCHANGED sentMsgs
    BY <2>1 DEF Receive, clientVars
  <2> QED
    BY <2>1, <2>2, ReceiveRest
<1>6. Cardinality(EndsOf(stream)) =
        IF EndsMessage(Frame) THEN Cardinality(EndsOf(stream')) + 1 ELSE Cardinality(EndsOf(stream'))
  <2>1. PICK items \in Seq(Items), rest \in Seq(Items) : items = stream /\ rest = stream'
    BY <1>5
  <2>2. /\ Len(items) >= 1
        /\ Len(rest) = Len(items) - 1
        /\ \A i \in 1 .. Len(rest) : rest[i] = items[i + 1]
    BY <1>5, <2>1
  <2>3. Cardinality(EndsOf(items)) =
          IF EndsMessage(items[1]) THEN Cardinality(EndsOf(rest)) + 1 ELSE Cardinality(EndsOf(rest))
    BY <2>2, EndsLess
  <2> QED
    BY <2>1, <2>3 DEF Frame
<1>7. Len(calls') = IF EndsMessage(Frame) THEN Len(calls) + 1 ELSE Len(calls)
  <2>1. CASE WsMessage(k)
    <3>1. PICK r \in HandlerResults, buf \in {Decode(inBuf, Frame)} : Call(MessageOp, Delivered(buf), r)
      BY <2>1 DEF WsMessage
    <3>2. calls \in Seq(CallType) /\ Len(calls') = Len(calls) + 1
      BY <3>1 DEF Call, SessionInv, Typed
    <3>3. Frame.fin /\ MessageOp \in DataOps
      BY <2>1 DEF WsMessage
    <3>4. Frame.op \notin ControlOps
      BY <1>1, <1>3, <3>3, FrameRead DEF DataOps, ControlOps
    <3>5. EndsMessage(Frame)
      BY <1>4, <3>3, <3>4 DEF Link, EndsMessage
    <3> QED
      BY <3>2, <3>5
  <2>2. CASE WsFragment(k)
    BY <2>2 DEF WsFragment, EndsMessage
  <2>3. CASE ~WsMessage(k) /\ ~WsFragment(k)
    <3>1. MessageOp \notin DataOps /\ calls' = calls
      BY <2>3 DEF WsContinuationError, WsCloseFrame, WsPing, WsOther, DataOps
    <3>2. Frame.op \in ControlOps
      BY <1>1, <1>3, <3>1, FrameRead
    <3>3. ~EndsMessage(Frame)
      BY <3>2 DEF EndsMessage, ControlOps, DataOps
    <3> QED
      BY <3>1, <3>3
  <2> QED
    BY <2>1, <2>2, <2>3
<1>8. Cardinality(EndsOf(stream)) + Len(calls) = Len(sentMsgs) + 1
  BY <1>2 DEF Counted, Open
<1>9. /\ Cardinality(EndsOf(stream)) \in Nat /\ Cardinality(EndsOf(stream')) \in Nat
      /\ Len(calls) \in Nat /\ Len(sentMsgs) \in Nat
  BY <1>5, EndsFinite DEF SessionInv, Typed
<1>10. CASE EndsMessage(Frame)
  BY <1>5, <1>6, <1>7, <1>8, <1>9, <1>10 DEF Counted
<1>11. CASE ~EndsMessage(Frame)
  BY <1>5, <1>6, <1>7, <1>8, <1>9, <1>11 DEF Counted
<1> QED
  BY <1>10, <1>11

\* A session is upgraded with nothing sent.
LEMMA UpgradeCounted ==
  ASSUME SessionAssumption, SessionInv, Contract, NEW k, InitUpgrade(k)
  PROVE  Counted'
<1> SUFFICES ASSUME Live'
             PROVE  Cardinality(EndsOf(stream')) + Len(calls') = Len(sentMsgs') + 1
  BY DEF Counted
<1>1. Receive("init", k) /\ InitRequest(k)
  BY DEF InitUpgrade, InitRequest
<1>2. EndsOf(stream') = {} /\ Cardinality({}) = 0
  <2>1. \A i \in 1 .. Len(stream') : stream'[i] \in RequestItems
    BY <1>1, RequestOver
  <2>2. \A i \in 1 .. Len(stream') : ~EndsMessage(stream'[i])
    BY <2>1, RequestItemFields DEF EndsMessage
  <2> QED
    BY <2>2, FS_EmptySet DEF EndsOf
<1>3. calls = <<>> /\ sentMsgs = <<>>
  BY <1>1 DEF Receive, SessionInv, Requesting, Contract, Refused
<1>4. Len(calls') = 1
  <2>1. curState = "init" /\ curState' = "ws"
    BY <1>1 DEF Open, Live, Receive
  <2>2. PICK r \in HandlerResults : Call("onConnect", <<>>, r)
    BY <2>1 DEF InitUpgrade
  <2> QED
    BY <1>3, <2>2 DEF Call
<1>5. Len(sentMsgs') = 0
  BY <1>1, <1>3 DEF Receive, clientVars
<1> QED
  BY <1>2, <1>4, <1>5

\* The rest of a request that was cut off holds no message.
LEMMA RequestCounted ==
  ASSUME SessionInv, Counted, ClientRequest
  PROVE  Counted'
<1>1. PICK op \in {"part", "end"} : stream' = Append(stream, Item(op))
  BY DEF ClientRequest, RequestOps
<1>2. Item(op) \in Items /\ Item(op) \in RequestItems
  BY DEF Items, RequestItems
<1>3. ~EndsMessage(Item(op))
  BY <1>2, RequestItemFields DEF EndsMessage
<1>4. stream \in Seq(Items)
  BY DEF SessionInv, Typed
<1> PICK item \in Items : item = Item(op)
  BY <1>2
<1>5. Cardinality(EndsOf(stream')) = Cardinality(EndsOf(stream))
  BY <1>1, <1>3, <1>4, EndsMore
<1> QED
  BY <1>5 DEF Counted, Live, ClientRequest

\* Every step keeps the count.
LEMMA CountedStep ==
  ASSUME Conforming, SessionAssumption, SessionInv, Contract, Chained, Counted, [Next]_vars
  PROVE  Counted'
<1>1. CASE UNCHANGED <<stream, sentMsgs, calls, curState, conn, phase>>
  BY <1>1 DEF Counted, Live
<1>2. CASE ~Live'
  BY <1>2 DEF Counted
<1>3. CASE \E k \in 1 .. Len(stream) : InitUpgrade(k)
  BY <1>3, UpgradeCounted
<1>4. CASE \E k \in 1 .. Len(stream) :
               \/ WsFragment(k) \/ WsContinuationError(k) \/ WsCloseFrame(k)
               \/ WsPing(k) \/ WsMessage(k) \/ WsOther(k)
  BY <1>4, WsCounted
<1>5. CASE \E f \in Frames : ClientFrame(f)
  BY <1>5, ClientCounted
<1>6. CASE OnDisconnect
  BY <1>2, <1>6 DEF OnDisconnect, Live
<1>7. CASE ClientRequest
  BY <1>7, RequestCounted
<1>8. CASE \E k \in 1 .. Len(stream) :
             InitWait(k) \/ InitOverrun(k) \/ InitBad(k) \/ InitGet(k) \/ WsStray(k)
  BY <1>2, <1>8 DEF InitWait, InitOverrun, InitBad, InitGet, InitRequest, WsStray, Receive, Live
<1>9. CASE Leave \/ UNCHANGED vars
  BY <1>1, <1>9 DEF Leave, vars, clientVars, wsVars
<1> QED
  BY <1>3, <1>4, <1>5, <1>6, <1>7, <1>8, <1>9 DEF Next, Client, OnReceive, Over

\* HttpGetState is left closed.
LEMMA AnsweredStep ==
  ASSUME SessionInv, Answered, [Next]_vars
  PROVE  Answered'
<1>1. CASE UNCHANGED <<curState, conn>>
  BY <1>1 DEF Answered
<1>2. CASE curState' # "get"
  BY <1>2 DEF Answered
<1>3. ASSUME NEW k, InitGet(k) \/ InitBad(k)
      PROVE  Answered'
  <2>1. Orderly(conn) /\ Orderly(Send(conn, "response"))
    BY SendOrderly DEF SessionInv, Typed, Words
  <2>2. TcpClose(conn).closed = TRUE /\ TcpClose(Send(conn, "response")).closed = TRUE
    BY <2>1, TcpCloseCloses
  <2>3. conn' = TcpClose(conn) \/ conn' = TcpClose(Send(conn, "response"))
    BY <1>3 DEF InitGet, InitBad
  <2> QED
    BY <2>2, <2>3 DEF Answered
<1>4. ASSUME NEW k, InitUpgrade(k)
      PROVE  Answered'
  BY <1>2, <1>4 DEF InitUpgrade, InitRequest, Receive
<1>5. ASSUME NEW k, WsReceive(k)
      PROVE  Answered'
  BY <1>2, <1>5 DEF WsReceive, Receive
<1>6. CASE OnDisconnect
  BY <1>1, <1>2, <1>6 DEF OnDisconnect
<1> QED
  BY <1>1, <1>3, <1>4, <1>5, <1>6
     DEF Next, vars, Over, OnReceive, Client, ClientRequest, ClientFrame, Leave, InitWait,
         InitOverrun, WsStray, WsFragment, WsContinuationError, WsCloseFrame, WsPing, WsMessage, WsOther

\* No message of conforming traffic is skipped.
THEOREM MessagesNotSkipped == Conforming /\ Spec => []NoMessageSkipped
<1> SUFFICES ASSUME Conforming
             PROVE  Spec => []NoMessageSkipped
  OBVIOUS
<1>1. Init => SessionInv /\ Contract /\ Chained /\ Counted /\ Answered
  <2> SUFFICES ASSUME Init
               PROVE  SessionInv /\ Contract /\ Chained /\ Counted /\ Answered
    OBVIOUS
  <2>1. SessionInv
    BY SessionAssumption, SessionInit
  <2> QED
    BY <2>1 DEF Init, Contract, Chained, Counted, Answered, Open, Live
<1>2. SessionInv /\ Contract /\ Chained /\ Counted /\ Answered /\ [Next]_vars
      => SessionInv' /\ Contract' /\ Chained' /\ Counted' /\ Answered'
  BY SessionAssumption, SessionStep, ContractStep, ChainedStep, CountedStep, AnsweredStep
<1>3. SessionInv /\ Contract /\ Counted /\ Answered => NoMessageSkipped
  <2> SUFFICES ASSUME SessionInv, Contract, Counted, Answered, phase = "idle", ~conn.closed
               PROVE  Cardinality(HandOvers) + Cardinality(Ends) = Len(sentMsgs)
    BY DEF NoMessageSkipped
  <2>1. Ends = EndsOf(stream)
    BY DEF Ends, EndsOf, EndsMessage
  <2>2. /\ calls \in Seq(CallType) /\ stream \in Seq(Items) /\ sentMsgs \in Seq(Message)
        /\ curState \in {"init", "get", "ws"}
    BY DEF SessionInv, Typed
  <2>3. CASE curState = "ws"
    <3>1. Accepted /\ Live
      BY <2>3 DEF Contract, Live
    <3>2. HandOvers = 2 .. Len(calls)
      <4>1. \A i \in 1 .. Len(calls) : calls[i].op \in DataOps \cup {"onConnect", "onDisconnect"}
        <5>1. \A i \in 1 .. Len(calls) : calls[i] \in CallType
          BY <2>2
        <5> QED
          BY <5>1 DEF CallType
      <4>2. \A i \in 2 .. Len(calls) : calls[i].op \in DataOps
        BY <2>2, <3>1, <4>1 DEF Accepted
      <4>3. calls[1].op \notin DataOps
        BY <3>1 DEF Accepted, DataOps
      <4> QED
        BY <2>2, <4>2, <4>3 DEF HandOvers
    <3>3. Len(calls) \in Nat /\ Len(calls) >= 1 /\ Len(sentMsgs) \in Nat
      BY <2>2, <3>1 DEF Accepted
    <3>4. Cardinality(2 .. Len(calls)) = Len(calls) - 1
      <4>1. Cardinality(2 .. Len(calls)) = IF 2 > Len(calls) THEN 0 ELSE Len(calls) - 2 + 1
        <5>1. Len(calls) \in Int /\ 2 \in Int
          BY <3>3
        <5> QED
          BY <5>1, FS_Interval
      <4> QED
        BY <3>3, <4>1
    <3>5. Cardinality(EndsOf(stream)) \in Nat
      BY <2>2, EndsFinite
    <3>6. Cardinality(EndsOf(stream)) + Len(calls) = Len(sentMsgs) + 1
      BY <3>1 DEF Counted
    <3> QED
      BY <2>1, <3>2, <3>3, <3>4, <3>5, <3>6
  <2>4. CASE curState = "init"
    <3>1. calls = <<>> /\ sentMsgs = <<>> /\ \A i \in 1 .. Len(stream) : stream[i] \in RequestItems
      BY <2>4 DEF SessionInv, Requesting, Contract, Refused
    <3>2. \A i \in 1 .. Len(stream) : ~stream[i].fin
      BY <3>1 DEF RequestItems, Item
    <3>3. Ends = {} /\ HandOvers = {}
      BY <3>1, <3>2 DEF Ends, HandOvers
    <3>4. Cardinality({}) = 0 /\ Len(sentMsgs) = 0
      BY <3>1, FS_EmptySet
    <3> QED
      BY <3>3, <3>4
  <2> QED
    BY <2>2, <2>3, <2>4 DEF Answered
<1> QED
  BY <1>1, <1>2, <1>3, PTL DEF Spec
=============================================================================
