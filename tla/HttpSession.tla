---------------------------- MODULE HttpSession -----------------------------
(***************************************************************************)
(* One connection of the HTTP and WebSocket layer: TcpServerHandler        *)
(* (src/http/socks_http.cpp) and its states HttpInitState, HttpGetState    *)
(* and HttpWsState, called by the worker thread under the contract of      *)
(* HandlerLifecycle, against a client that follows RFC 6455.               *)
(*                                                                         *)
(* The client's stream is a sequence of items: parts of the request, the   *)
(* item that ends in CRLF CRLF, and WebSocket frames.  One onReceive gets  *)
(* one or more items.  A frame is taken to arrive unsplit; frames arrive   *)
(* together only if Traffic has "coalesced".                               *)
(*                                                                         *)
(* A request may be longer than recvBuf.  What the code does once it has   *)
(* written beyond recvBuf is undefined, and what it makes of the rest of a *)
(* request that it takes for frames depends on text the model leaves out:  *)
(* the session is not followed beyond the phases "overrun" and "garbled".  *)
(***************************************************************************)
EXTENDS Naturals, Sequences, FiniteSets

CONSTANTS
  BufSize,         \* items recvBuf of HttpInitState holds
  MaxParts,        \* bound on the items of the client's request
  MaxFrames,       \* bound on the frames the client sends
  Traffic,         \* optional behaviour of the client and the network
  HandlerResults   \* what the callbacks of the application's WsHandler do

TrafficKinds == {"coalesced", "interleaved", "emptyFirst", "unmasked", "nul", "reset"}
ResultKinds == {"echo", "close", "closeThenSend", "invalid", "throw"}

ASSUME SessionAssumption ==
  /\ BufSize \in Nat \ {0}
  /\ MaxParts \in Nat
  /\ MaxFrames \in Nat
  /\ Traffic \subseteq TrafficKinds
  /\ HandlerResults \subseteq ResultKinds

Requests == {"GET", "GET_WS", "bad"}
DataOps == {"text", "binary"}
ControlOps == {"close", "ping", "other"}
Payloads == {<<>>, <<"a">>, <<"b">>} \cup (IF "nul" \in Traffic THEN {<<"nul">>} ELSE {})
RequestOps == {"part", "end"}
Item(op) == [op |-> op, fin |-> FALSE, data |-> <<>>, masked |-> TRUE]
Frames == [op : DataOps \cup ControlOps \cup {"cont"}, fin : BOOLEAN, data : Payloads,
           masked : BOOLEAN]

VARIABLES
  request,    \* what the client's request parses to
  stream,     \* items sent and not yet read
  parts,      \* request items sent so far
  asked,      \* the client has sent its whole request
  frames,     \* frames sent so far
  building,   \* the message the client is in the middle of, as <<m>>, or <<>>
  sentMsgs,   \* history: the messages the client has sent
  gone,       \* the client has closed its side, or the server is to quit
  phase,      \* the worker's phase; one of Phases
  conn,       \* Connection: closed, and what was written to the socket
  curState,   \* TcpServerHandler::curState
  numRecv,    \* HttpInitState::numRecv
  opcode,     \* HttpWsState::opcode
  inBuf,      \* HttpWsState::inBuf
  calls       \* history: the callbacks of the WsHandler that were entered

Phases == {"idle", "disconnected", "failed", "overrun", "garbled"}

clientVars == <<request, parts, asked, frames, building, sentMsgs>>
wsVars == <<opcode, inBuf>>
vars == <<clientVars, stream, gone, phase, conn, curState, numRecv, wsVars, calls>>

Init ==
  /\ request \in Requests
  /\ stream = <<>>
  /\ parts = 0
  /\ asked = FALSE
  /\ frames = 0
  /\ building = <<>>
  /\ sentMsgs = <<>>
  /\ gone = FALSE
  /\ phase = "idle"
  /\ conn = [closed |-> FALSE, wire |-> <<>>]
  /\ curState = "init"
  /\ numRecv = 0
  /\ opcode = "cont"
  /\ inBuf = <<>>
  /\ calls = <<>>

-----------------------------------------------------------------------------
(* Connection and WsConnection, as functions of the connection.            *)

\* Mutant: send() does not look at the closed flag.
SendAlways(cn, what) == [cn EXCEPT !.wire = Append(@, what)]

\* Connection::send writes nothing once the connection is closed.
Send(cn, what) == IF cn.closed THEN cn ELSE [cn EXCEPT !.wire = Append(@, what)]

TcpClose(cn) == [cn EXCEPT !.closed = TRUE]

\* Mutant: WsConnection::close only sends the Close frame.
WsCloseSendsOnly(cn) == Send(cn, "close")

\* WsConnection::close: the Close frame first, then the flag.
WsClose(cn) == TcpClose(Send(cn, "close"))

\* What a callback of the application does with its connection before it
\* returns or throws.
Reply(cn, result) ==
  CASE result = "echo" -> Send(cn, "frame")
    [] result = "close" -> WsClose(cn)
    [] result = "closeThenSend" -> Send(WsClose(cn), "frame")
    [] OTHER -> cn

Throws(result) == result \in {"invalid", "throw"}

\* The WsHandler's callback op is entered with data, and does result.
Call(op, data, result) ==
  calls' = Append(calls, [op |-> op, data |-> data, threw |-> Throws(result)])

\* A write to a connection the peer has reset throws.
SendThrows == "reset" \in Traffic

-----------------------------------------------------------------------------
(* The client.                                                             *)

Upgraded == Len(conn.wire) > 0 /\ conn.wire[1] = "101"

\* The next item of the request; the last one ends in CRLF CRLF, after
\* which the client waits for the answer.
ClientRequest ==
  /\ ~asked
  /\ ~gone
  /\ parts < MaxParts
  /\ \E op \in RequestOps :
       /\ stream' = Append(stream, Item(op))
       /\ asked' = (op = "end")
  /\ parts' = parts + 1
  /\ UNCHANGED <<request, frames, building, sentMsgs, gone, phase, conn, curState, numRecv,
                 wsVars, calls>>

\* The message that frame f starts, or that it goes on with.
Extended(message, f) ==
  IF message = <<>> THEN [op |-> f.op, data |-> f.data]
  ELSE [op |-> message[1].op, data |-> message[1].data \o f.data]

\* A frame of a data message: the first one names the type, the others are
\* continuations.
DataFrame(f) ==
  /\ f.op \in DataOps \cup {"cont"}
  /\ (f.op = "cont") = (building # <<>>)
  /\ f.op # "cont" /\ ~f.fin /\ f.data = <<>> => "emptyFirst" \in Traffic
  /\ building' = IF f.fin THEN <<>> ELSE <<Extended(building, f)>>
  /\ sentMsgs' = IF f.fin THEN Append(sentMsgs, Extended(building, f)) ELSE sentMsgs

\* A control frame, between the frames of a message only if "interleaved".
ControlFrame(f) ==
  /\ f.op \in ControlOps
  /\ f.fin
  /\ building # <<>> => "interleaved" \in Traffic
  /\ UNCHANGED <<building, sentMsgs>>

ClientFrame(f) ==
  /\ Upgraded
  /\ asked
  /\ ~gone
  /\ frames < MaxFrames
  /\ ~f.masked => "unmasked" \in Traffic
  /\ DataFrame(f) \/ ControlFrame(f)
  /\ stream' = Append(stream, f)
  /\ frames' = IF f.op = "close" THEN MaxFrames ELSE frames + 1
  /\ UNCHANGED <<request, parts, asked, gone, phase, conn, curState, numRecv, wsVars, calls>>

\* The client closes its side, or SIGTERM arrives at the server.
Leave ==
  /\ ~gone
  /\ gone' = TRUE
  /\ UNCHANGED <<clientVars, stream, phase, conn, curState, numRecv, wsVars, calls>>

-----------------------------------------------------------------------------
(* HttpInitState.                                                          *)

\* Worker: onReceive with the first k items while state s is current.
Receive(s, k) ==
  /\ phase = "idle"
  /\ ~conn.closed
  /\ curState = s
  /\ k \in 1 .. Len(stream)
  /\ stream' = SubSeq(stream, k + 1, Len(stream))
  /\ UNCHANGED <<clientVars, gone>>

\* Mutant: the terminator is only found in the first piece of the request.
CompleteAtOnce(k) == (stream[k].op = "end" /\ numRecv = 0) \/ numRecv + k >= BufSize

\* What was read so far ends in the terminator, or fills the buffer.
Complete(k) == stream[k].op = "end" \/ numRecv + k >= BufSize

\* The items are copied behind those received before.  Nothing checks that
\* recvBuf has room for them: without it the copy overwrites what follows.
InBounds(k) == numRecv + k <= BufSize

\* recv() itself gets at most MAX_SIZE bytes, as many as recvBuf holds.
InitOverrun(k) ==
  /\ Receive("init", k)
  /\ k <= BufSize
  /\ ~InBounds(k)
  /\ phase' = "overrun"
  /\ UNCHANGED <<conn, curState, numRecv, wsVars, calls>>

\* Mutant: a terminating NUL is counted with every piece.
InitWaitCountsNul(k) ==
  /\ Receive("init", k)
  /\ InBounds(k)
  /\ ~Complete(k)
  /\ numRecv' = numRecv + k + 1
  /\ UNCHANGED <<phase, conn, curState, wsVars, calls>>

InitWait(k) ==
  /\ Receive("init", k)
  /\ InBounds(k)
  /\ ~Complete(k)
  /\ numRecv' = numRecv + k
  /\ UNCHANGED <<phase, conn, curState, wsVars, calls>>

InitRequest(k) ==
  /\ Receive("init", k)
  /\ InBounds(k)
  /\ Complete(k)
  /\ numRecv' = numRecv + k

\* RequestInfo::parse; a request cut off at the buffer's end may parse to
\* anything.
Parsed(k) == IF stream[k].op = "end" THEN {request} ELSE Requests

\* parse() threw: the connection is closed without an answer.
InitBad(k) ==
  /\ InitRequest(k)
  /\ "bad" \in Parsed(k)
  /\ conn' = TcpClose(conn)
  /\ UNCHANGED <<phase, curState, wsVars, calls>>

\* HttpGetState::onEnter: do_GET answers, then the connection is closed.  If
\* do_GET throws, before or after it has written something, HttpInitState's
\* catch block closes it.
InitGet(k) ==
  /\ InitRequest(k)
  /\ "GET" \in Parsed(k)
  /\ \/ /\ conn' = TcpClose(Send(conn, "response"))
        /\ curState' = "get"
     \/ /\ SendThrows \/ "throw" \in HandlerResults
        /\ \E cn \in {conn, Send(conn, "response")} : conn' = TcpClose(cn)
        /\ UNCHANGED curState
  /\ UNCHANGED <<phase, wsVars, calls>>

\* Mutant: the state is entered although its onEnter threw.
InitUpgradeSetsStateFirst(k) ==
  /\ InitRequest(k)
  /\ "GET_WS" \in Parsed(k)
  /\ \/ /\ SendThrows
        /\ conn' = TcpClose(conn)
        /\ curState' = "ws"
        /\ UNCHANGED calls
     \/ \E r \in HandlerResults :
          /\ Call("onConnect", <<>>, r)
          /\ conn' = IF Throws(r) THEN TcpClose(Send(conn, "101")) ELSE Reply(Send(conn, "101"), r)
          /\ curState' = "ws"
  /\ UNCHANGED <<phase, wsVars>>

\* HttpWsState::onEnter: 101, then onConnect.  nextState is only set when
\* onEnter returns; when it throws the catch block closes the connection.
InitUpgrade(k) ==
  /\ InitRequest(k)
  /\ "GET_WS" \in Parsed(k)
  /\ \/ /\ SendThrows
        /\ conn' = TcpClose(conn)
        /\ UNCHANGED <<curState, calls>>
     \/ \E r \in HandlerResults :
          /\ Call("onConnect", <<>>, r)
          /\ conn' = IF Throws(r) THEN TcpClose(Send(conn, "101")) ELSE Reply(Send(conn, "101"), r)
          /\ curState' = IF Throws(r) THEN "init" ELSE "ws"
  /\ UNCHANGED <<phase, wsVars>>

-----------------------------------------------------------------------------
(* HttpWsState.                                                            *)

\* onReceive looks only at the first frame it was given.
Frame == stream[1]

\* WebSocketFrame::decode: a masked payload is appended; an unmasked one is
\* copied to the start of the enlarged buffer.
Decode(buf, f) ==
  IF f.masked THEN buf \o f.data
  ELSE [i \in 1 .. Len(buf) + Len(f.data) |->
          IF i <= Len(f.data) THEN f.data[i] ELSE IF i <= Len(buf) THEN buf[i] ELSE "nul"]

\* The opcode of the message: that of the frame that found the buffer empty.
MessageOp == IF inBuf = <<>> THEN Frame.op ELSE opcode

\* A request that was cut off at the end of recvBuf may have been taken for
\* an upgrade; the rest of it is then decoded as if it were a frame.
WsStray(k) ==
  /\ Receive("ws", k)
  /\ Frame.op \in RequestOps
  /\ phase' = "garbled"
  /\ UNCHANGED <<conn, curState, numRecv, wsVars, calls>>

WsReceive(k) ==
  /\ Receive("ws", k)
  /\ Frame.op \notin RequestOps
  /\ k > 1 => "coalesced" \in Traffic
  /\ opcode' = MessageOp
  /\ UNCHANGED <<curState, numRecv>>

\* FIN is not set: just received data.
WsFragment(k) ==
  /\ WsReceive(k)
  /\ ~Frame.fin
  /\ inBuf' = Decode(inBuf, Frame)
  /\ UNCHANGED <<phase, conn, calls>>

\* std::runtime_error, which ends the worker: FIN with opcode 0.
WsContinuationError(k) ==
  /\ WsReceive(k)
  /\ Frame.fin
  /\ MessageOp = "cont"
  /\ inBuf' = Decode(inBuf, Frame)
  /\ phase' = "failed"
  /\ UNCHANGED <<conn, calls>>

WsCloseFrame(k) ==
  /\ WsReceive(k)
  /\ Frame.fin
  /\ MessageOp = "close"
  /\ \/ /\ conn' = WsClose(conn)
        /\ inBuf' = <<>>
        /\ UNCHANGED phase
     \/ /\ SendThrows
        /\ phase' = "failed"
        /\ inBuf' = Decode(inBuf, Frame)
        /\ UNCHANGED conn
  /\ UNCHANGED calls

\* The payload of the Pong frame is written, without its header; nothing at
\* all when the payload is empty.
WsPing(k) ==
  /\ WsReceive(k)
  /\ Frame.fin
  /\ MessageOp = "ping"
  /\ \/ /\ conn' = IF Decode(inBuf, Frame) = <<>> THEN conn ELSE Send(conn, "payload")
        /\ inBuf' = <<>>
        /\ UNCHANGED phase
     \/ /\ SendThrows
        /\ phase' = "failed"
        /\ inBuf' = Decode(inBuf, Frame)
        /\ UNCHANGED conn
  /\ UNCHANGED calls

\* A C string ends at the first NUL.
CString(buf) ==
  SubSeq(buf, 1, CHOOSE n \in 0 .. Len(buf) :
                   /\ \A i \in 1 .. n : buf[i] # "nul"
                   /\ n < Len(buf) => buf[n + 1] = "nul")

\* The terminated buffer passed to onText, and the buffer passed to onData.
Terminated(buf) == IF MessageOp = "text" THEN Append(buf, "nul") ELSE buf
Delivered(buf) == IF MessageOp = "text" THEN CString(Terminated(buf)) ELSE buf

\* Mutant: the buffer is not cleared after a message.
WsMessageKeepsBuffer(k) ==
  /\ WsReceive(k)
  /\ Frame.fin
  /\ MessageOp \in DataOps
  /\ \E r \in HandlerResults, buf \in {Decode(inBuf, Frame)} :
       /\ Call(MessageOp, Delivered(buf), r)
       /\ conn' = Reply(conn, r)
       /\ inBuf' = buf
       /\ phase' = IF r = "throw" THEN "failed" ELSE phase

\* Mutant: an empty message is not worth a callback.
WsMessageSkipsEmpty(k) ==
  /\ WsReceive(k)
  /\ Frame.fin
  /\ MessageOp \in DataOps
  /\ \E r \in HandlerResults, buf \in {Decode(inBuf, Frame)} :
       /\ IF buf = <<>> THEN UNCHANGED calls ELSE Call(MessageOp, Delivered(buf), r)
       /\ conn' = Reply(conn, r)
       /\ inBuf' = <<>>
       /\ phase' = IF r = "throw" THEN "failed" ELSE phase

\* onText or onData.  std::invalid_argument is swallowed, but skips the
\* clearing of the buffer; any other exception ends the worker.
WsMessage(k) ==
  /\ WsReceive(k)
  /\ Frame.fin
  /\ MessageOp \in DataOps
  /\ \E r \in HandlerResults, buf \in {Decode(inBuf, Frame)} :
       /\ Call(MessageOp, Delivered(buf), r)
       /\ conn' = Reply(conn, r)
       /\ inBuf' = IF Throws(r) THEN Terminated(buf) ELSE <<>>
       /\ phase' = IF r = "throw" THEN "failed" ELSE phase

\* Any other opcode is ignored.
WsOther(k) ==
  /\ WsReceive(k)
  /\ Frame.fin
  /\ MessageOp = "other"
  /\ inBuf' = <<>>
  /\ UNCHANGED <<phase, conn, calls>>

-----------------------------------------------------------------------------
\* The worker leaves its loop: TcpServerHandler::onDisconnect goes to the
\* current state, and HttpWsState passes it on.
OnDisconnect ==
  /\ phase = "idle"
  /\ conn.closed \/ gone
  /\ \/ /\ curState # "ws"
        /\ phase' = "disconnected"
        /\ UNCHANGED <<conn, calls>>
     \/ /\ curState = "ws"
        /\ \E r \in HandlerResults :
             /\ Call("onDisconnect", <<>>, r)
             /\ conn' = Reply(conn, r)
             /\ phase' = IF Throws(r) THEN "failed" ELSE "disconnected"
  /\ UNCHANGED <<clientVars, stream, gone, curState, numRecv, wsVars>>

OnReceive ==
  \E k \in 1 .. Len(stream) :
    \/ InitWait(k) \/ InitOverrun(k) \/ InitBad(k) \/ InitGet(k) \/ InitUpgrade(k)
    \/ WsStray(k) \/ WsFragment(k) \/ WsContinuationError(k)
    \/ WsCloseFrame(k) \/ WsPing(k) \/ WsMessage(k) \/ WsOther(k)

Client == ClientRequest \/ Leave \/ \E f \in Frames : ClientFrame(f)

Over == phase # "idle" /\ UNCHANGED vars

Next == OnReceive \/ OnDisconnect \/ (phase = "idle" /\ Client) \/ Over

Spec == Init /\ [][Next]_vars

\* The worker thread is scheduled and poll() does not miss readable data; the
\* client may stop at any point.
FairSpec == Spec /\ WF_vars(OnReceive) /\ WF_vars(OnDisconnect)

-----------------------------------------------------------------------------
(* Properties.                                                             *)

\* Every variable has its type.
TypeOK ==
  /\ request \in Requests
  /\ \A i \in 1 .. Len(stream) : stream[i] \in Frames \cup {Item("part"), Item("end")}
  /\ parts \in 0 .. MaxParts
  /\ asked \in BOOLEAN
  /\ frames \in 0 .. MaxFrames
  /\ Len(building) \in {0, 1}
  /\ Len(sentMsgs) <= frames
  /\ gone \in BOOLEAN
  /\ phase \in Phases
  /\ conn.closed \in BOOLEAN
  /\ \A i \in 1 .. Len(conn.wire) :
       conn.wire[i] \in {"101", "response", "frame", "payload", "close"}
  /\ curState \in {"init", "get", "ws"}
  /\ numRecv \in 0 .. BufSize
  /\ opcode \in DataOps \cup ControlOps \cup {"cont"}
  /\ \A i \in 1 .. Len(inBuf) : inBuf[i] \in {"a", "b", "nul"}
  /\ \A i \in 1 .. Len(calls) :
       calls[i].op \in DataOps \cup {"onConnect", "onDisconnect"} /\ calls[i].threw \in BOOLEAN

\* A request that recvBuf can hold never leaves it, in whatever pieces it
\* arrives: HttpInitState counts what it has received correctly.
RequestFits == phase = "overrun" => parts > BufSize

\* HttpInitState keeps to the bounds of recvBuf, which its comment asks for
\* and no code does.
RequestInBuffer == phase # "overrun"

NoClose(wire) == \A i \in 1 .. Len(wire) : wire[i] # "close"

\* Nothing follows a Close frame on the wire, whatever the callbacks do after
\* closing and however often close() is called.
CloseIsLast ==
  \A i \in 1 .. Len(conn.wire) : conn.wire[i] = "close" => i = Len(conn.wire)

\* A WsHandler is told of its connection first and of the end last, once
\* each; one whose onConnect threw hears nothing more; and a session that
\* ends without an exception tells of the end every handler that it told of
\* the connection.
WsContract ==
  LET n == Len(calls)
      Told(op) == {i \in 1 .. n : calls[i].op = op}
  IN  /\ Told("onConnect") \subseteq {1}
      /\ n > 0 => 1 \in Told("onConnect")
      /\ Told("onDisconnect") \subseteq {n}
      /\ n > 1 => ~calls[1].threw
      /\ phase = "disconnected" /\ n > 0 /\ ~calls[1].threw => n \in Told("onDisconnect")

\* The handler gets the client's messages, whole, in order and none twice:
\* its call after the first is message 1, the next one message 2.
MessagesIntact ==
  \A i \in 1 .. Len(calls) :
    calls[i].op \in DataOps =>
      /\ i - 1 \in 1 .. Len(sentMsgs)
      /\ calls[i].op = sentMsgs[i - 1].op
      /\ calls[i].data = sentMsgs[i - 1].data

\* The positions at which a message ends, and the calls that hand one over.
Ends == {i \in 1 .. Len(stream) : stream[i].fin /\ stream[i].op \in DataOps \cup {"cont"}}
HandOvers == {i \in 1 .. Len(calls) : calls[i].op \in DataOps}

\* No message is skipped: what was sent and is no longer waiting was handed
\* over.
NoMessageSkipped ==
  phase = "idle" /\ ~conn.closed =>
    Cardinality(HandOvers) + Cardinality(Ends) = Len(sentMsgs)

\* After the upgrade everything the server writes is a WebSocket frame.
WireFramed == \A i \in 1 .. Len(conn.wire) : conn.wire[i] # "payload"

\* A request that was sent completely, and that recvBuf can hold, is
\* answered: the session is upgraded, or ends.
RequestConcluded == (asked /\ parts <= BufSize) ~> (Upgraded \/ phase # "idle")

\* A Close frame ends the session.
CloseHonoured ==
  (\E i \in 1 .. Len(stream) : stream[i].op = "close") ~> phase # "idle"
=============================================================================
