------------------------------ MODULE WsServer ------------------------------
(***************************************************************************)
(* WebSocket sessions that share a handler factory, down to the writes of  *)
(* Connection::send (src/tcp/socks_tcp_handler.hpp).                       *)
(*                                                                         *)
(* With Factory = "push" this is examples/ws_push: each session registers  *)
(* its WsConnection with the manager, and a pusher thread sends to all of  *)
(* them under the manager's mutex, while the workers echo, close and       *)
(* leave without it.  With Factory = "null" it is a server without a       *)
(* WebSocket handler: WsHandlerNullFactory gives every session the one     *)
(* static handler, which is bound to the first connection.                 *)
(*                                                                         *)
(* Clients send one frame per read.  A write copies bytes into the         *)
(* kernel's buffer, and waits, or reports less, when the buffer is full.   *)
(***************************************************************************)
EXTENDS Integers, Sequences, FiniteSets

CONSTANTS
  Conns,       \* the connections, each with its worker thread
  Busy,        \* those whose client sends frames and resets, and whose writes
               \* are interrupted; the others only read, stall and leave
  Pusher,      \* the pusher thread
  Factory,     \* the WsHandlerFactory given to Http::Server::serve
  FrameLen,    \* bytes of everything that is sent
  SndBuf,      \* bytes the kernel takes for a peer that does not read
  SizeMax,     \* number of values of std::size_t
  Faults,      \* writes cut short, NUM_CONTINUE, and resets by clients
  MaxFrames,   \* bound on the frames a client sends
  MaxRounds    \* bound on the rounds of the pusher

ASSUME WsServerAssumption ==
  /\ Pusher \notin Conns
  /\ Busy \subseteq Conns
  /\ Factory \in {"push", "null"}
  /\ FrameLen \in Nat \ {0}
  /\ SndBuf \in Nat \ {0}
  /\ SizeMax \in Nat /\ SizeMax > FrameLen + 1
  /\ Faults \subseteq {"partial", "continue", "reset"}
  /\ MaxFrames \in Nat
  /\ MaxRounds \in Nat

Threads == Conns \cup {Pusher}
NoCall == [at |-> "none"]

\* What a client may send: messages, and a Close frame as the last one.
Scripts ==
  {s \in UNION {[1 .. n -> {"data", "close"}] : n \in 0 .. MaxFrames} :
     \A i \in 1 .. Len(s) : s[i] = "close" => i = Len(s)}

VARIABLES
  inbox,      \* frames each client is still going to send
  reset,      \* connections whose client has reset
  room,       \* bytes the kernel still takes for each connection
  quit,       \* signalStatus != NO_SIGNAL
  wPc,        \* where the worker of each connection is
  closed,     \* connections whose Connection::closed is true
  destroyed,  \* connections whose handler and Connection were destroyed
  bound,      \* the connection of the static handler, as a set
  call,       \* the Connection::send each thread is in
  elements,   \* ElemMgr::elements
  pPc,        \* where the pusher thread is
  pending,    \* elements this round has still to reach
  rounds,     \* the pusher's cnt
  wire,       \* history: the bytes written to each connection
  split,      \* history: connections a write to which found too little room
  blocked,    \* history: connections a write to which reported NUM_CONTINUE
  flagged     \* history: bytes written, and sends inside write(), when closed was set

netVars == <<inbox, reset, quit>>
sockVars == <<room, wire, split, blocked>>
connVars == <<closed, destroyed, flagged>>
pushVars == <<elements, pPc, pending, rounds>>
vars == <<netVars, sockVars, connVars, pushVars, wPc, bound, call>>

Init ==
  /\ inbox \in [Conns -> Scripts]
  /\ \A c \in Conns \ Busy : inbox[c] = <<>>
  /\ reset = {}
  /\ room = [c \in Conns |-> SndBuf]
  /\ quit = FALSE
  /\ wPc = [c \in Conns |-> "request"]
  /\ closed = {}
  /\ destroyed = {}
  /\ bound = {}
  /\ call = [t \in Threads |-> NoCall]
  /\ elements = {}
  /\ pPc = IF Factory = "push" THEN "test" ELSE "done"
  /\ pending = {}
  /\ rounds = 0
  /\ wire = [c \in Conns |-> <<>>]
  /\ split = {}
  /\ blocked = {}
  /\ flagged = [c \in Conns |-> <<>>]

-----------------------------------------------------------------------------
(* Connection::send, for any thread.                                       *)

\* Thread t enters send() for connection c, with its n-th item of a kind.
Send(t, c, what, n) ==
  call' = [call EXCEPT ![t] = [at |-> "test", to |-> c, by |-> t, what |-> what, nth |-> n,
                               num |-> 0, left |-> 0]]

Sending(t, at) == call[t].at = at

\* Mutant: closed is only looked at when send() is entered.
SendTestOnce(t) ==
  /\ Sending(t, "test")
  /\ call[t].to \notin destroyed
  /\ call' = [call EXCEPT ![t] =
       IF (call[t].to \in closed /\ call[t].num = 0) \/ call[t].num >= FrameLen THEN NoCall
       ELSE [@ EXCEPT !.at = "write", !.left = FrameLen - call[t].num]]
  /\ UNCHANGED <<netVars, sockVars, connVars, pushVars, wPc, bound>>

\* Mutant: the loop runs until numWritten is exactly len.
SendTestNotEqual(t) ==
  /\ Sending(t, "test")
  /\ call[t].to \notin destroyed
  /\ call' = [call EXCEPT ![t] =
       IF call[t].to \in closed \/ call[t].num = FrameLen THEN NoCall
       ELSE [@ EXCEPT !.at = "write", !.left = FrameLen - call[t].num]]
  /\ UNCHANGED <<netVars, sockVars, connVars, pushVars, wPc, bound>>

\* while (!closed && numWritten < len)
SendTest(t) ==
  /\ Sending(t, "test")
  /\ call[t].to \notin destroyed
  /\ call' = [call EXCEPT ![t] =
       IF call[t].to \in closed \/ call[t].num >= FrameLen THEN NoCall
       ELSE [@ EXCEPT !.at = "write", !.left = FrameLen - call[t].num]]
  /\ UNCHANGED <<netVars, sockVars, connVars, pushVars, wPc, bound>>

\* The Connection has been destroyed: undefined, the call has no effect or
\* the process ends.
SendDangles(t) ==
  /\ Sending(t, "test")
  /\ call[t].to \in destroyed
  /\ call' = [call EXCEPT ![t] = NoCall]
  /\ pPc' \in {pPc, "terminated"}
  /\ UNCHANGED <<netVars, sockVars, connVars, elements, pending, rounds, wPc, bound>>

\* send() fails: the peer has reset, or the worker has closed the socket.
IoThrows(c) == c \in reset \/ wPc[c] = "over"

\* Bytes of the write that the kernel has taken so far.
Taken(t) == FrameLen - call[t].left - call[t].num

\* Mutant: send() takes a write for complete, whatever it returned.
ReturnedAll(t, taken) == [call[t] EXCEPT !.at = "test", !.num = FrameLen]

\* The write of thread t returns with the bytes taken: numWritten += write().
Returned(t, taken) == [call[t] EXCEPT !.at = "test", !.num = (@ + taken) % SizeMax]

\* The bytes of thread t's send after the first `from', n of them.
Bytes(t, from, n) ==
  [i \in 1 .. n |-> [by |-> t, what |-> call[t].what, nth |-> call[t].nth, pos |-> from + i]]

\* Mutant: each byte is written by a call of its own.
CopyByte(t) ==
  LET c == call[t].to
  IN  /\ room[c] > 0
      /\ wire' = [wire EXCEPT ![c] = @ \o Bytes(t, FrameLen - call[t].left, 1)]
      /\ room' = [room EXCEPT ![c] = @ - 1]
      /\ UNCHANGED split
      /\ call' = [call EXCEPT ![t] = Returned(t, 1)]

\* ::send() copies what there is room for.
Copied(t) == IF room[call[t].to] < call[t].left THEN room[call[t].to] ELSE call[t].left

Copy(t) ==
  LET c == call[t].to
      n == Copied(t)
  IN  /\ n > 0
      /\ wire' = [wire EXCEPT ![c] = @ \o Bytes(t, FrameLen - call[t].left, n)]
      /\ room' = [room EXCEPT ![c] = @ - n]
      /\ split' = IF n < call[t].left THEN split \cup {c} ELSE split
      /\ call' = [call EXCEPT ![t] = IF n = call[t].left THEN Returned(t, Taken(t) + n)
                                     ELSE [call[t] EXCEPT !.left = call[t].left - n]]

WriteCopies(t) ==
  /\ Sending(t, "write")
  /\ ~IoThrows(call[t].to)
  /\ Copy(t)
  /\ UNCHANGED <<netVars, blocked, connVars, pushVars, wPc, bound>>

\* The write returns the bytes it has taken so far.
WriteReturns(t) ==
  /\ Sending(t, "write")
  /\ Taken(t) > 0
  /\ call' = [call EXCEPT ![t] = Returned(t, Taken(t))]
  /\ UNCHANGED <<netVars, sockVars, connVars, pushVars, wPc, bound>>

\* A signal after some bytes, or an error, which the next write will report.
WritePartial(t) == "partial" \in Faults /\ WriteReturns(t) /\ call[t].to \in Busy
WriteCut(t) == WriteReturns(t) /\ IoThrows(call[t].to)

\* EINTR or EWOULDBLOCK before any byte: NUM_CONTINUE, which is -1.
WriteContinue(t) ==
  /\ Sending(t, "write")
  /\ Taken(t) = 0
  /\ room[call[t].to] = 0
  /\ "continue" \in Faults
  /\ call[t].to \in Busy
  /\ call' = [call EXCEPT ![t] = Returned(t, SizeMax - 1)]
  /\ blocked' = blocked \cup {call[t].to}
  /\ UNCHANGED <<netVars, room, wire, split, connVars, pushVars, wPc, bound>>

\* The exception ends the pusher, and with it the process; a worker that was
\* upgrading is caught by HttpInitState, which closes, any other worker ends.
WriteThrows(t) ==
  /\ Sending(t, "write")
  /\ Taken(t) = 0
  /\ IoThrows(call[t].to)
  /\ call' = [call EXCEPT ![t] = NoCall]
  /\ IF t = Pusher THEN pPc' = "terminated" /\ UNCHANGED <<wPc, closed>>
     ELSE /\ wPc' = [wPc EXCEPT ![t] = IF @ = "onConnect" THEN "over" ELSE "failed"]
          /\ closed' = IF wPc[t] = "onConnect" THEN closed \cup {t} ELSE closed
          /\ UNCHANGED pPc
  /\ UNCHANGED <<netVars, sockVars, destroyed, flagged, elements, pending, rounds, bound>>

-----------------------------------------------------------------------------
(* The worker of connection c: HttpInitState, HttpWsState and the handler. *)

At(c, point) == wPc[c] = point /\ call[c] = NoCall
GoTo(c, point) == wPc' = [wPc EXCEPT ![c] = point]
MutexFree == pPc # "push"

\* The connection that the WsConnection of c's handler writes to and closes.
Target(c) == IF Factory = "null" THEN CHOOSE d \in bound : TRUE ELSE c

\* Mutant: onEnter tells the handler before it answers the client.
UpgradeRegistersFirst(c) ==
  /\ At(c, "request")
  /\ ~quit
  /\ bound' = IF Factory = "null" /\ bound = {} THEN {c} ELSE bound
  /\ Send(c, c, "101", 0)
  /\ GoTo(c, "onConnect")
  /\ elements' = IF Factory = "push" THEN elements \cup {c} ELSE elements
  /\ UNCHANGED <<netVars, sockVars, connVars, pPc, pending, rounds>>

\* The request arrives: HttpWsState gets its handler from the factory, and
\* onEnter answers 101.
Upgrade(c) ==
  /\ At(c, "request")
  /\ ~quit
  /\ bound' = IF Factory = "null" /\ bound = {} THEN {c} ELSE bound
  /\ Send(c, c, "101", 0)
  /\ GoTo(c, "onConnect")
  /\ UNCHANGED <<netVars, sockVars, connVars, pushVars>>

OnConnect(c) ==
  /\ At(c, "onConnect")
  /\ MutexFree
  /\ elements' = IF Factory = "push" THEN elements \cup {c} ELSE elements
  /\ GoTo(c, "loop")
  /\ UNCHANGED <<netVars, sockVars, connVars, pPc, pending, rounds, bound, call>>

\* A frame arrives.  A message is echoed by WsPushHandler, ignored by
\* WsHandlerNull; a Close frame makes WsConnection::close send one.
ReadFrame(c) ==
  /\ At(c, "loop")
  /\ ~quit
  /\ c \notin closed
  /\ inbox[c] # <<>>
  /\ inbox' = [inbox EXCEPT ![c] = Tail(@)]
  /\ \/ /\ Head(inbox[c]) = "data"
        /\ IF Factory = "push" THEN Send(c, c, "echo", Len(inbox[c])) ELSE UNCHANGED call
        /\ UNCHANGED wPc
     \/ /\ Head(inbox[c]) = "close"
        /\ Send(c, Target(c), "close", 0)
        /\ GoTo(c, "close")
  /\ UNCHANGED <<reset, quit, sockVars, connVars, pushVars, bound>>

\* Mutant: WsConnection::close only sends the Close frame.
SetClosedForgotten(c) ==
  /\ At(c, "close")
  /\ GoTo(c, "loop")
  /\ UNCHANGED <<netVars, sockVars, connVars, pushVars, bound, call>>

\* Sends that are past their test of closed.
InWrite(c) == {<<t, call[t].what, call[t].nth>> :
                 t \in {u \in Threads : Sending(u, "write") /\ call[u].to = c}}

\* WsConnection::close goes on to Connection::close.
SetClosed(c) ==
  /\ At(c, "close")
  /\ closed' = closed \cup {Target(c)}
  /\ flagged' = IF Target(c) \in closed THEN flagged
                ELSE [flagged EXCEPT ![Target(c)] =
                        <<[len |-> Len(wire[Target(c)]), sends |-> InWrite(Target(c))]>>]
  /\ GoTo(c, "loop")
  /\ UNCHANGED <<netVars, sockVars, destroyed, pushVars, bound, call>>

ReadThrows(c) ==
  /\ At(c, "loop")
  /\ ~quit
  /\ c \in reset \ closed
  /\ GoTo(c, "failed")
  /\ UNCHANGED <<netVars, sockVars, connVars, pushVars, bound, call>>

\* The loop ends: onDisconnect, then socket->close().  A worker that waits for
\* the mutex is still at "loop", where it reads nothing any more.
OnDisconnect(c) ==
  /\ At(c, "loop")
  /\ MutexFree
  /\ elements' = elements \ {c}
  /\ GoTo(c, "over")
  /\ UNCHANGED <<netVars, sockVars, connVars, pPc, pending, rounds, bound, call>>

LoopExit(c) == (quit \/ c \in closed) /\ OnDisconnect(c)

\* The client closes its side.
ReadEof(c) == ~quit /\ inbox[c] = <<>> /\ OnDisconnect(c)

\* A worker still waiting for its request leaves when the server is to quit.
LeaveEarly(c) ==
  /\ At(c, "request")
  /\ quit
  /\ GoTo(c, "over")
  /\ UNCHANGED <<netVars, sockVars, connVars, pushVars, bound, call>>

\* Main thread: cleanup() destroys a worker that is over; followed for those
\* that somebody can still refer to.
Destroy(c) ==
  /\ wPc[c] \in {"over", "failed"}
  /\ c \in (elements \cup pending \cup bound) \ destroyed
  /\ destroyed' = destroyed \cup {c}
  /\ UNCHANGED <<netVars, sockVars, closed, flagged, pushVars, wPc, bound, call>>

-----------------------------------------------------------------------------
(* pusherRunner and ElemMgr::push.                                         *)

\* Mutant: the pusher does not look at the quit condition.
PusherRoundIgnoresQuit ==
  /\ pPc = "test"
  /\ pPc' = "push"
  /\ pending' = elements
  /\ rounds' = IF rounds < MaxRounds THEN rounds + 1 ELSE rounds
  /\ UNCHANGED <<netVars, sockVars, connVars, elements, wPc, bound, call>>

\* The quit condition is tested, and the mutex taken for a round.
PusherRound ==
  /\ pPc = "test"
  /\ ~quit
  /\ rounds < MaxRounds
  /\ pPc' = "push"
  /\ pending' = elements
  /\ rounds' = rounds + 1
  /\ UNCHANGED <<netVars, sockVars, connVars, elements, wPc, bound, call>>

PusherEnds ==
  /\ pPc = "test"
  /\ quit
  /\ pPc' = "done"
  /\ UNCHANGED <<netVars, sockVars, connVars, elements, pending, rounds, wPc, bound, call>>

PusherSend(c) ==
  /\ pPc = "push"
  /\ call[Pusher] = NoCall
  /\ c \in pending
  /\ Send(Pusher, c, "push", rounds)
  /\ pending' = pending \ {c}
  /\ UNCHANGED <<netVars, sockVars, connVars, elements, pPc, rounds, wPc, bound>>

\* The mutex is given back and the pusher sleeps.
PusherUnlock ==
  /\ pPc = "push"
  /\ call[Pusher] = NoCall
  /\ pending = {}
  /\ pPc' = "test"
  /\ UNCHANGED <<netVars, sockVars, connVars, elements, pending, rounds, wPc, bound, call>>

-----------------------------------------------------------------------------
(* The clients and the signal.                                             *)

Drain(c) ==
  /\ room[c] < SndBuf
  /\ room' = [room EXCEPT ![c] = SndBuf]
  /\ UNCHANGED <<netVars, wire, split, blocked, connVars, pushVars, wPc, bound, call>>

PeerReset(c) ==
  /\ "reset" \in Faults
  /\ c \in Busy \ reset
  /\ wPc[c] # "over"
  /\ reset' = reset \cup {c}
  /\ UNCHANGED <<inbox, quit, sockVars, connVars, pushVars, wPc, bound, call>>

Signal ==
  /\ ~quit
  /\ quit' = TRUE
  /\ UNCHANGED <<inbox, reset, sockVars, connVars, pushVars, wPc, bound, call>>

-----------------------------------------------------------------------------
\* serve() has joined every worker and main() the pusher, or std::terminate.
ProcessOver ==
  \/ pPc = "terminated"
  \/ quit /\ pPc = "done" /\ \A c \in Conns : wPc[c] \in {"over", "failed"}

\* What a thread does without waiting for a client or a signal.
InSend(t) ==
  SendTest(t) \/ SendDangles(t) \/ WriteCopies(t) \/ WriteCut(t) \/ WriteThrows(t)
WorkerStep(c) ==
  OnConnect(c) \/ SetClosed(c) \/ LoopExit(c) \/ LeaveEarly(c)
PusherStep ==
  PusherRound \/ PusherEnds \/ PusherUnlock \/ \E c \in Conns : PusherSend(c)

Step(t) == ~ProcessOver /\ (InSend(t) \/ IF t = Pusher THEN PusherStep ELSE WorkerStep(t))

Next ==
  \/ \E t \in Threads : Step(t) \/ (~ProcessOver /\ (WritePartial(t) \/ WriteContinue(t)))
  \/ /\ ~ProcessOver
     /\ \/ Signal
        \/ \E c \in Conns :
             \/ Upgrade(c) \/ ReadFrame(c) \/ ReadEof(c) \/ ReadThrows(c)
             \/ Destroy(c) \/ Drain(c) \/ PeerReset(c)
  \/ ProcessOver /\ UNCHANGED vars

Spec == Init /\ [][Next]_vars

\* Threads are scheduled; a worker gets the mutex, which is free while the
\* pusher sleeps.  Nothing is assumed of clients.
FairSpec ==
  /\ Spec
  /\ \A t \in Threads : WF_vars(Step(t))
  /\ \A c \in Conns : SF_vars(~ProcessOver /\ (OnConnect(c) \/ LoopExit(c)))
-----------------------------------------------------------------------------
(* Properties.                                                             *)

\* Every variable has its type; a write never starts beyond its buffer.
TypeOK ==
  /\ reset \cup closed \cup destroyed \cup bound \cup elements \cup pending \subseteq Conns
  /\ split \cup blocked \subseteq Conns
  /\ room \in [Conns -> 0 .. SndBuf]
  /\ quit \in BOOLEAN
  /\ wPc \in [Conns -> {"request", "onConnect", "loop", "close", "over", "failed"}]
  /\ pPc \in {"test", "push", "done", "terminated"}
  /\ rounds \in 0 .. MaxRounds
  /\ \A t \in Threads : Sending(t, "write") =>
       call[t].num < FrameLen /\ call[t].left \in 1 .. FrameLen - call[t].num

\* Where in the wire the bytes of thread t's current send are, and which of its
\* bytes each of them is.
Mine(t) ==
  {i \in 1 .. Len(wire[call[t].to]) :
     LET b == wire[call[t].to][i]
     IN  b.by = t /\ b.what = call[t].what /\ b.nth = call[t].nth}
Pos(t, i) == wire[call[t].to][i].pos

\* How many bytes the send has put on the wire, as it sees it.
Done(t) == IF Sending(t, "test") THEN call[t].num ELSE FrameLen - call[t].left

\* The bytes that numWritten counts are there, in order, and none of them twice.
Exact(t) ==
  /\ {Pos(t, i) : i \in Mine(t)} = 1 .. Done(t)
  /\ \A i, j \in Mine(t) : i < j => Pos(t, i) < Pos(t, j)

\* Each byte comes first, or after its predecessor or a later byte.
NoGaps(t) ==
  \A i \in Mine(t) : Pos(t, i) > 1 =>
    \E j \in Mine(t) : /\ j < i /\ Pos(t, j) >= Pos(t, i) - 1
                       /\ \A k \in Mine(t) : k < i => k <= j

\* However writes are cut short and resumed, a send puts its bytes on the
\* wire once and in order, as many as numWritten says.  Where a write reported
\* NUM_CONTINUE, numWritten is off by one (socks_tcp_handler.hpp:28), and the
\* bytes still come without gaps, some repeated.
SendIntact ==
  \A t \in Threads : ~Sending(t, "none") =>
    IF call[t].to \in blocked THEN NoGaps(t) ELSE Exact(t)

\* Although pusher and worker share no lock on the connection, the bytes of
\* their frames are mixed only if some write found too little room for all it
\* was given: each frame is passed to one write.
FramesNotMixed ==
  \A c \in Conns \ (split \cup blocked) : \A i \in 1 .. Len(wire[c]) :
    wire[c][i].pos > 1 => wire[c][i - 1] = [wire[c][i] EXCEPT !.pos = @ - 1]

\* Once closed is set, all that still reaches the client is the rest of the
\* writes that had begun: pushes of other threads stop at their next test.
StoppedByClose ==
  \A c \in Conns : flagged[c] # <<>> =>
    \A i \in flagged[c][1].len + 1 .. Len(wire[c]) :
      <<wire[c][i].by, wire[c][i].what, wire[c][i].nth>> \in flagged[c][1].sends

\* The client gets the whole 101 response before any frame, the pusher's
\* included: a connection is registered only after the response was sent.
UpgradeFirst ==
  \A c \in Conns \ blocked : \A i \in 1 .. Len(wire[c]) :
    (wire[c][i].what = "101") = (i <= FrameLen)

\* No client keeps the server waiting for ever: each reads on, resets or has
\* been left.
Drains ==
  \A c \in Conns : []<>(room[c] > 0 \/ c \in reset \/ wPc[c] = "over")

\* A Close frame ends the session it arrives on, if clients read on: the
\* wait for the mutex, which the pusher holds over blocking writes, ends.
CloseEndsSession ==
  \A c \in Conns :
    Drains => (wPc[c] = "close" ~> wPc[c] \in {"over", "failed"} \/ ProcessOver)

\* After a signal the process ends unless a client stops reading for ever:
\* however the pusher, the workers and the mutex stand, nothing else blocks.
ShutdownUnlessStalled == Drains => (quit ~> ProcessOver)
=============================================================================
