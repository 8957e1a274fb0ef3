--------------------------- MODULE WsServerProofs ---------------------------
(***************************************************************************)
(* The safety properties of WebSocket sessions and their pusher, for any   *)
(* number of connections, frames and rounds, any length of a frame and any *)
(* room in the kernel's buffers.  All rest on what the threads that are    *)
(* inside Connection::send know of the wire.                               *)
(***************************************************************************)
EXTENDS WsServer, SequenceTheorems, TLAPS

-----------------------------------------------------------------------------
(* Types.                                                                  *)

Kinds == {"101", "echo", "close", "push"}
ByteType == [by : Threads, what : Kinds, nth : Nat, pos : 1 .. FrameLen]
CallType == [at : {"test", "write"}, to : Conns, by : Threads, what : Kinds, nth : Nat,
             num : 0 .. SizeMax - 1, left : 0 .. FrameLen]
NoteType == [len : Nat, sends : SUBSET (Threads \X Kinds \X Nat)]

\* The types of what TypeOK says nothing about: frames to come, calls, bytes.
Types ==
  /\ inbox \in [Conns -> Seq({"data", "close"})]
  /\ \A c \in Conns : \A i \in 1 .. Len(inbox[c]) : inbox[c][i] = "close" => i = Len(inbox[c])
  /\ call \in [Threads -> CallType \cup {NoCall}]
  /\ wire \in [Conns -> Seq(ByteType)]
  /\ flagged \in [Conns -> Seq(NoteType)]

\* A session that was upgraded has bound the shared handler.
Bound ==
  Factory = "null" =>
    \A c \in Conns : wPc[c] \in {"onConnect", "loop", "close"} => bound # {}

Typed == TypeOK /\ Types /\ Bound

-----------------------------------------------------------------------------
(* The parts of the invariant.                                             *)

\* Once closed is set, a thread that is inside write() was so at that moment.
Stopping ==
  \A c \in Conns : flagged[c] # <<>> =>
    /\ c \in closed
    /\ \A t \in Threads : Sending(t, "write") /\ call[t].to = c =>
         <<t, call[t].what, call[t].nth>> \in flagged[c][1].sends

\* As long as every write has found room, a send has written nothing or all.
Whole ==
  \A t \in Threads : ~Sending(t, "none") /\ call[t].to \notin split \cup blocked =>
    /\ Sending(t, "test") => call[t].num \in {0, FrameLen}
    /\ Sending(t, "write") => call[t].num = 0 /\ call[t].left = FrameLen

\* The nth item of a kind that a thread sends to connection c will not be sent
\* again: the counters and program points that name the items have moved on.
Used(by, what, nth, c) ==
  /\ what = "101" => by \in Conns /\ wPc[by] # "request"
  /\ what = "echo" => by \in Conns /\ nth > Len(inbox[by])
  /\ what = "close" => by \in Conns /\ inbox[by] = <<>>
  /\ what = "push" => nth <= rounds /\ (nth = rounds => c \notin pending)

Fresh ==
  /\ \A c \in Conns : \A i \in 1 .. Len(wire[c]) :
       Used(wire[c][i].by, wire[c][i].what, wire[c][i].nth, c)
  /\ \A t \in Threads : ~Sending(t, "none") =>
       call[t].by = t /\ Used(t, call[t].what, call[t].nth, call[t].to)

\* The bytes at indices M, where p says which of the send's bytes each is:
\* NoGaps and Exact of the model, and that the last of them is the n-th or a
\* later one.
Gapless(M, p) ==
  \A i \in M : p[i] > 1 =>
    \E j \in M : j < i /\ p[j] >= p[i] - 1 /\ \A k \in M : k < i => k <= j

InOrder(M, p, n) ==
  {p[i] : i \in M} = 1 .. n /\ \A i, j \in M : i < j => p[i] < p[j]

Reaches(M, p, n) ==
  n = 0 \/ \E j \in M : p[j] >= n /\ \A k \in M : k <= j

Places(t) == [i \in Mine(t) |-> Pos(t, i)]

\* What a send counts as written, it has written, unless its counter has
\* wrapped and the loop is about to end.
Intact ==
  \A t \in Threads : ~Sending(t, "none") =>
    /\ Gapless(Mine(t), Places(t))
    /\ Done(t) > FrameLen \/ Reaches(Mine(t), Places(t), Done(t))
    /\ call[t].to \notin blocked => Done(t) <= FrameLen /\ InOrder(Mine(t), Places(t), Done(t))

\* The session of c has not been told of its connection yet.
Before(c) == wPc[c] \in {"request", "onConnect"}

\* The whole 101 response is on the wire, or was cut at a NUM_CONTINUE.
Answered(c) == ~Before(c) /\ (c \in blocked \/ Len(wire[c]) >= FrameLen)

\* It is being sent.
Answering(c) == wPc[c] = "onConnect" /\ (c \in blocked \/ Len(wire[c]) = Done(c))

Upgrading ==
  /\ \A c \in elements \cup pending : Answered(c)
  /\ \A c \in closed \cup destroyed : ~Before(c)
  /\ \A c \in Conns :
       /\ wPc[c] = "request" => wire[c] = <<>> /\ call[c] = NoCall
       /\ wPc[c] = "onConnect" /\ call[c] = NoCall => c \in blocked \/ Len(wire[c]) >= FrameLen
       /\ wPc[c] \in {"loop", "close"} => Answered(c)
  /\ \A t \in Threads : ~Sending(t, "none") =>
       IF call[t].what = "101" THEN t = call[t].to /\ Answering(t)
       ELSE Answered(call[t].to) /\ (t \in Conns => ~Before(t))

-----------------------------------------------------------------------------
(* Steps.                                                                  *)

\* A thread that is in send() has a call.
LEMMA InCall ==
  ASSUME Types, NEW t \in Threads
  PROVE  /\ ~Sending(t, "none") => call[t] \in CallType
         /\ Sending(t, "none") <=> call[t] = NoCall
         /\ Sending(t, "test") \/ Sending(t, "write") => ~Sending(t, "none")
BY DEF Types, CallType, NoCall, Sending

\* A step starts a send, or is a step inside one, or leaves sockets and calls
\* alone.
Starts(c) == Upgrade(c) \/ ReadFrame(c) \/ PusherSend(c)

Inside(t) ==
  \/ SendTest(t) \/ SendDangles(t) \/ WriteCopies(t)
  \/ WriteReturns(t) \/ WriteContinue(t) \/ WriteThrows(t)

\* Every step of the specification.
LEMMA Actions ==
  ASSUME [Next]_vars
  PROVE  \/ \E t \in Threads : Inside(t)
         \/ \E c \in Conns :
              \/ Upgrade(c) \/ ReadFrame(c) \/ PusherSend(c) \/ OnConnect(c) \/ SetClosed(c)
              \/ OnDisconnect(c) \/ ReadThrows(c) \/ LeaveEarly(c)
              \/ Destroy(c) \/ Drain(c) \/ PeerReset(c)
         \/ PusherRound \/ PusherEnds \/ PusherUnlock \/ Signal
         \/ UNCHANGED vars
BY DEF Next, Step, InSend, WorkerStep, PusherStep, Inside, WritePartial, WriteCut, LoopExit,
       ReadEof, Threads

Quiet == UNCHANGED <<wire, split, blocked, call>>

LEMMA Steps ==
  ASSUME [Next]_vars
  PROVE  \/ \E c \in Conns : Starts(c)
         \/ \E t \in Threads : Inside(t)
         \/ Quiet
BY Actions
   DEF Starts, Quiet, vars, sockVars, OnConnect, SetClosed, OnDisconnect, LeaveEarly, PusherRound,
       PusherEnds, PusherUnlock, Signal, ReadThrows, Destroy, Drain, PeerReset

\* The other threads' calls are left alone.
OthersKeep(t) == \A u \in Threads \ {t} : call'[u] = call[u]

\* Entering send().
LEMMA SendEffect ==
  ASSUME Types, NEW t \in Threads, NEW c \in Conns, NEW what \in Kinds, NEW n \in Nat,
         Send(t, c, what, n)
  PROVE  /\ call'[t] = [at |-> "test", to |-> c, by |-> t, what |-> what, nth |-> n, num |-> 0,
                        left |-> 0]
         /\ OthersKeep(t)
         /\ call' \in [Threads -> CallType \cup {NoCall}]
<1>1. 0 \in 0 .. SizeMax - 1 /\ 0 \in 0 .. FrameLen
  BY WsServerAssumption DEF WsServerAssumption
<1> QED
  BY <1>1 DEF Send, Types, CallType, OthersKeep

\* The test of send()'s loop.
LEMMA TestEffect ==
  ASSUME Typed, NEW t \in Threads, SendTest(t)
  PROVE  /\ Sending(t, "test") /\ call[t] \in CallType
         /\ OthersKeep(t)
         /\ call' \in [Threads -> CallType \cup {NoCall}]
         /\ \/ call'[t] = NoCall /\ (call[t].to \in closed \/ call[t].num >= FrameLen)
            \/ /\ call[t].to \notin closed /\ call[t].num < FrameLen
               /\ call'[t] = [call[t] EXCEPT !.at = "write", !.left = FrameLen - call[t].num]
<1>1. Sending(t, "test") /\ call[t] \in CallType /\ call \in [Threads -> CallType \cup {NoCall}]
  BY InCall DEF SendTest, Typed, Types
<1>2. CASE call[t].to \in closed \/ call[t].num >= FrameLen
  BY <1>1, <1>2 DEF SendTest, OthersKeep
<1>3. CASE ~(call[t].to \in closed \/ call[t].num >= FrameLen)
  <2>1. call[t].num \in 0 .. SizeMax - 1 /\ call[t].num < FrameLen
    BY <1>1, <1>3, WsServerAssumption DEF WsServerAssumption, CallType
  <2>2. FrameLen - call[t].num \in 0 .. FrameLen
    BY <2>1, WsServerAssumption DEF WsServerAssumption
  <2>3. [call[t] EXCEPT !.at = "write", !.left = FrameLen - call[t].num] \in CallType
    BY <1>1, <2>2 DEF CallType
  <2>4. call' = [call EXCEPT ![t] =
                   [call[t] EXCEPT !.at = "write", !.left = FrameLen - call[t].num]]
    BY <1>3 DEF SendTest
  <2> QED
    BY <1>1, <1>3, <2>1, <2>3, <2>4 DEF OthersKeep
<1> QED
  BY <1>2, <1>3

\* Remainders of sums that wrap once, or not at all.
LEMMA Wraps ==
  ASSUME NEW a \in Nat, NEW b \in Nat
  PROVE  /\ a < b => a % b = a
         /\ b <= a /\ a < b + b => a % b = a - b
  OBVIOUS

\* One less than a number of std::size_t.
LEMMA BackByOne ==
  ASSUME NEW k \in Nat, NEW b \in Nat, k < b
  PROVE  (k + (b - 1)) % b = IF k = 0 THEN b - 1 ELSE k - 1
<1>1. k + (b - 1) \in Nat
  OBVIOUS
<1>2. CASE k = 0
  BY <1>1, <1>2, Wraps
<1>3. CASE k # 0
  <2> DEFINE a == k + (b - 1)
  <2>1. a \in Nat /\ b <= a /\ a < b + b /\ a - b = k - 1
    BY <1>1, <1>3
  <2> HIDE DEF a
  <2>2. a % b = k - 1
    BY <2>1, Wraps
  <2> QED
    BY <1>3, <2>2 DEF a
<1> QED
  BY <1>2, <1>3

\* The elements of two sequences in a row.
LEMMA InARow ==
  ASSUME NEW p \in Seq(ByteType), NEW q \in Seq(ByteType)
  PROVE  /\ p \o q \in Seq(ByteType)
         /\ Len(p \o q) = Len(p) + Len(q)
         /\ \A i \in 1 .. Len(p) : (p \o q)[i] = p[i]
         /\ \A i \in 1 .. Len(q) : (p \o q)[Len(p) + i] = q[i]
  OBVIOUS

\* A call that is inside write().
LEMMA Writing ==
  ASSUME Typed, NEW t \in Threads, Sending(t, "write")
  PROVE  /\ call[t] \in CallType
         /\ call[t].num \in 0 .. FrameLen - 1
         /\ call[t].left \in 1 .. FrameLen - call[t].num
         /\ Taken(t) = FrameLen - call[t].left - call[t].num
         /\ Taken(t) \in Nat
<1>1. call[t] \in CallType /\ call[t].num < FrameLen /\ call[t].left \in 1 .. FrameLen - call[t].num
  BY InCall DEF Typed, TypeOK
<1> QED
  BY <1>1, WsServerAssumption DEF WsServerAssumption, CallType, Taken

\* numWritten += n, where it does not wrap.
LEMMA ReturnedValue ==
  ASSUME Typed, NEW t \in Threads, Sending(t, "write"), NEW n \in Nat,
         call[t].num + n <= FrameLen
  PROVE  /\ Returned(t, n) = [call[t] EXCEPT !.at = "test", !.num = call[t].num + n]
         /\ Returned(t, n) \in CallType
<1>1. call[t] \in CallType /\ call[t].num \in Nat
  BY Writing DEF CallType
<1>2. call[t].num + n \in 0 .. SizeMax - 1 /\ call[t].num + n < SizeMax /\ SizeMax \in Nat
  BY <1>1, WsServerAssumption DEF WsServerAssumption
<1>3. (call[t].num + n) % SizeMax = call[t].num + n
  BY <1>2, Wraps
<1> QED
  BY <1>1, <1>2, <1>3 DEF Returned, CallType

\* write() returns what it has taken: numWritten is where the write was.
LEMMA ReturnEffect ==
  ASSUME Typed, NEW t \in Threads, WriteReturns(t)
  PROVE  /\ Sending(t, "write") /\ Taken(t) > 0
         /\ OthersKeep(t)
         /\ call' \in [Threads -> CallType \cup {NoCall}]
         /\ call'[t] = [call[t] EXCEPT !.at = "test", !.num = FrameLen - call[t].left]
<1>1. Sending(t, "write") /\ call \in [Threads -> CallType \cup {NoCall}]
  BY DEF WriteReturns, Typed, Types
<1>2. /\ call[t].num + Taken(t) = FrameLen - call[t].left
      /\ FrameLen - call[t].left <= FrameLen
      /\ Taken(t) \in Nat
  BY <1>1, Writing, WsServerAssumption DEF WsServerAssumption, CallType
<1>3. /\ Returned(t, Taken(t)) = [call[t] EXCEPT !.at = "test", !.num = FrameLen - call[t].left]
      /\ Returned(t, Taken(t)) \in CallType
  BY <1>1, <1>2, ReturnedValue
<1> QED
  BY <1>1, <1>3 DEF WriteReturns, OthersKeep

\* write() reports NUM_CONTINUE: numWritten goes back by one, and wraps at 0.
LEMMA ContinueEffect ==
  ASSUME Typed, NEW t \in Threads, WriteContinue(t)
  PROVE  /\ Sending(t, "write") /\ call[t].num = FrameLen - call[t].left
         /\ OthersKeep(t)
         /\ call' \in [Threads -> CallType \cup {NoCall}]
         /\ call'[t] = [call[t] EXCEPT !.at = "test",
                          !.num = IF call[t].num = 0 THEN SizeMax - 1 ELSE call[t].num - 1]
<1> DEFINE num == IF call[t].num = 0 THEN SizeMax - 1 ELSE call[t].num - 1
<1>1. Sending(t, "write") /\ Taken(t) = 0 /\ call \in [Threads -> CallType \cup {NoCall}]
  BY DEF WriteContinue, Typed, Types
<1>2. call[t] \in CallType /\ call[t].num \in 0 .. FrameLen - 1 /\ call[t].num = FrameLen - call[t].left
  BY <1>1, Writing, WsServerAssumption DEF WsServerAssumption, CallType
<1>3. SizeMax \in Nat /\ SizeMax > FrameLen + 1 /\ FrameLen \in Nat
  BY WsServerAssumption DEF WsServerAssumption
<1>4. (call[t].num + (SizeMax - 1)) % SizeMax = num /\ num \in 0 .. SizeMax - 1
  <2>1. call[t].num \in Nat /\ call[t].num < SizeMax
    BY <1>2, <1>3
  <2>2. (call[t].num + (SizeMax - 1)) % SizeMax = num
    BY <1>3, <2>1, BackByOne
  <2> QED
    BY <1>2, <1>3, <2>2
<1>5. /\ Returned(t, SizeMax - 1) = [call[t] EXCEPT !.at = "test", !.num = num]
      /\ Returned(t, SizeMax - 1) \in CallType
  BY <1>2, <1>4 DEF Returned, CallType
<1> QED
  BY <1>1, <1>2, <1>5 DEF WriteContinue, OthersKeep

\* The call ends, with or without an exception.
LEMMA EndEffect ==
  ASSUME Typed, NEW t \in Threads, SendDangles(t) \/ WriteThrows(t)
  PROVE  /\ ~Sending(t, "none")
         /\ OthersKeep(t)
         /\ call' \in [Threads -> CallType \cup {NoCall}]
         /\ call'[t] = NoCall
BY InCall DEF SendDangles, WriteThrows, Typed, Types, OthersKeep

\* The byte of thread t's send at position p.
ByteAt(t, p) == [by |-> t, what |-> call[t].what, nth |-> call[t].nth, pos |-> p]

\* The n bytes of thread t's send that follow those it has written are added to
\* the wire of c.
Appended(t, c, n) ==
  /\ Len(wire'[c]) = Len(wire[c]) + n
  /\ \A i \in 1 .. Len(wire[c]) : wire'[c][i] = wire[c][i]
  /\ \A i \in 1 .. n : wire'[c][Len(wire[c]) + i] = ByteAt(t, FrameLen - call[t].left + i)

\* The bytes go behind those that the connection was sent before, and the call
\* goes on behind them.
LEMMA CopyEffect ==
  ASSUME Typed, NEW t \in Threads, WriteCopies(t), NEW c, c = call[t].to
  PROVE  /\ Sending(t, "write") /\ c \in Conns /\ Copied(t) \in 1 .. call[t].left
         /\ OthersKeep(t)
         /\ call' \in [Threads -> CallType \cup {NoCall}]
         /\ wire' \in [Conns -> Seq(ByteType)]
         /\ \A d \in Conns \ {c} : wire'[d] = wire[d]
         /\ Appended(t, c, Copied(t))
         /\ \/ Copied(t) = call[t].left /\ call'[t] = [call[t] EXCEPT !.at = "test", !.num = FrameLen]
            \/ /\ Copied(t) < call[t].left /\ c \in split'
               /\ call'[t] = [call[t] EXCEPT !.left = call[t].left - Copied(t)]
<1> SUFFICES ASSUME NEW n, n = Copied(t)
             PROVE  /\ Sending(t, "write") /\ c \in Conns /\ n \in 1 .. call[t].left
                    /\ OthersKeep(t)
                    /\ call' \in [Threads -> CallType \cup {NoCall}]
                    /\ wire' \in [Conns -> Seq(ByteType)]
                    /\ \A d \in Conns \ {c} : wire'[d] = wire[d]
                    /\ Appended(t, c, n)
                    /\ \/ /\ n = call[t].left
                          /\ call'[t] = [call[t] EXCEPT !.at = "test", !.num = FrameLen]
                       \/ /\ n < call[t].left /\ c \in split'
                          /\ call'[t] = [call[t] EXCEPT !.left = call[t].left - n]
  OBVIOUS
<1> DEFINE from == FrameLen - call[t].left
           more == Bytes(t, from, n)
<1>1. Sending(t, "write") /\ Copy(t)
  BY DEF WriteCopies
<1>2. /\ call[t] \in CallType /\ c \in Conns
      /\ call[t].num \in 0 .. FrameLen - 1 /\ call[t].left \in 1 .. FrameLen - call[t].num
      /\ Taken(t) = FrameLen - call[t].left - call[t].num /\ Taken(t) \in Nat
  BY <1>1, Writing DEF CallType
<1>3. FrameLen \in Nat \ {0}
  BY WsServerAssumption DEF WsServerAssumption
<1>4. room[c] \in Nat
  BY <1>2, WsServerAssumption DEF WsServerAssumption, Typed, TypeOK
<1>5. n \in 1 .. call[t].left
  BY <1>1, <1>2, <1>4 DEF Copy, Copied
<1>6. from \in 0 .. FrameLen - 1 /\ from + n <= FrameLen /\ n \in Nat
  BY <1>2, <1>3, <1>5
<1>7. /\ more \in Seq(ByteType) /\ Len(more) = n
      /\ \A i \in 1 .. n : more[i] = ByteAt(t, from + i)
  <2> HIDE DEF from
  <2>1. \A i \in 1 .. n : ByteAt(t, from + i) \in ByteType
    BY <1>2, <1>3, <1>6 DEF ByteAt, ByteType, CallType
  <2>2. more = [i \in 1 .. n |-> ByteAt(t, from + i)]
    BY DEF Bytes, ByteAt
  <2> QED
    BY <1>6, <2>1, <2>2
<1>8. wire \in [Conns -> Seq(ByteType)] /\ wire[c] \in Seq(ByteType)
  BY <1>2 DEF Typed, Types
<1>9. wire' = [wire EXCEPT ![c] = wire[c] \o more]
  BY <1>1 DEF Copy
<1> HIDE DEF more, from
<1>10. /\ wire[c] \o more \in Seq(ByteType)
       /\ Len(wire[c] \o more) = Len(wire[c]) + n
       /\ \A i \in 1 .. Len(wire[c]) : (wire[c] \o more)[i] = wire[c][i]
       /\ \A i \in 1 .. n : (wire[c] \o more)[Len(wire[c]) + i] = ByteAt(t, from + i)
  <2>1. /\ wire[c] \o more \in Seq(ByteType)
        /\ Len(wire[c] \o more) = Len(wire[c]) + Len(more)
        /\ \A i \in 1 .. Len(wire[c]) : (wire[c] \o more)[i] = wire[c][i]
        /\ \A i \in 1 .. Len(more) : (wire[c] \o more)[Len(wire[c]) + i] = more[i]
    <3>1. more \in Seq(ByteType) /\ wire[c] \in Seq(ByteType)
      BY <1>7, <1>8
    <3> QED
      BY <3>1, InARow
  <2>2. ASSUME NEW i \in 1 .. n
        PROVE  (wire[c] \o more)[Len(wire[c]) + i] = ByteAt(t, from + i)
    <3>1. i \in 1 .. Len(more) /\ more[i] = ByteAt(t, from + i)
      BY <1>7
    <3>2. (wire[c] \o more)[Len(wire[c]) + i] = more[i]
      BY <2>1, <3>1, Zenon
    <3> QED
      BY <3>1, <3>2, Zenon
  <2>3. Len(wire[c] \o more) = Len(wire[c]) + n
    BY <1>7, <2>1, Zenon
  <2> QED
    BY <2>1, <2>2, <2>3, Zenon
<1>11. /\ wire' \in [Conns -> Seq(ByteType)]
       /\ \A d \in Conns \ {c} : wire'[d] = wire[d]
       /\ wire'[c] = wire[c] \o more
  BY <1>2, <1>8, <1>9, <1>10
<1> Appended(t, c, n)
  BY <1>10, <1>11 DEF Appended, from
<1>12. CASE n = call[t].left
  <2>1. Taken(t) + n = FrameLen - call[t].num /\ Taken(t) + n \in Nat
    BY <1>2, <1>3, <1>12
  <2>2. call[t].num + (Taken(t) + n) = FrameLen
    BY <1>2, <1>3, <2>1
  <2>3. /\ Returned(t, Taken(t) + n) = [call[t] EXCEPT !.at = "test", !.num = FrameLen]
        /\ Returned(t, Taken(t) + n) \in CallType
    <3>1. call[t].num + (Taken(t) + n) <= FrameLen
      BY <1>3, <2>2
    <3>2. /\ Returned(t, Taken(t) + n)
               = [call[t] EXCEPT !.at = "test", !.num = call[t].num + (Taken(t) + n)]
          /\ Returned(t, Taken(t) + n) \in CallType
      BY <1>1, <2>1, <3>1, ReturnedValue
    <3> QED
      BY <2>2, <3>2, Zenon
  <2>4. call' = [call EXCEPT ![t] = Returned(t, Taken(t) + n)]
    BY <1>1, <1>12 DEF Copy
  <2>5. call'[t] = Returned(t, Taken(t) + n) /\ OthersKeep(t)
        /\ call' \in [Threads -> CallType \cup {NoCall}]
    BY <2>3, <2>4 DEF Typed, Types, OthersKeep
  <2> QED
    BY <1>1, <1>2, <1>5, <1>10, <1>11, <1>12, <2>3, <2>5 DEF from
<1>13. CASE n < call[t].left
  <2>1. call' = [call EXCEPT ![t] = [call[t] EXCEPT !.left = call[t].left - n]]
    <3>1. n # call[t].left
      BY <1>2, <1>5, <1>13
    <3> QED
      BY <1>1, <3>1 DEF Copy
  <2>2. [call[t] EXCEPT !.left = call[t].left - n] \in CallType
    <3>1. call[t].left - n \in 0 .. FrameLen
      BY <1>2, <1>3, <1>5, <1>13
    <3> QED
      BY <1>2, <3>1 DEF CallType
  <2>3. call'[t] = [call[t] EXCEPT !.left = call[t].left - n] /\ OthersKeep(t)
        /\ call' \in [Threads -> CallType \cup {NoCall}]
    BY <2>1, <2>2 DEF Typed, Types, OthersKeep
  <2>4. c \in split'
    BY <1>1, <1>13 DEF Copy
  <2> QED
    BY <1>1, <1>2, <1>5, <1>10, <1>11, <1>13, <2>3, <2>4 DEF from
<1> QED
  BY <1>2, <1>5, <1>12, <1>13

-----------------------------------------------------------------------------
(* Types are kept.                                                         *)

\* A write is given part of what its send has left.
InBuffer(t) ==
  Sending(t, "write") => call[t].num < FrameLen /\ call[t].left \in 1 .. FrameLen - call[t].num

\* The handler's connection is one of the connections.
LEMMA TargetBound ==
  ASSUME Typed, NEW c \in Conns, wPc[c] \in {"loop", "close"}
  PROVE  Target(c) \in Conns
<1>1. CASE Factory = "null"
  <2>1. bound # {} /\ bound \subseteq Conns
    BY <1>1 DEF Typed, Bound, TypeOK
  <2> QED
    BY <1>1, <2>1 DEF Target
<1>2. CASE Factory # "null"
  BY <1>2 DEF Target
<1> QED
  BY <1>1, <1>2

\* A step of one thread leaves the buffers of the others alone.
LEMMA OthersInBuffer ==
  ASSUME Typed, NEW t \in Threads, OthersKeep(t), InBuffer(t)'
  PROVE  \A u \in Threads : InBuffer(u)'
BY DEF Typed, TypeOK, OthersKeep, InBuffer, Sending

\* A thread that enters send() has not begun to write.
LEMMA SendInBuffer ==
  ASSUME Typed, NEW t \in Threads, NEW c \in Conns, NEW what \in Kinds, NEW n \in Nat,
         Send(t, c, what, n)
  PROVE  /\ \A u \in Threads : InBuffer(u)'
         /\ call' \in [Threads -> CallType \cup {NoCall}]
<1>0. Types
  BY DEF Typed
<1>1. /\ call'[t] = [at |-> "test", to |-> c, by |-> t, what |-> what, nth |-> n, num |-> 0,
                     left |-> 0]
      /\ OthersKeep(t)
      /\ call' \in [Threads -> CallType \cup {NoCall}]
  BY <1>0, SendEffect, Zenon
<1>2. InBuffer(t)'
  BY <1>1 DEF InBuffer, Sending
<1> QED
  BY <1>1, <1>2, OthersInBuffer

\* Inside send(), a write never starts beyond the end of its buffer.
LEMMA InsideInBuffer ==
  ASSUME Typed, NEW t \in Threads, Inside(t)
  PROVE  /\ \A u \in Threads : InBuffer(u)'
         /\ call' \in [Threads -> CallType \cup {NoCall}]
<1>0. FrameLen \in Nat \ {0}
  BY WsServerAssumption DEF WsServerAssumption
<1>1. CASE SendTest(t)
  <2>1. InBuffer(t)'
    <3>1. CASE call'[t] = NoCall
      BY <3>1 DEF InBuffer, Sending, NoCall
    <3>2. CASE /\ call[t].num < FrameLen
               /\ call'[t] = [call[t] EXCEPT !.at = "write", !.left = FrameLen - call[t].num]
      <4>1. call[t].num \in Nat /\ call[t] \in CallType
        <5>1. call[t] \in CallType
          BY <1>1, TestEffect
        <5> QED
          BY <5>1 DEF CallType
      <4>2. call'[t].num = call[t].num /\ call'[t].left = FrameLen - call[t].num
        BY <3>2, <4>1 DEF CallType
      <4> QED
        BY <1>0, <3>2, <4>1, <4>2 DEF InBuffer
    <3> QED
      BY <1>1, <3>1, <3>2, TestEffect
  <2> QED
    BY <1>1, <2>1, TestEffect, OthersInBuffer
<1>2. CASE SendDangles(t) \/ WriteThrows(t)
  <2>1. InBuffer(t)'
    BY <1>2, EndEffect DEF InBuffer, Sending, NoCall
  <2> QED
    BY <1>2, <2>1, EndEffect, OthersInBuffer
<1>3. CASE WriteCopies(t)
  <2> DEFINE n == Copied(t)
  <2>0. call[t] \in CallType
    BY <1>3, CopyEffect, Writing
  <2>1. InBuffer(t)'
    <3>1. CASE call'[t] = [call[t] EXCEPT !.at = "test", !.num = FrameLen]
      BY <2>0, <3>1 DEF InBuffer, Sending, CallType
    <3>2. CASE n < call[t].left /\ call'[t] = [call[t] EXCEPT !.left = call[t].left - n]
      <4>1. /\ call[t].num \in 0 .. FrameLen - 1 /\ call[t].left \in 1 .. FrameLen - call[t].num
            /\ n \in 1 .. call[t].left
        BY <1>3, CopyEffect, Writing
      <4>2. call'[t].num = call[t].num /\ call'[t].left = call[t].left - n
        BY <2>0, <3>2 DEF CallType
      <4> HIDE DEF n
      <4>3. call[t].left - n \in 1 .. FrameLen - call[t].num /\ call[t].num < FrameLen
        BY <1>0, <3>2, <4>1
      <4> QED
        BY <4>2, <4>3 DEF InBuffer
    <3> QED
      BY <1>3, <3>1, <3>2, CopyEffect
  <2> QED
    BY <1>3, <2>1, CopyEffect, OthersInBuffer
<1>4. CASE WriteReturns(t)
  <2>1. InBuffer(t)'
    BY <1>4, ReturnEffect, Writing DEF InBuffer, Sending, CallType
  <2> QED
    BY <1>4, <2>1, ReturnEffect, OthersInBuffer
<1>5. CASE WriteContinue(t)
  <2>1. InBuffer(t)'
    BY <1>5, ContinueEffect, Writing DEF InBuffer, Sending, CallType
  <2> QED
    BY <1>5, <2>1, ContinueEffect, OthersInBuffer
<1> QED
  BY <1>1, <1>2, <1>3, <1>4, <1>5 DEF Inside

\* The part of TypeOK that is about the state outside send().
Shape ==
  /\ reset \cup closed \cup destroyed \cup bound \cup elements \cup pending \subseteq Conns
  /\ split \cup blocked \subseteq Conns
  /\ room \in [Conns -> 0 .. SndBuf]
  /\ quit \in BOOLEAN
  /\ wPc \in [Conns -> {"request", "onConnect", "loop", "close", "over", "failed"}]
  /\ pPc \in {"test", "push", "done", "terminated"}
  /\ rounds \in 0 .. MaxRounds

LEMMA TypeParts == TypeOK <=> Shape /\ \A t \in Threads : InBuffer(t)
BY DEF TypeOK, Shape, InBuffer

LEMMA ShapeInside ==
  ASSUME Typed, NEW t \in Threads, Inside(t)
  PROVE  Shape'
<1>1. Shape /\ t \in Conns \cup {Pusher}
  BY TypeParts DEF Typed, Threads
<1>2. CASE SendTest(t) \/ WriteReturns(t)
  BY <1>1, <1>2
     DEF Shape, SendTest, WriteReturns, netVars, sockVars, connVars, pushVars
<1>3. CASE SendDangles(t)
  BY <1>1, <1>3 DEF Shape, SendDangles, netVars, sockVars, connVars
<1>4. CASE WriteContinue(t)
  <2>1. call[t].to \in Conns
    BY <1>4, ContinueEffect, Writing DEF CallType
  <2> QED
    BY <1>1, <1>4, <2>1 DEF Shape, WriteContinue, netVars, connVars, pushVars
<1>5. CASE WriteThrows(t)
  <2>1. CASE t = Pusher
    BY <1>1, <1>5, <2>1 DEF Shape, WriteThrows, netVars, sockVars
  <2>2. CASE t # Pusher
    BY <1>1, <1>5, <2>2 DEF Shape, WriteThrows, netVars, sockVars
  <2> QED
    BY <2>1, <2>2
<1>6. CASE WriteCopies(t)
  <2> DEFINE c == call[t].to
             n == Copied(t)
  <2>1. c \in Conns /\ n \in 1 .. call[t].left /\ call[t].left \in Nat
    <3>1. c \in Conns /\ n \in 1 .. call[t].left /\ Sending(t, "write")
      BY <1>6, CopyEffect
    <3> HIDE DEF c, n
    <3> QED
      BY <3>1, Writing DEF CallType
  <2>2. room[c] \in 0 .. SndBuf
    BY <1>1, <2>1 DEF Shape
  <2>3. room[c] - n \in 0 .. SndBuf
    BY <2>1, <2>2, WsServerAssumption DEF Copied, WsServerAssumption
  <2>4. /\ room' = [room EXCEPT ![c] = room[c] - n]
        /\ split' \in {split, split \cup {c}}
        /\ UNCHANGED <<netVars, blocked, connVars, pushVars, wPc, bound>>
    BY <1>6 DEF WriteCopies, Copy
  <2> HIDE DEF c, n
  <2> QED
    BY <1>1, <2>1, <2>3, <2>4 DEF Shape, netVars, connVars, pushVars
<1> QED
  BY <1>2, <1>3, <1>4, <1>5, <1>6 DEF Inside

LEMMA ShapeStep ==
  ASSUME Typed, [Next]_vars
  PROVE  Shape'
<1>1. Shape
  BY TypeParts DEF Typed
<1>2. CASE \E t \in Threads : Inside(t)
  BY <1>2, ShapeInside
<1>3. ASSUME NEW c \in Conns, Upgrade(c) \/ ReadFrame(c) \/ OnConnect(c) \/ ReadThrows(c) \/ LeaveEarly(c)
      PROVE  Shape'
  <2>1. /\ elements' \in {elements, elements \cup {c}}
        /\ bound' \in {bound, {c}}
        /\ \E point \in {"onConnect", "loop", "close", "over", "failed"} :
             wPc' \in {wPc, [wPc EXCEPT ![c] = point]}
        /\ UNCHANGED <<reset, quit, sockVars, connVars, pPc, pending, rounds>>
    BY <1>3 DEF Upgrade, ReadFrame, OnConnect, ReadThrows, LeaveEarly, GoTo, pushVars, netVars
  <2> QED
    BY <1>1, <2>1 DEF Shape, sockVars, connVars
<1>4. ASSUME NEW c \in Conns, SetClosed(c)
      PROVE  Shape'
  <2>1. Target(c) \in Conns
    BY <1>4, TargetBound DEF SetClosed, At
  <2> QED
    BY <1>1, <1>4, <2>1 DEF Shape, SetClosed, GoTo, netVars, sockVars, pushVars
<1>5. ASSUME NEW c \in Conns, OnDisconnect(c)
      PROVE  Shape'
  BY <1>1, <1>5 DEF Shape, OnDisconnect, GoTo, netVars, sockVars, connVars
<1>6. ASSUME NEW c \in Conns, Destroy(c) \/ Drain(c) \/ PeerReset(c) \/ PusherSend(c)
      PROVE  Shape'
  <2>1. SndBuf \in 0 .. SndBuf
    BY WsServerAssumption DEF WsServerAssumption
  <2> QED
    BY <1>1, <1>6, <2>1
       DEF Shape, Destroy, Drain, PeerReset, PusherSend, netVars, sockVars, connVars, pushVars
<1>7. CASE PusherRound
  <2>1. rounds + 1 \in 0 .. MaxRounds
    BY <1>1, <1>7, WsServerAssumption DEF WsServerAssumption, Shape, PusherRound
  <2> QED
    BY <1>1, <1>7, <2>1 DEF Shape, PusherRound, netVars, sockVars, connVars
<1>8. CASE PusherEnds \/ PusherUnlock \/ Signal
  BY <1>1, <1>8
     DEF Shape, PusherEnds, PusherUnlock, Signal, netVars, sockVars, connVars, pushVars
<1>9. CASE UNCHANGED vars
  BY <1>1, <1>9 DEF Shape, vars, netVars, sockVars, connVars, pushVars
<1> QED
  BY <1>2, <1>3, <1>4, <1>5, <1>6, <1>7, <1>8, <1>9, Actions

\* The frames still to come: a Close frame stays the last.
LEMMA InboxStep ==
  ASSUME Typed, [Next]_vars
  PROVE  /\ inbox' \in [Conns -> Seq({"data", "close"})]
         /\ \A c \in Conns : \A i \in 1 .. Len(inbox'[c]) :
              inbox'[c][i] = "close" => i = Len(inbox'[c])
<1>1. /\ inbox \in [Conns -> Seq({"data", "close"})]
      /\ \A c \in Conns : \A i \in 1 .. Len(inbox[c]) : inbox[c][i] = "close" => i = Len(inbox[c])
  BY DEF Typed, Types
<1>2. ASSUME NEW c \in Conns, ReadFrame(c)
      PROVE  /\ inbox' \in [Conns -> Seq({"data", "close"})]
             /\ \A d \in Conns : \A i \in 1 .. Len(inbox'[d]) :
                  inbox'[d][i] = "close" => i = Len(inbox'[d])
  <2>1. inbox' = [inbox EXCEPT ![c] = Tail(inbox[c])] /\ inbox[c] # <<>>
    BY <1>2 DEF ReadFrame
  <2>2. inbox[c] \in Seq({"data", "close"})
    BY <1>1
  <2>3. /\ Tail(inbox[c]) \in Seq({"data", "close"})
        /\ Len(Tail(inbox[c])) = Len(inbox[c]) - 1 /\ Len(inbox[c]) \in Nat
        /\ \A i \in 1 .. Len(inbox[c]) - 1 : Tail(inbox[c])[i] = inbox[c][i + 1]
    BY <2>1, <2>2
  <2>4. ASSUME NEW i \in 1 .. Len(Tail(inbox[c])), Tail(inbox[c])[i] = "close"
        PROVE  i = Len(Tail(inbox[c]))
    <3>1. i + 1 \in 1 .. Len(inbox[c]) /\ inbox[c][i + 1] = "close"
      BY <2>3, <2>4
    <3>2. i + 1 = Len(inbox[c])
      BY <1>1, <3>1
    <3> QED
      BY <2>3, <3>2
  <2>5. ASSUME NEW d \in Conns
        PROVE  \A i \in 1 .. Len(inbox'[d]) : inbox'[d][i] = "close" => i = Len(inbox'[d])
    <3>1. CASE d = c
      <4>1. inbox'[c] = Tail(inbox[c])
        BY <1>1, <2>1
      <4> QED
        BY <2>4, <3>1, <4>1
    <3>2. CASE d # c
      BY <1>1, <2>1, <3>2
    <3> QED
      BY <3>1, <3>2
  <2> QED
    BY <1>1, <2>1, <2>3, <2>5
<1>3. CASE ~\E c \in Conns : ReadFrame(c)
  <2>1. inbox' = inbox
    BY <1>3, Actions
       DEF Inside, SendTest, SendDangles, WriteCopies, WriteReturns, WriteContinue, WriteThrows,
           Upgrade, PusherSend, OnConnect, SetClosed, OnDisconnect, ReadThrows, LeaveEarly, Destroy,
           Drain, PeerReset, PusherRound, PusherEnds, PusherUnlock, Signal, vars, netVars
  <2> QED
    BY <1>1, <2>1
<1> QED
  BY <1>2, <1>3

\* The calls: only a step that starts a send, or is inside one, changes them.
LEMMA CallStep ==
  ASSUME Typed, [Next]_vars
  PROVE  /\ \A t \in Threads : InBuffer(t)'
         /\ call' \in [Threads -> CallType \cup {NoCall}]
<1>1. (\A t \in Threads : InBuffer(t)) /\ call \in [Threads -> CallType \cup {NoCall}]
  BY TypeParts DEF Typed, Types
<1>2. ASSUME NEW c \in Conns, Starts(c)
      PROVE  /\ \A t \in Threads : InBuffer(t)'
             /\ call' \in [Threads -> CallType \cup {NoCall}]
  <2>1. CASE UNCHANGED call
    BY <1>1, <2>1 DEF InBuffer, Sending
  <2>2. CASE Upgrade(c)
    BY <2>2, SendInBuffer DEF Upgrade, Threads, Kinds
  <2>3. CASE ReadFrame(c)
    <3>1. Len(inbox[c]) \in Nat /\ Target(c) \in Conns /\ c \in Threads
      <4>1. inbox[c] \in Seq({"data", "close"}) /\ wPc[c] = "loop"
        BY <2>3 DEF ReadFrame, At, Typed, Types
      <4>2. Target(c) \in Conns
        BY <4>1, TargetBound
      <4> QED
        BY <4>1, <4>2 DEF Threads
    <3>2. CASE Send(c, c, "echo", Len(inbox[c]))
      BY <3>1, <3>2, SendInBuffer DEF Kinds
    <3>3. CASE Send(c, Target(c), "close", 0)
      BY <3>1, <3>3, SendInBuffer DEF Kinds
    <3> QED
      BY <2>1, <2>3, <3>2, <3>3 DEF ReadFrame
  <2>4. CASE PusherSend(c)
    <3>1. Pusher \in Threads /\ rounds \in Nat /\ Send(Pusher, c, "push", rounds)
      BY <2>4 DEF PusherSend, Threads, Typed, TypeOK
    <3> QED
      BY <3>1, SendInBuffer DEF Kinds
  <2> QED
    BY <1>2, <2>2, <2>3, <2>4 DEF Starts
<1>3. CASE Quiet
  BY <1>1, <1>3 DEF Quiet, InBuffer, Sending
<1> QED
  BY <1>2, <1>3, Steps, InsideInBuffer

\* The bytes on the wire, and what was noted when closed was set.
LEMMA HistoryStep ==
  ASSUME Typed, [Next]_vars
  PROVE  /\ wire' \in [Conns -> Seq(ByteType)]
         /\ flagged' \in [Conns -> Seq(NoteType)]
<1>1. /\ wire \in [Conns -> Seq(ByteType)]
      /\ flagged \in [Conns -> Seq(NoteType)]
  BY DEF Typed, Types
<1>2. ASSUME NEW t \in Threads, WriteCopies(t)
      PROVE  wire' \in [Conns -> Seq(ByteType)] /\ flagged' = flagged
  BY <1>2, CopyEffect DEF WriteCopies, connVars
<1>3. ASSUME NEW c \in Conns, SetClosed(c)
      PROVE  /\ wire' = wire
             /\ flagged' \in [Conns -> Seq(NoteType)]
  <2> DEFINE d == Target(c)
             note == [len |-> Len(wire[d]), sends |-> InWrite(d)]
  <2>1. d \in Conns
    BY <1>3, TargetBound DEF SetClosed, At
  <2> HIDE DEF d
  <2>2. InWrite(d) \subseteq Threads \X Kinds \X Nat
    <3>1. ASSUME NEW u \in Threads, Sending(u, "write")
          PROVE  <<u, call[u].what, call[u].nth>> \in Threads \X Kinds \X Nat
      BY <3>1, Writing DEF CallType
    <3> QED
      BY <3>1 DEF InWrite
  <2>3. Len(wire[d]) \in Nat
    BY <1>1, <2>1
  <2>4. note \in NoteType
    BY <2>2, <2>3 DEF NoteType
  <2>5. flagged' \in {flagged, [flagged EXCEPT ![d] = <<note>>]} /\ wire' = wire
    BY <1>3 DEF SetClosed, sockVars, d
  <2> HIDE DEF note
  <2>6. <<note>> \in Seq(NoteType)
    BY <2>4
  <2> QED
    BY <1>1, <2>1, <2>5, <2>6
<1>4. CASE /\ ~\E t \in Threads : WriteCopies(t)
           /\ ~\E c \in Conns : SetClosed(c)
  <2>1. wire' = wire /\ flagged' = flagged
    BY <1>4, Actions
       DEF Inside, SendTest, SendDangles, WriteReturns, WriteContinue, WriteThrows,
           Upgrade, ReadFrame, PusherSend, OnConnect, OnDisconnect, ReadThrows, LeaveEarly,
           Destroy, Drain, PeerReset, PusherRound, PusherEnds, PusherUnlock, Signal,
           vars, sockVars, connVars
  <2> QED
    BY <1>1, <2>1
<1> QED
  BY <1>1, <1>2, <1>3, <1>4

\* Where a worker goes, and that it is in no call when it leaves.
LEMMA PcOrigin ==
  ASSUME Typed, [Next]_vars, NEW c \in Conns
  PROVE  \/ wPc'[c] = wPc[c]
         \/ Upgrade(c) /\ wPc[c] = "request" /\ wPc'[c] = "onConnect"
         \/ wPc[c] = "onConnect" /\ wPc'[c] = "loop" /\ call[c] = NoCall /\ call'[c] = NoCall
         \/ wPc[c] \in {"loop", "close"} /\ wPc'[c] \in {"loop", "close"}
         \/ wPc'[c] \in {"over", "failed"} /\ call'[c] = NoCall
<1> SUFFICES ASSUME wPc'[c] # wPc[c]
             PROVE  \/ Upgrade(c) /\ wPc[c] = "request" /\ wPc'[c] = "onConnect"
                    \/ wPc[c] = "onConnect" /\ wPc'[c] = "loop" /\ call[c] = NoCall /\ call'[c] = NoCall
                    \/ wPc[c] \in {"loop", "close"} /\ wPc'[c] \in {"loop", "close"}
                    \/ wPc'[c] \in {"over", "failed"} /\ call'[c] = NoCall
  OBVIOUS
<1>1. wPc \in [Conns -> {"request", "onConnect", "loop", "close", "over", "failed"}]
  BY DEF Typed, TypeOK
<1>2. \A d \in Conns : \A point : GoTo(d, point) => d = c /\ wPc'[c] = point
  BY <1>1 DEF GoTo
<1>3. ASSUME NEW t \in Threads, Inside(t)
      PROVE  wPc'[c] \in {"over", "failed"} /\ call'[c] = NoCall
  <2>1. WriteThrows(t) /\ t # Pusher
    BY <1>3 DEF Inside, SendTest, SendDangles, WriteCopies, WriteReturns, WriteContinue,
            WriteThrows
  <2>2. t \in Conns /\ \E point \in {"over", "failed"} : wPc' = [wPc EXCEPT ![t] = point]
    BY <1>3, <2>1 DEF WriteThrows, Threads
  <2>3. t = c /\ wPc'[c] \in {"over", "failed"}
    BY <1>1, <2>2
  <2> QED
    BY <2>1, <2>3, EndEffect
<1>4. ASSUME NEW d \in Conns, ReadFrame(d) \/ SetClosed(d)
      PROVE  wPc[c] \in {"loop", "close"} /\ wPc'[c] \in {"loop", "close"}
  <2>1. wPc[d] \in {"loop", "close"}
    BY <1>4 DEF ReadFrame, SetClosed, At
  <2>2. d = c /\ wPc'[c] \in {"loop", "close"}
    BY <1>2, <1>4 DEF ReadFrame, SetClosed
  <2> QED
    BY <2>1, <2>2
<1>5. ASSUME NEW d \in Conns, OnDisconnect(d) \/ ReadThrows(d) \/ LeaveEarly(d)
      PROVE  wPc'[c] \in {"over", "failed"} /\ call'[c] = NoCall
  BY <1>2, <1>5 DEF OnDisconnect, ReadThrows, LeaveEarly, At
<1>6. ASSUME NEW d \in Conns, Upgrade(d)
      PROVE  Upgrade(c) /\ wPc[c] = "request" /\ wPc'[c] = "onConnect"
  BY <1>2, <1>6 DEF Upgrade, At
<1>7. ASSUME NEW d \in Conns, OnConnect(d)
      PROVE  wPc[c] = "onConnect" /\ wPc'[c] = "loop" /\ call[c] = NoCall /\ call'[c] = NoCall
  BY <1>2, <1>7 DEF OnConnect, At
<1>8. ASSUME \/ \E d \in Conns : PusherSend(d) \/ Destroy(d) \/ Drain(d) \/ PeerReset(d)
             \/ PusherRound \/ PusherEnds \/ PusherUnlock \/ Signal
             \/ UNCHANGED vars
      PROVE  FALSE
  BY <1>8 DEF PusherSend, Destroy, Drain, PeerReset, PusherRound, PusherEnds, PusherUnlock, Signal,
          vars, pushVars
<1> QED
  BY <1>3, <1>4, <1>5, <1>6, <1>7, <1>8, Actions

\* With the shared handler, a session that is upgraded finds it bound, and it
\* stays so.
LEMMA BoundStep ==
  ASSUME Typed, [Next]_vars
  PROVE  Bound'
<1> SUFFICES ASSUME Factory = "null", NEW c \in Conns,
                    wPc'[c] \in {"onConnect", "loop", "close"}
             PROVE  bound' # {}
  BY DEF Bound
<1>1. bound' = bound \/ \E d \in Conns : bound' = {d}
  BY Actions
     DEF Inside, SendTest, SendDangles, WriteCopies, WriteReturns, WriteContinue, WriteThrows,
         Upgrade, ReadFrame, PusherSend, OnConnect, SetClosed, OnDisconnect, ReadThrows,
         LeaveEarly, Destroy, Drain, PeerReset, PusherRound, PusherEnds, PusherUnlock, Signal, vars
<1>2. CASE wPc[c] \in {"onConnect", "loop", "close"}
  BY <1>1, <1>2 DEF Typed, Bound
<1>3. CASE wPc[c] \notin {"onConnect", "loop", "close"}
  BY <1>3, PcOrigin DEF Upgrade
<1> QED
  BY <1>2, <1>3

LEMMA TypedInit ==
  ASSUME Init
  PROVE  Typed
<1>0. /\ SndBuf \in Nat /\ MaxRounds \in Nat
      /\ Factory \in {"push", "null"}
  BY WsServerAssumption DEF WsServerAssumption
<1>1. TypeOK
  <2>1. Shape
    <3>1. room \in [Conns -> 0 .. SndBuf] /\ rounds \in 0 .. MaxRounds
      BY <1>0 DEF Init
    <3>2. pPc \in {"test", "push", "done", "terminated"} /\ quit \in BOOLEAN
      BY DEF Init
    <3>3. /\ reset \cup closed \cup destroyed \cup bound \cup elements \cup pending \subseteq Conns
          /\ split \cup blocked \subseteq Conns
          /\ wPc \in [Conns -> {"request", "onConnect", "loop", "close", "over", "failed"}]
      BY DEF Init
    <3> QED
      BY <3>1, <3>2, <3>3 DEF Shape
  <2>2. \A t \in Threads : InBuffer(t)
    BY DEF Init, InBuffer, Sending, NoCall
  <2> QED
    BY <2>1, <2>2, TypeParts
<1>2. Types
  <2>1. ASSUME NEW c \in Conns
        PROVE  /\ inbox[c] \in Seq({"data", "close"})
               /\ \A i \in 1 .. Len(inbox[c]) : inbox[c][i] = "close" => i = Len(inbox[c])
    <3>1. inbox[c] \in Scripts
      BY DEF Init
    <3>2. PICK n \in 0 .. MaxFrames : inbox[c] \in [1 .. n -> {"data", "close"}]
      BY <3>1 DEF Scripts
    <3>3. inbox[c] \in Seq({"data", "close"})
      BY <3>2, WsServerAssumption DEF WsServerAssumption
    <3> QED
      BY <3>1, <3>3 DEF Scripts
  <2>2. inbox \in [Conns -> Seq({"data", "close"})]
    BY <2>1 DEF Init
  <2> QED
    BY <2>1, <2>2 DEF Init, Types
<1>3. Bound
  BY DEF Init, Bound
<1> QED
  BY <1>1, <1>2, <1>3 DEF Typed

LEMMA TypedStep ==
  ASSUME Typed, [Next]_vars
  PROVE  Typed'
<1>1. TypeOK'
  BY ShapeStep, CallStep DEF TypeOK, Shape, InBuffer
<1>2. Types'
  BY InboxStep, CallStep, HistoryStep DEF Types
<1> QED
  BY <1>1, <1>2, BoundStep DEF Typed

-----------------------------------------------------------------------------
(* What the steps do to calls and to the wire, by thread and connection.   *)

\* A step that starts a send is one of the thread that enters it.
LEMMA StartEffect ==
  ASSUME Typed, NEW c \in Conns, Starts(c)
  PROVE  /\ UNCHANGED <<wire, split, blocked, flagged, closed>>
         /\ \/ UNCHANGED call
            \/ \E t \in Threads, d \in Conns, what \in Kinds, n \in Nat : Send(t, d, what, n)
<1>1. CASE Upgrade(c)
  BY <1>1 DEF Upgrade, Threads, Kinds, sockVars, connVars
<1>2. CASE ReadFrame(c)
  <2>1. inbox[c] \in Seq({"data", "close"}) /\ wPc[c] = "loop"
    BY <1>2 DEF ReadFrame, At, Typed, Types
  <2>2. Target(c) \in Conns /\ Len(inbox[c]) \in Nat /\ c \in Threads
    BY <2>1, TargetBound DEF Threads
  <2>3. UNCHANGED call \/ Send(c, c, "echo", Len(inbox[c])) \/ Send(c, Target(c), "close", 0)
    BY <1>2 DEF ReadFrame
  <2> QED
    BY <1>2, <2>2, <2>3 DEF ReadFrame, sockVars, connVars, Kinds
<1>3. CASE PusherSend(c)
  <2>1. Pusher \in Threads /\ rounds \in Nat
    BY DEF Threads, Typed, TypeOK
  <2> QED
    BY <1>3, <2>1 DEF PusherSend, Kinds, sockVars, connVars
<1> QED
  BY <1>1, <1>2, <1>3 DEF Starts

\* The response is sent by the upgrade, echoes and Close frames by the session,
\* and pushes to the elements of a round.
Comes(t, what, d) ==
  \/ what = "101" /\ t = d /\ Upgrade(d)
  \/ /\ what # "101"
     /\ Factory = "push" => \/ t = d /\ wPc[d] = "loop"
                            \/ t = Pusher /\ d \in pending

\* An item that is sent has not been sent before.
LEMMA StartItem ==
  ASSUME Typed, NEW c \in Conns, Starts(c), ~UNCHANGED call
  PROVE  \E t \in Threads, d \in Conns, what \in Kinds, n \in Nat :
           /\ Send(t, d, what, n) /\ ~Used(t, what, n, d) /\ Used(t, what, n, d)'
           /\ Comes(t, what, d)
<1>0. /\ wPc \in [Conns -> {"request", "onConnect", "loop", "close", "over", "failed"}]
      /\ inbox \in [Conns -> Seq({"data", "close"})] /\ c \in Threads
  BY DEF Typed, TypeOK, Types, Threads
<1>1. CASE Upgrade(c)
  <2>1. Send(c, c, "101", 0) /\ wPc[c] = "request" /\ wPc'[c] = "onConnect"
    BY <1>0, <1>1 DEF Upgrade, At, GoTo
  <2>2. ~Used(c, "101", 0, c) /\ Used(c, "101", 0, c)'
    BY <2>1 DEF Used
  <2>3. Comes(c, "101", c)
    BY <1>1 DEF Comes
  <2> QED
    BY <1>0, <2>1, <2>2, <2>3 DEF Kinds
<1>2. CASE ReadFrame(c)
  <2>1. inbox[c] \in Seq({"data", "close"}) /\ inbox[c] # <<>> /\ wPc[c] = "loop"
        /\ inbox'[c] = Tail(inbox[c])
    BY <1>0, <1>2 DEF ReadFrame, At
  <2>2. Target(c) \in Conns /\ Len(inbox[c]) \in Nat /\ Len(inbox'[c]) = Len(inbox[c]) - 1
    BY <2>1, TargetBound
  <2>3. CASE Send(c, c, "echo", Len(inbox[c]))
    <3>1. ~Used(c, "echo", Len(inbox[c]), c)
      BY <2>2 DEF Used
    <3>2. Len(inbox[c]) > Len(inbox'[c])
      BY <2>2
    <3>3. PICK n \in Nat : n = Len(inbox[c])
      BY <2>2
    <3>4. Used(c, "echo", n, c)'
      BY <3>2, <3>3 DEF Used
    <3>5. Comes(c, "echo", c)
      BY <2>1 DEF Comes
    <3> QED
      BY <1>0, <2>3, <3>1, <3>3, <3>4, <3>5 DEF Kinds
  <2>4. CASE Head(inbox[c]) = "close" /\ Send(c, Target(c), "close", 0)
    <3>1. inbox[c][1] = "close" /\ 1 \in 1 .. Len(inbox[c])
      BY <2>1, <2>4
    <3>2. Len(inbox[c]) = 1
      BY <3>1 DEF Typed, Types
    <3>3. inbox'[c] = <<>>
      <4>1. inbox'[c] \in Seq({"data", "close"}) /\ Len(inbox'[c]) = 0
        BY <2>1, <2>2, <3>2
      <4> QED
        BY <4>1, EmptySeq
    <3>4. PICK d \in Conns : d = Target(c)
      BY <2>2
    <3>5. ~Used(c, "close", 0, d) /\ Used(c, "close", 0, d)'
      BY <2>1, <3>3 DEF Used
    <3>6. Comes(c, "close", d)
      BY <2>1, <3>4 DEF Comes, Target
    <3> QED
      BY <1>0, <2>4, <3>4, <3>5, <3>6 DEF Kinds
  <2> QED
    BY <1>2, <2>3, <2>4 DEF ReadFrame
<1>3. CASE PusherSend(c)
  <2>1. /\ Send(Pusher, c, "push", rounds) /\ c \in pending
        /\ pending' = pending \ {c} /\ rounds' = rounds
    BY <1>3 DEF PusherSend
  <2>2. PICK n \in Nat : n = rounds
    BY DEF Typed, TypeOK
  <2>3. ~Used(Pusher, "push", n, c) /\ Used(Pusher, "push", n, c)'
    BY <2>1, <2>2 DEF Used
  <2>4. Comes(Pusher, "push", c)
    BY <2>1 DEF Comes
  <2> QED
    BY <2>1, <2>2, <2>3, <2>4 DEF Kinds, Threads
<1> QED
  BY <1>1, <1>2, <1>3 DEF Starts

\* A thread's call changes when it enters send() with a new item, or is inside.
LEMMA CallOrigin ==
  ASSUME Typed, [Next]_vars, NEW t \in Threads
  PROVE  \/ call'[t] = call[t]
         \/ \E c \in Conns, what \in Kinds, n \in Nat :
              /\ Send(t, c, what, n) /\ ~Used(t, what, n, c) /\ Used(t, what, n, c)'
              /\ Comes(t, what, c) /\ UNCHANGED <<wire, blocked>>
         \/ Inside(t)
<1>1. ASSUME NEW c \in Conns, Starts(c), call'[t] # call[t]
      PROVE  \E d \in Conns, what \in Kinds, n \in Nat :
               /\ Send(t, d, what, n) /\ ~Used(t, what, n, d) /\ Used(t, what, n, d)'
               /\ Comes(t, what, d) /\ UNCHANGED <<wire, blocked>>
  <2>1. PICK u \in Threads, d \in Conns, what \in Kinds, n \in Nat :
          /\ Send(u, d, what, n) /\ ~Used(u, what, n, d) /\ Used(u, what, n, d)'
          /\ Comes(u, what, d)
    BY <1>1, StartItem
  <2>2. u = t
    <3>1. Types
      BY DEF Typed
    <3>2. OthersKeep(u)
      BY <2>1, <3>1, SendEffect, Zenon
    <3> QED
      BY <1>1, <3>2 DEF OthersKeep
  <2> QED
    BY <1>1, <2>1, <2>2, StartEffect
<1>2. ASSUME NEW u \in Threads, Inside(u), u # t
      PROVE  call'[t] = call[t]
  <2>1. OthersKeep(u)
    BY <1>2, TestEffect, EndEffect, CopyEffect, ReturnEffect, ContinueEffect DEF Inside
  <2> QED
    BY <1>2, <2>1 DEF OthersKeep
<1>3. CASE Quiet
  BY <1>3 DEF Quiet
<1> QED
  BY <1>1, <1>2, <1>3, Steps

\* A new call.
LEMMA NewCall ==
  ASSUME Typed, NEW t \in Threads, NEW c \in Conns, NEW what \in Kinds, NEW n \in Nat,
         Send(t, c, what, n)
  PROVE  /\ call'[t].at = "test" /\ call'[t].to = c /\ call'[t].by = t
         /\ call'[t].what = what /\ call'[t].nth = n /\ call'[t].num = 0
<1>1. Types
  BY DEF Typed
<1>2. call'[t] = [at |-> "test", to |-> c, by |-> t, what |-> what, nth |-> n, num |-> 0, left |-> 0]
  BY <1>1, SendEffect, Zenon
<1> QED
  BY <1>2

\* A thread that is inside write() was there before, or has just found the
\* connection open.
LEMMA WriteOrigin ==
  ASSUME Typed, [Next]_vars, NEW t \in Threads, call'[t].at = "write"
  PROVE  \/ call'[t] = call[t]
         \/ call[t] \in CallType /\ call[t].to \notin closed /\ call'[t].to = call[t].to
         \/ /\ Sending(t, "write")
            /\ call'[t].to = call[t].to /\ call'[t].what = call[t].what
            /\ call'[t].nth = call[t].nth
<1>1. ASSUME NEW c \in Conns, NEW what \in Kinds, NEW n \in Nat, Send(t, c, what, n)
      PROVE  FALSE
  BY <1>1, NewCall
<1>3. CASE SendTest(t)
  <2>1. /\ call[t] \in CallType /\ call[t].to \notin closed
        /\ call'[t] = [call[t] EXCEPT !.at = "write", !.left = FrameLen - call[t].num]
    <3>1. call'[t] # NoCall
      BY DEF NoCall
    <3> QED
      BY <1>3, <3>1, TestEffect
  <2> QED
    BY <2>1 DEF CallType
<1>4. CASE WriteCopies(t)
  <2>1. Sending(t, "write") /\ call[t] \in CallType
    BY <1>4, CopyEffect, Writing
  <2>2. call'[t] = [call[t] EXCEPT !.left = call[t].left - Copied(t)]
    <3>1. call'[t] # [call[t] EXCEPT !.at = "test", !.num = FrameLen]
      BY <2>1 DEF CallType
    <3> QED
      BY <1>4, <3>1, CopyEffect
  <2> QED
    BY <2>1, <2>2 DEF CallType
<1>5. ASSUME SendDangles(t) \/ WriteThrows(t) \/ WriteReturns(t) \/ WriteContinue(t)
      PROVE  FALSE
  <2>1. CASE SendDangles(t) \/ WriteThrows(t)
    BY <2>1, EndEffect DEF NoCall
  <2>2. CASE WriteReturns(t)
    BY <2>2, ReturnEffect, Writing DEF CallType
  <2>3. CASE WriteContinue(t)
    BY <2>3, ContinueEffect, Writing DEF CallType
  <2> QED
    BY <1>5, <2>1, <2>2, <2>3
<1> QED
  BY <1>1, <1>3, <1>4, <1>5, CallOrigin DEF Inside

\* Only a write that copies bytes changes what is on the wire.
LEMMA WireOrigin ==
  ASSUME Typed, [Next]_vars, NEW c \in Conns, wire'[c] # wire[c]
  PROVE  \E t \in Threads : WriteCopies(t) /\ call[t].to = c
<1>1. ASSUME NEW t \in Threads, WriteCopies(t), call[t].to # c
      PROVE  FALSE
  <2>1. \A d \in Conns \ {call[t].to} : wire'[d] = wire[d]
    BY <1>1, CopyEffect, Zenon
  <2> QED
    BY <1>1, <2>1
<1>2. CASE ~\E t \in Threads : WriteCopies(t)
  BY <1>2, Steps, StartEffect
     DEF Inside, SendTest, SendDangles, WriteReturns, WriteContinue, WriteThrows, Quiet, sockVars
<1> QED
  BY <1>1, <1>2

-----------------------------------------------------------------------------
(* After closed is set.                                                    *)

\* The flag is never taken back, and what was noted when it was set stays.
LEMMA FlagStep ==
  ASSUME Typed, [Next]_vars, NEW c \in Conns
  PROVE  /\ c \in closed => c \in closed'
         /\ \/ flagged'[c] = flagged[c]
            \/ /\ c \in closed' /\ wire' = wire /\ call' = call
               /\ flagged'[c] = <<[len |-> Len(wire[c]), sends |-> InWrite(c)]>>
<1>1. flagged \in [Conns -> Seq(NoteType)]
  BY DEF Typed, Types
<1>2. ASSUME NEW d \in Conns, SetClosed(d)
      PROVE  /\ c \in closed => c \in closed'
             /\ \/ flagged'[c] = flagged[c]
                \/ /\ c \in closed' /\ wire' = wire /\ call' = call
                   /\ flagged'[c] = <<[len |-> Len(wire[c]), sends |-> InWrite(c)]>>
  <2>1. /\ closed' = closed \cup {Target(d)} /\ wire' = wire /\ call' = call
        /\ \/ flagged' = flagged
           \/ flagged' = [flagged EXCEPT ![Target(d)] =
                <<[len |-> Len(wire[Target(d)]), sends |-> InWrite(Target(d))]>>]
    BY <1>2 DEF SetClosed, sockVars
  <2> QED
    BY <1>1, <2>1
<1>3. CASE ~\E d \in Conns : SetClosed(d)
  BY <1>3, Actions
     DEF Inside, SendTest, SendDangles, WriteCopies, WriteReturns, WriteContinue, WriteThrows,
         Upgrade, ReadFrame, PusherSend, OnConnect, OnDisconnect, ReadThrows, LeaveEarly,
         Destroy, Drain, PeerReset, PusherRound, PusherEnds, PusherUnlock, Signal, vars, connVars
<1> QED
  BY <1>2, <1>3

LEMMA StoppingStep ==
  ASSUME Typed, Stopping, StoppedByClose, [Next]_vars
  PROVE  Stopping' /\ StoppedByClose'
<1> SUFFICES ASSUME NEW c \in Conns, flagged'[c] # <<>>
             PROVE  /\ c \in closed'
                    /\ \A t \in Threads : call'[t].at = "write" /\ call'[t].to = c =>
                         <<t, call'[t].what, call'[t].nth>> \in flagged'[c][1].sends
                    /\ \A i \in flagged'[c][1].len + 1 .. Len(wire'[c]) :
                         <<wire'[c][i].by, wire'[c][i].what, wire'[c][i].nth>>
                            \in flagged'[c][1].sends
  BY DEF Stopping, StoppedByClose, Sending
<1>1. CASE /\ c \in closed' /\ wire' = wire /\ call' = call
           /\ flagged'[c] = <<[len |-> Len(wire[c]), sends |-> InWrite(c)]>>
  <2>1. flagged'[c][1].len = Len(wire[c]) /\ flagged'[c][1].sends = InWrite(c)
    BY <1>1
  <2>2. Len(wire[c]) + 1 .. Len(wire[c]) = {}
    BY DEF Typed, Types
  <2> QED
    BY <1>1, <2>1, <2>2 DEF InWrite, Sending
<1>2. CASE flagged'[c] = flagged[c]
  <2>1. flagged[c] # <<>> /\ c \in closed /\ c \in closed'
    BY <1>2, FlagStep DEF Stopping
  <2>2. ASSUME NEW t \in Threads, call'[t].at = "write", call'[t].to = c
        PROVE  <<t, call'[t].what, call'[t].nth>> \in flagged'[c][1].sends
    BY <1>2, <2>1, <2>2, WriteOrigin DEF Stopping, Sending
  <2>3. ASSUME NEW i \in flagged'[c][1].len + 1 .. Len(wire'[c])
        PROVE  <<wire'[c][i].by, wire'[c][i].what, wire'[c][i].nth>> \in flagged'[c][1].sends
    <3>1. CASE wire'[c] = wire[c]
      BY <1>2, <2>1, <3>1 DEF StoppedByClose
    <3>2. CASE wire'[c] # wire[c]
      <4>1. PICK t \in Threads : WriteCopies(t) /\ call[t].to = c
        BY <3>2, WireOrigin
      <4> DEFINE n == Copied(t)
      <4>2. Sending(t, "write") /\ n \in 1 .. call[t].left /\ Appended(t, c, n)
        BY <4>1, CopyEffect
      <4>3. <<t, call[t].what, call[t].nth>> \in flagged[c][1].sends
        BY <2>1, <4>1, <4>2 DEF Stopping
      <4>4. Len(wire[c]) \in Nat /\ flagged[c][1].len \in Nat /\ n \in Nat
        <5>1. wire[c] \in Seq(ByteType) /\ call[t].left \in Nat
          <6>1. call[t] \in CallType
            BY <4>2, Writing
          <6> QED
            BY <6>1 DEF Typed, Types, CallType
        <5>2. flagged[c] \in Seq(NoteType)
          BY DEF Typed, Types
        <5>3. flagged[c][1] \in NoteType
          BY <2>1, <5>2
        <5> HIDE DEF n
        <5> QED
          BY <4>2, <5>1, <5>3 DEF NoteType
      <4> HIDE DEF n
      <4>5. CASE i <= Len(wire[c])
        <5>1. i \in flagged[c][1].len + 1 .. Len(wire[c]) /\ i \in 1 .. Len(wire[c])
          BY <1>2, <4>4, <4>5
        <5> QED
          BY <1>2, <2>1, <4>2, <5>1 DEF StoppedByClose, Appended
      <4>6. CASE i > Len(wire[c])
        <5>1. i - Len(wire[c]) \in 1 .. n /\ i = Len(wire[c]) + (i - Len(wire[c]))
          BY <1>2, <4>2, <4>4, <4>6 DEF Appended
        <5>2. wire'[c][i] = ByteAt(t, FrameLen - call[t].left + (i - Len(wire[c])))
          BY <4>2, <5>1 DEF Appended
        <5> QED
          BY <1>2, <4>3, <5>2 DEF ByteAt
      <4> QED
        BY <1>2, <4>4, <4>5, <4>6
    <3> QED
      BY <3>1, <3>2
  <2> QED
    BY <2>1, <2>2, <2>3
<1> QED
  BY <1>1, <1>2, FlagStep

-----------------------------------------------------------------------------
(* Frames are not mixed.                                                   *)

\* FramesNotMixed, with a predecessor for each byte but the first.
Unmixed ==
  \A c \in Conns \ (split \cup blocked) : \A i \in 1 .. Len(wire[c]) :
    wire[c][i].pos > 1 => i > 1 /\ wire[c][i - 1] = [wire[c][i] EXCEPT !.pos = @ - 1]

\* What was noted of a connection stays noted.
LEMMA NotesGrow ==
  ASSUME Typed, [Next]_vars
  PROVE  split \subseteq split' /\ blocked \subseteq blocked'
BY Steps, StartEffect
   DEF Inside, SendTest, SendDangles, WriteCopies, Copy, WriteReturns, WriteContinue, WriteThrows,
       Quiet, sockVars

LEMMA WholeStep ==
  ASSUME Typed, Whole, [Next]_vars
  PROVE  Whole'
<1> SUFFICES ASSUME NEW t \in Threads, call'[t].at # "none", call'[t].to \notin split' \cup blocked'
             PROVE  /\ call'[t].at = "test" => call'[t].num \in {0, FrameLen}
                    /\ call'[t].at = "write" => call'[t].num = 0 /\ call'[t].left = FrameLen
  BY DEF Whole, Sending
<1>0. FrameLen \in Nat \ {0}
  BY WsServerAssumption DEF WsServerAssumption
<1>1. CASE call'[t] = call[t]
  BY <1>1, NotesGrow DEF Whole, Sending
<1>2. ASSUME NEW c \in Conns, NEW what \in Kinds, NEW n \in Nat, Send(t, c, what, n)
      PROVE  call'[t].at = "test" /\ call'[t].num = 0
  BY <1>2, NewCall
<1>3. CASE SendTest(t)
  <2>1. /\ call[t] \in CallType /\ Sending(t, "test") /\ call[t].num < FrameLen
        /\ call'[t] = [call[t] EXCEPT !.at = "write", !.left = FrameLen - call[t].num]
    <3>1. call'[t] # NoCall
      BY DEF NoCall
    <3> QED
      BY <1>3, <3>1, TestEffect
  <2>2. /\ call'[t].at = "write" /\ call'[t].to = call[t].to /\ call'[t].num = call[t].num
        /\ call'[t].left = FrameLen - call[t].num /\ call[t].num \in Nat
    BY <2>1 DEF CallType
  <2>3. call[t].num \in {0, FrameLen}
    BY <2>1, <2>2, NotesGrow DEF Whole, Sending
  <2> QED
    BY <1>0, <2>1, <2>2, <2>3
<1>4. CASE WriteCopies(t)
  <2>1. call[t] \in CallType
    BY <1>4, CopyEffect, Writing
  <2>2. CASE call'[t] = [call[t] EXCEPT !.at = "test", !.num = FrameLen]
    BY <2>1, <2>2 DEF CallType
  <2>3. ASSUME call'[t] = [call[t] EXCEPT !.left = call[t].left - Copied(t)], call[t].to \in split'
        PROVE  FALSE
    BY <2>1, <2>3 DEF CallType
  <2> QED
    BY <1>4, <2>2, <2>3, CopyEffect
<1>5. ASSUME WriteReturns(t)
      PROVE  FALSE
  <2>1. /\ Sending(t, "write") /\ Taken(t) > 0
        /\ call'[t] = [call[t] EXCEPT !.at = "test", !.num = FrameLen - call[t].left]
    BY <1>5, ReturnEffect
  <2>2. call[t] \in CallType
    BY <2>1, Writing
  <2>3. call'[t].to = call[t].to
    BY <2>1, <2>2 DEF CallType
  <2>4. call[t].num = 0 /\ call[t].left = FrameLen
    BY <2>1, <2>3, NotesGrow DEF Whole, Sending
  <2> QED
    BY <1>0, <2>1, <2>4 DEF Taken
<1>6. ASSUME WriteContinue(t)
      PROVE  FALSE
  <2>1. Sending(t, "write") /\ \E k : call'[t] = [call[t] EXCEPT !.at = "test", !.num = k]
    BY <1>6, ContinueEffect
  <2>2. call'[t].to = call[t].to
    BY <2>1, Writing DEF CallType
  <2> QED
    BY <1>6, <2>2 DEF WriteContinue
<1>7. ASSUME SendDangles(t) \/ WriteThrows(t)
      PROVE  FALSE
  BY <1>7, EndEffect DEF NoCall
<1> QED
  BY <1>1, <1>2, <1>3, <1>4, <1>5, <1>6, <1>7, CallOrigin DEF Inside

LEMMA UnmixedStep ==
  ASSUME Typed, Whole, Unmixed, [Next]_vars
  PROVE  Unmixed'
<1> SUFFICES ASSUME NEW c \in Conns, c \notin split' \cup blocked',
                    NEW i \in 1 .. Len(wire'[c]), wire'[c][i].pos > 1
             PROVE  i > 1 /\ wire'[c][i - 1] = [wire'[c][i] EXCEPT !.pos = @ - 1]
  BY DEF Unmixed
<1>1. c \in Conns \ (split \cup blocked)
  BY NotesGrow
<1>2. CASE wire'[c] = wire[c]
  BY <1>1, <1>2 DEF Unmixed
<1>3. CASE wire'[c] # wire[c]
  <2>1. PICK t \in Threads : WriteCopies(t) /\ call[t].to = c
    BY <1>3, WireOrigin
  <2>2. /\ Sending(t, "write") /\ Copied(t) = call[t].left
        /\ Appended(t, c, Copied(t))
    BY <2>1, CopyEffect
  <2>3. call[t].left = FrameLen /\ FrameLen \in Nat
    <3>1. call[t].left = FrameLen
      BY <1>1, <2>1, <2>2 DEF Whole, Sending
    <3> QED
      BY <3>1, WsServerAssumption DEF WsServerAssumption
  <2>4. Appended(t, c, FrameLen) /\ FrameLen - call[t].left = 0
    BY <2>2, <2>3
  <2>5. wire[c] \in Seq(ByteType) /\ Len(wire[c]) \in Nat
    BY DEF Typed, Types
  <2>6. /\ Len(wire'[c]) = Len(wire[c]) + FrameLen
        /\ \A j \in 1 .. Len(wire[c]) : wire'[c][j] = wire[c][j]
        /\ \A j \in 1 .. FrameLen : wire'[c][Len(wire[c]) + j] = ByteAt(t, j)
    BY <2>3, <2>4 DEF Appended
  <2>7. CASE i <= Len(wire[c])
    <3>1. i \in 1 .. Len(wire[c]) /\ wire'[c][i] = wire[c][i]
      BY <2>5, <2>6, <2>7
    <3>2. i > 1 /\ wire[c][i - 1] = [wire[c][i] EXCEPT !.pos = @ - 1]
      BY <1>1, <3>1 DEF Unmixed
    <3>3. i - 1 \in 1 .. Len(wire[c])
      BY <2>5, <3>1, <3>2
    <3> QED
      BY <2>6, <3>1, <3>2, <3>3
  <2>8. CASE i > Len(wire[c])
    <3> DEFINE k == i - Len(wire[c])
    <3>1. k \in 1 .. FrameLen /\ i = Len(wire[c]) + k
      BY <2>3, <2>5, <2>6, <2>8
    <3>2. wire'[c][i] = ByteAt(t, k)
      BY <2>6, <3>1
    <3>3. k > 1
      BY <3>2 DEF ByteAt
    <3>4. k - 1 \in 1 .. FrameLen /\ i - 1 = Len(wire[c]) + (k - 1)
      BY <2>3, <2>5, <3>1, <3>3
    <3>5. wire'[c][i - 1] = ByteAt(t, k - 1)
      BY <2>6, <3>4
    <3>6. i > 1
      BY <2>5, <3>1, <3>3
    <3> QED
      BY <3>2, <3>5, <3>6 DEF ByteAt
  <2> QED
    BY <2>5, <2>7, <2>8
<1> QED
  BY <1>2, <1>3

-----------------------------------------------------------------------------
(* Items are not sent twice.                                               *)

\* No worker waits for its request again, and inboxes only get shorter.
LEMMA WorkersMoveOn ==
  ASSUME Typed, [Next]_vars, NEW c \in Conns
  PROVE  /\ wPc[c] # "request" => wPc'[c] # "request"
         /\ Len(inbox'[c]) <= Len(inbox[c])
         /\ inbox[c] = <<>> => inbox'[c] = <<>>
<1>1. /\ wPc \in [Conns -> {"request", "onConnect", "loop", "close", "over", "failed"}]
      /\ inbox \in [Conns -> Seq({"data", "close"})]
  BY DEF Typed, TypeOK, Types
<1>2. wPc[c] # "request" => wPc'[c] # "request"
  BY PcOrigin
<1>3. /\ Len(inbox'[c]) <= Len(inbox[c])
      /\ inbox[c] = <<>> => inbox'[c] = <<>>
  <2>1. inbox' = inbox \/ \E d \in Conns : inbox[d] # <<>> /\ inbox' = [inbox EXCEPT ![d] = Tail(@)]
    BY Actions
       DEF Inside, SendTest, SendDangles, WriteCopies, WriteReturns, WriteContinue, WriteThrows,
           Upgrade, ReadFrame, PusherSend, OnConnect, SetClosed, OnDisconnect, ReadThrows,
           LeaveEarly, Destroy, Drain, PeerReset, PusherRound, PusherEnds, PusherUnlock, Signal,
           vars, netVars
  <2>2. inbox[c] \in Seq({"data", "close"})
    BY <1>1
  <2>3. CASE inbox'[c] = inbox[c]
    BY <2>2, <2>3
  <2>4. CASE inbox[c] # <<>> /\ inbox'[c] = Tail(inbox[c])
    BY <2>2, <2>4
  <2> QED
    BY <1>1, <2>1, <2>3, <2>4
<1> QED
  BY <1>2, <1>3

\* The pusher reaches its elements once in a round.
LEMMA PusherMovesOn ==
  ASSUME [Next]_vars
  PROVE  (rounds' = rounds /\ pending' \subseteq pending) \/ rounds' = rounds + 1
BY Actions
   DEF Inside, SendTest, SendDangles, WriteCopies, WriteReturns, WriteContinue, WriteThrows,
       Upgrade, ReadFrame, PusherSend, OnConnect, SetClosed, OnDisconnect, ReadThrows,
       LeaveEarly, Destroy, Drain, PeerReset, PusherRound, PusherEnds, PusherUnlock, Signal,
       vars, pushVars

LEMMA UsedStays ==
  ASSUME Typed, [Next]_vars, NEW by, NEW what, NEW nth \in Nat, NEW c \in Conns,
         Used(by, what, nth, c)
  PROVE  Used(by, what, nth, c)'
<1>1. ASSUME what = "echo"
      PROVE  by \in Conns /\ nth > Len(inbox'[by])
  <2>1. by \in Conns /\ nth > Len(inbox[by])
    BY <1>1 DEF Used
  <2>2. Len(inbox[by]) \in Nat /\ Len(inbox'[by]) \in Nat
    BY <2>1, TypedStep DEF Typed, Types
  <2> QED
    BY <2>1, <2>2, WorkersMoveOn
<1>2. ASSUME what = "push"
      PROVE  nth <= rounds' /\ (nth = rounds' => c \notin pending')
  <2>1. nth <= rounds /\ (nth = rounds => c \notin pending) /\ rounds \in Nat
    BY <1>2 DEF Used, Typed, TypeOK
  <2> QED
    BY <2>1, PusherMovesOn
<1> QED
  BY <1>1, <1>2, WorkersMoveOn DEF Used

\* Inside send() a call stays the same, until it ends.
LEMMA SameItem ==
  ASSUME Typed, NEW t \in Threads, Inside(t), call'[t].at # "none"
  PROVE  /\ call[t] \in CallType
         /\ call'[t].to = call[t].to /\ call'[t].by = call[t].by
         /\ call'[t].what = call[t].what /\ call'[t].nth = call[t].nth
<1>1. CASE SendTest(t)
  <2>1. /\ call[t] \in CallType
        /\ call'[t] = [call[t] EXCEPT !.at = "write", !.left = FrameLen - call[t].num]
    <3>1. call'[t] # NoCall
      BY DEF NoCall
    <3> QED
      BY <1>1, <3>1, TestEffect
  <2> QED
    BY <2>1 DEF CallType
<1>2. CASE WriteCopies(t)
  <2>1. call[t] \in CallType
    BY <1>2, CopyEffect, Writing
  <2>2. \/ call'[t] = [call[t] EXCEPT !.at = "test", !.num = FrameLen]
        \/ call'[t] = [call[t] EXCEPT !.left = call[t].left - Copied(t)]
    BY <1>2, CopyEffect
  <2> QED
    BY <2>1, <2>2 DEF CallType
<1>3. CASE WriteReturns(t) \/ WriteContinue(t)
  <2>1. Sending(t, "write") /\ \E k : call'[t] = [call[t] EXCEPT !.at = "test", !.num = k]
    BY <1>3, ReturnEffect, ContinueEffect
  <2>2. call[t] \in CallType
    BY <2>1, Writing
  <2> QED
    BY <2>1, <2>2 DEF CallType
<1>4. ASSUME SendDangles(t) \/ WriteThrows(t)
      PROVE  FALSE
  BY <1>4, EndEffect DEF NoCall
<1> QED
  BY <1>1, <1>2, <1>3, <1>4 DEF Inside

LEMMA FreshStep ==
  ASSUME Typed, Fresh, [Next]_vars
  PROVE  Fresh'
<1>1. ASSUME NEW c \in Conns, NEW i \in 1 .. Len(wire'[c])
      PROVE  Used(wire[c][i].by, wire[c][i].what, wire[c][i].nth, c)'
  <2>1. wire[c] \in Seq(ByteType) /\ wire'[c] \in Seq(ByteType)
    BY TypedStep DEF Typed, Types
  <2>2. PICK b \in ByteType : b = wire'[c][i]
    BY <2>1
  <2>3. Used(b.by, b.what, b.nth, c)
    <3>1. CASE i \in 1 .. Len(wire[c]) /\ wire'[c][i] = wire[c][i]
      BY <2>2, <3>1 DEF Fresh
    <3>2. ASSUME NEW t \in Threads, WriteCopies(t), call[t].to = c, i \notin 1 .. Len(wire[c])
          PROVE  Used(b.by, b.what, b.nth, c)
      <4>1. /\ Sending(t, "write") /\ Appended(t, c, Copied(t)) /\ Copied(t) \in 1 .. call[t].left
        BY <3>2, CopyEffect
      <4>2. call[t].left \in Nat /\ Len(wire[c]) \in Nat
        <5>1. call[t] \in CallType
          BY <4>1, Writing
        <5> QED
          BY <2>1, <5>1 DEF CallType
      <4>3. i - Len(wire[c]) \in 1 .. Copied(t) /\ i = Len(wire[c]) + (i - Len(wire[c]))
        BY <3>2, <4>1, <4>2 DEF Appended
      <4>4. wire'[c][i] = ByteAt(t, FrameLen - call[t].left + (i - Len(wire[c])))
        BY <4>1, <4>3 DEF Appended
      <4>5. b.by = t /\ b.what = call[t].what /\ b.nth = call[t].nth
        BY <2>2, <4>4 DEF ByteAt
      <4>6. Used(t, call[t].what, call[t].nth, c)
        BY <3>2, <4>1 DEF Fresh, Sending
      <4> QED
        BY <4>5, <4>6
    <3>3. CASE wire'[c] = wire[c]
      BY <3>1, <3>3
    <3>4. ASSUME NEW t \in Threads, WriteCopies(t), call[t].to = c, i \in 1 .. Len(wire[c])
          PROVE  wire'[c][i] = wire[c][i]
      BY <3>4, CopyEffect DEF Appended
    <3> QED
      BY <3>1, <3>2, <3>3, <3>4, WireOrigin
  <2>4. Used(b.by, b.what, b.nth, c)'
    BY <2>3, UsedStays DEF ByteType
  <2> QED
    BY <2>2, <2>4 DEF Used
<1>2. ASSUME NEW t \in Threads, call'[t].at # "none"
      PROVE  call'[t].by = t /\ Used(t, call[t].what, call[t].nth, call[t].to)'
  <2>1. call' \in [Threads -> CallType \cup {NoCall}]
    BY CallStep
  <2>2. PICK x \in CallType : x = call'[t]
    BY <1>2, <2>1 DEF NoCall
  <2>3. x.to \in Conns /\ x.what \in Kinds /\ x.nth \in Nat
    BY DEF CallType
  <2>4. CASE /\ call[t].at # "none" /\ x.to = call[t].to /\ x.by = call[t].by
             /\ x.what = call[t].what /\ x.nth = call[t].nth
    <3>1. x.by = t /\ Used(t, x.what, x.nth, x.to)
      BY <2>4 DEF Fresh, Sending
    <3>2. Used(t, x.what, x.nth, x.to)'
      BY <2>3, <3>1, UsedStays
    <3> QED
      BY <2>2, <3>1, <3>2 DEF Used
  <2>5. ASSUME NEW c \in Conns, NEW what \in Kinds, NEW n \in Nat, Send(t, c, what, n),
               Used(t, what, n, c)'
        PROVE  call'[t].by = t /\ Used(t, call[t].what, call[t].nth, call[t].to)'
    <3>1. call'[t].by = t /\ call'[t].what = what /\ call'[t].nth = n /\ call'[t].to = c
      BY <2>5, NewCall
    <3> QED
      BY <2>5, <3>1 DEF Used
  <2>6. CASE call'[t] = call[t]
    BY <1>2, <2>2, <2>4, <2>6
  <2>7. CASE Inside(t)
    <3>1. call[t] \in CallType
      BY <1>2, <2>7, SameItem
    <3>2. call[t].at # "none"
      BY <3>1 DEF CallType
    <3> QED
      BY <1>2, <2>2, <2>4, <2>7, <3>2, SameItem
  <2> QED
    BY <2>5, <2>6, <2>7, CallOrigin
<1> QED
  BY <1>1, <1>2 DEF Fresh, Sending

-----------------------------------------------------------------------------
(* The bytes of a send.                                                    *)

\* n bytes that follow the first `from' are added behind all others.
Adds(l, M, p, from, n, N, q) ==
  /\ l \in Nat /\ M \in SUBSET (1 .. l) /\ p \in [M -> Nat]
  /\ from \in Nat /\ n \in Nat \ {0}
  /\ N = M \cup (l + 1 .. l + n) /\ q \in [N -> Nat]
  /\ \A i \in M : q[i] = p[i]
  /\ \A i \in l + 1 .. l + n : q[i] = from + (i - l)

LEMMA AddBytes ==
  ASSUME NEW l, NEW M, NEW p, NEW from, NEW n, NEW N, NEW q, Adds(l, M, p, from, n, N, q)
  PROVE  /\ Gapless(M, p) /\ Reaches(M, p, from) => Gapless(N, q)
         /\ Reaches(N, q, from + n)
         /\ InOrder(M, p, from) => InOrder(N, q, from + n)
<1> USE DEF Adds
<1>0. l + n \in N /\ (\A i \in N : i \in Nat /\ i <= l + n) /\ \A i \in N : i <= l => i \in M
  OBVIOUS
<1>1. ASSUME Gapless(M, p), Reaches(M, p, from)
      PROVE  Gapless(N, q)
  <2> SUFFICES ASSUME NEW i \in N, q[i] > 1
               PROVE  \E j \in N : j < i /\ q[j] >= q[i] - 1 /\ \A k \in N : k < i => k <= j
    BY DEF Gapless
  <2>1. CASE i \in M
    <3>1. PICK j \in M : j < i /\ p[j] >= p[i] - 1 /\ \A k \in M : k < i => k <= j
      BY <1>1, <2>1 DEF Gapless
    <3>2. j \in N /\ q[j] = p[j] /\ q[i] = p[i]
      BY <2>1
    <3>3. \A k \in N : k < i => k \in M
      BY <2>1
    <3> QED
      BY <3>1, <3>2, <3>3
  <2>2. CASE i = l + 1
    <3>1. from # 0
      BY <2>2
    <3>2. PICK j \in M : p[j] >= from /\ \A k \in M : k <= j
      BY <1>1, <3>1 DEF Reaches
    <3>3. j \in N /\ j < i /\ q[j] >= q[i] - 1
      BY <2>2, <3>2
    <3>4. \A k \in N : k < i => k <= j
      BY <1>0, <2>2, <3>2
    <3> QED
      BY <3>3, <3>4
  <2>3. CASE i \in l + 2 .. l + n
    <3>1. i - 1 \in N /\ i - 1 < i /\ q[i - 1] >= q[i] - 1
      BY <2>3
    <3>2. \A k \in N : k < i => k <= i - 1
      BY <1>0, <2>3
    <3> QED
      BY <3>1, <3>2
  <2> QED
    BY <2>1, <2>2, <2>3
<1>2. Reaches(N, q, from + n)
  <2>1. q[l + n] = from + n
    OBVIOUS
  <2> QED
    BY <1>0, <2>1 DEF Reaches
<1>3. ASSUME InOrder(M, p, from)
      PROVE  InOrder(N, q, from + n)
  <2>1. \A i \in M : q[i] \in 1 .. from
    BY <1>3 DEF InOrder
  <2>2. \A i \in l + 1 .. l + n : q[i] \in from + 1 .. from + n
    OBVIOUS
  <2>3. {q[i] : i \in N} \subseteq 1 .. from + n
    BY <2>1, <2>2
  <2>4. ASSUME NEW x \in 1 .. from + n
        PROVE  \E i \in N : q[i] = x
    <3>1. CASE x <= from
      <4>0. x \in {p[i] : i \in M}
        <5>1. x \in 1 .. from
          BY <3>1
        <5> QED
          BY <1>3, <5>1 DEF InOrder
      <4>1. PICK i \in M : p[i] = x
        BY <4>0
      <4> QED
        BY <4>1
    <3>2. CASE x > from
      <4>1. l + (x - from) \in l + 1 .. l + n
        BY <3>2
      <4>2. q[l + (x - from)] = x
        BY <4>1
      <4> QED
        BY <4>1, <4>2
    <3> QED
      BY <3>1, <3>2
  <2>5. ASSUME NEW i \in N, NEW j \in N, i < j
        PROVE  q[i] < q[j]
    <3>1. CASE j \in M
      BY <1>3, <2>5, <3>1 DEF InOrder
    <3>2. CASE i \in M /\ j \notin M
      BY <2>1, <2>2, <3>2
    <3>3. CASE i \notin M /\ j \notin M
      BY <2>5, <3>3
    <3> QED
      BY <3>1, <3>2, <3>3
  <2> QED
    BY <2>3, <2>4, <2>5 DEF InOrder
<1> QED
  BY <1>1, <1>2, <1>3

\* Other threads' bytes are not its own.
LEMMA MineKept ==
  ASSUME Typed, [Next]_vars, NEW t \in Threads, call[t] \in CallType, ~WriteCopies(t),
         call'[t].to = call[t].to, call'[t].what = call[t].what, call'[t].nth = call[t].nth
  PROVE  Mine(t)' = Mine(t) /\ Places(t)' = Places(t)
<1> DEFINE c == call[t].to
<1>0. c \in Conns /\ Len(wire[c]) \in Nat
  BY DEF CallType, Typed, Types
<1>1. CASE wire'[c] = wire[c]
  BY <1>1 DEF Mine, Places, Pos
<1>2. CASE wire'[c] # wire[c]
  <2>1. PICK u \in Threads : WriteCopies(u) /\ call[u].to = c
    BY <1>0, <1>2, WireOrigin
  <2>2. u # t /\ Appended(u, c, Copied(u)) /\ Copied(u) \in Nat
    <3>1. Appended(u, c, Copied(u)) /\ Sending(u, "write") /\ Copied(u) \in 1 .. call[u].left
      BY <2>1, CopyEffect
    <3>2. call[u] \in CallType
      BY <3>1, Writing
    <3> QED
      BY <2>1, <3>1, <3>2 DEF CallType
  <2>3. \A i \in 1 .. Len(wire[c]) : i \in 1 .. Len(wire'[c]) /\ wire'[c][i] = wire[c][i]
    <3>1. /\ Len(wire'[c]) = Len(wire[c]) + Copied(u)
          /\ \A i \in 1 .. Len(wire[c]) : wire'[c][i] = wire[c][i]
      BY <2>2, Zenon DEF Appended
    <3> HIDE DEF c
    <3>2. \A i \in 1 .. Len(wire[c]) : i \in 1 .. Len(wire'[c])
      BY <1>0, <2>2, <3>1
    <3> QED
      BY <3>1, <3>2, Zenon
  <2>4. ASSUME NEW i \in 1 .. Len(wire'[c]), i \notin 1 .. Len(wire[c])
        PROVE  wire'[c][i].by # t
    <3>0. Len(wire'[c]) = Len(wire[c]) + Copied(u)
      BY <2>2 DEF Appended
    <3>1. i - Len(wire[c]) \in 1 .. Copied(u) /\ i = Len(wire[c]) + (i - Len(wire[c]))
      <4> HIDE DEF c
      <4> QED
        BY <1>0, <2>2, <2>4, <3>0
    <3>2. wire'[c][i] = ByteAt(u, FrameLen - call[u].left + (i - Len(wire[c])))
      BY <2>2, <3>1 DEF Appended
    <3> QED
      BY <2>2, <3>2 DEF ByteAt
  <2>5. Mine(t)' = Mine(t)
    BY <2>3, <2>4 DEF Mine
  <2>6. \A i \in Mine(t) : Pos(t, i)' = Pos(t, i)
    BY <2>3 DEF Mine, Pos
  <2> QED
    BY <2>5, <2>6 DEF Places
<1> QED
  BY <1>1, <1>2

\* The bytes it copies are.
LEMMA MineCopied ==
  ASSUME Typed, NEW t \in Threads, WriteCopies(t), NEW l, l = Len(wire[call[t].to])
  PROVE  /\ Mine(t)' = Mine(t) \cup (l + 1 .. l + Copied(t))
         /\ \A i \in Mine(t) : Places(t)'[i] = Places(t)[i]
         /\ \A i \in l + 1 .. l + Copied(t) : Places(t)'[i] = FrameLen - call[t].left + (i - l)
         /\ l \in Nat /\ Mine(t) \in SUBSET (1 .. l)
         /\ Places(t) \in [Mine(t) -> Nat] /\ Places(t)' \in [Mine(t)' -> Nat]
<1> DEFINE c == call[t].to
           n == Copied(t)
<1>1. Sending(t, "write") /\ c \in Conns /\ Appended(t, c, n) /\ n \in 1 .. call[t].left
      /\ wire' \in [Conns -> Seq(ByteType)]
  BY CopyEffect
<1>2. call[t] \in CallType /\ n \in Nat /\ FrameLen \in Nat
  <2>1. call[t] \in CallType
    BY <1>1, Writing
  <2> QED
    BY <1>1, <2>1, WsServerAssumption DEF CallType, WsServerAssumption
<1>3. wire[c] \in Seq(ByteType) /\ wire'[c] \in Seq(ByteType) /\ l \in Nat
  BY <1>1 DEF Typed, Types
<1>4. call'[t].to = c /\ call'[t].what = call[t].what /\ call'[t].nth = call[t].nth
  <2>1. \/ call'[t] = [call[t] EXCEPT !.at = "test", !.num = FrameLen]
        \/ call'[t] = [call[t] EXCEPT !.left = call[t].left - Copied(t)]
    BY CopyEffect
  <2> QED
    BY <1>2, <2>1 DEF CallType
<1> HIDE DEF c, n
<1>5. Len(wire'[c]) = l + n /\ \A i \in 1 .. l : wire'[c][i] = wire[c][i]
  BY <1>1 DEF Appended, c
<1>6. ASSUME NEW i \in l + 1 .. l + n
      PROVE  /\ wire'[c][i].by = t /\ wire'[c][i].what = call[t].what
             /\ wire'[c][i].nth = call[t].nth
             /\ wire'[c][i].pos = FrameLen - call[t].left + (i - l)
             /\ i \in 1 .. l + n
  <2>0. l \in Nat /\ n \in Nat
    BY <1>2, <1>3
  <2>1. i - l \in 1 .. n /\ i = l + (i - l) /\ i \in 1 .. l + n
    BY <2>0
  <2>2. wire'[c][i] = ByteAt(t, FrameLen - call[t].left + (i - l))
    BY <1>1, <2>1 DEF Appended, c
  <2> QED
    BY <2>1, <2>2 DEF ByteAt
<1>7. Mine(t)' = {i \in 1 .. l + n : /\ wire'[c][i].by = t /\ wire'[c][i].what = call[t].what
                                     /\ wire'[c][i].nth = call[t].nth}
  BY <1>4, <1>5 DEF Mine
<1>8. Mine(t) = {i \in 1 .. l : /\ wire[c][i].by = t /\ wire[c][i].what = call[t].what
                                /\ wire[c][i].nth = call[t].nth}
  BY DEF Mine, c
<1>9. Mine(t)' = Mine(t) \cup (l + 1 .. l + n)
  <2>1. ASSUME NEW i \in l + 1 .. l + n
        PROVE  i \in Mine(t)'
    BY <1>6, <1>7
  <2>2. ASSUME NEW i \in 1 .. l
        PROVE  i \in Mine(t)' <=> i \in Mine(t)
    BY <1>2, <1>3, <1>5, <1>7, <1>8
  <2>3. \A i \in Mine(t)' : i \in 1 .. l \/ i \in l + 1 .. l + n
    BY <1>2, <1>3, <1>7
  <2>4. \A i \in Mine(t) : i \in 1 .. l
    BY <1>8
  <2> QED
    BY <2>1, <2>2, <2>3, <2>4
<1>10. Places(t)' = [i \in Mine(t)' |-> wire'[c][i].pos] /\ Places(t) = [i \in Mine(t) |-> wire[c][i].pos]
  BY <1>4 DEF Places, Pos, c
<1>11. \A i \in Mine(t) : Places(t)'[i] = Places(t)[i]
  BY <1>5, <1>8, <1>9, <1>10
<1>12. \A i \in l + 1 .. l + n : Places(t)'[i] = FrameLen - call[t].left + (i - l)
  <2>1. ASSUME NEW i \in l + 1 .. l + n
        PROVE  Places(t)'[i] = wire'[c][i].pos
    BY <1>9, <1>10
  <2> QED
    BY <1>6, <2>1
<1>13. /\ \A i \in 1 .. Len(wire[c]) : wire[c][i].pos \in Nat
       /\ \A i \in 1 .. Len(wire'[c]) : wire'[c][i].pos \in Nat
  <2>1. \A b \in ByteType : b.pos \in Nat
    BY <1>2 DEF ByteType
  <2> QED
    BY <1>3, <2>1
<1>14. Places(t) \in [Mine(t) -> Nat] /\ Places(t)' \in [Mine(t)' -> Nat]
  BY <1>3, <1>5, <1>7, <1>8, <1>10, <1>13 DEF c
<1> QED
  BY <1>3, <1>8, <1>9, <1>11, <1>12, <1>14 DEF n

\* An item that was not sent before has no bytes yet.
LEMMA MineNew ==
  ASSUME Typed, Fresh, NEW t \in Threads, NEW c \in Conns, NEW what \in Kinds, NEW n \in Nat,
         Send(t, c, what, n), ~Used(t, what, n, c), UNCHANGED wire
  PROVE  Mine(t)' = {} /\ Done(t)' = 0
<1>1. /\ call'[t].at = "test" /\ call'[t].to = c
      /\ call'[t].what = what /\ call'[t].nth = n /\ call'[t].num = 0
  BY NewCall
<1>2. \A i \in 1 .. Len(wire[c]) :
        ~(wire[c][i].by = t /\ wire[c][i].what = what /\ wire[c][i].nth = n)
  BY DEF Fresh
<1> QED
  BY <1>1, <1>2 DEF Mine, Done, Sending

\* What Intact says of one thread.
IntactFor(M, p, done, block) ==
  /\ Gapless(M, p)
  /\ done > FrameLen \/ Reaches(M, p, done)
  /\ ~block => done <= FrameLen /\ InOrder(M, p, done)

\* How the count of a send moves: with the bytes it copies, and back by one,
\* or around, when the write reports NUM_CONTINUE.
LEMMA DoneInside ==
  ASSUME Typed, NEW t \in Threads, Inside(t), call'[t].at # "none"
  PROVE  \/ WriteCopies(t) /\ Done(t)' = Done(t) + Copied(t)
         \/ ~WriteCopies(t) /\ Done(t)' = Done(t)
         \/ /\ ~WriteCopies(t) /\ call'[t].to \in blocked'
            /\ \/ Done(t)' = SizeMax - 1
               \/ Done(t) \in 1 .. FrameLen /\ Done(t)' = Done(t) - 1
<1>0. FrameLen \in Nat \ {0} /\ call[t] \in CallType /\ call'[t].to = call[t].to
  BY SameItem, WsServerAssumption DEF WsServerAssumption
<1>1. CASE WriteCopies(t)
  <2>1. /\ Sending(t, "write") /\ Copied(t) \in 1 .. call[t].left
        /\ \/ /\ Copied(t) = call[t].left
              /\ call'[t] = [call[t] EXCEPT !.at = "test", !.num = FrameLen]
           \/ call'[t] = [call[t] EXCEPT !.left = call[t].left - Copied(t)]
    BY <1>1, CopyEffect
  <2> DEFINE n == Copied(t)
  <2>2. call[t].left \in Nat /\ n \in Nat
    BY <1>0, <2>1 DEF CallType
  <2>3. Done(t) = FrameLen - call[t].left
    BY <2>1 DEF Done, Sending
  <2> HIDE DEF n
  <2>4. CASE n = call[t].left /\ call'[t] = [call[t] EXCEPT !.at = "test", !.num = FrameLen]
    <3>1. call'[t].at = "test" /\ call'[t].num = FrameLen
      BY <1>0, <2>4 DEF CallType
    <3>2. FrameLen - call[t].left + n = FrameLen
      BY <1>0, <2>2, <2>4
    <3> QED
      BY <1>1, <2>3, <3>1, <3>2 DEF Done, Sending, n
  <2>5. CASE call'[t] = [call[t] EXCEPT !.left = call[t].left - n]
    <3>1. call'[t].at = "write" /\ call'[t].left = call[t].left - n
      BY <1>0, <2>1, <2>5 DEF CallType, Sending
    <3>2. FrameLen - (call[t].left - n) = FrameLen - call[t].left + n
      BY <1>0, <2>2
    <3> QED
      BY <1>1, <2>3, <3>1, <3>2 DEF Done, Sending, n
  <2> QED
    BY <2>1, <2>4, <2>5 DEF n
<1>2. CASE SendTest(t)
  <2>1. /\ Sending(t, "test")
        /\ call'[t] = [call[t] EXCEPT !.at = "write", !.left = FrameLen - call[t].num]
    <3>1. call'[t] # NoCall
      BY DEF NoCall
    <3> QED
      BY <1>2, <3>1, TestEffect
  <2>2. call'[t].at = "write" /\ call'[t].left = FrameLen - call[t].num /\ call[t].num \in Nat
    BY <1>0, <2>1 DEF CallType
  <2>3. Done(t)' = Done(t) /\ ~WriteCopies(t)
    BY <1>0, <2>1, <2>2 DEF Done, Sending, WriteCopies
  <2> QED
    BY <2>3
<1>3. CASE WriteReturns(t) /\ ~WriteCopies(t)
  <2>1. /\ Sending(t, "write")
        /\ call'[t] = [call[t] EXCEPT !.at = "test", !.num = FrameLen - call[t].left]
    BY <1>3, ReturnEffect
  <2>2. call'[t].at = "test" /\ call'[t].num = FrameLen - call[t].left
    BY <1>0, <2>1 DEF CallType
  <2> QED
    BY <1>3, <2>1, <2>2 DEF Done, Sending
<1>4. CASE WriteContinue(t) /\ ~WriteCopies(t)
  <2>1. /\ Sending(t, "write") /\ call[t].num = FrameLen - call[t].left
        /\ call'[t] = [call[t] EXCEPT !.at = "test",
                         !.num = IF call[t].num = 0 THEN SizeMax - 1 ELSE call[t].num - 1]
    BY <1>4, ContinueEffect
  <2>2. /\ call'[t].at = "test"
        /\ call'[t].num = IF call[t].num = 0 THEN SizeMax - 1 ELSE call[t].num - 1
    BY <1>0, <2>1 DEF CallType
  <2>3. call'[t].to \in blocked'
    BY <1>0, <1>4 DEF WriteContinue
  <2>4. Done(t) = call[t].num /\ Done(t)' = call'[t].num
    BY <2>1, <2>2 DEF Done, Sending
  <2>5. call[t].num \in 0 .. FrameLen - 1
    BY <2>1, Writing
  <2>6. CASE call[t].num = 0
    BY <1>4, <2>2, <2>3, <2>4, <2>6
  <2>7. CASE call[t].num # 0
    <3>1. Done(t) \in 1 .. FrameLen /\ Done(t)' = Done(t) - 1
      BY <1>0, <2>2, <2>4, <2>5, <2>7
    <3> QED
      BY <1>4, <2>3, <3>1
  <2> QED
    BY <2>6, <2>7
<1>5. ASSUME SendDangles(t) \/ WriteThrows(t)
      PROVE  FALSE
  BY <1>5, EndEffect DEF NoCall
<1> QED
  BY <1>1, <1>2, <1>3, <1>4, <1>5 DEF Inside

LEMMA IntactStep ==
  ASSUME Typed, Fresh, Intact, [Next]_vars
  PROVE  Intact'
<1> SUFFICES ASSUME NEW t \in Threads, call'[t].at # "none"
             PROVE  IntactFor(Mine(t)', Places(t)', Done(t)', call'[t].to \in blocked')
  BY DEF Intact, IntactFor, Sending
<1>0. FrameLen \in Nat \ {0} /\ SizeMax \in Nat /\ SizeMax > FrameLen + 1
  BY WsServerAssumption DEF WsServerAssumption
<1>1. call[t].at # "none" => IntactFor(Mine(t), Places(t), Done(t), call[t].to \in blocked)
  BY DEF Intact, IntactFor, Sending
<1>2. CASE WriteCopies(t)
  <2>0. Inside(t)
    BY <1>2 DEF Inside
  <2>1. /\ Sending(t, "write") /\ Copied(t) \in 1 .. call[t].left
    BY <1>2, CopyEffect
  <2>2. call[t] \in CallType /\ call[t].left \in 1 .. FrameLen /\ call[t].at = "write"
    <3>1. call[t] \in CallType /\ call[t].left \in 1 .. FrameLen - call[t].num
          /\ call[t].num \in 0 .. FrameLen - 1
      BY <2>1, Writing
    <3> QED
      BY <1>0, <2>1, <3>1 DEF Sending
  <2> DEFINE from == FrameLen - call[t].left
             n == Copied(t)
  <2>3. from \in Nat /\ n \in Nat \ {0} /\ from <= FrameLen /\ from + n <= FrameLen
    BY <1>0, <2>1, <2>2
  <2>4. Done(t) = from
    BY <2>2 DEF Done, Sending
  <2>5. Done(t)' = from + n /\ call'[t].to = call[t].to
    BY <1>2, <2>0, <2>4, DoneInside, SameItem
  <2>6. blocked' = blocked
    BY <1>2 DEF WriteCopies
  <2> HIDE DEF from, n
  <2> DEFINE l == Len(wire[call[t].to])
  <2>7. /\ Mine(t)' = Mine(t) \cup (l + 1 .. l + n)
        /\ \A i \in Mine(t) : Places(t)'[i] = Places(t)[i]
        /\ \A i \in l + 1 .. l + n : Places(t)'[i] = from + (i - l)
        /\ l \in Nat /\ Mine(t) \in SUBSET (1 .. l)
        /\ Places(t) \in [Mine(t) -> Nat] /\ Places(t)' \in [Mine(t)' -> Nat]
    BY <1>2, MineCopied DEF from, n
  <2>8. /\ Gapless(Mine(t), Places(t))
        /\ Reaches(Mine(t), Places(t), from)
        /\ call[t].to \notin blocked => InOrder(Mine(t), Places(t), from)
    BY <1>0, <1>1, <2>2, <2>3, <2>4 DEF IntactFor
  <2> HIDE DEF l
  <2>9. /\ Gapless(Mine(t)', Places(t)')
        /\ Reaches(Mine(t)', Places(t)', from + n)
        /\ call[t].to \notin blocked => InOrder(Mine(t)', Places(t)', from + n)
    <3> DEFINE M == Mine(t)
               p == Places(t)
               N == Mine(t)'
               q == Places(t)'
    <3>1. Adds(l, M, p, from, n, N, q)
      BY <2>3, <2>7 DEF Adds
    <3> HIDE DEF M, p, N, q
    <3>2. /\ Gapless(M, p) /\ Reaches(M, p, from) => Gapless(N, q)
          /\ Reaches(N, q, from + n)
          /\ InOrder(M, p, from) => InOrder(N, q, from + n)
      BY <3>1, AddBytes
    <3> QED
      BY <2>8, <3>2 DEF M, p, N, q
  <2> QED
    BY <2>3, <2>5, <2>6, <2>9 DEF IntactFor
<1>3. ASSUME ~WriteCopies(t), call[t] \in CallType,
             call'[t].to = call[t].to, call'[t].what = call[t].what, call'[t].nth = call[t].nth
      PROVE  /\ Done(t)' = Done(t) => IntactFor(Mine(t)', Places(t)', Done(t)', call'[t].to \in blocked')
             /\ call'[t].to \in blocked' /\ Done(t)' = SizeMax - 1 =>
                  IntactFor(Mine(t)', Places(t)', Done(t)', call'[t].to \in blocked')
             /\ /\ call'[t].to \in blocked' /\ Done(t) \in 1 .. FrameLen
                /\ Done(t)' = Done(t) - 1
                => IntactFor(Mine(t)', Places(t)', Done(t)', call'[t].to \in blocked')
  <2>1. Mine(t)' = Mine(t) /\ Places(t)' = Places(t)
    BY <1>3, MineKept
  <2>2. call[t].at # "none"
    BY <1>3 DEF CallType
  <2>3. IntactFor(Mine(t), Places(t), Done(t), call[t].to \in blocked) /\ blocked \subseteq blocked'
    BY <1>1, <2>2, NotesGrow
  <2>4. CASE Done(t)' = Done(t)
    BY <1>3, <2>1, <2>3, <2>4 DEF IntactFor
  <2>5. CASE call'[t].to \in blocked' /\ Done(t)' = SizeMax - 1
    BY <1>0, <2>1, <2>3, <2>5 DEF IntactFor
  <2>6. CASE call'[t].to \in blocked' /\ Done(t) \in 1 .. FrameLen /\ Done(t)' = Done(t) - 1
    <3>1. Reaches(Mine(t), Places(t), Done(t))
      BY <1>0, <2>3, <2>6 DEF IntactFor
    <3>2. PICK j \in Mine(t) : Places(t)[j] >= Done(t) /\ \A k \in Mine(t) : k <= j
      BY <2>6, <3>1 DEF Reaches
    <3>3. Places(t)[j] \in Nat
      <4>1. wire[call[t].to] \in Seq(ByteType)
        BY <1>3 DEF Typed, Types, CallType
      <4>2. j \in 1 .. Len(wire[call[t].to])
        BY DEF Mine
      <4>3. wire[call[t].to][j] \in ByteType
        BY <4>1, <4>2
      <4> QED
        BY <1>0, <4>3 DEF Places, Pos, ByteType
    <3>4. Reaches(Mine(t), Places(t), Done(t) - 1)
      BY <2>6, <3>2, <3>3 DEF Reaches
    <3> QED
      BY <2>1, <2>3, <2>6, <3>4 DEF IntactFor
  <2> QED
    BY <2>4, <2>5, <2>6
<1>4. CASE call'[t] = call[t] /\ ~WriteCopies(t)
  <2>1. call[t] \in CallType /\ Done(t)' = Done(t)
    BY <1>4, InCall DEF Sending, Done, Typed
  <2> QED
    BY <1>3, <1>4, <2>1
<1>5. ASSUME NEW c \in Conns, NEW what \in Kinds, NEW n \in Nat,
             Send(t, c, what, n), ~Used(t, what, n, c), UNCHANGED wire
      PROVE  IntactFor(Mine(t)', Places(t)', Done(t)', call'[t].to \in blocked')
  <2>1. Mine(t)' = {} /\ Done(t)' = 0
    BY <1>5, MineNew
  <2> QED
    BY <1>0, <2>1 DEF IntactFor, Gapless, Reaches, InOrder
<1>6. CASE Inside(t) /\ ~WriteCopies(t)
  <2>0. /\ call[t] \in CallType
        /\ call'[t].to = call[t].to /\ call'[t].what = call[t].what /\ call'[t].nth = call[t].nth
    BY <1>6, SameItem
  <2> QED
    BY <1>3, <1>6, <2>0, DoneInside
<1> QED
  BY <1>2, <1>4, <1>5, <1>6, CallOrigin

-----------------------------------------------------------------------------
(* The response comes first.                                               *)

\* A session that was told of its connection stays so, and so does an answer.
LEMMA AnsweredStep ==
  ASSUME Typed, [Next]_vars, NEW c \in Conns
  PROVE  /\ ~Before(c) => ~Before(c)'
         /\ Len(wire[c]) \in Nat /\ Len(wire'[c]) \in Nat /\ Len(wire[c]) <= Len(wire'[c])
         /\ Answered(c) => Answered(c)'
<1>1. ~Before(c) => ~Before(c)'
  BY PcOrigin DEF Before
<1>2. Len(wire[c]) \in Nat /\ Len(wire'[c]) \in Nat
  BY TypedStep DEF Typed, Types
<1>3. Len(wire[c]) <= Len(wire'[c])
  <2>1. CASE wire'[c] = wire[c]
    BY <1>2, <2>1
  <2>2. ASSUME NEW t \in Threads, WriteCopies(t), call[t].to = c
        PROVE  Len(wire[c]) <= Len(wire'[c])
    <3>1. Sending(t, "write") /\ Appended(t, c, Copied(t)) /\ Copied(t) \in 1 .. call[t].left
      BY <2>2, CopyEffect
    <3>2. call[t] \in CallType
      BY <3>1, Writing
    <3>3. Copied(t) \in Nat /\ Len(wire'[c]) = Len(wire[c]) + Copied(t)
      BY <3>1, <3>2 DEF CallType, Appended
    <3> QED
      BY <1>2, <3>3
  <2> QED
    BY <2>1, <2>2, WireOrigin
<1>4. FrameLen \in Nat
  BY WsServerAssumption DEF WsServerAssumption
<1> QED
  BY <1>1, <1>2, <1>3, <1>4, NotesGrow DEF Answered

\* Nobody but the session itself writes to it before it was told.
LEMMA Undisturbed ==
  ASSUME Typed, Upgrading, [Next]_vars, NEW c \in Conns, Before(c), ~WriteCopies(c)
  PROVE  wire'[c] = wire[c]
<1> SUFFICES ASSUME NEW t \in Threads, WriteCopies(t), call[t].to = c
             PROVE  FALSE
  BY WireOrigin
<1>1. ~Sending(t, "none")
  BY InCall DEF WriteCopies, Typed
<1>2. t # c
  OBVIOUS
<1> QED
  BY <1>1, <1>2 DEF Upgrading, Answered

LEMMA RegisteredStep ==
  ASSUME Typed, Upgrading, [Next]_vars
  PROVE  /\ \A c \in elements' \cup pending' : Answered(c)'
         /\ \A c \in closed' \cup destroyed' : Factory = "push" => ~Before(c)'
<1>0. elements \cup pending \cup closed \cup destroyed \subseteq Conns
  BY DEF Typed, TypeOK
<1>1. ASSUME NEW c \in elements' \cup pending'
      PROVE  Answered(c)'
  <2>1. CASE c \in elements \cup pending
    BY <1>0, <2>1, AnsweredStep DEF Upgrading
  <2>2. CASE c \in Conns /\ OnConnect(c)
    <3>1. wPc[c] = "onConnect" /\ call[c] = NoCall /\ wPc'[c] = "loop"
      BY <2>2 DEF OnConnect, At, GoTo, Typed, TypeOK
    <3>2. c \in blocked \/ Len(wire[c]) >= FrameLen
      BY <2>2, <3>1 DEF Upgrading
    <3> QED
      BY <2>2, <3>1, <3>2 DEF Answered, Before, OnConnect, sockVars
  <2>3. c \in elements \cup pending \/ (c \in Conns /\ OnConnect(c))
    <3>1. ASSUME NEW t \in Threads, Inside(t)
          PROVE  UNCHANGED <<elements, pending>>
      BY <3>1 DEF Inside, SendTest, SendDangles, WriteCopies, WriteReturns, WriteContinue,
              WriteThrows, pushVars
    <3>2. ASSUME NEW d \in Conns, OnConnect(d)
          PROVE  c \in elements \cup pending \/ c = d
      BY <1>1, <3>2 DEF OnConnect
    <3>3. ASSUME NEW d \in Conns,
                 \/ Upgrade(d) \/ ReadFrame(d) \/ PusherSend(d) \/ SetClosed(d) \/ OnDisconnect(d)
                 \/ ReadThrows(d) \/ LeaveEarly(d) \/ Destroy(d) \/ Drain(d) \/ PeerReset(d)
          PROVE  elements' \subseteq elements /\ pending' \subseteq pending
      BY <3>3 DEF Upgrade, ReadFrame, PusherSend, SetClosed, OnDisconnect, ReadThrows, LeaveEarly,
              Destroy, Drain, PeerReset, pushVars
    <3>4. ASSUME PusherRound \/ PusherEnds \/ PusherUnlock \/ Signal \/ UNCHANGED vars
          PROVE  elements' \cup pending' \subseteq elements \cup pending
      BY <3>4 DEF PusherRound, PusherEnds, PusherUnlock, Signal, vars, pushVars
    <3> QED
      BY <1>1, <3>1, <3>2, <3>3, <3>4, Actions
  <2> QED
    BY <2>1, <2>2, <2>3
<1>2. ASSUME NEW c \in closed' \cup destroyed', Factory = "push"
      PROVE  ~Before(c)'
  <2>1. CASE c \in closed \cup destroyed
    BY <1>0, <2>1, AnsweredStep DEF Upgrading
  <2>2. CASE c \in Conns /\ (SetClosed(c) \/ Destroy(c))
    <3>1. ~Before(c)
      BY <2>2 DEF SetClosed, Destroy, At, Before
    <3> QED
      BY <2>2, <3>1, AnsweredStep
  <2>3. CASE c \in Conns /\ WriteThrows(c) /\ wPc[c] = "onConnect" /\ c # Pusher
    <3>1. wPc' = [wPc EXCEPT ![c] = "over"] /\ DOMAIN wPc = Conns
      BY <2>3 DEF WriteThrows, Typed, TypeOK
    <3>2. wPc'[c] = "over"
      BY <2>3, <3>1
    <3> QED
      BY <3>2 DEF Before
  <2>4. \/ c \in closed \cup destroyed
        \/ c \in Conns /\ (SetClosed(c) \/ Destroy(c))
        \/ c \in Conns /\ WriteThrows(c) /\ wPc[c] = "onConnect" /\ c # Pusher
    <3>1. ASSUME NEW d \in Conns, SetClosed(d)
          PROVE  c \in closed \cup destroyed \/ c = d
      BY <1>2, <3>1 DEF SetClosed, Target
    <3>2. ASSUME NEW t \in Threads, WriteThrows(t)
          PROVE  \/ c \in closed \cup destroyed
                 \/ c = t /\ t \in Conns /\ wPc[t] = "onConnect" /\ t # Pusher
      BY <1>2, <3>2 DEF WriteThrows, Threads
    <3>3. ASSUME NEW d \in Conns, Destroy(d)
          PROVE  c \in closed \cup destroyed \/ c = d
      BY <1>2, <3>3 DEF Destroy
    <3>4. CASE /\ ~\E d \in Conns : SetClosed(d) \/ Destroy(d)
               /\ ~\E t \in Threads : WriteThrows(t)
      BY <1>2, <3>4, Actions
         DEF Inside, SendTest, SendDangles, WriteCopies, WriteReturns, WriteContinue,
             Upgrade, ReadFrame, PusherSend, OnConnect, OnDisconnect, ReadThrows,
             LeaveEarly, Drain, PeerReset, PusherRound, PusherEnds, PusherUnlock, Signal,
             vars, connVars
    <3> QED
      BY <3>1, <3>2, <3>3, <3>4
  <2> QED
    BY <2>1, <2>2, <2>3, <2>4
<1> QED
  BY <1>1, <1>2

LEMMA SessionStep ==
  ASSUME Factory = "push", Typed, Upgrading, [Next]_vars, NEW c \in Conns
  PROVE  /\ wPc'[c] = "request" => wire'[c] = <<>> /\ call'[c] = NoCall
         /\ wPc'[c] = "onConnect" /\ call'[c] = NoCall =>
              c \in blocked' \/ Len(wire'[c]) >= FrameLen
         /\ wPc'[c] \in {"loop", "close"} => Answered(c)'
<1>0. c \in Threads /\ c # Pusher /\ FrameLen \in Nat
  BY WsServerAssumption DEF WsServerAssumption, Threads
<1>1. ASSUME wPc'[c] = "request"
      PROVE  wire'[c] = <<>> /\ call'[c] = NoCall
  <2>1. wPc[c] = "request"
    BY <1>1, PcOrigin
  <2>2. wire[c] = <<>> /\ call[c] = NoCall
    BY <2>1 DEF Upgrading
  <2>3. ~Inside(c)
    BY <2>2 DEF Inside, SendTest, SendDangles, WriteCopies, WriteReturns, WriteContinue,
            WriteThrows, Sending, NoCall
  <2>4. wire'[c] = wire[c]
    BY <2>1, <2>3, Undisturbed DEF Before, Inside
  <2>5. ASSUME NEW d \in Conns, NEW what \in Kinds, Comes(c, what, d)
        PROVE  FALSE
    <3>1. Upgrade(c)
      BY <1>0, <2>1, <2>5 DEF Comes
    <3>2. wPc'[c] = "onConnect"
      BY <3>1 DEF Upgrade, GoTo, Typed, TypeOK
    <3> QED
      BY <1>1, <3>2
  <2> QED
    BY <1>0, <2>2, <2>3, <2>4, <2>5, CallOrigin
<1>2. ASSUME wPc'[c] = "onConnect", call'[c] = NoCall
      PROVE  c \in blocked' \/ Len(wire'[c]) >= FrameLen
  <2>1. wPc[c] = "onConnect"
    <3>1. ASSUME Upgrade(c)
          PROVE  FALSE
      BY <1>0, <1>2, <3>1, NewCall DEF Upgrade, NoCall, Kinds
    <3> QED
      BY <1>2, <3>1, PcOrigin
  <2>2. CASE call[c] = NoCall
    BY <1>0, <2>1, <2>2, AnsweredStep, NotesGrow DEF Upgrading
  <2>3. CASE call[c] # NoCall
    <3>1. ~Sending(c, "none") /\ call[c] \in CallType
      BY <1>0, <2>3, InCall DEF Typed
    <3>2. call[c].what = "101" /\ call[c].to = c /\ (c \in blocked \/ Len(wire[c]) = Done(c))
      BY <1>0, <2>1, <3>1 DEF Upgrading, Answering, Answered, Before
    <3>3. c \notin closed /\ c \notin destroyed
      BY <2>1 DEF Upgrading, Before
    <3>4. Inside(c)
      <4>1. ASSUME NEW d \in Conns, NEW what \in Kinds, NEW n \in Nat, Send(c, d, what, n)
            PROVE  FALSE
        BY <1>0, <1>2, <4>1, NewCall DEF NoCall
      <4> QED
        BY <1>0, <1>2, <2>3, <4>1, CallOrigin
    <3>5. ~SendDangles(c)
      BY <3>2, <3>3 DEF SendDangles
    <3>6. ~WriteThrows(c)
      <4>1. ASSUME WriteThrows(c)
            PROVE  FALSE
        <5>1. wPc' = [wPc EXCEPT ![c] = "over"] /\ DOMAIN wPc = Conns
          BY <1>0, <2>1, <4>1 DEF WriteThrows, Typed, TypeOK
        <5> QED
          BY <1>2, <5>1
      <4> QED
        BY <4>1
    <3>7. CASE SendTest(c)
      <4>1. Sending(c, "test") /\ call[c].num >= FrameLen
        <5>1. call'[c] # [call[c] EXCEPT !.at = "write", !.left = FrameLen - call[c].num]
          BY <1>2, <3>1 DEF CallType, NoCall
        <5> QED
          BY <1>0, <3>2, <3>3, <3>7, <5>1, TestEffect
      <4>2. c \in blocked \/ Len(wire[c]) >= FrameLen
        BY <3>2, <4>1 DEF Done
      <4> QED
        BY <1>0, <4>2, AnsweredStep, NotesGrow
    <3>8. CASE WriteCopies(c) \/ WriteReturns(c) \/ WriteContinue(c)
      <4>1. \/ call'[c] = [call[c] EXCEPT !.at = "test", !.num = FrameLen]
            \/ call'[c] = [call[c] EXCEPT !.left = call[c].left - Copied(c)]
            \/ \E k : call'[c] = [call[c] EXCEPT !.at = "test", !.num = k]
        <5>1. CASE WriteCopies(c)
          BY <1>0, <5>1, CopyEffect
        <5>2. CASE WriteReturns(c)
          BY <1>0, <5>2, ReturnEffect
        <5>3. CASE WriteContinue(c)
          BY <1>0, <5>3, ContinueEffect
        <5> QED
          BY <3>8, <5>1, <5>2, <5>3
      <4>2. call'[c].to = call[c].to /\ call'[c].at \in {"test", "write"}
        BY <3>1, <4>1 DEF CallType
      <4> QED
        BY <1>2, <4>2 DEF NoCall
    <3> QED
      BY <3>4, <3>5, <3>6, <3>7, <3>8 DEF Inside
  <2> QED
    BY <2>2, <2>3
<1>3. ASSUME wPc'[c] \in {"loop", "close"}
      PROVE  Answered(c)'
  <2>1. CASE wPc[c] \in {"loop", "close"}
    BY <2>1, AnsweredStep DEF Upgrading
  <2>2. CASE wPc[c] = "onConnect" /\ call[c] = NoCall
    <3>1. c \in blocked \/ Len(wire[c]) >= FrameLen
      BY <2>2 DEF Upgrading
    <3> QED
      BY <1>0, <1>3, <3>1, AnsweredStep, NotesGrow DEF Answered, Before
  <2> QED
    BY <1>3, <2>1, <2>2, PcOrigin
<1> QED
  BY <1>1, <1>2, <1>3

LEMMA ResponseStep ==
  ASSUME Factory = "push", Typed, Upgrading, [Next]_vars, NEW t \in Threads, call'[t].at # "none"
  PROVE  IF call'[t].what = "101" THEN t = call'[t].to /\ Answering(t)'
         ELSE Answered(call[t].to)' /\ (t \in Conns => ~Before(t)')
<1>0. Pusher \notin Conns /\ FrameLen \in Nat
  BY WsServerAssumption DEF WsServerAssumption
<1>1. ASSUME call[t] \in CallType, call'[t].to = call[t].to, call'[t].what = call[t].what,
             call[t].what # "101"
      PROVE  Answered(call[t].to)' /\ (t \in Conns => ~Before(t)')
  <2>1. PICK c \in Conns : c = call[t].to
    BY <1>1 DEF CallType
  <2>2. Answered(c) /\ (t \in Conns => ~Before(t))
    BY <1>1, <2>1 DEF Upgrading, Sending, CallType
  <2>3. Answered(c)' /\ (t \in Conns => ~Before(t)')
    BY <2>2, AnsweredStep
  <2> QED
    BY <1>1, <2>1, <2>3 DEF Answered, Before
<1>2. ASSUME call[t] \in CallType, call'[t].to = call[t].to, call'[t].what = call[t].what,
             call[t].what = "101"
      PROVE  /\ t \in Conns /\ t = call[t].to /\ Answering(t) /\ wPc'[t] = "onConnect"
             /\ ~WriteCopies(t) => wire'[t] = wire[t]
  <2>1. t = call[t].to /\ Answering(t) /\ t \in Conns
    BY <1>2 DEF Upgrading, Sending, CallType
  <2>2. wPc[t] = "onConnect" /\ call'[t] # NoCall
    BY <2>1 DEF Answering, NoCall
  <2>3. wPc'[t] = "onConnect"
    BY <2>1, <2>2, PcOrigin
  <2> QED
    BY <2>1, <2>2, <2>3, Undisturbed DEF Before
<1>3. CASE call'[t] = call[t] /\ ~WriteCopies(t)
  <2>1. call[t] \in CallType /\ Done(t)' = Done(t)
    BY <1>3, InCall DEF Sending, Done, Typed
  <2>2. CASE call[t].what = "101"
    BY <1>2, <1>3, <2>1, <2>2, NotesGrow DEF Answering
  <2>3. CASE call[t].what # "101"
    BY <1>1, <1>3, <2>1, <2>3
  <2> QED
    BY <2>2, <2>3
<1>4. CASE Inside(t)
  <2>1. call[t] \in CallType /\ call'[t].to = call[t].to /\ call'[t].what = call[t].what
    BY <1>4, SameItem
  <2>2. CASE call[t].what = "101"
    <3>1. /\ t \in Conns /\ t = call[t].to /\ Answering(t) /\ wPc'[t] = "onConnect"
          /\ ~WriteCopies(t) => wire'[t] = wire[t]
      BY <1>2, <2>1, <2>2
    <3>2. CASE WriteCopies(t)
      <4>1. Appended(t, t, Copied(t)) /\ blocked' = blocked
        BY <3>1, <3>2, CopyEffect DEF WriteCopies
      <4>2. Len(wire'[t]) = Len(wire[t]) + Copied(t)
        BY <4>1 DEF Appended
      <4>3. Done(t)' = Done(t) + Copied(t)
        BY <1>4, <3>2, DoneInside
      <4> QED
        BY <2>1, <2>2, <3>1, <4>1, <4>2, <4>3 DEF Answering
    <3>3. CASE ~WriteCopies(t)
      <4>1. Done(t)' = Done(t) \/ t \in blocked'
        BY <1>4, <2>1, <3>1, <3>3, DoneInside
      <4> QED
        BY <2>1, <2>2, <3>1, <3>3, <4>1, NotesGrow DEF Answering
    <3> QED
      BY <3>2, <3>3
  <2>3. CASE call[t].what # "101"
    BY <1>1, <2>1, <2>3
  <2> QED
    BY <2>2, <2>3
<1>5. ASSUME NEW c \in Conns, NEW what \in Kinds, NEW n \in Nat,
             Send(t, c, what, n), Comes(t, what, c), UNCHANGED wire
      PROVE  IF call'[t].what = "101" THEN t = call'[t].to /\ Answering(t)'
             ELSE Answered(call[t].to)' /\ (t \in Conns => ~Before(t)')
  <2>1. call'[t].at = "test" /\ call'[t].to = c /\ call'[t].what = what /\ call'[t].num = 0
    BY <1>5, NewCall
  <2>2. CASE what = "101" /\ t = c /\ Upgrade(c)
    <3>1. wPc[c] = "request" /\ wPc'[c] = "onConnect"
      BY <2>2 DEF Upgrade, At, GoTo, Typed, TypeOK
    <3>2. wire'[c] = <<>>
      BY <1>5, <3>1 DEF Upgrading
    <3>3. Len(wire'[c]) = 0 /\ Done(t)' = 0
      BY <2>1, <3>2 DEF Done, Sending
    <3> QED
      BY <2>1, <2>2, <3>1, <3>3 DEF Answering
  <2>3. CASE what # "101" /\ t = c /\ wPc[c] = "loop"
    <3>1. Answered(c) /\ ~Before(c)
      BY <2>3 DEF Upgrading, Before
    <3>2. Answered(c)' /\ ~Before(c)'
      BY <3>1, AnsweredStep
    <3> QED
      BY <2>1, <2>3, <3>2 DEF Answered, Before
  <2>4. CASE what # "101" /\ t = Pusher /\ c \in pending
    <3>1. Answered(c)'
      BY <2>4, AnsweredStep DEF Upgrading
    <3> QED
      BY <1>0, <2>1, <2>4, <3>1 DEF Answered, Before
  <2> QED
    BY <1>5, <2>2, <2>3, <2>4 DEF Comes
<1> QED
  BY <1>3, <1>4, <1>5, CallOrigin DEF Inside

LEMMA UpgradingStep ==
  ASSUME Factory = "push", Typed, Upgrading, [Next]_vars
  PROVE  Upgrading'
<1>1. /\ \A c \in elements' \cup pending' : Answered(c)'
      /\ \A c \in closed' \cup destroyed' : ~Before(c)'
  BY RegisteredStep
<1>2. \A c \in Conns :
        /\ wPc'[c] = "request" => wire'[c] = <<>> /\ call'[c] = NoCall
        /\ wPc'[c] = "onConnect" /\ call'[c] = NoCall => c \in blocked' \/ Len(wire'[c]) >= FrameLen
        /\ wPc'[c] \in {"loop", "close"} => Answered(c)'
  BY SessionStep
<1>3. \A t \in Threads : call'[t].at # "none" =>
        IF call'[t].what = "101" THEN t = call'[t].to /\ Answering(t)'
        ELSE Answered(call[t].to)' /\ (t \in Conns => ~Before(t)')
  BY ResponseStep
<1> QED
  BY <1>1, <1>2, <1>3 DEF Upgrading, Sending

LEMMA UpgradeFirstStep ==
  ASSUME Factory = "push", Typed, Intact, Upgrading, UpgradeFirst, [Next]_vars
  PROVE  UpgradeFirst'
<1> SUFFICES ASSUME NEW c \in Conns, c \notin blocked', NEW i \in 1 .. Len(wire'[c])
             PROVE  (wire'[c][i].what = "101") = (i <= FrameLen)
  BY DEF UpgradeFirst
<1>0. c \notin blocked /\ FrameLen \in Nat /\ Len(wire[c]) \in Nat
  BY NotesGrow, AnsweredStep, WsServerAssumption DEF WsServerAssumption
<1>1. CASE i \in 1 .. Len(wire[c]) /\ wire'[c][i] = wire[c][i]
  BY <1>0, <1>1 DEF UpgradeFirst
<1>2. ASSUME NEW t \in Threads, WriteCopies(t), call[t].to = c
      PROVE  (wire'[c][i].what = "101") = (i <= FrameLen)
  <2> DEFINE n == Copied(t)
  <2>1. Sending(t, "write") /\ Appended(t, c, n) /\ n \in 1 .. call[t].left
    BY <1>2, CopyEffect
  <2>2. call[t] \in CallType /\ call[t].left \in Nat /\ call[t].left <= FrameLen /\ n \in Nat
    <3>1. call[t] \in CallType
      BY <2>1, Writing
    <3> QED
      BY <1>0, <2>1, <3>1 DEF CallType
  <2> HIDE DEF n
  <2>3. CASE i \in 1 .. Len(wire[c])
    BY <1>1, <2>1, <2>3 DEF Appended
  <2>4. CASE i \notin 1 .. Len(wire[c])
    <3>1. Len(wire'[c]) = Len(wire[c]) + n
      BY <2>1 DEF Appended
    <3>2. /\ i - Len(wire[c]) \in 1 .. n /\ i = Len(wire[c]) + (i - Len(wire[c]))
          /\ i > Len(wire[c]) /\ i <= Len(wire[c]) + n
      BY <1>0, <2>2, <2>4, <3>1
    <3>3. wire'[c][i] = ByteAt(t, FrameLen - call[t].left + (i - Len(wire[c])))
      BY <2>1, <3>2 DEF Appended
    <3>4. wire'[c][i].what = call[t].what
      BY <3>3 DEF ByteAt
    <3>5. CASE call[t].what = "101"
      <4>1. t = c /\ Len(wire[c]) = Done(t)
        BY <1>0, <1>2, <2>1, <3>5 DEF Upgrading, Answering, Sending
      <4>2. Done(t) = FrameLen - call[t].left
        BY <2>1 DEF Done, Sending
      <4>3. i <= FrameLen
        <5>1. n <= call[t].left
          BY <2>1, <2>2
        <5> QED
          BY <1>0, <2>2, <3>1, <4>1, <4>2, <5>1
      <4> QED
        BY <3>4, <3>5, <4>3
    <3>6. CASE call[t].what # "101"
      <4>1. Len(wire[c]) >= FrameLen
        BY <1>0, <1>2, <2>1, <3>6 DEF Upgrading, Answered, Sending
      <4>2. ~(i <= FrameLen)
        BY <1>0, <3>2, <4>1
      <4> QED
        BY <3>4, <3>6, <4>2
    <3> QED
      BY <3>5, <3>6
  <2> QED
    BY <2>3, <2>4
<1> QED
  BY <1>1, <1>2, WireOrigin

-----------------------------------------------------------------------------
(* The theorems.                                                           *)

WsInvariant ==
  Typed /\ Stopping /\ StoppedByClose /\ Whole /\ Unmixed /\ Fresh /\ Intact

LEMMA WsInit ==
  ASSUME Init
  PROVE  WsInvariant
<1>1. \A t \in Threads : Sending(t, "none") /\ ~Sending(t, "test") /\ ~Sending(t, "write")
  BY DEF Init, Sending, NoCall
<1>2. \A c \in Conns : wire[c] = <<>> /\ flagged[c] = <<>> /\ Len(wire[c]) = 0
  BY DEF Init
<1>3. Stopping /\ StoppedByClose
  BY <1>2 DEF Stopping, StoppedByClose
<1>4. Whole /\ Intact
  BY <1>1 DEF Whole, Intact
<1>5. Unmixed
  BY <1>2 DEF Unmixed
<1>6. Fresh
  BY <1>1, <1>2 DEF Fresh
<1> QED
  BY <1>3, <1>4, <1>5, <1>6, TypedInit DEF WsInvariant

\* Whatever the factory: the invariant that the theorems below follow from.
THEOREM WsInductive == Spec => []WsInvariant
<1>1. Init => WsInvariant
  BY WsInit
<1>2. WsInvariant /\ [Next]_vars => WsInvariant'
  <2> SUFFICES ASSUME WsInvariant, [Next]_vars
               PROVE  WsInvariant'
    OBVIOUS
  <2> USE DEF WsInvariant
  <2>1. Stopping' /\ StoppedByClose'
    BY StoppingStep
  <2>2. Typed' /\ Whole' /\ Unmixed'
    BY TypedStep, WholeStep, UnmixedStep
  <2>3. Fresh' /\ Intact'
    BY FreshStep, IntactStep
  <2> QED
    BY <2>1, <2>2, <2>3
<1> QED
  BY <1>1, <1>2, PTL DEF Spec

\* Every variable has its type, and no write of Connection::send starts at or
\* goes beyond the end of the caller's buffer, although numWritten can wrap.
THEOREM WsTyping == Spec => []TypeOK
<1>1. WsInvariant => TypeOK
  BY DEF WsInvariant, Typed
<1> QED
  BY <1>1, WsInductive, PTL

\* After Connection::close nothing is sent but the rest of the writes that had
\* begun, whatever the other threads were about to send.
THEOREM WsStoppedByClose == Spec => []StoppedByClose
<1>1. WsInvariant => StoppedByClose
  BY DEF WsInvariant
<1> QED
  BY <1>1, WsInductive, PTL

\* Frames of different threads are mixed only on a connection a write to which
\* did not find the room it needed.
THEOREM WsFramesNotMixed == Spec => []FramesNotMixed
<1>1. WsInvariant => FramesNotMixed
  BY DEF WsInvariant, Unmixed, FramesNotMixed
<1> QED
  BY <1>1, WsInductive, PTL

\* Connection::send puts its bytes on the wire once and in order, and without
\* gaps where NUM_CONTINUE made it repeat some.
THEOREM WsSendIntact == Spec => []SendIntact
<1>1. WsInvariant => SendIntact
  <2> SUFFICES ASSUME WsInvariant, NEW t \in Threads, ~Sending(t, "none")
               PROVE  IF call[t].to \in blocked THEN NoGaps(t) ELSE Exact(t)
    BY DEF SendIntact
  <2>1. Gapless(Mine(t), Places(t)) /\ (call[t].to \notin blocked => InOrder(Mine(t), Places(t), Done(t)))
    BY DEF WsInvariant, Intact
  <2>2. NoGaps(t)
    BY <2>1 DEF Gapless, Places, NoGaps
  <2>3. InOrder(Mine(t), Places(t), Done(t)) => Exact(t)
    BY DEF InOrder, Places, Exact
  <2> QED
    BY <2>1, <2>2, <2>3
<1> QED
  BY <1>1, WsInductive, PTL

\* With the push example's factory, whatever the pusher does, the 101 response
\* is on the wire before anything else (socks_ws_handler.hpp: onEnter answers,
\* then calls onConnect).
THEOREM WsUpgradeFirst == Factory = "push" /\ Spec => []UpgradeFirst
<1> SUFFICES ASSUME Factory = "push"
             PROVE  Spec => []UpgradeFirst
  OBVIOUS
<1>1. Init => Upgrading /\ UpgradeFirst
  <2> SUFFICES ASSUME Init
               PROVE  Upgrading /\ UpgradeFirst
    OBVIOUS
  <2>1. \A t \in Threads : call[t] = NoCall /\ Sending(t, "none")
    BY DEF Init, Sending, NoCall
  <2>2. \A c \in Conns : wPc[c] = "request" /\ wire[c] = <<>> /\ Len(wire[c]) = 0
    BY DEF Init
  <2>3. elements \cup pending = {} /\ closed \cup destroyed = {}
    BY DEF Init
  <2> QED
    BY <2>1, <2>2, <2>3 DEF Upgrading, UpgradeFirst, Threads
<1>2. WsInvariant /\ Upgrading /\ UpgradeFirst /\ [Next]_vars => Upgrading' /\ UpgradeFirst'
  BY UpgradingStep, UpgradeFirstStep DEF WsInvariant
<1> QED
  BY <1>1, <1>2, WsInductive, PTL DEF Spec
=============================================================================
