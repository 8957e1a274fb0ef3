# Verification of cppsocks

TLA+ models of cppsocks, a small C++ library for TCP, HTTP and WebSocket
servers, with TLC runs on small instances and TLAPS proofs for all instances.
Paths below are relative to the repository root.

## 1. The system

| Component | Source | State | Operations |
|---|---|---|---|
| System context | `examples/system_context/system_posix.cpp`, `system_impl.hpp`; interfaces in `src/tcp/socks_system_context.hpp` | descriptor number of each socket, `signalStatus`, the kernel's descriptor table behind them | `createListenSocket`, `accept`, `isReadable`, `read`, `write`, `close`, `quitCondition` |
| TCP server | `src/tcp/socks_tcp.cpp` | the list of `ClientWorker`s | `serve`, `cleanup` |
| TCP worker | `src/tcp/socks_tcp_worker.{hpp,cpp}` | the thread, `_isActive` | `start`, `run`, `loop`, `finish` |
| Connection, ServerHandler | `src/tcp/socks_tcp_handler.hpp` | `closed` | `send`, `close`, `isClosed`, `onConnect`, `onReceive`, `onDisconnect` |
| HTTP session | `src/http/socks_http.cpp`, `socks_http_states.cpp`, `socks_http_handler.cpp` | `curState`, `nextState`, `recvBuf`, `numRecv`, `requestInfo` | `setNextState`, `onReceive`, `onDisconnect`, `RequestInfo::parse`, `do_GET` |
| WebSocket session | `src/http/socks_http_states_ws.cpp`, `socks_ws_handler.cpp` | `opcode`, `inBuf` | `onEnter`, `onReceive`, `onDisconnect`, `WsConnection::send`, `close` |
| Frame codec | `src/http/socks_ws_frame.cpp`, `src/tcp/socks_tcp_util.hpp` | none | frame constructors, `decode`, `hton`, `ntoh` |
| File handler | `src/http/socks_http_handler.cpp` | `basePath` | `do_GET` |
| Push examples | `examples/tcp_push`, `examples/ws_push` | registered connections, mutex, pusher thread | `addConn`, `delConn`, `push` |

**How they interact.** The main thread runs `serve`: it accepts, calls
`cleanup` to join and destroy the workers that are over, and starts one worker
thread per admitted connection. A worker polls and reads its socket and calls
the application's `ServerHandler`; it tells the main thread that it is over by
clearing `_isActive`. The HTTP layer is such a handler, and calls a `WsHandler`
in turn. A signal handler sets the quit condition that the main thread and all
workers poll. In the push examples a further thread writes to the connections.

**What is hard.** The main thread decides from `_isActive` when an object that
a thread uses is destroyed. A socket keeps its descriptor number after
`close()`, when the kernel may have given the number to somebody else. Each of
`accept`, `poll`, `recv`, `send`, the factory, the thread constructor and every
callback may throw, and the catch block of `run` and the unwinding of `serve`
skip what comes after. TCP delivers a request or a frame in any pieces.
`HttpWsState` derives the message boundary from `inBuf` being empty. A `send` may
take several writes, during which another thread sends on, or closes, the same
connection, and a client that stops reading holds whoever writes to it, with the
mutex it has. A file that is served may change between the two times it is opened.
The `hazards` of `PROJECT.json` list these at their lines.

**What makes each part correct.**

* Server and workers: no more than `maxClients` served at a time; a worker only
  touches its own descriptor; nothing a thread uses is destroyed; no thread
  survives `serve`; descriptors are given back; finished workers never cost a
  client its slot; shutdown, disconnects and connects make progress.
* Handler contract: `onConnect`, then `onReceive`s, then `onDisconnect`; no
  `onReceive` after `close`; an exception ends the sequence.
* HTTP session: a request that has arrived is concluded, in whatever pieces it came.
* WebSocket session: messages arrive whole, in order, none lost; everything
  written is a frame; nothing follows a Close frame; a Close frame ends the session.
* Codec: `decode` and the accessors invert the encoders at every length.
* `Connection::send`: bytes reach the client once and in order; frames of two
  threads are not mixed; closing stops every sender.
* File handler: the body is the file that was opened, as long as Content-Length says.
* Push managers: no use of a connection after its worker is gone; no deadlock.

## 2. Modules

| Module | Models |
|---|---|
| `SystemContext` | the sockets, the kernel's table, the peers, the signal |
| `ClientWorker` (extends `SystemContext`) | `ClientWorker::run` and `loop` |
| `TcpServer` (extends `ClientWorker`) | `serve` and `cleanup`; the composition of main thread, workers and environment; the properties |
| `HandlerLifecycle` | the abstract specification: what the TCP layer promises to a `ServerHandler` |
| `HttpSession` | `TcpServerHandler` and the states init, get and ws on one connection, and an RFC 6455 client |
| `PushServer` (extends `TcpServer`) | `examples/tcp_push/main.cpp`: manager, handler, pusher thread and `main` |
| `WsServer` | several WebSocket sessions with a shared handler factory, down to each write of `Connection::send`: `examples/ws_push`, and a server without WebSocket handler |
| `WsFrame` | the frame codec, byte by byte, with `hton` and `ntoh` |
| `HttpFile` | `HttpFileHandler::do_GET` and `HttpConnection`, the file system and the client |
| `TcpServerProofs`, `LifecycleProofs`, `PushServerProofs`, `HttpSessionProofs`, `WsServerProofs`, `WsFrameProofs`, `HttpFileProofs` | theorems about the modules of these names |
| `LeastNumber` | the lemma that a set of numbers that is not empty has a least member |
| `MCTcpServer`, `MCWsFrame` | for TLC: the symmetry set; the xor of bytes and the 64-bit length fields |

Definitions beginning with "Mutant:" in their comment are deliberately wrong
variants of the definition that follows them. No specification uses them; each
shows that a property would notice that mistake.

### SystemContext, ClientWorker, TcpServer

`fdTable` is the kernel's table, `sockFd` the `const int fd` of each
`SocketImpl`; `Owner(c)` is the connection the socket of `c` reaches through
the table *now*. A socket that works on a recycled descriptor is therefore
representable, and `OwnDescriptor` says it does not happen. `link` is what the
peer did; `unread` counts segments in the kernel's buffer.

`wPc[c]` is the program point of the worker's thread: one action per point,
because the main thread may run between any two. `closed`, `active` and `threw`
are the sets of connections whose `Connection::closed`, `_isActive`, and
passage through the catch block are true. A callback returns, calls
`Connection::close`, or throws; `HandlerResults` says which are tried. A catch
is modelled as the code has it: neither `onDisconnect` nor `socket->close()`
follows.

`srvPc` is the main thread: `CreateListenSocket`, `ServeTest`, `Accept` (or
`AcceptNone`, `AcceptThrows`, `NoDelayThrows`), a `CleanupVisit` per worker,
then `Admit`, `SpawnThrows` or `Reject`, and after the loop a `FinishVisit` per
worker and `Return`. `join` is the guard `wPc[w] = "done"`. An exception
(`Unwind`) destroys the list: if a worker is in it, its `std::thread` is
joinable and the process ends in `std::terminate` (`aborted`), otherwise the
caller gets the exception (`failed`). The visiting order of the list is left
open, which covers the order of the code.

Faults are the members of `Faults`: failing `listen`, `flags`, `accept`, `nodelay`
(`setTcpNoDelay` in the constructor of `SocketImpl`), `spawn`, `poll`, and peers
that reset. `flags` is a failing `fcntl` on the listen socket: `setSocketFlags` makes
its `std::runtime_error` without throwing it, and repeats the call for ever (`Spin`).

### HandlerLifecycle

One variable, `phase`, and one action per event of a handler's life. `TcpServer`
maps its state to it with `PhaseOf`. The refinement says more than the callback
order: a step from `disconnected` or `failed` to `destroyed` is the only way for
a handler to go away.

### PushServer

Adds to `TcpServer` the set `connections` of `ConnMgr`, the pusher's program point
`pPc` and the rest `pending` of its current round. The callbacks of the workers are
now those of `PushHandler`: `PushOnConnect` and `PushOnDisconnect` are the worker's
actions with the mutex as an additional guard, `PushOnReceive` throws exactly if the
peer has reset. A worker's critical section is one step; the pusher's lasts from
`PusherLock` to `PusherUnlock`, so `MutexFree` is a state of the pusher. An exception
of `send` in the pusher thread ends the process (`PusherThrows`), and a send through
a destroyed connection (`PusherDangles`) is undefined: it has no effect or ends the
process. The process is over when `main` returns, which needs `serve` left *and* the
pusher done, or when it was terminated.

### HttpSession

The client's bytes are a sequence of items: request parts, the part ending in
CRLF CRLF, and frames. `Receive(s, k)` is one `onReceive` with `k` items. The
functions `Send`, `TcpClose`, `WsClose` and `Reply` transform the connection (its
flag and what was written) so that several writes in one callback compose in
order. A request may have more items than `recvBuf` holds (`MaxParts` and `BufSize`):
the copy that goes beyond it, which nothing in the code prevents, is the phase
`overrun` (`InitOverrun`). A request that fills `recvBuf` is parsed as it is, and if that
makes an upgrade the rest of it is taken for frames (`WsStray`, phase `garbled`). Both
are undefined or depend on text that is left out, and the session is not followed
further. A `conn.wire` item is a 101 response, a plain response, a frame, a bare
payload or a Close frame; a payload is a short sequence over `a`, `b` and NUL.
`RequestInfo::parse` yields the kind of request; a request cut off at the end of
`recvBuf` may parse to anything.

`Traffic` switches on what the client or the network may do besides the plain
case: `coalesced` (several frames in one `recv`), `interleaved` (control frames
between fragments), `emptyFirst` (an empty first fragment), `unmasked`, `nul`
(payloads with a NUL), `reset`.

### WsServer

`call[t]` is the `Connection::send` that thread `t` is in: the connection, the
program point (`test` of the loop, or inside `write`), `num` for `numWritten` and
`left` for the bytes the kernel has still to take in this write. `SendTest` is the
loop condition; it reads `closed`, which any thread may set between two writes.
`SocketImpl::write` is a blocking `::send()`: `WriteCopies` moves what there is room
for and goes on waiting if that was not all, so that another thread's bytes may come
in between; it returns less after a signal or an error (`WritePartial`, `WriteCut`),
`NUM_CONTINUE` (`WriteContinue`), or throws. `numWritten` is counted modulo
`SizeMax`, so that adding `NUM_CONTINUE` wraps as it does in `std::size_t`.
`room[c]` is what the kernel takes for a client that does not read; `Drain` is the
client reading.

`WriteContinue` stands for the code's own check of `EINTR` and `EWOULDBLOCK`. The
sockets are blocking and `signal()` restarts system calls on Linux, so a build there
does not see it; a system where signals interrupt does.

`wPc[c]` is the session's worker, from its request over the upgrade (101 first,
then `onConnect`) to the loop; `elements` is `ElemMgr::elements`, and the mutex is a
state of the pusher as in `PushServer`. A connection's socket is closed with `over`.
`Target(c)` is the connection that the handler of `c` holds: its own, or with
`Factory = "null"` the one that the static handler was created with. The last read
of a session leads to `OnDisconnect`; a worker that waits there for the mutex reads
nothing more. Frames arrive whole and one per read, since `HttpSession` and
`WsFrame` have the other cases.

### WsFrame

A byte has `Base` values; the top bit, the lengths 126 and 127 and `UINT16_MAX` are
derived from `Base`, so that with 32 values every form of the length and every boundary
is reached by sequences that TLC can enumerate. The exchange is: a frame is constructed
by the server, or encoded and masked by a client in any of the three forms that fit;
`recv` delivers it whole, with the beginning of another, or cut off after any byte, and
never more than `MaxSize` bytes; `decode` runs on what was delivered. `ClientStarts` is
the beginning of a frame with one of the 64-bit lengths `LongFields`, none of which a
`recv` can deliver whole. `Stale` marks a byte of the receive buffer that `recv` did not
write. A cut inside the header leaves lengths and key undefined; this is an outcome of
its own, as is the `std::length_error` of `resize`. `Resized` is the sum
`payloadBuf.size() + frameLen` with the width of `std::size_t`: where it wraps, `decode`
makes the buffer smaller and writes behind it (outcome `overrun`). An unmasked frame is
copied to the start of the buffer, as the code does.

### HttpFile

A file is a size and a version; a name leads to a file, a directory, a pipe, something
without end or nothing; one of the paths, `//page.html`, gives an absolute name, since
`do_GET` drops one slash. Names and files can change at every step (`ChangeName`,
`ChangeUnits`). `Open` and `GetFileSize` are the two opens of `do_GET`: the first one
gives the stream that is read, the second one Content-Length, `-1` if the name is gone.
`Underflow` and `TakeBuffered` are `in.read()` over the read-ahead of `std::filebuf`,
`fail` the stream's state after a short read. A directory opens and cannot be read, and
its end is whatever the file system says. `Endless` is a device such as `/dev/zero`, or
a file that grows as fast as it is sent: `ReadEndless` and `WriteEndless` go round for
as long as the client reads. The open of a pipe waits for a writer (`stuck`). A send
waits for a client that stalls and throws after a reset, which ends in `HttpInitState`'s
catch block: the connection is closed either way.

## 3. Runs

| Run | Instance | Shows |
|---|---|---|
| `tcp_safety` | 3 connections, 2 descriptors, 2 slots; failing listen, flags, nodelay, spawn and poll, resets, throwing callbacks | `TypeOK`, `ClientLimit`, `OwnDescriptor`, `HandlerOutlivesThread`, `NoThreadOutlivesServe`, `LostDescriptors`, `NoStaleSlot`, `Inductive`, and that `TcpServer` implements `HandlerLifecycle` (`LifecycleSpec`) |
| `tcp_liveness` | 2 connections, 1 slot, resets, callbacks that close, fairness | `LifecycleSpec`, `ShutdownTerminates`, `PeerCloseReleases`, `ClientAnswered` |
| `tcp_exhaustion` | 3 connections, 2 descriptors, 1 slot, no faults | **violated**: `ServeFailureReported` |
| `push_server` | 2 connections and slots, accept failures, resets, fairness | `RegistryFollowsCallbacks`, `PushReachesOwnClient`, `DanglingOnlyAfterThrow`, `TerminatedOnlyByReset`, `PushShutdown` |
| `http_robust` | requests of up to 3 items for a `recvBuf` of 2, 2 frames, all traffic, all callback results | `RequestFits`, `CloseIsLast`, `WsContract` |
| `http_conforming` | requests of up to 4 items for a `recvBuf` of 3, 3 frames, plain traffic, fairness | `MessagesIntact`, `NoMessageSkipped`, `RequestConcluded`, `CloseHonoured` |
| `ws_push` | 2 sessions, one of them busy, one round of pushes, partial and wrapped writes, resets, fairness | `TypeOK`, `SendIntact`, `FramesNotMixed`, `StoppedByClose`, `UpgradeFirst`, `CloseEndsSession`, `ShutdownUnlessStalled` |
| `frame_codec` | bytes of 32 values, 8 payload lengths of up to 1024 bytes, 64-bit lengths up to the largest, messages of 2 frames, every cut | `AccessorsAgree`, `DecodeInverts`, `StaleIffSplit`, `LengthsKept` |
| `http_file` | 2 files of up to 3 units, directory, pipe and device, 2 changes, buffers of 2 and 3 units, fairness | `TypeOK`, `LengthMatchesBody`, `BodyIsOpenedFile`, `ResponseEnds` |
| `ws_coalesced` | `coalesced` | **violated**: `NoMessageSkipped` |
| `frame_split` | 7 short payload lengths, one frame | **violated**: `ReceivedOnly` |
| `ws_null` | 2 sessions, no WebSocket handler, no faults, fairness | **violated**: `CloseEndsSession` |

**Bounds.** In `tcp_safety` two slots and three connections let one worker finish, its
descriptor be reused and its slot refilled while the other still runs, and let a client
be turned away; a connection is used once, so reuse of a number by the same connection
is not a further case. With two descriptors `accept` also fails because the table is
full. `MaxUnread` is 1: only the presence of data matters, and more may arrive as soon
as it is read. Symmetry is over connections and descriptors, and only in a run without
liveness. Two connections let the pusher be in the middle of a round while one worker
leaves or fails and the next connection takes over its descriptor and triggers the
`cleanup`. In `HttpSession` two frames are enough for each pair of a frame and the state
a previous one left; three allow a fragmented message with another message after it.
`BufSize` counts items of the request, and `MaxParts` is one more, so that the last item
may fit, fill the buffer or go beyond it.

In `ws_push` one session is busy (its client sends a message or a Close frame and may
reset, its writes may be cut short or wrap) while the other only reads, stalls and
leaves; that is enough for pusher, echo, Close frame and upgrade to meet on one
connection while another holds up the round. `FrameLen` is 2 and `SndBuf` 3, so that one
frame fits the kernel's buffer and a second one is split. `SizeMax` is 8, more than a
frame and the wrapped counter need. `Len16` is 14 and `UINT16_MAX` is 1023:
`frame_codec` has lengths at and around both. `MaxSize` lets all frames arrive whole but
the longest, of 1024 bytes in the 64-bit form, which is always cut there, as the code's
4096 bytes cut its larger frames. `MaxMessage` keeps a long frame from following one of
more than a byte. `LongFields` has lengths on both sides of `MaxVector`, of half of
`SizeMax` and just below its end; `SizeMax` stands for 2^64 and is 2^30, since TLC's
integers are no larger. In `http_file` files have sizes below and at a multiple of the
buffer and of the read-ahead, and one above a multiple of the buffer, with a rest in the
read-ahead; two changes suffice for another file to take the name and the first one to
be written. A file that is written again and again is not cut off by the bound on
changes: it is `Endless`.

**Fairness.** `WF` on the main thread and on each worker: runnable threads are
scheduled, and application callbacks return (a callback that blocks for ever,
for instance in a send to a peer that does not read, would keep `serve` from
ending; that is an assumption on the application). `SF` on `Accept`, `PollReady`
and `Read`: `poll` and `recv` return early only when a signal interrupts them,
so a thread that polls again and again sees what is there. Nothing is assumed of
peers, signals or faults. In `HttpSession`, `WF` on the two entry points the
worker calls; the client may stop at any time. In `PushServer`, `WF` on the main
thread, each worker and the pusher: once the pusher has seen the quit condition the
mutex stays free, so weak fairness is enough for shutdown. A blocking `send` is taken
to return there too. In `WsServer`, `WF` on every thread and `SF` on a worker that
wants the mutex: the pusher gives it back for 500 ms in each round. Nothing is assumed
of clients there; `CloseEndsSession` and `ShutdownUnlessStalled` have as their premise
that no client leaves a full buffer unread for ever (`Drains`). In `HttpFile`, `WF` on
the worker; `ResponseEnds` names what it does not exclude: a client that stalls for ever,
a client that goes on reading what has no end, and a pipe. `ShutdownTerminates` is checked
without the fault `flags`, under which `serve` never reaches its loop.

**Deadlock** is checked in every run except those of `WsFrame` and `HttpFile`, whose
exchange or request ends. In the others a process that is over stutters in
`Terminated` (`Over` in `HttpSession`, `ProcessOver` in the push servers) and nowhere
else.

**What the new invariants say about two threads on one connection.** No lock is
shared by the worker's and the pusher's sends. `FramesNotMixed` states the condition
under which that is harmless: each frame is given to one `write`, and as long as every
write finds room, frames are contiguous; after a write that found too little room they
may be mixed, and the run contains such behaviours. `StoppedByClose` bounds what can
follow a Close frame: the sends that were already inside `write` when `closed` was
set. `SendIntact` holds of every send on a connection where no write reported
`NUM_CONTINUE`; where one did, `numWritten` is one too small or wraps to the largest
value, and all that is left is that bytes come without gaps, some of them twice.

## 4. Findings

1. *Descriptors of rejected clients* (`tcp_exhaustion`). `serve` drops the socket
   of a rejected client; `~SocketImpl` does not close it. Rejected clients
   accumulate until `accept` fails, and the exception meets a joinable thread:
   the process ends in `std::terminate`, not in the `return EXIT_FAILURE` that
   the README's `main` provides for. `LostDescriptors` holds and says these, and
   workers that threw, are the only losses.
2. *Two frames in one `recv`* (`ws_coalesced`): the second is dropped.
3. *One handler for all clients* (`ws_null`). `WsHandlerNullFactory` keeps a static
   handler, bound to the connection it was first created for. The Close frame of any
   later client is answered on that connection, which is then closed or may no longer
   exist, while the session the frame came from goes on.
4. *Split frames* (`frame_split`). `decode` takes key and payload from the buffer whatever
   `len` is; `// TODO check for correct len (must be > 2 now)` stands where the check is
   missing. `StaleIffSplit` holds and gives the extent: every split frame, wherever it is
   cut, and no other.

Two more are in `HttpSession` without a run of their own; adding the invariant to
`http_robust` shows each:

* *Requests longer than `recvBuf`* (`RequestInBuffer`). `HttpInitState::onReceive` copies
  each piece behind the last one; `// TODO check bounds and available buffer sizes`
  (`socks_http_states.cpp:20`) stands where the check is missing. `RequestFits` holds and
  gives the extent: a request that `recvBuf` can hold never leaves it, in whatever pieces
  it comes.
* *Pong without header* (`WireFramed`). The answer to a Ping is `response.payload()`, not
  `response.data()` (`socks_http_states_ws.cpp:73`): the bare payload is sent.

A 64-bit length for which `payloadBuf.size() + frameLen` wraps is decoded into a buffer that
has become too small. `LengthsKept` holds and says that this takes a length with the top bit
set, which RFC 6455 forbids. A failing `fcntl` on the listen socket is repeated for ever, as
section 2 says; no run states a property against it.

`MessagesIntact` and `NoMessageSkipped` hold in `http_conforming` under conditions that
are all needed: one frame per read (finding 2), control frames outside messages (one
between two fragments becomes part of the message, `socks_http_states_ws.cpp:50`), no
empty first fragment (the last fragment then looks like a continuation without a start
and the worker ends in an exception, line 65) and callbacks that do not throw
`std::invalid_argument` (it is swallowed before `inBuf.clear()`, so that the next message
is glued to the old one, line 89). Adding the member `interleaved`, `emptyFirst` or
`invalid` to the constants of that run shows each of them.

The conditions are the hypothesis `Conforming` of the theorems on messages in section 5.

Two facts about the file handler that no property states: `basePath` is stored and never
used, so that files are looked up in the working directory although the README passes a
directory to `serve`, and a path with two leading slashes gives an absolute name; and
403 and 404 responses have no empty line after the header, so that only the end of the
connection ends them.

## 5. Proofs

Every invariant that a passing run checks is a theorem, and so is the refinement of
`HandlerLifecycle`. The theorems hold for every set of connections and descriptors
(finite or not), every limit, every choice of faults, traffic and callback results, and
every length of frames, files and buffers; payloads are as long as the client's encoder in
`WsFrame` makes them, below the cube of a byte's values (16 MiB with 256). The type
invariants of `HttpSession` and `WsFrame` are proved (`SessionTyping`, `CodecTyping`) and
not among the properties of a run.

**Assumptions.** `SystemAssumption`, `HandlerAssumption`, `MaxClientsAssumption`,
`SessionAssumption`, `WsServerAssumption` and `HttpFileAssumption` only give the
constants their types and keep special values apart (`None` is not a connection or a
descriptor, "missing", "directory", "endless" and "pipe" are not files, what is sent is
less than `std::size_t` counts; a callback may return). `FrameAssumption` says that a
byte has an even number of values, at least 32, that its lower half is a multiple of 16
(the opcode is the lower four bits of a byte whose top bit is FIN), that `XorByte` keeps
bytes bytes and is undone by itself, that a vector has less than half as many bytes as
`std::size_t` has values, and that no `recv` can deliver a frame of one of the
`LongFields` whole: 256 values, the xor of C++ and 2^64 are an instance. TLC evaluates
the assumptions in every run.

Two kinds of theorem have a further hypothesis. `Conforming` in `HttpSessionProofs` says
that the client sends one frame at a time, masked and without NUL, with no empty first
fragment and no control frame inside a message, and that no callback throws
`std::invalid_argument`; section 4 says why each is needed. Resets, callbacks that close and
callbacks that throw anything else are not excluded. `Factory = "push"` in
`WsUpgradeFirst` is a server with a handler per session: with the shared handler of
`ws_null` an answer may go to another connection.

| Module | Theorem | States |
|---|---|---|
| `TcpServerProofs` | `Typing` | `Spec => []TypeOK` |
| | `InductiveInvariant` | `Spec => []Inductive` |
| | `DescriptorSafety` | `Spec => []OwnDescriptor` |
| | `HandlerSafety` | `Spec => []HandlerOutlivesThread` |
| | `Limit` | `Spec => []ClientLimit` |
| | `CleanExit` | `Spec => []NoThreadOutlivesServe` |
| | `DescriptorAccounting` | `Spec => []LostDescriptors` |
| | `FreshCount` | `Spec => []NoStaleSlot` |
| `LifecycleProofs` | `Refinement` | `Spec => LifecycleSpec` |
| `PushServerProofs` | `PushInductive` | `PushSpec => []PushInvariant` |
| | `PushRegistry` | `PushSpec => []RegistryFollowsCallbacks` |
| | `PushOwnClient` | `PushSpec => []PushReachesOwnClient` |
| | `PushDangling` | `PushSpec => []DanglingOnlyAfterThrow` |
| | `PushTermination` | `PushSpec => []TerminatedOnlyByReset` |
| | `PushRefinement` | `PushSpec => LifecycleSpec` |
| `WsServerProofs` | `WsInductive` | `Spec => []WsInvariant` |
| | `WsTyping` | `Spec => []TypeOK` |
| | `WsStoppedByClose` | `Spec => []StoppedByClose` |
| | `WsFramesNotMixed` | `Spec => []FramesNotMixed` |
| | `WsSendIntact` | `Spec => []SendIntact` |
| | `WsUpgradeFirst` | `Factory = "push" /\ Spec => []UpgradeFirst` |
| `HttpSessionProofs` | `CloseEndsTheWire` | `Spec => []CloseIsLast` |
| | `SessionInductive` | `Spec => []SessionInv` |
| | `SessionTyping` | `Spec => []TypeOK` |
| | `RequestKept` | `Spec => []RequestFits` |
| | `HandlerContract` | `Spec => []WsContract` |
| | `MessagesReachHandler` | `Conforming /\ Spec => []MessagesIntact` |
| | `MessagesNotSkipped` | `Conforming /\ Spec => []NoMessageSkipped` |
| `HttpFileProofs` | `FileInductive` | `Spec => []FileInv` |
| | `FileTyping` | `Spec => []TypeOK` |
| | `FileBody` | `Spec => []BodyIsOpenedFile` |
| | `FileLength` | `Spec => []LengthMatchesBody` |
| `WsFrameProofs` | `FrameAgreement` | `Spec => []AccessorsAgree` |
| | `DecodeClientFrame` | decoding a client's frame in any form of its length, with anything behind it, yields its payload, length, opcode and FIN |
| | `CodecInductive` | `Spec => []CodecInv` |
| | `CodecTyping` | `Spec => []TypeOK` |
| | `CodecInverts` | `Spec => []DecodeInverts` |
| | `CodecStale` | `Spec => []StaleIffSplit` |
| | `CodecLengths` | `Spec => []LengthsKept` |

**The server's inductive invariant.** `Inductive` is preserved by every action, given
`TypeOK`; each conjunct is there because another needs it.

* `OwnDescriptor` could be broken by a `Close` of another worker. That worker is
  at its close point, so it owns its own descriptor by the same invariant, and
  by `KnownDescriptor` (an open descriptor is the one its connection's socket
  holds) two connections cannot share a number. `Accept` takes a free number,
  which no running worker owns.
* `Fresh` gives a new worker a descriptor of its own: a connection is accepted
  once, and has no thread before it is admitted.
* `Released` is why `LostDescriptors` holds: past `close` only a worker that
  threw still owns a descriptor.
* `HandlerOutlivesThread` is preserved by `CleanupVisit` because of the join,
  and by `Return` because of `Joined`, which follows the final `for_each`.
* `ListWithinLimit` implies `ClientLimit` through `HandlerOutlivesThread`:
  running threads are a subset of the list.
* `Swept` follows `cleanup` through the list: a worker that was over when the
  client was accepted is still to be visited or gone, which at the end of the
  visit is `NoStaleSlot`.
* `CallbackOrder` is what the refinement needs: between the test and the
  callback the connection is open.

**The refinement.** The initial phases are absent; each action of `TcpServer`
changes the phase of at most one connection, except `Return`, which destroys the
whole list, and `CleanupVisit`, which destroys one. One step of the proof per
action, from `Inductive` in the first state and `TypeOK` in both. `Create` needs
that the callable handlers are a subset of the list.

**The push server.** Every step of `PushServer` is a step of the server, of a worker or
of the environment, or leaves them alone, so that `Inductive` is kept by the lemmas of
`TcpServerProofs`, and the contract of `HandlerLifecycle` by those of `LifecycleProofs`
(`PushRefinement`). `Registration` adds what the mutex protects: the registered
connections are those whose worker is between its callbacks, and some that threw
(`Registered`); a round, which holds the mutex, has only registered connections
(`RoundOfRegistered`); and a worker that threw never closed its socket (`Leaked`). The
first two are why nobody in a round has closed its socket or was destroyed, except after
an exception; the third is why even then the descriptor was not given to another client.

**Sends of several threads.** `WsInvariant` follows each thread through
`Connection::send`. `Stopping`: once `closed` is set, whoever is inside `write` was so at
that moment, since every other one has the test before it; `StoppedByClose` is this,
remembered for the bytes that were written. `Whole`: as long as every write found room, a
send has written nothing or all of its frame, so that the next byte on the wire continues
the last one or starts a frame (`FramesNotMixed`). `Fresh`: the threads name their items
by counters that only move on, so that the bytes of a new send are told from all on the
wire. `Intact` is `SendIntact` with what keeps it: what `numWritten` counts is on the wire,
unless it has wrapped, and then the loop is about to end. `Upgrading`, an
invariant of its own for a handler per session: a connection that is registered, or in a
round, has its whole 101 on the wire.

**The session's wire.** `Orderly(conn)` strengthens `CloseIsLast`: the connection is
closed, or no Close frame has been written. One lemma for each of `Send`, `TcpClose`,
`WsClose` and `Reply`, then one step per action.

**The session.** That `numRecv` only leaves `recvBuf` for a request that is too long
(`RequestKept`) needs how much of the request is still to come: in `HttpInitState` what
was received and what waits is all that was sent of the request, and its end is the last
of it (`Requesting`); in `HttpWsState` what waits are frames, or what was left of a
request that filled `recvBuf` (`Speaking`). `Contract` says in which of its three stages
a handler is: not called, refused by its `onConnect`, or accepted. For the messages,
`Chained` says that there is a way for a reader from the state of `HttpWsState` (the
message in `inBuf` and the calls made) through the frames that wait, along which every
message that ends is the next one that the client has sent, and that ends at what the
client is building. Receiving a frame takes the first step of that way, sending one adds
a step at its end. `Counted` is the corresponding equation of numbers, with `Answered`
for sessions that are not upgraded.

**The codec.** `HtonNtoh` is division with remainder: the quotient of a 16-bit value is
a byte, so the two bytes give the value back. For 64 bits the recursion of `Ntoh64` is
unrolled over its eight bytes (`Ntoh64Steps`), and the top bytes of what fits are zero.
`FrameBytes` states where each byte of a constructed frame is, from which the accessors
follow. `Encoded` says the same of a frame of either side in any form, `Delivered` that
what was received agrees with what was sent as far as both go, and `Found` what `decode`
sees of it: with the header complete, length, key and each payload byte that was
received are those that were sent, and the others are stale, for a cut after any byte.
The inductive invariant `CodecInv` keeps `Encoded`, `Delivered` and the outcome through
the exchange.

**The file.** `FileInv` says that nothing is lost between the file and the client: what
was sent, what is in `buf` and what is in the read-ahead, joined, are the first `offset`
units of the opened file (`Flowing`). `Sent` is what remains of this after an exception
has dropped the buffers. `AtEnd` relates the stream's `fail` and an empty read to the end
of the file, which makes the loop's end mean that all of it was sent; `Measured` says that
the second open measured the file of the first unless the name changed. The body is a join
of chunks by a recursive function; `RuleExists` and `RuleUnique` show that this function
exists for every wire and agrees on a common beginning, from which a write extends the
body by its chunk.

**Induction.** The installed provers cannot use the library's induction theorems. Where a
fact about all lengths is needed, the proof takes the least length for which it fails
(`LeastNumber`, from the well-foundedness of `<`) and shows that it does not fail there.

**Only model-checked.** Liveness, since fairness and `ENABLED` are out of the prover's
reach: `ShutdownTerminates`, `PeerCloseReleases`, `ClientAnswered`, `PushShutdown`,
`RequestConcluded`, `CloseHonoured`, `CloseEndsSession`, `ShutdownUnlessStalled` and
`ResponseEnds`.

## 6. Not modelled

* Sessions on split frames: `WsFrame` shows that `decode` then reads bytes that were not
  received, so that what a session does next depends on stale buffer contents.
* The accept key, and the text of headers and responses.
* Paths as strings: `HttpFile` has one path of each form `do_GET` tells apart.
* What a session does after a copy beyond `recvBuf`, or after `decode` has written behind a
  buffer that became too small: undefined by the program.
* The first read of a request being shorter than the terminator it is compared with.
* Exceptions that do not derive from `std::exception`, and allocation failures other
  than the `std::length_error` of `decode`.
* The echo and simple examples, and the `Http::Server::serve` overloads that only build
  factories: their handlers are covered by the callback results of `ClientWorker` and
  `HttpSession`. Type and error headers have no behaviour.
* `isWriteable`, which has no caller.

## 7. Plan

Done: the TCP layer with its contract, the TCP and WebSocket push servers,
`Connection::send`, the HTTP and WebSocket session, the frame codec and the file handler,
each with its runs and, for its invariants, its proofs.

Left, in this order:

1. Action properties such as "the wire only grows, and only at its end" for `HttpSession`
   and `WsServer`, with their proofs.
2. The first read of a request that is shorter than the terminator
   (`socks_http_states.cpp:24`), which needs the request's bytes rather than its items.
3. Sessions on split frames, as the composition of `HttpSession` and `WsFrame`.
