---------------------------- MODULE ClientWorker ----------------------------
(***************************************************************************)
(* One ClientWorker thread per admitted connection: ClientWorker::run and  *)
(* ClientWorker::loop (src/tcp/socks_tcp_worker.cpp), calling the three    *)
(* callbacks of an application's ServerHandler.  A callback may return,    *)
(* call Connection::close, or throw a std::exception.                      *)
(***************************************************************************)
EXTENDS SystemContext

CONSTANT HandlerResults  \* what the application's callbacks may do

ASSUME HandlerAssumption ==
  /\ HandlerResults \subseteq {"return", "close", "throw"}
  /\ "return" \in HandlerResults

VARIABLES
  wPc,     \* where the thread of each connection is
  active,  \* the connections whose ClientWorker::_isActive is true
  closed,  \* those whose Connection::closed is true
  threw    \* history: those whose run() went through its catch block

workerVars == <<wPc, active, closed, threw>>

\* Program points inside run(), in the order of the code.
LoopPoints == {"test", "poll", "read", "onReceive"}
RunPoints == {"onConnect"} \cup LoopPoints \cup {"onDisconnect", "close", "deactivate"}

WorkerTypeOK ==
  /\ wPc \in [Conns -> {"none"} \cup RunPoints \cup {"done"}]
  /\ active \in SUBSET Conns
  /\ closed \in SUBSET Conns
  /\ threw \in SUBSET Conns

WorkerInit ==
  /\ wPc = [c \in Conns |-> "none"]
  /\ active = {}
  /\ closed = {}
  /\ threw = {}

-----------------------------------------------------------------------------
GoTo(c, point) == wPc' = [wPc EXCEPT ![c] = point]

\* Any std::exception reaches run()'s catch block, which only logs: neither
\* onDisconnect nor Socket::close is called.
Throw(c) ==
  /\ GoTo(c, "deactivate")
  /\ threw' = threw \cup {c}
  /\ UNCHANGED <<active, closed>>

\* A call of handler->onX() that continues at point when it returns.
Callback(c, point) ==
  \/ /\ "return" \in HandlerResults
     /\ GoTo(c, point)
     /\ UNCHANGED <<active, closed, threw>>
  \/ /\ "close" \in HandlerResults
     /\ closed' = closed \cup {c}
     /\ GoTo(c, point)
     /\ UNCHANGED <<active, threw>>
  \/ /\ "throw" \in HandlerResults
     /\ Throw(c)

\* The new Connection is open; the constructor's start() raises the flag and
\* spawns the thread.
Start(c) ==
  /\ wPc' = [wPc EXCEPT ![c] = "onConnect"]
  /\ active' = active \cup {c}
  /\ closed' = closed \ {c}
  /\ UNCHANGED threw

OnConnect(c) ==
  /\ wPc[c] = "onConnect"
  /\ Callback(c, "test")
  /\ UNCHANGED sysVars

\* Mutant: the loop does not look at the quit condition.
LoopTestIgnoresQuit(c) ==
  /\ wPc[c] = "test"
  /\ GoTo(c, IF c \in closed THEN "onDisconnect" ELSE "poll")
  /\ UNCHANGED <<sysVars, active, closed, threw>>

\* Mutant: the loop does not look at Connection::isClosed().
LoopTestIgnoresClosed(c) ==
  /\ wPc[c] = "test"
  /\ GoTo(c, IF quit THEN "onDisconnect" ELSE "poll")
  /\ UNCHANGED <<sysVars, active, closed, threw>>

LoopTest(c) ==
  /\ wPc[c] = "test"
  /\ GoTo(c, IF quit \/ c \in closed THEN "onDisconnect" ELSE "poll")
  /\ UNCHANGED <<sysVars, active, closed, threw>>

PollReady(c) ==
  /\ wPc[c] = "poll"
  /\ Readable(c)
  /\ GoTo(c, "read")
  /\ UNCHANGED <<sysVars, active, closed, threw>>

\* The 10 ms ran out, or a signal interrupted poll().
PollNotReady(c) ==
  /\ wPc[c] = "poll"
  /\ GoTo(c, "test")
  /\ UNCHANGED <<sysVars, active, closed, threw>>

PollThrows(c) ==
  /\ wPc[c] = "poll"
  /\ "poll" \in Faults
  /\ Throw(c)
  /\ UNCHANGED sysVars

\* Mutant: the length passed on exceeds what recv() delivered.
ReadDataOverrun(c) ==
  /\ wPc[c] = "read"
  /\ LET o == Owner(c)
     IN  /\ o # None
         /\ unread[o] > 0
         /\ \E k \in 1 .. unread[o] + 1 : unread' = [unread EXCEPT ![o] = @ - k]
  /\ GoTo(c, "onReceive")
  /\ UNCHANGED <<listening, backlog, link, fdTable, sockFd, quit, active, closed, threw>>

\* recv() fills the buffer with one or more of the waiting segments; they
\* may be delivered even after a reset.
ReadData(c) ==
  /\ wPc[c] = "read"
  /\ LET o == Owner(c)
     IN  /\ o # None
         /\ unread[o] > 0
         /\ \E k \in 1 .. unread[o] : unread' = [unread EXCEPT ![o] = @ - k]
  /\ GoTo(c, "onReceive")
  /\ UNCHANGED <<listening, backlog, link, fdTable, sockFd, quit, active, closed, threw>>

AtEof(c) == Owner(c) # None /\ unread[Owner(c)] = 0 /\ link[Owner(c)] = "fin"

\* Mutant: NUM_EOF is handled like NUM_CONTINUE.
ReadEofContinues(c) ==
  /\ wPc[c] = "read"
  /\ AtEof(c)
  /\ GoTo(c, "test")
  /\ UNCHANGED <<sysVars, active, closed, threw>>

\* Mutant: the socket is closed at end of file and once more by run().
ReadEofClosesTwice(c) ==
  /\ wPc[c] = "read"
  /\ AtEof(c)
  /\ GoTo(c, "onDisconnect")
  /\ Close(c)
  /\ UNCHANGED <<listening, backlog, link, sockFd, quit, active, closed, threw>>

\* NUM_EOF: break.
ReadEof(c) ==
  /\ wPc[c] = "read"
  /\ AtEof(c)
  /\ GoTo(c, "onDisconnect")
  /\ UNCHANGED <<sysVars, active, closed, threw>>

\* NUM_CONTINUE (EINTR, EWOULDBLOCK): continue.
ReadContinue(c) ==
  /\ wPc[c] = "read"
  /\ GoTo(c, "test")
  /\ UNCHANGED <<sysVars, active, closed, threw>>

ReadThrows(c) ==
  /\ wPc[c] = "read"
  /\ IoThrows(c)
  /\ Throw(c)
  /\ UNCHANGED sysVars

OnReceive(c) ==
  /\ wPc[c] = "onReceive"
  /\ Callback(c, "test")
  /\ UNCHANGED sysVars

OnDisconnect(c) ==
  /\ wPc[c] = "onDisconnect"
  /\ Callback(c, "close")
  /\ UNCHANGED sysVars

\* Mutant: run() ends without closing its socket.
CloseSocketForgotten(c) ==
  /\ wPc[c] = "close"
  /\ GoTo(c, "deactivate")
  /\ UNCHANGED <<sysVars, active, closed, threw>>

CloseSocket(c) ==
  /\ wPc[c] = "close"
  /\ Close(c)
  /\ GoTo(c, "deactivate")
  /\ UNCHANGED <<listening, backlog, link, sockFd, quit, active, closed, threw>>

\* _isActive = false is the last thing the thread does.
Deactivate(c) ==
  /\ wPc[c] = "deactivate"
  /\ active' = active \ {c}
  /\ GoTo(c, "done")
  /\ UNCHANGED <<sysVars, closed, threw>>

Read(c) == ReadData(c) \/ ReadEof(c) \/ ReadThrows(c)

Run(c) ==
  \/ OnConnect(c)
  \/ LoopTest(c)
  \/ PollReady(c) \/ PollNotReady(c) \/ PollThrows(c)
  \/ Read(c) \/ ReadContinue(c)
  \/ OnReceive(c)
  \/ OnDisconnect(c)
  \/ CloseSocket(c)
  \/ Deactivate(c)

\* The thread exists and has not finished run().
Running(c) == wPc[c] \in RunPoints
=============================================================================
