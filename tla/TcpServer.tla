----------------------------- MODULE TcpServer ------------------------------
(***************************************************************************)
(* Tcp::Server::serve and cleanup (src/tcp/socks_tcp.cpp) on the main      *)
(* thread, composed with the worker threads it starts and joins and with   *)
(* the platform.                                                           *)
(*                                                                         *)
(* The list `workers' owns the ClientWorker objects: what is not in it is  *)
(* destroyed, its handler and Connection with it.  Destroying one whose    *)
(* std::thread has not been joined calls std::terminate, which is what an  *)
(* exception leaving serve() does whenever the list is not empty.          *)
(***************************************************************************)
EXTENDS ClientWorker, FiniteSets

CONSTANT MaxClients  \* ServerOptions::maxClients

ASSUME MaxClientsAssumption == MaxClients \in Nat

VARIABLES
  srvPc,    \* where the main thread is
  cand,     \* clientSocket: the connection just accepted
  workers,  \* the list of client workers
  toVisit,  \* workers the current cleanup or for_each has still to visit
  spent     \* history: workers already inactive when cand was accepted

serverVars == <<srvPc, cand, workers, toVisit, spent>>
vars == <<sysVars, workerVars, serverVars>>

Exited == {"returned", "failed", "aborted"}
ServerPoints == {"start", "spin", "loop", "accept", "cleanup", "finish"} \cup Exited

ServerTypeOK ==
  /\ srvPc \in ServerPoints
  /\ cand \in Conns \cup {None}
  /\ srvPc = "cleanup" => cand \in Conns
  /\ workers \in SUBSET Conns
  /\ toVisit \in SUBSET workers
  /\ spent \in SUBSET Conns

Init ==
  /\ SystemInit
  /\ WorkerInit
  /\ srvPc = "start"
  /\ cand = None
  /\ workers = {}
  /\ toVisit = {}
  /\ spent = {}

-----------------------------------------------------------------------------
\* An exception leaves serve(): the listen socket and the list are destroyed.
Unwind ==
  /\ srvPc' = IF workers = {} THEN "failed" ELSE "aborted"
  /\ listening' = FALSE
  /\ UNCHANGED <<cand, workers, toVisit, spent>>

\* A failing fcntl() is met by an exception that is made and not thrown, and
\* is tried again (setSocketFlags): createListenSocket does not return.
CreateListenSocket ==
  /\ srvPc = "start"
  /\ \/ /\ srvPc' = "loop"
        /\ listening' = TRUE
        /\ UNCHANGED <<cand, workers, toVisit, spent>>
     \/ "listen" \in Faults /\ Unwind
     \/ /\ "flags" \in Faults
        /\ srvPc' = "spin"
        /\ UNCHANGED <<listening, cand, workers, toVisit, spent>>
  /\ UNCHANGED <<backlog, link, unread, fdTable, sockFd, quit, workerVars>>

\* The loop around fcntl() goes on.
Spin == srvPc = "spin" /\ UNCHANGED vars

ServeTest ==
  /\ srvPc = "loop"
  /\ \/ /\ ~quit
        /\ srvPc' = "accept"
        /\ UNCHANGED toVisit
     \/ /\ quit
        /\ srvPc' = "finish"
        /\ toVisit' = workers
  /\ UNCHANGED <<sysVars, workerVars, cand, workers, spent>>

\* accept() returns null: nobody is waiting, or the call was interrupted.
AcceptNone ==
  /\ srvPc = "accept"
  /\ srvPc' = "loop"
  /\ UNCHANGED <<sysVars, workerVars, cand, workers, toVisit, spent>>

\* Mutant: serve() does not call cleanup() before it counts.
AcceptWithoutCleanup(c) ==
  /\ srvPc = "accept"
  /\ c \in backlog
  /\ \E f \in FreeFds : Accepted(c, f)
  /\ srvPc' = "cleanup"
  /\ cand' = c
  /\ toVisit' = {}
  /\ spent' = workers \ active
  /\ UNCHANGED <<listening, link, unread, quit, workerVars, workers>>

Accept(c) ==
  /\ srvPc = "accept"
  /\ c \in backlog
  /\ \E f \in FreeFds : Accepted(c, f)
  /\ srvPc' = "cleanup"
  /\ cand' = c
  /\ toVisit' = workers
  /\ spent' = workers \ active
  /\ UNCHANGED <<listening, link, unread, quit, workerVars, workers>>

\* poll() or ::accept() fails, in particular with EMFILE.
AcceptThrows ==
  /\ srvPc = "accept"
  /\ "accept" \in Faults \/ (backlog # {} /\ FreeFds = {})
  /\ Unwind
  /\ UNCHANGED <<backlog, link, unread, fdTable, sockFd, quit, workerVars>>

\* setTcpNoDelay throws in the constructor of SocketImpl: the descriptor is
\* open and no socket object knows it.
NoDelayThrows(c) ==
  /\ srvPc = "accept"
  /\ "nodelay" \in Faults
  /\ c \in backlog
  /\ \E f \in FreeFds : fdTable' = [fdTable EXCEPT ![f] = c]
  /\ backlog' = backlog \ {c}
  /\ Unwind
  /\ UNCHANGED <<link, unread, sockFd, quit, workerVars>>

\* Mutant: cleanup() joins and removes every worker it visits.
CleanupVisitJoinsAll(w) ==
  /\ srvPc = "cleanup"
  /\ w \in toVisit
  /\ wPc[w] = "done"
  /\ workers' = workers \ {w}
  /\ toVisit' = toVisit \ {w}
  /\ UNCHANGED <<sysVars, workerVars, srvPc, cand, spent>>

\* Mutant: cleanup() removes workers that are still active.
CleanupVisitInverted(w) ==
  /\ srvPc = "cleanup"
  /\ w \in toVisit
  /\ \/ w \notin active /\ UNCHANGED workers
     \/ w \in active /\ workers' = workers \ {w}
  /\ toVisit' = toVisit \ {w}
  /\ UNCHANGED <<sysVars, workerVars, srvPc, cand, spent>>

\* cleanup() looks at one worker: an active one is kept, an inactive one is
\* joined, which waits for the thread to be over, and removed.
CleanupVisit(w) ==
  /\ srvPc = "cleanup"
  /\ w \in toVisit
  /\ \/ w \in active /\ UNCHANGED workers
     \/ w \notin active /\ wPc[w] = "done" /\ workers' = workers \ {w}
  /\ toVisit' = toVisit \ {w}
  /\ UNCHANGED <<sysVars, workerVars, srvPc, cand, spent>>

CleanedUp == srvPc = "cleanup" /\ toVisit = {}

\* Mutant: the limit is compared with <= instead of <.
AdmitOneTooMany ==
  /\ CleanedUp
  /\ Cardinality(workers) <= MaxClients
  /\ Start(cand)
  /\ workers' = workers \cup {cand}
  /\ cand' = None
  /\ srvPc' = "loop"
  /\ UNCHANGED <<sysVars, toVisit, spent>>

\* createServerHandler and emplace_back: the worker's thread starts.
Admit ==
  /\ CleanedUp
  /\ Cardinality(workers) < MaxClients
  /\ Start(cand)
  /\ workers' = workers \cup {cand}
  /\ cand' = None
  /\ srvPc' = "loop"
  /\ UNCHANGED <<sysVars, toVisit, spent>>

\* The factory or the std::thread constructor throws.
SpawnThrows ==
  /\ CleanedUp
  /\ Cardinality(workers) < MaxClients
  /\ "spawn" \in Faults
  /\ Unwind
  /\ UNCHANGED <<backlog, link, unread, fdTable, sockFd, quit, workerVars>>

\* "No more connections allowed.": one write whose result is ignored, and
\* the socket object goes away without closing its descriptor.
Reject ==
  /\ CleanedUp
  /\ Cardinality(workers) >= MaxClients
  /\ \/ /\ ~IoThrows(cand)
        /\ srvPc' = "loop"
        /\ cand' = None
        /\ UNCHANGED <<listening, workers, toVisit, spent>>
     \/ IoThrows(cand) /\ Unwind
  /\ UNCHANGED <<backlog, link, unread, fdTable, sockFd, quit, workerVars>>

\* Mutant: the final for_each does not wait for the threads.
FinishVisitDetaches(w) ==
  /\ srvPc = "finish"
  /\ w \in toVisit
  /\ toVisit' = toVisit \ {w}
  /\ UNCHANGED <<sysVars, workerVars, srvPc, cand, workers, spent>>

FinishVisit(w) ==
  /\ srvPc = "finish"
  /\ w \in toVisit
  /\ wPc[w] = "done"
  /\ toVisit' = toVisit \ {w}
  /\ UNCHANGED <<sysVars, workerVars, srvPc, cand, workers, spent>>

\* serve() returns; the joined workers are destroyed.
Return ==
  /\ srvPc = "finish"
  /\ toVisit = {}
  /\ srvPc' = "returned"
  /\ listening' = FALSE
  /\ workers' = {}
  /\ UNCHANGED <<backlog, link, unread, fdTable, sockFd, quit, workerVars,
                 cand, toVisit, spent>>

Serve ==
  \/ CreateListenSocket \/ Spin
  \/ ServeTest
  \/ AcceptNone
  \/ \E c \in Conns : Accept(c) \/ NoDelayThrows(c)
  \/ AcceptThrows
  \/ \E w \in Conns : CleanupVisit(w) \/ FinishVisit(w)
  \/ Admit \/ SpawnThrows \/ Reject
  \/ Return

-----------------------------------------------------------------------------
ProcessAlive == srvPc \notin Exited

\* The process is over; nothing happens any more.
Terminated == ~ProcessAlive /\ UNCHANGED vars

Next ==
  \/ /\ ProcessAlive
     /\ \/ Serve
        \/ \E c \in Conns : Run(c) /\ UNCHANGED serverVars
        \/ Environment /\ UNCHANGED <<workerVars, serverVars>>
  \/ Terminated

Spec == Init /\ [][Next]_vars

\* Threads that can take a step are scheduled.  A waiting connection, and a
\* socket with something to read, are not missed forever: poll() and recv()
\* give up early only when a signal interrupts them.
Fairness ==
  /\ WF_vars(Serve)
  /\ \A c \in Conns :
       /\ SF_vars(Accept(c))
       /\ WF_vars(ProcessAlive /\ Run(c) /\ UNCHANGED serverVars)
       /\ SF_vars(ProcessAlive /\ PollReady(c) /\ UNCHANGED serverVars)
       /\ SF_vars(ProcessAlive /\ Read(c) /\ UNCHANGED serverVars)

FairSpec == Spec /\ Fairness

-----------------------------------------------------------------------------
(* Properties.                                                             *)

\* Every variable has its type.
TypeOK == SystemTypeOK /\ WorkerTypeOK /\ ServerTypeOK

\* maxClients bounds the threads that are serving a client, whatever the
\* order in which workers finish and new connections are admitted
\* (socks_tcp.cpp:34).
ClientLimit == Cardinality({c \in Conns : Running(c)}) <= MaxClients

\* Until it has closed its socket, a worker's descriptor number refers to
\* its own connection: it never polls, reads, writes or closes a descriptor
\* that the kernel has given to a later connection.
OwnDescriptor ==
  \A c \in Conns : wPc[c] \in RunPoints \ {"deactivate"} => Owner(c) = c

\* A running thread's ClientWorker, handler and Connection are still in the
\* list: cleanup() never destroys what a thread is using.
HandlerOutlivesThread == \A c \in Conns : Running(c) => c \in workers

\* When serve() is left without std::terminate, by return or by exception,
\* no worker thread is left: the factory and context on the caller's stack
\* may be destroyed.
NoThreadOutlivesServe ==
  srvPc \in {"returned", "failed"} => \A c \in Conns : ~Running(c)

\* A descriptor that is open although no thread will ever close it belongs
\* to a connection that was turned away, or not yet admitted, or whose worker
\* ended in an exception: these are the only paths that lose descriptors.
LostDescriptors ==
  ProcessAlive =>
    \A f \in Fds : fdTable[f] # None /\ ~Running(fdTable[f]) =>
                     wPc[fdTable[f]] = "none" \/ fdTable[f] \in threw

\* A client is never turned away because of a worker that was already over
\* when the client was accepted.
NoStaleSlot == CleanedUp => spent \cap workers = {}

\* A connection has a socket only after it was accepted, and a thread only
\* after that; the candidate has a socket and no thread.
Fresh ==
  /\ \A c \in backlog : link[c] # "idle"
  /\ \A c \in Conns : link[c] = "idle" \/ c \in backlog => sockFd[c] = None
  /\ \A c \in Conns : sockFd[c] = None => wPc[c] = "none"
  /\ srvPc = "cleanup" => wPc[cand] = "none" /\ Owner(cand) = cand

\* While the process runs, an open descriptor is known to its connection's
\* socket, and to no other connection as its own.
KnownDescriptor ==
  ProcessAlive => \A f \in Fds : fdTable[f] # None => sockFd[fdTable[f]] = f

\* Past its close, a worker holds a descriptor only if it threw.
Released ==
  \A c \in Conns : wPc[c] \in {"deactivate", "done"} /\ Owner(c) = c => c \in threw

\* The list itself never exceeds the limit.
ListWithinLimit == IsFiniteSet(workers) /\ Cardinality(workers) <= MaxClients

\* The final for_each leaves joined workers behind, and what left serve()
\* alive left an empty list.
Joined ==
  /\ srvPc = "finish" => \A w \in workers \ toVisit : ~Running(w)
  /\ srvPc \in {"returned", "failed"} => workers = {}

\* The workers that were over when the candidate was accepted stay so, and
\* cleanup() has still to visit those it has not removed.
Swept ==
  srvPc = "cleanup" => spent \cap workers \subseteq toVisit /\ spent \cap active = {}

\* Between the test and the callback the connection is open, and only the
\* catch block records an exception.
CallbackOrder ==
  \A c \in Conns : /\ wPc[c] \in {"poll", "read", "onReceive"} => c \notin closed
                   /\ c \in threw => wPc[c] \in {"deactivate", "done"}

\* The inductive invariant behind the properties above.
Inductive ==
  /\ Fresh /\ OwnDescriptor /\ KnownDescriptor /\ Released
  /\ HandlerOutlivesThread /\ ListWithinLimit /\ Joined /\ Swept /\ CallbackOrder

\* What the application sees of its handlers.
PhaseOf(c) ==
  CASE wPc[c] = "none" -> "absent"
    [] wPc[c] = "onConnect" -> "created"
    [] wPc[c] = "onReceive" -> "receiving"
    [] wPc[c] \in {"test", "poll", "read", "onDisconnect"} ->
         IF c \in closed THEN "closing" ELSE "idle"
    [] wPc[c] = "close" -> "disconnected"
    [] OTHER -> IF c \notin workers THEN "destroyed"
                ELSE IF c \in threw THEN "failed" ELSE "disconnected"

Lifecycle == INSTANCE HandlerLifecycle WITH phase <- [c \in Conns |-> PhaseOf(c)]

\* The server implements the contract of HandlerLifecycle.
LifecycleSpec == Lifecycle!Spec

\* After SIGINT or SIGTERM serve() ends: every worker leaves its loop and is
\* joined.
ShutdownTerminates == quit ~> ~ProcessAlive

\* Once the peer has closed or reset, the worker's thread ends.
PeerCloseReleases ==
  \A c \in Conns :
    (Running(c) /\ link[c] \in {"fin", "reset"}) ~> (~Running(c) \/ ~ProcessAlive)

\* A client that connects is accepted and then served or turned away: no
\* join inside cleanup() ever blocks the accept loop on a busy worker.
ClientAnswered ==
  \A c \in Conns :
    (c \in backlog \/ cand = c) ~> (c \notin backlog /\ cand # c) \/ quit \/ ~ProcessAlive

\* An error in serve() reaches the caller as an exception, which the
\* documented main() turns into EXIT_FAILURE: the process never dies in
\* std::terminate.
ServeFailureReported == srvPc # "aborted"
=============================================================================
