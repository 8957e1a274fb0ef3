-------------------------- MODULE PushServerProofs --------------------------
(***************************************************************************)
(* The safety properties of the push server, for any number of             *)
(* connections, descriptors and clients, and whatever the workers'         *)
(* callbacks may do.  The server's own invariant, Inductive, still holds   *)
(* with the pusher beside it; Registration adds what the mutex protects.   *)
(***************************************************************************)
EXTENDS PushServer, LifecycleProofs

-----------------------------------------------------------------------------
(* The server's invariant under the pusher.                                *)

\* A step of the push server is one of the server, the workers or the peers,
\* or leaves all of these alone.
LEMMA PushSteps ==
  ASSUME [PushNext]_allVars
  PROVE  \/ ProcessOver /\ UNCHANGED allVars
         \/ UNCHANGED allVars
         \/ ~ProcessOver /\ Pusher /\ UNCHANGED vars
         \/ ~ProcessOver /\ Serve /\ UNCHANGED pushVars
         \/ ~ProcessOver /\ \E c \in Conns : PushRun(c)
         \/ ~ProcessOver /\ Environment /\ UNCHANGED <<workerVars, serverVars, pushVars>>
BY DEF PushNext, Pusher, PusherTest, PusherLock, PusherSend, PusherThrows, PusherDangles,
       PusherUnlock, PusherSleep

\* A worker of the push server takes a step of an ordinary worker.
LEMMA PushRunIsRun ==
  ASSUME NEW c \in Conns, PushRun(c)
  PROVE  Run(c) /\ UNCHANGED serverVars
BY DEF PushRun, PushOnConnect, PushOnReceive, PushOnDisconnect, Internal, Run

\* The main thread takes steps, and workers exist, only while serve() runs.
LEMMA AliveSteps ==
  ASSUME Inductive
  PROVE  /\ Serve => ProcessAlive
         /\ \A c \in Conns : WorkerTypeOK /\ srvPc # "aborted" /\ Run(c) => ProcessAlive
<1>1. Serve => ProcessAlive
  BY DEF Serve, CreateListenSocket, ServeTest, AcceptNone, Accept, NoDelayThrows, AcceptThrows,
         CleanupVisit, FinishVisit, Admit, SpawnThrows, Reject, CleanedUp, Return, Spin,
         ProcessAlive, Exited
<1>2. ASSUME NEW c \in Conns, WorkerTypeOK, srvPc # "aborted", Run(c)
      PROVE  ProcessAlive
  <2>1. Running(c)
    BY <1>2, RunKinds
  <2> QED
    BY <1>2, <2>1 DEF Inductive, HandlerOutlivesThread, Joined, ProcessAlive, Exited
<1> QED
  BY <1>1, <1>2

\* Types and the server's invariant are kept by every step.
LEMMA ServerStep ==
  ASSUME PushTypeOK, Inductive, [PushNext]_allVars
  PROVE  TypeOK' /\ Inductive'
<1> USE DEF PushTypeOK
<1>1. CASE UNCHANGED vars
  BY <1>1 DEF vars, sysVars, workerVars, serverVars, Inductive, Fresh, OwnDescriptor,
              KnownDescriptor, Released, HandlerOutlivesThread, ListWithinLimit, Joined,
              Swept, CallbackOrder, Owner, Running, ProcessAlive, TypeOK, SystemTypeOK,
              WorkerTypeOK, ServerTypeOK
<1>2. CASE Serve
  BY <1>2, AliveSteps, ServeTypes, ServeInductive
<1>3. ASSUME NEW c \in Conns, PushRun(c), ~ProcessOver
      PROVE  TypeOK' /\ Inductive'
  <2>1. Run(c) /\ UNCHANGED serverVars
    BY <1>3, PushRunIsRun
  <2>2. ProcessAlive
    BY <1>3, <2>1, AliveSteps DEF ProcessOver, TypeOK
  <2>3. TypeOK'
    BY <2>1, RunTypes DEF TypeOK, ServerTypeOK, serverVars
  <2> QED
    BY <2>1, <2>2, <2>3, RunInductive
<1>4. CASE Environment /\ UNCHANGED <<workerVars, serverVars>>
  <2>1. TypeOK'
    BY <1>4, EnvironmentTypes DEF TypeOK, WorkerTypeOK, ServerTypeOK, workerVars, serverVars
  <2> QED
    BY <1>4, <2>1, EnvironmentInductive
<1> QED
  BY <1>1, <1>2, <1>3, <1>4, PushSteps DEF allVars

-----------------------------------------------------------------------------
(* What the mutex protects.                                                *)

\* Where a worker is between the insertion and the removal of its connection.
RegisteredPoints == LoopPoints \cup {"onDisconnect"}

\* A registered connection has a worker between the two callbacks, or one that
\* has thrown; and a worker between the two is registered.
Registered ==
  /\ \A c \in connections : wPc[c] \in RegisteredPoints \/ c \in threw
  /\ \A c \in Conns : wPc[c] \in RegisteredPoints => c \in connections

\* The pusher has still to reach connections that are registered; between its
\* rounds there are none.
RoundOfRegistered ==
  /\ pending \subseteq connections
  /\ pPc \notin {"push", "terminated"} => pending = {}

\* A worker that throws never closes its descriptor, and nobody else does.
Leaked == \A c \in threw : Owner(c) = c

Registration == Registered /\ RoundOfRegistered /\ Leaked /\ TerminatedOnlyByReset

\* What the invariants say of the connections the pusher can reach.
LEMMA Reachable ==
  ASSUME PushTypeOK, Inductive, Registration
  PROVE  PushReachesOwnClient /\ DanglingOnlyAfterThrow
<1>1. \A c \in connections : c \in threw \/ (Running(c) /\ wPc[c] # "deactivate")
  BY DEF Registration, Registered, RegisteredPoints, Running, RunPoints, LoopPoints
<1>2. \A c \in connections : Owner(c) = c
  BY <1>1 DEF PushTypeOK, Registration, Leaked, Inductive, OwnDescriptor, Running
<1>3. \A c \in connections : c \in workers \/ c \in threw
  BY <1>1 DEF PushTypeOK, Inductive, HandlerOutlivesThread
<1> QED
  BY <1>2, <1>3 DEF Registration, RoundOfRegistered, PushReachesOwnClient, DanglingOnlyAfterThrow

\* A worker's step: it enters and leaves the set where its callbacks do, and
\* takes its connection with it only by throwing.
LEMMA WorkerRegistration ==
  ASSUME PushTypeOK, Inductive, Registration, ~ProcessOver, NEW c \in Conns, PushRun(c)
  PROVE  Registration'
<1> USE DEF PushTypeOK, TypeOK
<1>1. Run(c) /\ UNCHANGED serverVars
  BY PushRunIsRun
<1>2. WorkerTypeOK' /\ SystemTypeOK'
  BY <1>1, RunTypes
<1>3. UNCHANGED <<pPc, pending, link>>
  BY <1>1, RunKinds DEF PushRun, PushOnConnect, PushOnReceive, PushOnDisconnect, Internal, pushVars
<1>4. threw \subseteq threw'
  BY <1>1, RunKinds
<1>5. Registered'
  <2> USE DEF GoTo, Throw, RegisteredPoints, LoopPoints, Registered, WorkerTypeOK
  <2>0. Registered
    BY DEF Registration
  <2>1. CASE PushOnConnect(c)
    BY <2>0, <2>1 DEF PushOnConnect, OnConnect, Callback
  <2>2. CASE PushOnReceive(c)
    BY <2>0, <2>2 DEF PushOnReceive, OnReceive, Callback, pushVars
  <2>3. CASE PushOnDisconnect(c)
    BY <2>0, <2>3 DEF PushOnDisconnect, OnDisconnect, Callback
  <2>4. CASE Internal(c)
    <3>1. connections' = connections /\ \A d \in Conns \ {c} : wPc'[d] = wPc[d]
      BY <1>1, <2>4, RunKinds DEF Internal, pushVars
    <3>2. CASE LoopTest(c) \/ PollReady(c) \/ PollNotReady(c) \/ PollThrows(c)
      BY <2>0, <3>1, <3>2 DEF LoopTest, PollReady, PollNotReady, PollThrows
    <3>3. CASE Read(c) \/ ReadContinue(c)
      BY <2>0, <3>1, <3>3 DEF Read, ReadData, ReadEof, ReadContinue, ReadThrows
    <3>4. CASE CloseSocket(c) \/ Deactivate(c)
      BY <2>0, <3>1, <3>4 DEF CloseSocket, Deactivate
    <3> QED
      BY <2>4, <3>2, <3>3, <3>4 DEF Internal, Run, OnConnect, OnReceive, OnDisconnect
  <2> QED
    BY <2>1, <2>2, <2>3, <2>4 DEF PushRun
<1>6. RoundOfRegistered'
  <2>1. CASE PushOnDisconnect(c)
    BY <1>3, <2>1 DEF Registration, RoundOfRegistered, PushOnDisconnect, MutexFree, ProcessOver
  <2>2. CASE ~PushOnDisconnect(c)
    BY <1>3, <2>2 DEF Registration, RoundOfRegistered, PushRun, PushOnConnect, PushOnReceive,
                      Internal, pushVars
  <2> QED
    BY <2>1, <2>2
<1>7. Leaked'
  <2>1. sockFd' = sockFd
    BY <1>1, RunKinds
  <2>2. CASE fdTable' = fdTable /\ threw' = threw
    BY <2>1, <2>2 DEF Registration, Leaked, Owner
  <2>3. CASE fdTable' = fdTable /\ threw' = threw \cup {c} /\ wPc[c] # "deactivate"
    <3>1. Owner(c) = c
      BY <1>1, <2>3, RunKinds DEF Inductive, OwnDescriptor, Running
    <3> QED
      BY <2>1, <2>3, <3>1 DEF Registration, Leaked, Owner
  <2>4. CASE wPc[c] = "close" /\ Close(c) /\ threw' = threw
    <3>1. Owner(c) = c /\ c \notin threw
      BY <2>4 DEF Inductive, OwnDescriptor, CallbackOrder, RunPoints
    <3>2. \A d \in Conns \ {c} : Owner(d)' = d <=> Owner(d) = d
      BY <2>1, <2>4, <3>1, CloseOwn
    <3> QED
      BY <2>4, <3>1, <3>2 DEF Registration, Leaked, WorkerTypeOK
  <2> QED
    BY <1>1, <2>2, <2>3, <2>4, RunKinds
<1>8. TerminatedOnlyByReset'
  BY <1>3, <1>4 DEF Registration, TerminatedOnlyByReset
<1> QED
  BY <1>5, <1>6, <1>7, <1>8 DEF Registration

\* The main thread hands out free descriptors only, and starts a worker only
\* for a connection that never had one.
LEMMA ServeRegistration ==
  ASSUME PushTypeOK, Inductive, Registration, Serve, UNCHANGED pushVars
  PROVE  Registration'
<1> USE DEF PushTypeOK, TypeOK, pushVars
<1>1. UNCHANGED <<link, threw>>
  BY DEF Serve, CreateListenSocket, ServeTest, AcceptNone, Accept, NoDelayThrows, AcceptThrows,
         CleanupVisit, FinishVisit, Admit, SpawnThrows, Reject, Return, Spin, Start, Unwind,
         vars, sysVars, workerVars
<1>2. Registered'
  <2>1. CASE Admit
    <3>1. cand \in Conns /\ wPc[cand] = "none"
      BY <2>1 DEF Admit, CleanedUp, ServerTypeOK, Inductive, Fresh
    <3>2. cand \notin connections
      BY <3>1 DEF Registration, Registered, RegisteredPoints, LoopPoints, Inductive, CallbackOrder
    <3>3. \A c \in Conns \ {cand} : wPc'[c] = wPc[c]
      BY <2>1 DEF Admit, Start, WorkerTypeOK
    <3>4. wPc'[cand] \notin RegisteredPoints
      BY <2>1, <3>1 DEF Admit, Start, WorkerTypeOK, RegisteredPoints, LoopPoints
    <3> QED
      BY <1>1, <3>2, <3>3, <3>4 DEF Registration, Registered
  <2>2. CASE wPc' = wPc
    BY <1>1, <2>2 DEF Registration, Registered
  <2> QED
    BY <2>1, <2>2
       DEF Serve, CreateListenSocket, ServeTest, AcceptNone, Accept, NoDelayThrows, AcceptThrows,
           CleanupVisit, FinishVisit, SpawnThrows, Reject, Return, Spin, vars, workerVars
<1>3. Leaked'
  <2>0. \A d \in threw : d \in Conns /\ sockFd[d] \in Fds /\ fdTable[sockFd[d]] = d /\ d # None
    <3>1. \A d \in threw : d \in Conns /\ d # None /\ Owner(d) = d
      BY SystemAssumption DEF SystemAssumption, Registration, Leaked, WorkerTypeOK
    <3> QED
      BY <3>1 DEF Owner
  <2>1. ASSUME NEW c \in Conns, Accept(c)
        PROVE  Leaked'
    <3>1. PICK f \in FreeFds : Accepted(c, f)
      BY <2>1 DEF Accept
    <3>2. sockFd[c] = None
      BY <2>1 DEF Accept, Inductive, Fresh
    <3>3. c \notin threw
      BY <3>2 DEF Inductive, Fresh, CallbackOrder
    <3>4. \A d \in threw : sockFd'[d] = sockFd[d] /\ fdTable'[sockFd[d]] = fdTable[sockFd[d]]
      BY <2>0, <3>1, <3>3 DEF Accepted, FreeFds, SystemTypeOK
    <3> QED
      BY <1>1, <2>0, <3>4 DEF Leaked, Owner
  <2>2. ASSUME NEW c \in Conns, NoDelayThrows(c)
        PROVE  Leaked'
    <3>1. PICK f \in FreeFds : fdTable' = [fdTable EXCEPT ![f] = c]
      BY <2>2 DEF NoDelayThrows
    <3>2. \A d \in threw : sockFd'[d] = sockFd[d] /\ fdTable'[sockFd[d]] = fdTable[sockFd[d]]
      BY <2>0, <2>2, <3>1 DEF NoDelayThrows, FreeFds, SystemTypeOK
    <3> QED
      BY <1>1, <2>0, <3>2 DEF Leaked, Owner
  <2>3. CASE UNCHANGED <<fdTable, sockFd>>
    BY <1>1, <2>3 DEF Registration, Leaked, Owner
  <2> QED
    BY <2>1, <2>2, <2>3
       DEF Serve, CreateListenSocket, ServeTest, AcceptNone, AcceptThrows, CleanupVisit,
           FinishVisit, Admit, SpawnThrows, Reject, Return, Spin, vars, sysVars
<1>4. RoundOfRegistered' /\ TerminatedOnlyByReset'
  BY <1>1 DEF Registration, RoundOfRegistered, TerminatedOnlyByReset
<1> QED
  BY <1>2, <1>3, <1>4 DEF Registration

\* The pusher takes the set as it is under the mutex, and a call of send() ends
\* the process only for a client that has reset or a worker that has thrown.
LEMMA PusherRegistration ==
  ASSUME PushTypeOK, Inductive, Registration, ~ProcessOver, Pusher, UNCHANGED vars
  PROVE  Registration'
<1> USE DEF PushTypeOK
<1>1. Registered' /\ Leaked'
  BY DEF Registration, Registered, Leaked, Owner, vars, sysVars, workerVars, Pusher, PusherTest,
         PusherLock, PusherSend, PusherThrows, PusherDangles, PusherUnlock, PusherSleep
<1>2. pPc # "terminated"
  BY DEF ProcessOver
<1>3. RoundOfRegistered'
  BY <1>2 DEF Registration, RoundOfRegistered, Pusher, PusherTest, PusherLock, PusherSend,
              PusherThrows, PusherDangles, PusherUnlock, PusherSleep
<1>4. TerminatedOnlyByReset'
  <2>0. PushReachesOwnClient /\ DanglingOnlyAfterThrow
    BY Reachable
  <2>1. ASSUME NEW c \in Conns, PusherThrows(c)
        PROVE  TerminatedOnlyByReset'
    <3>1. Owner(c) = c /\ c # None
      BY <2>0, <2>1, SystemAssumption DEF SystemAssumption, PusherThrows, PushReachesOwnClient
    <3>2. link[c] = "reset"
      BY <2>1, <3>1 DEF PusherThrows, IoThrows
    <3> QED
      BY <2>1, <3>2 DEF PusherThrows, TerminatedOnlyByReset, vars, sysVars
  <2>2. ASSUME NEW c \in Conns, PusherDangles(c)
        PROVE  TerminatedOnlyByReset'
    <3>1. c \in threw
      BY <2>0, <2>2 DEF PusherDangles, DanglingOnlyAfterThrow
    <3> QED
      BY <1>2, <2>2, <3>1 DEF PusherDangles, TerminatedOnlyByReset, vars, workerVars
  <2>3. CASE pPc' # "terminated"
    BY <2>3 DEF TerminatedOnlyByReset
  <2> QED
    BY <1>2, <2>1, <2>2, <2>3
       DEF Pusher, PusherTest, PusherLock, PusherSend, PusherUnlock, PusherSleep
<1> QED
  BY <1>1, <1>3, <1>4 DEF Registration

\* The peers reset connections but do not undo it.
LEMMA EnvironmentRegistration ==
  ASSUME PushTypeOK, Registration, Environment, UNCHANGED <<workerVars, serverVars, pushVars>>
  PROVE  Registration'
<1> USE DEF Registration, workerVars, pushVars
<1>1. UNCHANGED <<fdTable, sockFd>>
  BY DEF Environment, PeerConnect, PeerSend, PeerFin, PeerReset, Signal
<1>2. Registered' /\ Leaked' /\ RoundOfRegistered'
  BY <1>1 DEF Registered, Leaked, RoundOfRegistered, Owner
<1>3. \A c \in Conns : link[c] = "reset" => link'[c] = "reset"
  BY DEF Environment, PeerConnect, PeerSend, PeerFin, PeerReset, Signal, PushTypeOK, TypeOK,
         SystemTypeOK
<1>4. TerminatedOnlyByReset'
  BY <1>3 DEF TerminatedOnlyByReset, PushTypeOK
<1> QED
  BY <1>2, <1>4

-----------------------------------------------------------------------------
(* The theorems.                                                           *)

\* All that is known of a reachable state.
PushInvariant == PushTypeOK /\ Inductive /\ Registration

\* The push server keeps the server's invariant and its own.
THEOREM PushInductive == PushSpec => []PushInvariant
<1>1. PushInit => PushInvariant
  <2> SUFFICES ASSUME PushInit PROVE PushInvariant
    OBVIOUS
  <2>1. TypeOK /\ Inductive
    BY InitTypes, InitInductive DEF PushInit
  <2>2. PushTypeOK
    BY <2>1 DEF PushInit, PushTypeOK
  <2>3. Registration
    BY DEF PushInit, Init, WorkerInit, Registration, Registered, RegisteredPoints, LoopPoints,
           RoundOfRegistered, Leaked, TerminatedOnlyByReset
  <2> QED
    BY <2>1, <2>2, <2>3 DEF PushInvariant
<1>2. PushInvariant /\ [PushNext]_allVars => PushInvariant'
  <2> SUFFICES ASSUME PushInvariant, [PushNext]_allVars
               PROVE  PushInvariant'
    OBVIOUS
  <2> USE DEF PushInvariant
  <2>1. TypeOK' /\ Inductive'
    BY ServerStep
  <2>2. PushTypeOK'
    <3>1. UNCHANGED pushVars \/ (\E c \in Conns : PushRun(c)) \/ Pusher
      BY PushSteps DEF allVars
    <3> QED
      BY <2>1, <3>1 DEF PushTypeOK, pushVars, PushRun, PushOnConnect, PushOnReceive,
                        PushOnDisconnect, Internal, Pusher, PusherTest, PusherLock, PusherSend,
                        PusherThrows, PusherDangles, PusherUnlock, PusherSleep
  <2>3. Registration'
    <3>1. CASE UNCHANGED allVars
      BY <3>1 DEF allVars, vars, sysVars, workerVars, pushVars, Registration, Registered,
                  RoundOfRegistered, Leaked, TerminatedOnlyByReset, Owner
    <3> QED
      BY <3>1, PushSteps, WorkerRegistration, ServeRegistration, PusherRegistration,
         EnvironmentRegistration
  <2> QED
    BY <2>1, <2>2, <2>3
<1> QED
  BY <1>1, <1>2, PTL DEF PushSpec

\* The set the pusher works on is the set of clients between their callbacks,
\* and those whose worker has thrown.
THEOREM PushRegistry == PushSpec => []RegistryFollowsCallbacks
<1>1. PushInvariant => RegistryFollowsCallbacks
  <2> SUFFICES ASSUME PushInvariant PROVE RegistryFollowsCallbacks
    OBVIOUS
  <2> USE DEF PushInvariant
  <2>1. \A c \in Conns : wPc[c] \in RegisteredPoints => c \notin threw
    BY DEF Inductive, CallbackOrder, RegisteredPoints, LoopPoints
  <2>2. connections \ threw = {c \in Conns : wPc[c] \in RegisteredPoints}
    BY <2>1 DEF Registration, Registered, PushTypeOK
  <2>3. ASSUME NEW c \in Conns
        PROVE  PhaseOf(c) \in {"idle", "receiving", "closing"} <=> wPc[c] \in RegisteredPoints
    BY DEF PhaseOf, RegisteredPoints, LoopPoints, PushTypeOK, TypeOK, WorkerTypeOK, RunPoints
  <2> QED
    BY <2>2, <2>3 DEF RegistryFollowsCallbacks
<1> QED
  BY <1>1, PushInductive, PTL

\* The pusher never writes to a client other than the one it means, although
\* descriptors are closed and given to later clients while it runs.
THEOREM PushOwnClient == PushSpec => []PushReachesOwnClient
<1>1. PushInvariant => PushReachesOwnClient
  BY Reachable DEF PushInvariant
<1> QED
  BY <1>1, PushInductive, PTL

\* Only a worker that ended in an exception leaves a dangling connection behind.
THEOREM PushDangling == PushSpec => []DanglingOnlyAfterThrow
<1>1. PushInvariant => DanglingOnlyAfterThrow
  BY Reachable DEF PushInvariant
<1> QED
  BY <1>1, PushInductive, PTL

\* A client that leaves in order never makes the pusher end the process.
THEOREM PushTermination == PushSpec => []TerminatedOnlyByReset
BY PushInductive, PTL DEF PushInvariant, Registration

\* With callbacks that wait for the pusher's mutex, and a pusher that goes on
\* when serve() has been left, handlers still get what HandlerLifecycle says.
THEOREM PushRefinement == PushSpec => LifecycleSpec
<1>1. PushInit => Lifecycle!Init
  BY DEF PushInit, Init, WorkerInit, Lifecycle!Init, PhaseOf
<1>2. PushInvariant /\ [PushNext]_allVars => [Lifecycle!Next]_phaseBar
  <2> SUFFICES ASSUME PushInvariant, [PushNext]_allVars
               PROVE  [Lifecycle!Next]_phaseBar
    OBVIOUS
  <2>0. TypeOK /\ Inductive
    BY DEF PushInvariant, PushTypeOK
  <2>1. ASSUME UNCHANGED <<workerVars, serverVars>>
        PROVE  [Lifecycle!Next]_phaseBar
    BY <2>0, <2>1, RemovalRefines DEF TypeOK, serverVars
  <2>2. ASSUME NEW c \in Conns, PushRun(c)
        PROVE  [Lifecycle!Next]_phaseBar
    BY <2>0, <2>2, PushRunIsRun, RunRefines
  <2>3. CASE Serve
    BY <2>0, <2>3, ServeRefines
  <2> QED
    BY <2>1, <2>2, <2>3, PushSteps DEF allVars, vars
<1> QED
  BY <1>1, <1>2, PushInductive, PTL
     DEF PushSpec, LifecycleSpec, Lifecycle!Spec, phaseBar
=============================================================================
