-------------------------- MODULE TcpServerProofs ---------------------------
(***************************************************************************)
(* Proofs, for any number of connections, descriptors and clients, of the  *)
(* safety properties of TcpServer.  They rest on one inductive invariant,  *)
(* Inductive, whose parts are named after what they say.                   *)
(***************************************************************************)
EXTENDS TcpServer, FiniteSetTheorems, TLAPS

USE SystemAssumption, HandlerAssumption, MaxClientsAssumption

-----------------------------------------------------------------------------
(* Types.                                                                  *)

\* The worker steps keep the types of all variables.
LEMMA RunTypes ==
  ASSUME SystemTypeOK, WorkerTypeOK, NEW c \in Conns, Run(c)
  PROVE  SystemTypeOK' /\ WorkerTypeOK'
<1> USE DEF SystemTypeOK, WorkerTypeOK, GoTo, Throw, RunPoints, LoopPoints, sysVars
<1>1. CASE OnConnect(c)
  BY <1>1 DEF OnConnect, Callback
<1>2. CASE LoopTest(c)
  BY <1>2 DEF LoopTest
<1>3. CASE PollReady(c) \/ PollNotReady(c) \/ PollThrows(c)
  BY <1>3 DEF PollReady, PollNotReady, PollThrows
<1>4. CASE ReadData(c)
  BY <1>4 DEF ReadData, Owner
<1>5. CASE ReadEof(c) \/ ReadContinue(c) \/ ReadThrows(c)
  BY <1>5 DEF ReadEof, ReadContinue, ReadThrows
<1>6. CASE OnReceive(c)
  BY <1>6 DEF OnReceive, Callback
<1>7. CASE OnDisconnect(c)
  BY <1>7 DEF OnDisconnect, Callback
<1>8. CASE CloseSocket(c)
  BY <1>8 DEF CloseSocket, Close
<1>9. CASE Deactivate(c)
  BY <1>9 DEF Deactivate
<1> QED
  BY <1>1, <1>2, <1>3, <1>4, <1>5, <1>6, <1>7, <1>8, <1>9 DEF Run, Read

\* So do the steps of the main thread.
LEMMA ServeTypes ==
  ASSUME TypeOK, Serve
  PROVE  TypeOK'
<1> USE DEF TypeOK, SystemTypeOK, WorkerTypeOK, ServerTypeOK, ServerPoints, Exited,
            sysVars, workerVars, Unwind
<1>1. CASE CreateListenSocket \/ Spin
  BY <1>1 DEF CreateListenSocket, Spin, vars, serverVars
<1>2. CASE ServeTest \/ AcceptNone
  BY <1>2 DEF ServeTest, AcceptNone
<1>3. ASSUME NEW c \in Conns, Accept(c)
      PROVE  TypeOK'
  BY <1>3 DEF Accept, Accepted, FreeFds
<1>4. ASSUME NEW c \in Conns, NoDelayThrows(c)
      PROVE  TypeOK'
  BY <1>4 DEF NoDelayThrows, FreeFds
<1>5. CASE AcceptThrows
  BY <1>5 DEF AcceptThrows
<1>6. ASSUME NEW w \in Conns, CleanupVisit(w) \/ FinishVisit(w)
      PROVE  TypeOK'
  BY <1>6 DEF CleanupVisit, FinishVisit
<1>7. CASE Admit
  BY <1>7 DEF Admit, CleanedUp, Start, RunPoints, LoopPoints
<1>8. CASE SpawnThrows \/ Reject
  BY <1>8 DEF SpawnThrows, Reject
<1>9. CASE Return
  BY <1>9 DEF Return
<1> QED
  BY <1>1, <1>2, <1>3, <1>4, <1>5, <1>6, <1>7, <1>8, <1>9 DEF Serve

\* And so does the environment.
LEMMA EnvironmentTypes ==
  ASSUME SystemTypeOK, Environment
  PROVE  SystemTypeOK'
<1> USE DEF SystemTypeOK
<1>1. ASSUME NEW c \in Conns, PeerConnect(c)
      PROVE  SystemTypeOK'
  BY <1>1 DEF PeerConnect
<1>2. ASSUME NEW c \in Conns, PeerSend(c)
      PROVE  SystemTypeOK'
  BY <1>2 DEF PeerSend
<1>3. ASSUME NEW c \in Conns, PeerFin(c) \/ PeerReset(c)
      PROVE  SystemTypeOK'
  BY <1>3 DEF PeerFin, PeerReset
<1>4. CASE Signal
  BY <1>4 DEF Signal
<1> QED
  BY <1>1, <1>2, <1>3, <1>4 DEF Environment

\* The initial state is type correct.
LEMMA InitTypes ==
  ASSUME Init
  PROVE  TypeOK
<1>1. SystemTypeOK
  BY DEF Init, SystemInit, SystemTypeOK
<1>2. WorkerTypeOK
  BY DEF Init, WorkerInit, WorkerTypeOK
<1>3. ServerTypeOK
  BY DEF Init, ServerTypeOK, ServerPoints
<1> QED
  BY <1>1, <1>2, <1>3 DEF TypeOK

\* Every behaviour of the server is type correct.
THEOREM Typing == Spec => []TypeOK
<1>1. Init => TypeOK
  BY InitTypes
<1>2. TypeOK /\ [Next]_vars => TypeOK'
  <2> SUFFICES ASSUME TypeOK, [Next]_vars
               PROVE  TypeOK'
    OBVIOUS
  <2>1. CASE Serve
    BY <2>1, ServeTypes
  <2>2. ASSUME NEW c \in Conns, Run(c), UNCHANGED serverVars
        PROVE  TypeOK'
    BY <2>2, RunTypes DEF TypeOK, ServerTypeOK, serverVars
  <2>3. CASE Environment /\ UNCHANGED <<workerVars, serverVars>>
    BY <2>3, EnvironmentTypes DEF TypeOK, WorkerTypeOK, ServerTypeOK, workerVars, serverVars
  <2>4. CASE UNCHANGED vars
    BY <2>4 DEF TypeOK, SystemTypeOK, WorkerTypeOK, ServerTypeOK, vars, sysVars, workerVars,
                serverVars
  <2> QED
    BY <2>1, <2>2, <2>3, <2>4 DEF Next, Terminated
<1> QED
  BY <1>1, <1>2, PTL DEF Spec

-----------------------------------------------------------------------------
(* The inductive invariant.                                                *)

\* A worker's step moves only its own program counter and is one of four
\* kinds: it stays before the close, throws, closes, or is the last one.
LEMMA RunKinds ==
  ASSUME WorkerTypeOK, NEW c \in Conns, Run(c)
  PROVE  /\ Running(c)
         /\ UNCHANGED <<listening, backlog, link, sockFd, quit>>
         /\ \A d \in Conns \ {c} : wPc'[d] = wPc[d]
         /\ \/ /\ wPc[c] # "deactivate"
               /\ wPc'[c] \in RunPoints \ {"deactivate"}
               /\ UNCHANGED <<fdTable, active, threw>>
            \/ /\ wPc[c] # "deactivate"
               /\ wPc'[c] = "deactivate"
               /\ threw' = threw \cup {c}
               /\ UNCHANGED <<fdTable, active>>
            \/ /\ wPc[c] = "close"
               /\ wPc'[c] = "deactivate"
               /\ Close(c)
               /\ UNCHANGED <<active, threw>>
            \/ /\ wPc[c] = "deactivate"
               /\ wPc'[c] = "done"
               /\ active' = active \ {c}
               /\ UNCHANGED <<fdTable, threw>>
<1> USE DEF WorkerTypeOK, GoTo, Throw, Running, RunPoints, LoopPoints, sysVars
<1>1. CASE OnConnect(c)
  BY <1>1 DEF OnConnect, Callback
<1>2. CASE LoopTest(c)
  BY <1>2 DEF LoopTest
<1>3. CASE PollReady(c) \/ PollNotReady(c) \/ PollThrows(c)
  BY <1>3 DEF PollReady, PollNotReady, PollThrows
<1>4. CASE ReadData(c)
  BY <1>4 DEF ReadData
<1>5. CASE ReadEof(c) \/ ReadContinue(c) \/ ReadThrows(c)
  BY <1>5 DEF ReadEof, ReadContinue, ReadThrows
<1>6. CASE OnReceive(c)
  BY <1>6 DEF OnReceive, Callback
<1>7. CASE OnDisconnect(c)
  BY <1>7 DEF OnDisconnect, Callback
<1>8. CASE CloseSocket(c)
  BY <1>8 DEF CloseSocket
<1>9. CASE Deactivate(c)
  BY <1>9 DEF Deactivate
<1> QED
  BY <1>1, <1>2, <1>3, <1>4, <1>5, <1>6, <1>7, <1>8, <1>9 DEF Run, Read

\* Callbacks stay in order: nothing is received on a closed connection.
LEMMA RunCallbackOrder ==
  ASSUME WorkerTypeOK, CallbackOrder, NEW c \in Conns, Run(c)
  PROVE  CallbackOrder'
<1> USE DEF WorkerTypeOK, GoTo, Throw, CallbackOrder
<1>1. CASE OnConnect(c) \/ OnReceive(c) \/ OnDisconnect(c)
  BY <1>1 DEF OnConnect, OnReceive, OnDisconnect, Callback
<1>2. CASE LoopTest(c)
  BY <1>2 DEF LoopTest
<1>3. CASE PollReady(c) \/ PollNotReady(c) \/ PollThrows(c)
  BY <1>3 DEF PollReady, PollNotReady, PollThrows
<1>4. CASE ReadData(c) \/ ReadEof(c) \/ ReadContinue(c) \/ ReadThrows(c)
  BY <1>4 DEF ReadData, ReadEof, ReadContinue, ReadThrows
<1>5. CASE CloseSocket(c) \/ Deactivate(c)
  BY <1>5 DEF CloseSocket, Deactivate
<1> QED
  BY <1>1, <1>2, <1>3, <1>4, <1>5 DEF Run, Read

\* The descriptor a worker closes is its own, so no other socket loses one.
LEMMA CloseOwn ==
  ASSUME SystemTypeOK, NEW c \in Conns, Owner(c) = c, Close(c), sockFd' = sockFd
  PROVE  /\ Owner(c)' = None
         /\ \A d \in Conns \ {c} : Owner(d)' = d <=> Owner(d) = d
         /\ \A f \in Fds : fdTable'[f] # None => fdTable'[f] = fdTable[f]
BY DEF SystemTypeOK, Owner, Close

\* Every step of a worker preserves the invariant.
LEMMA RunInductive ==
  ASSUME TypeOK, Inductive, ProcessAlive, NEW c \in Conns, Run(c), UNCHANGED serverVars
  PROVE  Inductive'
<1> USE DEF Inductive, TypeOK, serverVars
<1>1. WorkerTypeOK' /\ SystemTypeOK'
  BY RunTypes
<1>2. c \in workers /\ wPc[c] # "none" /\ sockFd[c] # None
  BY RunKinds DEF HandlerOutlivesThread, Running, Fresh, RunPoints, LoopPoints
<1>3. c # cand \/ srvPc # "cleanup"
  BY <1>2 DEF Fresh
<1>4. \A d \in Conns : d # c => (Owner(d)' = d <=> Owner(d) = d)
  <2>1. CASE fdTable' = fdTable
    BY <2>1, RunKinds DEF Owner
  <2>2. CASE wPc[c] = "close" /\ Close(c)
    BY <2>2, RunKinds, CloseOwn DEF OwnDescriptor, RunPoints
  <2> QED
    BY <2>1, <2>2, RunKinds
<1>5. Fresh'
  BY <1>2, <1>3, <1>4, RunKinds DEF Fresh, ServerTypeOK, SystemTypeOK
<1>6. OwnDescriptor'
  <2>1. CASE wPc'[c] \in RunPoints \ {"deactivate"}
    <3>1. fdTable' = fdTable /\ wPc[c] \in RunPoints \ {"deactivate"}
      BY <2>1, RunKinds DEF Running, RunPoints, LoopPoints
    <3>2. Owner(c)' = c
      BY <3>1, RunKinds DEF OwnDescriptor, Owner
    <3> QED
      BY <1>4, <3>2, RunKinds DEF OwnDescriptor
  <2>2. CASE wPc'[c] \in {"deactivate", "done"}
    BY <1>4, <2>2, RunKinds DEF OwnDescriptor, RunPoints, LoopPoints
  <2> QED
    BY <2>1, <2>2, RunKinds
<1>7. KnownDescriptor'
  BY RunKinds DEF KnownDescriptor, ProcessAlive, Close, SystemTypeOK
<1>8. Released'
  <2>1. Owner(c)' = c /\ wPc'[c] \in {"deactivate", "done"} => c \in threw'
    <3>1. CASE wPc[c] = "close" /\ Close(c)
      BY <3>1, RunKinds, CloseOwn DEF OwnDescriptor, RunPoints
    <3>2. CASE wPc[c] = "deactivate" /\ UNCHANGED <<fdTable, threw>>
      BY <3>2, RunKinds DEF Released, Owner
    <3> QED
      BY <3>1, <3>2, RunKinds DEF RunPoints, LoopPoints
  <2> QED
    BY <1>4, <2>1, RunKinds DEF Released
<1>9. HandlerOutlivesThread'
  BY <1>2, RunKinds DEF HandlerOutlivesThread, Running
<1>10. ListWithinLimit'
  BY DEF ListWithinLimit
<1>11. Joined'
  <2>1. \A d \in Conns : ~Running(d) => ~Running(d)'
    BY RunKinds DEF Running
  <2> QED
    BY <2>1 DEF Joined, ServerTypeOK
<1>12. Swept'
  BY RunKinds DEF Swept
<1>13. CallbackOrder'
  BY RunCallbackOrder
<1> QED
  BY <1>5, <1>6, <1>7, <1>8, <1>9, <1>10, <1>11, <1>12, <1>13

\* A step that leaves the workers' threads and all sockets alone preserves
\* what the invariant says about them.
LEMMA SameSockets ==
  ASSUME Inductive,
         UNCHANGED <<backlog, link, fdTable, sockFd, workerVars>>,
         srvPc' = "cleanup" => srvPc = "cleanup" /\ cand' = cand,
         srvPc \in Exited => srvPc' \in Exited
  PROVE  Fresh' /\ OwnDescriptor' /\ KnownDescriptor' /\ Released' /\ CallbackOrder'
<1> USE DEF Inductive, workerVars
<1>1. Fresh'
  BY DEF Fresh, Owner
<1>2. OwnDescriptor'
  BY DEF OwnDescriptor, Owner
<1>3. KnownDescriptor'
  BY DEF KnownDescriptor, ProcessAlive
<1>4. Released'
  BY DEF Released, Owner
<1>5. CallbackOrder'
  BY DEF CallbackOrder
<1> QED
  BY <1>1, <1>2, <1>3, <1>4, <1>5

\* Leaving serve() by an exception: either the list was empty or the process
\* is dead.
LEMMA UnwindInductive ==
  ASSUME Inductive, ProcessAlive, Unwind, wPc' = wPc
  PROVE  HandlerOutlivesThread' /\ ListWithinLimit' /\ Joined' /\ Swept'
BY DEF Inductive, Unwind, HandlerOutlivesThread, ListWithinLimit, Joined, Swept, Running

\* ::accept() gives the candidate a descriptor that nobody else holds.
LEMMA AcceptInductive ==
  ASSUME TypeOK, Inductive, NEW c \in Conns, Accept(c)
  PROVE  Inductive'
<1> USE DEF Inductive, TypeOK, Accept, Accepted, workerVars
<1>1. PICK f \in FreeFds : Accepted(c, f)
  OBVIOUS
<1>2. f \in Fds /\ fdTable[f] = None /\ sockFd[c] = None /\ wPc[c] = "none" /\ link[c] # "idle"
  BY <1>1 DEF FreeFds, Fresh
<1>3. Owner(c)' = c
  BY <1>1, <1>2 DEF Owner, SystemTypeOK
<1>4. \A d \in Conns \ {c} : Owner(d)' = d <=> Owner(d) = d
  BY <1>1, <1>2 DEF Owner, SystemTypeOK
<1>5. Fresh'
  BY <1>1, <1>2, <1>3 DEF Fresh, SystemTypeOK
<1>6. OwnDescriptor'
  BY <1>3, <1>4 DEF OwnDescriptor
<1>7. KnownDescriptor'
  BY <1>1, <1>2 DEF KnownDescriptor, SystemTypeOK, ProcessAlive, Exited
<1>8. Released'
  BY <1>2, <1>4 DEF Released
<1>9. HandlerOutlivesThread' /\ ListWithinLimit' /\ Joined' /\ Swept'
  BY DEF HandlerOutlivesThread, ListWithinLimit, Joined, Swept, Running, WorkerTypeOK
<1>10. CallbackOrder'
  BY DEF CallbackOrder
<1> QED
  BY <1>5, <1>6, <1>7, <1>8, <1>9, <1>10

\* When setTcpNoDelay throws, a descriptor is lost and serve() is left.
LEMMA NoDelayInductive ==
  ASSUME TypeOK, Inductive, ProcessAlive, NEW c \in Conns, NoDelayThrows(c)
  PROVE  Inductive'
<1> USE DEF Inductive, TypeOK, NoDelayThrows, workerVars
<1>1. PICK f \in FreeFds : fdTable' = [fdTable EXCEPT ![f] = c]
  OBVIOUS
<1>2. f \in Fds /\ fdTable[f] = None /\ sockFd[c] = None /\ wPc[c] = "none"
  BY <1>1 DEF FreeFds, Fresh
<1>3. \A d \in Conns : Owner(d)' = d <=> Owner(d) = d
  BY <1>1, <1>2 DEF Owner, SystemTypeOK
<1>4. srvPc' \in {"failed", "aborted"}
  BY DEF Unwind
<1>5. Fresh'
  BY <1>4 DEF Fresh, SystemTypeOK
<1>6. OwnDescriptor' /\ Released'
  BY <1>3 DEF OwnDescriptor, Released
<1>7. KnownDescriptor'
  BY <1>4 DEF KnownDescriptor, ProcessAlive, Exited
<1>8. CallbackOrder'
  BY DEF CallbackOrder
<1> QED
  BY <1>5, <1>6, <1>7, <1>8, UnwindInductive

\* Starting the candidate's worker keeps the list within the limit.
LEMMA AdmitInductive ==
  ASSUME TypeOK, Inductive, Admit
  PROVE  Inductive'
<1> USE DEF Inductive, TypeOK, Admit, CleanedUp, Start, sysVars
<1>1. cand \in Conns /\ Owner(cand) = cand /\ wPc[cand] = "none"
  BY DEF Fresh, ServerTypeOK
<1>2. wPc'[cand] = "onConnect" /\ \A d \in Conns \ {cand} : wPc'[d] = wPc[d]
  BY <1>1 DEF WorkerTypeOK
<1>3. Fresh'
  BY <1>1, <1>2 DEF Fresh, Owner, SystemTypeOK
<1>4. OwnDescriptor'
  BY <1>1, <1>2 DEF OwnDescriptor, Owner
<1>5. KnownDescriptor'
  BY DEF KnownDescriptor, ProcessAlive, Exited
<1>6. Released'
  BY <1>2 DEF Released, Owner
<1>7. HandlerOutlivesThread'
  BY <1>2 DEF HandlerOutlivesThread, Running
<1>8. ListWithinLimit'
  <2>1. IsFiniteSet(workers) /\ Cardinality(workers) \in Nat
    BY FS_CardinalityType DEF ListWithinLimit
  <2>2. workers' = workers \cup {cand} /\ Cardinality(workers) < MaxClients
    OBVIOUS
  <2> HIDE DEF Admit, Inductive, TypeOK, Start, sysVars
  <2>3. /\ IsFiniteSet(workers \cup {cand})
        /\ Cardinality(workers \cup {cand}) =
             IF cand \in workers THEN Cardinality(workers) ELSE Cardinality(workers) + 1
    BY <2>1, FS_AddElement
  <2> QED
    BY <2>1, <2>2, <2>3 DEF ListWithinLimit
<1>9. Joined' /\ Swept'
  BY DEF Joined, Swept
<1>10. CallbackOrder'
  BY <1>1, <1>2 DEF CallbackOrder
<1> QED
  BY <1>3, <1>4, <1>5, <1>6, <1>7, <1>8, <1>9, <1>10

\* cleanup() removes only workers whose thread is over.
LEMMA CleanupInductive ==
  ASSUME TypeOK, Inductive, NEW w \in Conns, CleanupVisit(w)
  PROVE  Inductive'
<1> USE DEF Inductive, TypeOK, CleanupVisit, sysVars
<1>1. Fresh' /\ OwnDescriptor' /\ KnownDescriptor' /\ Released' /\ CallbackOrder'
  BY SameSockets DEF Exited
<1>2. HandlerOutlivesThread'
  BY DEF HandlerOutlivesThread, Running, RunPoints, LoopPoints, workerVars
<1>3. ListWithinLimit'
  <2>1. IsFiniteSet(workers) /\ Cardinality(workers) \in Nat
    BY FS_CardinalityType DEF ListWithinLimit
  <2>2. workers' \in SUBSET workers
    OBVIOUS
  <2>3. IsFiniteSet(workers') /\ Cardinality(workers') <= Cardinality(workers)
    BY <2>1, <2>2, FS_Subset
  <2>4. Cardinality(workers') \in Nat
    BY <2>3, FS_CardinalityType
  <2> QED
    BY <2>1, <2>3, <2>4 DEF ListWithinLimit
<1>4. Joined' /\ Swept'
  BY DEF Joined, Swept, workerVars
<1> QED
  BY <1>1, <1>2, <1>3, <1>4

\* Every step of the main thread preserves the invariant.
LEMMA ServeInductive ==
  ASSUME TypeOK, Inductive, ProcessAlive, Serve
  PROVE  Inductive'
<1> USE DEF Inductive, TypeOK, sysVars, workerVars
<1>1. CASE CreateListenSocket
  <2>1. Fresh' /\ OwnDescriptor' /\ KnownDescriptor' /\ Released' /\ CallbackOrder'
    BY <1>1, SameSockets DEF CreateListenSocket, Unwind, Exited
  <2>2. HandlerOutlivesThread' /\ ListWithinLimit' /\ Joined' /\ Swept'
    BY <1>1, UnwindInductive DEF CreateListenSocket, HandlerOutlivesThread, Running,
                                 ListWithinLimit, Joined, Swept
  <2> QED
    BY <2>1, <2>2
<1>2. CASE ServeTest \/ AcceptNone \/ Spin
  <2>1. Fresh' /\ OwnDescriptor' /\ KnownDescriptor' /\ Released' /\ CallbackOrder'
    BY <1>2, SameSockets DEF ServeTest, AcceptNone, Spin, Exited, vars, serverVars
  <2>2. HandlerOutlivesThread' /\ ListWithinLimit' /\ Joined' /\ Swept'
    BY <1>2 DEF ServeTest, AcceptNone, Spin, HandlerOutlivesThread, Running, ListWithinLimit,
                Joined, Swept, vars, serverVars
  <2> QED
    BY <2>1, <2>2
<1>3. CASE AcceptThrows \/ SpawnThrows
  <2>1. Fresh' /\ OwnDescriptor' /\ KnownDescriptor' /\ Released' /\ CallbackOrder'
    BY <1>3, SameSockets DEF AcceptThrows, SpawnThrows, Unwind, Exited
  <2> QED
    BY <1>3, <2>1, UnwindInductive DEF AcceptThrows, SpawnThrows
<1>4. CASE Reject
  <2>1. Fresh' /\ OwnDescriptor' /\ KnownDescriptor' /\ Released' /\ CallbackOrder'
    BY <1>4, SameSockets DEF Reject, Unwind, Exited, CleanedUp
  <2>2. HandlerOutlivesThread' /\ ListWithinLimit' /\ Joined' /\ Swept'
    BY <1>4, UnwindInductive DEF Reject, HandlerOutlivesThread, Running, ListWithinLimit,
                                 Joined, Swept
  <2> QED
    BY <2>1, <2>2
<1>5. ASSUME NEW w \in Conns, FinishVisit(w)
      PROVE  Inductive'
  <2>1. Fresh' /\ OwnDescriptor' /\ KnownDescriptor' /\ Released' /\ CallbackOrder'
    BY <1>5, SameSockets DEF FinishVisit, Exited
  <2>2. Joined'
    BY <1>5 DEF FinishVisit, Joined, Running, RunPoints, LoopPoints
  <2>3. HandlerOutlivesThread' /\ ListWithinLimit' /\ Swept'
    BY <1>5 DEF FinishVisit, HandlerOutlivesThread, Running, ListWithinLimit, Swept
  <2> QED
    BY <2>1, <2>2, <2>3
<1>6. CASE Return
  <2>1. Fresh' /\ OwnDescriptor' /\ KnownDescriptor' /\ Released' /\ CallbackOrder'
    BY <1>6, SameSockets DEF Return, Exited
  <2>2. HandlerOutlivesThread'
    BY <1>6 DEF Return, Joined, HandlerOutlivesThread, Running
  <2>3. ListWithinLimit'
    BY <1>6, FS_EmptySet DEF Return, ListWithinLimit
  <2>4. Joined' /\ Swept'
    BY <1>6 DEF Return, Joined, Swept
  <2> QED
    BY <2>1, <2>2, <2>3, <2>4
<1> QED
  BY <1>1, <1>2, <1>3, <1>4, <1>5, <1>6, AcceptInductive, NoDelayInductive, AdmitInductive,
     CleanupInductive DEF Serve

\* The peers and signals change neither threads nor descriptors.
LEMMA EnvironmentInductive ==
  ASSUME TypeOK, Inductive, Environment, UNCHANGED <<workerVars, serverVars>>
  PROVE  Inductive'
<1> USE DEF Inductive, TypeOK, workerVars, serverVars
<1>1. UNCHANGED <<fdTable, sockFd>>
  BY DEF Environment, PeerConnect, PeerSend, PeerFin, PeerReset, Signal
<1>2. Fresh'
  <2>1. ASSUME NEW c \in Conns, PeerConnect(c)
        PROVE  Fresh'
    BY <1>1, <2>1 DEF PeerConnect, Fresh, Owner, SystemTypeOK
  <2>2. ASSUME NEW c \in Conns, PeerFin(c) \/ PeerReset(c)
        PROVE  Fresh'
    BY <1>1, <2>2 DEF PeerFin, PeerReset, Fresh, Owner, SystemTypeOK
  <2>3. ASSUME UNCHANGED <<backlog, link>>
        PROVE  Fresh'
    BY <1>1, <2>3 DEF Fresh, Owner
  <2> QED
    BY <2>1, <2>2, <2>3 DEF Environment, PeerSend, Signal
<1>3. OwnDescriptor' /\ KnownDescriptor' /\ Released'
  BY <1>1 DEF OwnDescriptor, KnownDescriptor, Released, Owner, ProcessAlive
<1>4. HandlerOutlivesThread' /\ ListWithinLimit' /\ Joined' /\ Swept'
  BY DEF HandlerOutlivesThread, ListWithinLimit, Joined, Swept, Running
<1>5. CallbackOrder'
  BY DEF CallbackOrder
<1> QED
  BY <1>2, <1>3, <1>4, <1>5

-----------------------------------------------------------------------------
(* The theorems.                                                           *)

\* The invariant holds initially.
LEMMA InitInductive ==
  ASSUME Init
  PROVE  Inductive
<1>1. Fresh /\ OwnDescriptor /\ KnownDescriptor /\ Released /\ HandlerOutlivesThread
  BY DEF Init, SystemInit, WorkerInit, Fresh, OwnDescriptor, KnownDescriptor, Released,
         HandlerOutlivesThread, Running, RunPoints, LoopPoints
<1>2. ListWithinLimit
  BY FS_EmptySet DEF Init, ListWithinLimit
<1>3. Joined /\ Swept /\ CallbackOrder
  BY DEF Init, WorkerInit, Joined, Swept, CallbackOrder
<1> QED
  BY <1>1, <1>2, <1>3 DEF Inductive

\* The invariant holds in every reachable state.
THEOREM InductiveInvariant == Spec => []Inductive
<1>1. Init => Inductive
  BY InitInductive
<1>2. TypeOK /\ Inductive /\ [Next]_vars => Inductive'
  <2> SUFFICES ASSUME TypeOK, Inductive, [Next]_vars
               PROVE  Inductive'
    OBVIOUS
  <2>1. CASE UNCHANGED vars
    BY <2>1 DEF vars, sysVars, workerVars, serverVars, Inductive, Fresh, OwnDescriptor,
                KnownDescriptor, Released, HandlerOutlivesThread, ListWithinLimit, Joined,
                Swept, CallbackOrder, Owner, Running, ProcessAlive
  <2> QED
    BY <2>1, ServeInductive, RunInductive, EnvironmentInductive DEF Next, Terminated
<1> QED
  BY <1>1, <1>2, Typing, PTL DEF Spec

\* No worker ever works on another connection's descriptor.
THEOREM DescriptorSafety == Spec => []OwnDescriptor
BY InductiveInvariant, PTL DEF Inductive

\* cleanup() never destroys a handler that a thread is using.
THEOREM HandlerSafety == Spec => []HandlerOutlivesThread
BY InductiveInvariant, PTL DEF Inductive

\* No more than maxClients threads serve clients at any time.
THEOREM Limit == Spec => []ClientLimit
<1>1. Inductive => ClientLimit
  <2> SUFFICES ASSUME Inductive PROVE ClientLimit
    OBVIOUS
  <2> DEFINE R == {c \in Conns : Running(c)}
  <2>1. R \in SUBSET workers /\ IsFiniteSet(workers)
    BY DEF Inductive, HandlerOutlivesThread, ListWithinLimit
  <2>2. IsFiniteSet(R) /\ Cardinality(R) <= Cardinality(workers)
    BY <2>1, FS_Subset
  <2>3. Cardinality(R) \in Nat /\ Cardinality(workers) \in Nat
    BY <2>1, <2>2, FS_CardinalityType
  <2> HIDE DEF R
  <2>4. Cardinality(R) <= MaxClients
    BY <2>2, <2>3 DEF Inductive, ListWithinLimit
  <2> QED
    BY <2>4 DEF R, ClientLimit
<1> QED
  BY <1>1, InductiveInvariant, PTL

\* A caller that gets control back from serve() finds no worker thread.
THEOREM CleanExit == Spec => []NoThreadOutlivesServe
<1>1. Inductive => NoThreadOutlivesServe
  BY DEF Inductive, Joined, HandlerOutlivesThread, NoThreadOutlivesServe
<1> QED
  BY <1>1, InductiveInvariant, PTL

\* Descriptors are lost only with rejected clients and failed workers.
THEOREM DescriptorAccounting == Spec => []LostDescriptors
<1>1. TypeOK /\ Inductive => LostDescriptors
  BY DEF TypeOK, SystemTypeOK, WorkerTypeOK, Inductive, KnownDescriptor, Released, Owner,
         Running, RunPoints, LoopPoints, LostDescriptors
<1> QED
  BY <1>1, Typing, InductiveInvariant, PTL

\* The decision to turn a client away never counts a worker that was already
\* over when the client was accepted.
THEOREM FreshCount == Spec => []NoStaleSlot
<1>1. Inductive => NoStaleSlot
  BY DEF Inductive, Swept, NoStaleSlot, CleanedUp
<1> QED
  BY <1>1, InductiveInvariant, PTL
=============================================================================
