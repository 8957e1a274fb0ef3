-------------------------- MODULE LifecycleProofs ---------------------------
(***************************************************************************)
(* The server implements HandlerLifecycle: every step of TcpServer is a    *)
(* step of the contract, or changes nothing an application's handler can   *)
(* see.                                                                    *)
(***************************************************************************)
EXTENDS TcpServerProofs

phaseBar == [c \in Conns |-> PhaseOf(c)]

\* A step that changes the phase of one connection only is the update that
\* the contract's actions make.
LEMMA OnePhase ==
  ASSUME NEW c \in Conns, \A d \in Conns \ {c} : PhaseOf(d)' = PhaseOf(d)
  PROVE  /\ phaseBar' = [phaseBar EXCEPT ![c] = PhaseOf(c)']
         /\ PhaseOf(c)' = PhaseOf(c) => phaseBar' = phaseBar
BY DEF phaseBar

\* What a worker's step does to the phase of its own connection.
LEMMA RunPhase ==
  ASSUME TypeOK, Inductive, NEW c \in Conns, Run(c), UNCHANGED serverVars
  PROVE  \/ PhaseOf(c)' = PhaseOf(c)
         \/ PhaseOf(c) = "created" /\ PhaseOf(c)' \in {"idle", "closing", "failed"}
         \/ PhaseOf(c) = "idle" /\ PhaseOf(c)' = "receiving"
         \/ PhaseOf(c) = "receiving" /\ PhaseOf(c)' \in {"idle", "closing", "failed"}
         \/ PhaseOf(c) \in {"idle", "closing"} /\ PhaseOf(c)' \in {"disconnected", "failed"}
<1> USE DEF TypeOK, WorkerTypeOK, GoTo, Throw, PhaseOf, serverVars
<1>0. c \in workers
  BY RunKinds DEF Inductive, HandlerOutlivesThread
<1>1. CASE OnConnect(c)
  BY <1>0, <1>1 DEF OnConnect, Callback
<1>2. CASE LoopTest(c)
  BY <1>0, <1>2 DEF LoopTest
<1>3. CASE PollReady(c) \/ PollNotReady(c) \/ PollThrows(c)
  BY <1>0, <1>3 DEF PollReady, PollNotReady, PollThrows, Inductive, CallbackOrder
<1>4. CASE ReadData(c) \/ ReadEof(c) \/ ReadContinue(c) \/ ReadThrows(c)
  BY <1>0, <1>4 DEF ReadData, ReadEof, ReadContinue, ReadThrows, Inductive, CallbackOrder
<1>5. CASE OnReceive(c)
  BY <1>0, <1>5 DEF OnReceive, Callback
<1>6. CASE OnDisconnect(c)
  BY <1>0, <1>6 DEF OnDisconnect, Callback
<1>7. CASE CloseSocket(c) \/ Deactivate(c)
  BY <1>0, <1>7 DEF CloseSocket, Deactivate, Inductive, CallbackOrder
<1> QED
  BY <1>1, <1>2, <1>3, <1>4, <1>5, <1>6, <1>7 DEF Run, Read

\* A worker's step leaves the phases of the other connections alone.
LEMMA RunOthers ==
  ASSUME WorkerTypeOK, NEW c \in Conns, Run(c), UNCHANGED serverVars
  PROVE  \A d \in Conns \ {c} : PhaseOf(d)' = PhaseOf(d)
<1>1. \A d \in Conns \ {c} : d \in closed' <=> d \in closed
  BY DEF Run, Read, OnConnect, LoopTest, PollReady, PollNotReady, PollThrows, ReadData,
         ReadEof, ReadContinue, ReadThrows, OnReceive, OnDisconnect, CloseSocket, Deactivate,
         Callback, Throw
<1>2. \A d \in Conns \ {c} : d \in threw' <=> d \in threw
  BY RunKinds
<1> QED
  BY <1>1, <1>2, RunKinds DEF PhaseOf, serverVars

\* A worker's step is a step of the contract.
LEMMA RunRefines ==
  ASSUME TypeOK, Inductive, NEW c \in Conns, Run(c), UNCHANGED serverVars
  PROVE  [Lifecycle!Next]_phaseBar
<1>1. \A d \in Conns \ {c} : PhaseOf(d)' = PhaseOf(d)
  BY RunOthers DEF TypeOK
<1>2. phaseBar' = [phaseBar EXCEPT ![c] = PhaseOf(c)']
  BY <1>1, OnePhase
<1>3. phaseBar[c] = PhaseOf(c)
  BY DEF phaseBar
<1>4. CASE PhaseOf(c)' = PhaseOf(c)
  BY <1>1, <1>4, OnePhase
<1>5. CASE PhaseOf(c) = "created" /\ PhaseOf(c)' \in {"idle", "closing", "failed"}
  <2>1. Lifecycle!Connect(c)
    BY <1>2, <1>3, <1>5 DEF Lifecycle!Connect, Lifecycle!Step, phaseBar
  <2> QED
    BY <2>1 DEF Lifecycle!Next
<1>6. CASE PhaseOf(c) = "idle" /\ PhaseOf(c)' = "receiving"
  <2>1. Lifecycle!BeginReceive(c)
    BY <1>2, <1>3, <1>6 DEF Lifecycle!BeginReceive, Lifecycle!Step, phaseBar
  <2> QED
    BY <2>1 DEF Lifecycle!Next
<1>7. CASE PhaseOf(c) = "receiving" /\ PhaseOf(c)' \in {"idle", "closing", "failed"}
  <2>1. Lifecycle!EndReceive(c)
    BY <1>2, <1>3, <1>7 DEF Lifecycle!EndReceive, Lifecycle!Step, phaseBar
  <2> QED
    BY <2>1 DEF Lifecycle!Next
<1>8. CASE PhaseOf(c) \in {"idle", "closing"} /\ PhaseOf(c)' \in {"disconnected", "failed"}
  <2>1. Lifecycle!Disconnect(c) \/ Lifecycle!Fail(c)
    BY <1>2, <1>3, <1>8 DEF Lifecycle!Disconnect, Lifecycle!Fail, Lifecycle!Step, phaseBar
  <2> QED
    BY <2>1 DEF Lifecycle!Next
<1> QED
  BY <1>4, <1>5, <1>6, <1>7, <1>8, RunPhase

\* The contract counts the way the server does.
LEMMA SameCardinality ==
  ASSUME NEW T
  PROVE  Lifecycle!Cardinality(T) = Cardinality(T)
BY Zenon DEF Lifecycle!Cardinality, Cardinality

\* Admitting the candidate creates its handler, below the limit.
LEMMA AdmitRefines ==
  ASSUME TypeOK, Inductive, Admit
  PROVE  Lifecycle!Next
<1> DEFINE K == Lifecycle!Callable(phaseBar)
<1>0. PICK c \in Conns : c = cand
  BY DEF Admit, CleanedUp, TypeOK, ServerTypeOK
<1>1. /\ wPc[c] = "none"
      /\ workers' = workers \cup {c}
      /\ wPc' = [wPc EXCEPT ![c] = "onConnect"]
      /\ closed' = closed \ {c} /\ threw' = threw
      /\ Cardinality(workers) < MaxClients
  BY <1>0 DEF Admit, CleanedUp, Start, Inductive, Fresh
<1>2. PhaseOf(c) = "absent" /\ PhaseOf(c)' = "created"
  BY <1>1 DEF PhaseOf, TypeOK, WorkerTypeOK
<1>3. ASSUME NEW d \in Conns \ {c}
      PROVE  PhaseOf(d)' = PhaseOf(d)
  <2>1. /\ wPc'[d] = wPc[d]
        /\ d \in closed' <=> d \in closed
        /\ d \in workers' <=> d \in workers
    BY <1>1 DEF TypeOK, WorkerTypeOK
  <2> QED
    BY <1>1, <2>1 DEF PhaseOf
<1>4. K \in SUBSET workers
  BY DEF Lifecycle!Callable, phaseBar, PhaseOf, Inductive, HandlerOutlivesThread, Running,
         RunPoints, LoopPoints, TypeOK, WorkerTypeOK
<1>5. Cardinality(K) < MaxClients
  <2> HIDE DEF K
  <2>1. IsFiniteSet(workers)
    BY DEF Inductive, ListWithinLimit
  <2>2. IsFiniteSet(K) /\ Cardinality(K) <= Cardinality(workers)
    BY <1>4, <2>1, FS_Subset
  <2>3. Cardinality(workers) \in Nat /\ Cardinality(K) \in Nat
    BY <2>1, <2>2, FS_CardinalityType
  <2> QED
    BY <1>1, <2>2, <2>3, MaxClientsAssumption
<1>6. phaseBar' = [phaseBar EXCEPT ![c] = "created"] /\ phaseBar[c] = "absent"
  BY <1>1, <1>2, <1>3 DEF phaseBar
<1>7. Lifecycle!Step(c, {"absent"}, {"created"})
  BY <1>6 DEF Lifecycle!Step, phaseBar
<1>8. Lifecycle!Cardinality(K) < MaxClients
  BY <1>5, SameCardinality
<1>9. Lifecycle!Create(c)
  BY <1>7, <1>8 DEF Lifecycle!Create, phaseBar
<1> QED
  BY <1>1, <1>9 DEF Lifecycle!Next

\* Taking workers off the list destroys handlers nobody calls any more.
LEMMA RemovalRefines ==
  ASSUME WorkerTypeOK, UNCHANGED workerVars, workers' \subseteq workers,
         \A w \in workers \ workers' : ~Running(w)
  PROVE  [Lifecycle!Next]_phaseBar
<1> DEFINE S == {c \in Conns : c \in workers \ workers' /\ wPc[c] = "done"}
<1>1. \A c \in S : PhaseOf(c) \in {"disconnected", "failed"} /\ PhaseOf(c)' = "destroyed"
  BY DEF PhaseOf, workerVars
<1>2. \A c \in Conns \ S : PhaseOf(c)' = PhaseOf(c)
  BY DEF PhaseOf, workerVars, WorkerTypeOK, Running, RunPoints, LoopPoints
<1> HIDE DEF S
<1>3. CASE S = {}
  BY <1>2, <1>3 DEF phaseBar
<1>4. CASE S # {}
  <2>0. S \subseteq Conns
    BY DEF S
  <2>1. S \in SUBSET {c \in Conns : phaseBar[c] \in {"disconnected", "failed"}}
    BY <1>1, <2>0 DEF phaseBar
  <2>2. phaseBar' = [c \in Conns |-> IF c \in S THEN "destroyed" ELSE phaseBar[c]]
    BY <1>1, <1>2 DEF phaseBar
  <2>3. Lifecycle!Destroy
    BY <1>4, <2>1, <2>2 DEF Lifecycle!Destroy, phaseBar
  <2> QED
    BY <2>3 DEF Lifecycle!Next
<1> QED
  BY <1>3, <1>4

\* A step of the main thread is a step of the contract.
LEMMA ServeRefines ==
  ASSUME TypeOK, Inductive, Serve
  PROVE  [Lifecycle!Next]_phaseBar
<1> USE DEF TypeOK, Inductive
<1>1. CASE Admit
  BY <1>1, AdmitRefines
<1>2. ASSUME NEW w \in Conns, CleanupVisit(w)
      PROVE  [Lifecycle!Next]_phaseBar
  BY <1>2, RemovalRefines DEF CleanupVisit, Running, RunPoints, LoopPoints
<1>3. CASE Return
  BY <1>3, RemovalRefines DEF Return, Joined
<1>4. ASSUME UNCHANGED <<workerVars, workers>>
      PROVE  [Lifecycle!Next]_phaseBar
  BY <1>4, RemovalRefines
<1> QED
  BY <1>1, <1>2, <1>3, <1>4
     DEF Serve, CreateListenSocket, ServeTest, AcceptNone, Accept, NoDelayThrows, AcceptThrows,
         FinishVisit, SpawnThrows, Reject, Unwind, Spin, vars, serverVars

\* The server implements the contract it offers to handlers.
THEOREM Refinement == Spec => LifecycleSpec
<1>1. Init => Lifecycle!Init
  BY DEF Init, WorkerInit, Lifecycle!Init, PhaseOf
<1>2. TypeOK /\ Inductive /\ [Next]_vars => [Lifecycle!Next]_phaseBar
  <2> SUFFICES ASSUME TypeOK, Inductive, [Next]_vars
               PROVE  [Lifecycle!Next]_phaseBar
    OBVIOUS
  <2>1. ASSUME UNCHANGED <<workerVars, serverVars>>
        PROVE  [Lifecycle!Next]_phaseBar
    BY <2>1, RemovalRefines DEF TypeOK, serverVars
  <2> QED
    BY <2>1, ServeRefines, RunRefines DEF Next, Terminated, vars
<1> QED
  BY <1>1, <1>2, Typing, InductiveInvariant, PTL
     DEF Spec, LifecycleSpec, Lifecycle!Spec, phaseBar
=============================================================================
