----------------------------- MODULE PushServer -----------------------------
(***************************************************************************)
(* The push server of examples/tcp_push/main.cpp: a thread sends a counter *)
(* to every registered connection, under the mutex of ConnMgr, while the   *)
(* TCP server runs and its workers register and remove connections in      *)
(* their callbacks.  main() joins the pusher after serve().                *)
(*                                                                         *)
(* The workers' callbacks are now PushHandler's: HandlerResults only names *)
(* what ClientWorker lets them do, and each action below says what they do *)
(* do.  A worker holds the mutex for one insertion or removal, which is    *)
(* one step; the pusher holds it for a whole round.                        *)
(***************************************************************************)
EXTENDS TcpServer

VARIABLES
  connections,  \* ConnMgr::connections
  pPc,          \* where the pusher thread is
  pending       \* connections this round of push has still to reach

pushVars == <<connections, pPc, pending>>
allVars == <<vars, pushVars>>

PushTypeOK ==
  /\ TypeOK
  /\ connections \in SUBSET Conns
  /\ pPc \in {"test", "lock", "push", "sleep", "done", "terminated"}
  /\ pending \in SUBSET Conns

PushInit ==
  /\ Init
  /\ connections = {}
  /\ pPc = "test"
  /\ pending = {}

MutexFree == pPc # "push"

-----------------------------------------------------------------------------
(* PushHandler, called by the worker of connection c.                      *)

PushOnConnect(c) ==
  /\ MutexFree
  /\ OnConnect(c)
  /\ c \notin threw'
  /\ connections' = connections \cup {c}
  /\ UNCHANGED <<pPc, pending>>

\* The echo: send() throws when the peer has reset.
PushOnReceive(c) ==
  /\ OnReceive(c)
  /\ (c \in threw') = IoThrows(c)
  /\ UNCHANGED pushVars

\* Mutant: delConn does not take the mutex.
PushOnDisconnectUnlocked(c) ==
  /\ OnDisconnect(c)
  /\ c \notin threw'
  /\ connections' = connections \ {c}
  /\ UNCHANGED <<pPc, pending>>

\* Mutant: onDisconnect does not remove the connection.
PushOnDisconnectForgets(c) ==
  /\ MutexFree
  /\ OnDisconnect(c)
  /\ c \notin threw'
  /\ UNCHANGED pushVars

PushOnDisconnect(c) ==
  /\ MutexFree
  /\ OnDisconnect(c)
  /\ c \notin threw'
  /\ connections' = connections \ {c}
  /\ UNCHANGED <<pPc, pending>>

\* The worker's own steps between its callbacks.
Internal(c) ==
  /\ wPc[c] \notin {"onConnect", "onReceive", "onDisconnect"}
  /\ Run(c)
  /\ UNCHANGED pushVars

PushRun(c) ==
  /\ PushOnConnect(c) \/ PushOnReceive(c) \/ PushOnDisconnect(c) \/ Internal(c)
  /\ UNCHANGED serverVars

-----------------------------------------------------------------------------
(* pusherRunner and ConnMgr::push.                                         *)

\* Mutant: the pusher does not look at the quit condition.
PusherTestIgnoresQuit ==
  /\ pPc = "test"
  /\ pPc' = "lock"
  /\ UNCHANGED <<vars, connections, pending>>

PusherTest ==
  /\ pPc = "test"
  /\ pPc' = IF quit THEN "done" ELSE "lock"
  /\ UNCHANGED <<vars, connections, pending>>

PusherLock ==
  /\ pPc = "lock"
  /\ pPc' = "push"
  /\ pending' = connections
  /\ UNCHANGED <<vars, connections>>

\* Mutant: push() takes the connections it has written to out of the set.
PusherSendDrops(c) ==
  /\ pPc = "push"
  /\ c \in pending
  /\ c \in workers
  /\ ~IoThrows(c)
  /\ pending' = pending \ {c}
  /\ connections' = connections \ {c}
  /\ UNCHANGED <<vars, pPc>>

\* connection->send(buf, len) to a connection whose handler exists.
PusherSend(c) ==
  /\ pPc = "push"
  /\ c \in pending
  /\ c \in workers
  /\ ~IoThrows(c)
  /\ pending' = pending \ {c}
  /\ UNCHANGED <<vars, connections, pPc>>

\* send() throws and nothing in pusherRunner catches: std::terminate.
PusherThrows(c) ==
  /\ pPc = "push"
  /\ c \in pending
  /\ c \in workers
  /\ IoThrows(c)
  /\ pPc' = "terminated"
  /\ UNCHANGED <<vars, connections, pending>>

\* The Connection has been destroyed: undefined, the call goes through as if
\* nothing had happened or the process ends.
PusherDangles(c) ==
  /\ pPc = "push"
  /\ c \in pending
  /\ c \notin workers
  /\ \/ pending' = pending \ {c} /\ UNCHANGED pPc
     \/ pPc' = "terminated" /\ UNCHANGED pending
  /\ UNCHANGED <<vars, connections>>

PusherUnlock ==
  /\ pPc = "push"
  /\ pending = {}
  /\ pPc' = "sleep"
  /\ UNCHANGED <<vars, connections, pending>>

PusherSleep ==
  /\ pPc = "sleep"
  /\ pPc' = "test"
  /\ UNCHANGED <<vars, connections, pending>>

Pusher ==
  \/ PusherTest \/ PusherLock \/ PusherUnlock \/ PusherSleep
  \/ \E c \in Conns : PusherSend(c) \/ PusherThrows(c) \/ PusherDangles(c)

-----------------------------------------------------------------------------
\* serve() has been left and the pusher can be joined: main() returns.
MainReturns == srvPc \in {"returned", "failed"} /\ pPc = "done"

ProcessOver == MainReturns \/ srvPc = "aborted" \/ pPc = "terminated"

PushNext ==
  \/ /\ ~ProcessOver
     /\ \/ Serve /\ UNCHANGED pushVars
        \/ \E c \in Conns : PushRun(c)
        \/ Pusher
        \/ Environment /\ UNCHANGED <<workerVars, serverVars, pushVars>>
  \/ ProcessOver /\ UNCHANGED allVars

PushSpec == PushInit /\ [][PushNext]_allVars

\* Every thread that can take a step is scheduled.  send() is taken to
\* return: peers read what they are sent.
PushFairSpec ==
  /\ PushSpec
  /\ WF_allVars(~ProcessOver /\ Serve /\ UNCHANGED pushVars)
  /\ WF_allVars(~ProcessOver /\ Pusher)
  /\ \A c \in Conns : WF_allVars(~ProcessOver /\ PushRun(c))

-----------------------------------------------------------------------------
(* Properties.                                                             *)

\* Workers that have thrown aside, the set holds exactly the connections whose
\* handler has been told that they are there and not yet that they are gone
\* (addConn, delConn): no client misses a round and none is left behind,
\* whatever the pusher does between the callbacks.
RegistryFollowsCallbacks ==
  connections \ threw = {c \in Conns : PhaseOf(c) \in {"idle", "receiving", "closing"}}

\* What the pusher is about to write to through a connection is that
\* connection's own client, never a later client that was given the same
\* descriptor: onDisconnect waits for the mutex before run() closes the
\* socket.
PushReachesOwnClient == \A c \in pending : Owner(c) = c

\* The only destroyed connections the pusher can still reach are those whose
\* worker ended in an exception, which skips delConn.
DanglingOnlyAfterThrow == (connections \cup pending) \ workers \subseteq threw

\* Only a client that has reset, or one whose worker ended in an exception, can
\* make the pusher end the process: a client that leaves in order never does,
\* at whatever point of a round it leaves and is cleaned up.
TerminatedOnlyByReset ==
  pPc = "terminated" => \E c \in pending : link[c] = "reset" \/ c \in threw

\* After SIGINT or SIGTERM the process ends: no worker waits for the mutex for
\* ever, serve() is left and the pusher is joined.
PushShutdown == quit ~> ProcessOver
=============================================================================
