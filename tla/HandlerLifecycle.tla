-------------------------- MODULE HandlerLifecycle --------------------------
(***************************************************************************)
(* What the TCP layer promises to the application's ServerHandler objects  *)
(* (src/tcp/socks_tcp_handler.hpp): callbacks come in the order onConnect, *)
(* onReceive..., onDisconnect, one at a time; after Connection::close no   *)
(* onReceive follows; an exception ends the sequence; a handler is only    *)
(* destroyed once no callback can reach it any more; and no more than      *)
(* MaxClients handlers are being called at any time.                       *)
(***************************************************************************)
EXTENDS Naturals, FiniteSets

CONSTANTS Conns, MaxClients

VARIABLE phase

Phases == {"absent", "created", "idle", "receiving", "closing",
           "disconnected", "failed", "destroyed"}

\* The handlers the TCP layer may still call.
Callable(p) == {c \in Conns : p[c] \in {"created", "idle", "receiving", "closing"}}

Init == phase = [c \in Conns |-> "absent"]

Step(c, from, to) ==
  /\ phase[c] \in from
  /\ \E p \in to : phase' = [phase EXCEPT ![c] = p]

Create(c) ==
  /\ Cardinality(Callable(phase)) < MaxClients
  /\ Step(c, {"absent"}, {"created"})

\* onConnect() is called on a new handler, once.
Connect(c) == Step(c, {"created"}, {"idle", "closing", "failed"})

\* onReceive() is entered, and left.
BeginReceive(c) == Step(c, {"idle"}, {"receiving"})
EndReceive(c) == Step(c, {"receiving"}, {"idle", "closing", "failed"})

\* onDisconnect() returns, once.
Disconnect(c) == Step(c, {"idle", "closing"}, {"disconnected"})

\* An exception ends the sequence instead: onDisconnect() throws, or a call
\* on the socket between two callbacks.
Fail(c) == Step(c, {"idle", "closing"}, {"failed"})

\* Handlers nobody calls any more are destroyed, one or several at a time.
Destroy ==
  \E S \in SUBSET {c \in Conns : phase[c] \in {"disconnected", "failed"}} :
    /\ S # {}
    /\ phase' = [c \in Conns |-> IF c \in S THEN "destroyed" ELSE phase[c]]

Next ==
  \/ \E c \in Conns :
       \/ Create(c) \/ Connect(c) \/ BeginReceive(c) \/ EndReceive(c)
       \/ Disconnect(c) \/ Fail(c)
  \/ Destroy

Spec == Init /\ [][Next]_phase
=============================================================================
