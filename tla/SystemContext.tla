--------------------------- MODULE SystemContext ---------------------------
(***************************************************************************)
(* The platform under the library: the Socket, ListenSocket and Context    *)
(* interfaces of src/tcp/socks_system_context.hpp as implemented for POSIX *)
(* in examples/system_context, the kernel's descriptor table behind them,  *)
(* the peers, and the quit condition set by the signal handler.            *)
(*                                                                         *)
(* A SocketImpl keeps a const descriptor number.  Every call goes through  *)
(* the kernel's table, so a socket whose descriptor was closed and handed  *)
(* out again would operate on somebody else's connection.                  *)
(***************************************************************************)
EXTENDS Naturals

CONSTANTS
  Conns,      \* connections peers may open, each at most once
  Fds,        \* descriptor numbers the process may hold for connections
  None,       \* no connection, no descriptor
  MaxUnread,  \* bound on the segments of one connection waiting to be read
  Faults      \* the system calls that may fail, and "reset" for peers

FaultKinds == {"listen", "flags", "accept", "nodelay", "spawn", "poll", "reset"}

ASSUME SystemAssumption ==
  /\ None \notin Conns
  /\ None \notin Fds
  /\ MaxUnread \in Nat \ {0}
  /\ Faults \subseteq FaultKinds

VARIABLES
  listening,  \* the listen socket exists
  backlog,    \* connections waiting to be accepted
  link,       \* what the peer did with its side of the connection
  unread,     \* segments received by the kernel and not yet read
  fdTable,    \* the kernel's table: the connection behind each descriptor
  sockFd,     \* SocketImpl::fd, never cleared
  quit        \* signalStatus != NO_SIGNAL

sysVars == <<listening, backlog, link, unread, fdTable, sockFd, quit>>

SystemTypeOK ==
  /\ listening \in BOOLEAN
  /\ backlog \in SUBSET Conns
  /\ link \in [Conns -> {"idle", "open", "fin", "reset"}]
  /\ unread \in [Conns -> Nat]
  /\ fdTable \in [Fds -> Conns \cup {None}]
  /\ sockFd \in [Conns -> Fds \cup {None}]
  /\ quit \in BOOLEAN

SystemInit ==
  /\ listening = FALSE
  /\ backlog = {}
  /\ link = [c \in Conns |-> "idle"]
  /\ unread = [c \in Conns |-> 0]
  /\ fdTable = [f \in Fds |-> None]
  /\ sockFd = [c \in Conns |-> None]
  /\ quit = FALSE

-----------------------------------------------------------------------------
(* What the sockets do.                                                    *)

\* The connection a socket's calls reach now; None stands for EBADF.
Owner(c) == IF sockFd[c] \in Fds THEN fdTable[sockFd[c]] ELSE None

\* poll() reports POLLIN: data, end of file or an error is there to be read.
Readable(c) ==
  LET o == Owner(c)
  IN  o # None /\ (unread[o] > 0 \/ link[o] \in {"fin", "reset"})

\* recv() and send() fail: the descriptor is bad or the peer has reset.
IoThrows(c) == Owner(c) # None => link[Owner(c)] = "reset"

FreeFds == {f \in Fds : fdTable[f] = None}

\* ::accept() succeeded with descriptor f; SocketImpl wraps it.
Accepted(c, f) ==
  /\ fdTable' = [fdTable EXCEPT ![f] = c]
  /\ sockFd' = [sockFd EXCEPT ![c] = f]
  /\ backlog' = backlog \ {c}

\* ::close(fd), whatever the descriptor refers to by now; what the kernel
\* still held for that connection is dropped.
Close(c) ==
  /\ fdTable' = [f \in Fds |-> IF f = sockFd[c] THEN None ELSE fdTable[f]]
  /\ unread' = [d \in Conns |-> IF d = Owner(c) THEN 0 ELSE unread[d]]

-----------------------------------------------------------------------------
(* The peers and the signal handler.  What a peer does after this process  *)
(* has closed its side cannot be observed here and is left out.            *)

\* The kernel holds the connection for this process.
Attached(c) == c \in backlog \/ \E f \in Fds : fdTable[f] = c

PeerConnect(c) ==
  /\ listening
  /\ link[c] = "idle"
  /\ link' = [link EXCEPT ![c] = "open"]
  /\ backlog' = backlog \cup {c}
  /\ UNCHANGED <<listening, unread, fdTable, sockFd, quit>>

PeerSend(c) ==
  /\ link[c] = "open"
  /\ Attached(c)
  /\ unread[c] < MaxUnread
  /\ unread' = [unread EXCEPT ![c] = @ + 1]
  /\ UNCHANGED <<listening, backlog, link, fdTable, sockFd, quit>>

PeerFin(c) ==
  /\ link[c] = "open"
  /\ Attached(c)
  /\ link' = [link EXCEPT ![c] = "fin"]
  /\ UNCHANGED <<listening, backlog, unread, fdTable, sockFd, quit>>

PeerReset(c) ==
  /\ "reset" \in Faults
  /\ link[c] \in {"open", "fin"}
  /\ Attached(c)
  /\ link' = [link EXCEPT ![c] = "reset"]
  /\ UNCHANGED <<listening, backlog, unread, fdTable, sockFd, quit>>

\* sigHandler: SIGINT or SIGTERM arrives.
Signal ==
  /\ ~quit
  /\ quit' = TRUE
  /\ UNCHANGED <<listening, backlog, link, unread, fdTable, sockFd>>

Environment ==
  \/ \E c \in Conns : PeerConnect(c) \/ PeerSend(c) \/ PeerFin(c) \/ PeerReset(c)
  \/ Signal
=============================================================================
