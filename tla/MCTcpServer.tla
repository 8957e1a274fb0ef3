---------------------------- MODULE MCTcpServer -----------------------------
EXTENDS TcpServer, TLC

Symmetry == Permutations(Conns) \cup Permutations(Fds)
=============================================================================
