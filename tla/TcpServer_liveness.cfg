SPECIFICATION FairSpec
CONSTANTS
  Conns = {c1, c2}
  Fds = {f1, f2}
  None = None
  MaxUnread = 1
  MaxClients = 1
  Faults = {"reset"}
  HandlerResults = {"return", "close"}
PROPERTIES
  LifecycleSpec
  ShutdownTerminates
  PeerCloseReleases
  ClientAnswered
