SPECIFICATION PushFairSpec
CONSTANTS
  Conns = {c1, c2}
  Fds = {f1, f2}
  None = None
  MaxUnread = 1
  MaxClients = 2
  Faults = {"accept", "reset"}
  HandlerResults = {"return", "throw"}
INVARIANTS
  RegistryFollowsCallbacks
  PushReachesOwnClient
  DanglingOnlyAfterThrow
  TerminatedOnlyByReset
PROPERTY
  PushShutdown
