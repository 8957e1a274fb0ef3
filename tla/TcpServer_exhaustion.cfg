SPECIFICATION Spec
CONSTANTS
  Conns = {c1, c2, c3}
  Fds = {f1, f2}
  None = None
  MaxUnread = 1
  MaxClients = 1
  Faults = {}
  HandlerResults = {"return"}
INVARIANT
  ServeFailureReported
