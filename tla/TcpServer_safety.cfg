SPECIFICATION Spec
CONSTANTS
  Conns = {c1, c2, c3}
  Fds = {f1, f2}
  None = None
  MaxUnread = 1
  MaxClients = 2
  Faults = {"listen", "flags", "nodelay", "spawn", "poll", "reset"}
  HandlerResults = {"return", "throw"}
SYMMETRY Symmetry
INVARIANTS
  TypeOK
  ClientLimit
  OwnDescriptor
  HandlerOutlivesThread
  NoThreadOutlivesServe
  LostDescriptors
  NoStaleSlot
  Inductive
PROPERTY
  LifecycleSpec
