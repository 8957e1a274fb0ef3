SPECIFICATION FairSpec
CONSTANTS
  BufSize = 3
  MaxParts = 4
  MaxFrames = 3
  Traffic = {}
  HandlerResults = {"echo", "close"}
INVARIANTS
  MessagesIntact
  NoMessageSkipped
PROPERTIES
  RequestConcluded
  CloseHonoured
