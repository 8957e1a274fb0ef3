SPECIFICATION Spec
CONSTANTS
  BufSize = 2
  MaxParts = 2
  MaxFrames = 2
  Traffic = {"coalesced"}
  HandlerResults = {"echo"}
INVARIANT
  NoMessageSkipped
