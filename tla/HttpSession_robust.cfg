SPECIFICATION Spec
CONSTANTS
  BufSize = 2
  MaxParts = 3
  MaxFrames = 2
  Traffic = {"coalesced", "interleaved", "emptyFirst", "unmasked", "nul", "reset"}
  HandlerResults = {"echo", "close", "closeThenSend", "invalid", "throw"}
INVARIANTS
  RequestFits
  CloseIsLast
  WsContract
