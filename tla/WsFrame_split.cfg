SPECIFICATION Spec
CONSTANTS
  Base = 32
  XorByte <- MCXor
  MaxSize = 32
  MaxVector = 60
  SizeMax = 1073741824
  Lengths = {0, 1, 5, 13, 14, 15, 16}
  LongFields = {}
  MaxFrames = 1
  MaxMessage = 16
INVARIANT
  ReceivedOnly
CHECK_DEADLOCK FALSE
