SPECIFICATION Spec
CONSTANTS
  Base = 32
  XorByte <- MCXor
  MaxSize = 1037
  MaxVector = 1060
  SizeMax = 1073741824
  Lengths = {0, 1, 5, 13, 14, 15, 1023, 1024}
  LongFields <- MCLongFields
  MaxFrames = 2
  MaxMessage = 1024
INVARIANTS
  AccessorsAgree
  DecodeInverts
  StaleIffSplit
  LengthsKept
CHECK_DEADLOCK FALSE
