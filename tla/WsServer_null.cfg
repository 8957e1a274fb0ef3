SPECIFICATION FairSpec
CONSTANTS
  Conns = {c1, c2}
  Busy = {c1, c2}
  Pusher = pusher
  Factory = "null"
  FrameLen = 2
  SndBuf = 2
  SizeMax = 8
  Faults = {}
  MaxFrames = 1
  MaxRounds = 0
PROPERTY
  CloseEndsSession
