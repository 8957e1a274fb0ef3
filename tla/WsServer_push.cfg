SPECIFICATION FairSpec
CONSTANTS
  Conns = {c1, c2}
  Busy = {c1}
  Pusher = pusher
  Factory = "push"
  FrameLen = 2
  SndBuf = 3
  SizeMax = 8
  Faults = {"partial", "continue", "reset"}
  MaxFrames = 1
  MaxRounds = 1
INVARIANTS
  TypeOK
  SendIntact
  FramesNotMixed
  StoppedByClose
  UpgradeFirst
PROPERTIES
  CloseEndsSession
  ShutdownUnlessStalled
