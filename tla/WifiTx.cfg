SPECIFICATION Spec
CONSTANTS
  SeqMod = 8
  Window = 2
  QueueDepth = 2
  TcpMax = 1
  HoldAge = 1
  StallIdle = 1
  Stall = 2
  MaxFrame = 3
  MaxStop = 1
  MaxFault = 1
  MaxControl = 1
  MaxRestart = 1
INVARIANTS NeverReplayed
PROPERTIES FrameOrder ReservedSlots HeldFramesLeave
