SPECIFICATION Spec
CONSTANTS
  First = 1
  MaxInterval = 4
  TxDead = 1
  TxRestart = 2
  Grace = 1
  BootWindow = 2
  Silence = 2
  Dwell = 3
  KeyedGrace = 1
  RejoinCap = 2
  RestartCap = 1
  MaxTrouble = 3
  MaxFifo = 2
INVARIANTS RestartsBounded
PROPERTIES Recovers LossNoticed
