SPECIFICATION FairSpec
CONSTANTS
  Peers = {"a", "b"}
  Kinds = {"imm", "data"}
  HimmTimeout = 1
  CacheTtl = 2
  Window = 2
  MaxSeq = 1
  MaxGen = 2
  MaxInit = 1
INVARIANTS RunOnceAlone ReapedStaysRefused ReplyRouted
PROPERTY SlotReleased
CHECK_DEADLOCK FALSE
