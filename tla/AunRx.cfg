SPECIFICATION MCSpec
CONSTANTS
  Srcs = {"a"}
  Ports = {"data", "reply"}
  Stns = {"ws"}
  StaticMap <- EmptyMap
  Learn <- NoLearn
  MapMax = 1
  Blocks = {0}
  Filters <- Funnel
  RxQueue = 2
  DeferSlots = 2
  CondemnSlots = 2
  DeferRetries = 1
  CondemnRetries = 0
  DeferDelay = 2
  CondemnTtl = 2
  Oversize = {3}
  MayAbandon = TRUE
  MaxSeq = 3
  MaxNet = 1
  MaxLoss = 0
  MaxAdmin = 2
  MaxRestart = 1
INVARIANTS StreamOrder PresentedStable AckTruthfulUnrestarted TablesSound DeliveredOrShedOnce
PROPERTIES PeersReleased
