SPECIFICATION Spec
CONSTANTS
  Handles = {0, 1, 2}
  Names = {"a"}
  Schemes = {"http", "udp"}
  RingSize = 3
  HdrLens = {2, 4}
  Reads = {2}
  Watched = {0}
  MaxOpen = 1
  MaxConn = 3
  MaxEvents = 2
  SegSizes = {2}
  DgramSizes = {1}
INVARIANTS PcbOwned HandlesAccounted StreamExact
PROPERTIES UrlReadEnds
CHECK_DEADLOCK FALSE
