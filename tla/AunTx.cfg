SPECIFICATION FairSpec
CONSTANTS
  Peers = {"a"}
  Dests = {"fs", "test"}
  Route <- Routes
  TestDest = "test"
  RejectRetries = 1
  NorespRetries = 1
  RejectTimeout = 1
  NorespTimeout = 2
  MaxDup = 1
  MaxSeq = 2
  MaxInit = 1
INVARIANTS OkMeansServed StallBounded
PROPERTIES TxCompletes
CHECK_DEADLOCK FALSE
