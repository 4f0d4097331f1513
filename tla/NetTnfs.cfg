SPECIFICATION Spec
CONSTANTS
  TNFS_RETRIES = 2
  TNFS_EAGAIN_MAX = 1
  Timeout = 1
  SeqMod = 8
  RingRecs = 2
  MaxNet = 2
  MaxTid = 4
PROPERTIES ImplementsCalls TransactionEnds
CHECK_DEADLOCK FALSE
