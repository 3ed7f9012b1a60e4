CONSTANTS
  Capacity = 3
  Window = 4
  Share = 1
  MineWhenNotSynced = FALSE
  Gpu = FALSE
  MaxRequests = 9
  MaxConnections = 2
SPECIFICATION Spec
INVARIANTS
  TypeOK
  UnsyncedMeansNoWork
  FeePerConnection
PROPERTIES
  SendsComplete
CHECK_DEADLOCK FALSE
