CONSTANTS
  Capacity = 1
  MaxRounds = 2
  MaxJobs = 1
SPECIFICATION Spec
INVARIANTS
  TypeOK
  ListenersAreServed
PROPERTIES
  ImplementsLinks
  RoundsEndCleanly
CHECK_DEADLOCK FALSE
