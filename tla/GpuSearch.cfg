CONSTANTS
  j1 = j1
  j2 = j2
  Job = {j1, j2}
  MaxItems = 6
  MaxGroup = 4
  MaxBlock = 4
  MaxSize = 15
  SearchItems = 3
  Batches = 2
  Faults = 2
SPECIFICATION SafetySpec
INVARIANTS
  TypeOK
  BatchIsExact
  CudaStopsOnMismatch
  LaunchesAreLegal
PROPERTIES
  ImplementsSearch
CHECK_DEADLOCK FALSE
