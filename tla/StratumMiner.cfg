CONSTANTS
  w1 = w1
  w2 = w2
  Worker = {w1, w2}
  Period = 2
  Interval = 1
  Capacity = 1
  MaxJobs = 2
  MaxTime = 2
SPECIFICATION Spec
INVARIANTS
  TypeOK
  StaleWorkBounded
PROPERTIES
  SharesSpaced
  EveryoneSeesNewJob
CHECK_DEADLOCK FALSE
