CONSTANTS
  w1 = w1
  w2 = w2
  g = g
  Worker = {w1, w2, g}
  GpuWorker = {g}
  Period = 2
  Capacity = 1
  NoId = NoId
  MaxTemplates = 2
  Devfund = {}
SPECIFICATION Spec
INVARIANTS
  TypeOK
  OneClaimPerReset
  IdleOnlyAfterABlock
  StaleWorkBounded
PROPERTIES
  EveryoneSeesNewWork
CHECK_DEADLOCK FALSE
