CONSTANTS
  g = g
  Worker = {g}
  GpuWorker = {g}
  Period = 1
  Capacity = 1
  NoId = NoId
  MaxTemplates = 4
  Devfund = {2}
SPECIFICATION Spec
PROPERTIES
  DevfundWorkEnds
CHECK_DEADLOCK FALSE
