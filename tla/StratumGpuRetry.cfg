CONSTANTS
  FeePeriod = 3
  Capacity = 2
  MaxJobs = 2
  Horizon = 6
SPECIFICATION Spec
PROPERTIES
  DisconnectIsRetried
CHECK_DEADLOCK FALSE
