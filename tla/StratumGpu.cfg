CONSTANTS
  FeePeriod = 3
  Capacity = 2
  MaxJobs = 2
  Horizon = 6
SPECIFICATION Spec
INVARIANTS
  TypeOK
  FeeSchedule
  StaleBatchesBounded
PROPERTIES
  NewJobsAreTaken
  ImplementsLinks
CHECK_DEADLOCK FALSE
