SPECIFICATION FairSpec
CONSTANTS
  NumJobs = 1
  MaxRetries <- TwoRetries
  Capacity = 1
  Faults = {"stop"}
  MaxRestarts = 1
PROPERTIES
  InterruptedIsResumed
