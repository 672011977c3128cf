SPECIFICATION FairSpec
CONSTANTS
  NumJobs = 2
  MaxRetries <- OneThenNone
  Capacity = 1
  Faults = {"stop", "crash"}
  MaxRestarts = 1
INVARIANTS
  ProcessingIsOwned
PROPERTIES
  EventuallySettled
  PendingIsTaken
