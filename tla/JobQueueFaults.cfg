SPECIFICATION Spec
CONSTANTS
  NumJobs = 2
  MaxRetries <- OneRetryEach
  Capacity = 1
  Faults = {"db", "stop", "crash"}
  MaxRestarts = 1
INVARIANTS
  TypeOK
  CopiesNotAhead
  GivenUpOnlyAfterBudget
  CompletedWasServed
  ShutdownOrder
  RetriesOverrunBounded
PROPERTIES
  ImplementsService
