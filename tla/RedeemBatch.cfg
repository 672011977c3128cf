SPECIFICATION FairSpec
CONSTANTS
  NumAccounts = 2
  Saturation = 3
INVARIANTS
  TypeOK
  ResultsComplete
  FailuresBounded
PROPERTIES
  BatchEnds
