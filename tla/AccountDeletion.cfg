SPECIFICATION FairSpec
CONSTANTS
  Accounts = {a1, a2}
  Codes = {x1, x2}
  Calls = {c1, c2}
  MaxAttempts = 3
  MaxClashes = 3
INVARIANTS
  TypeOK
  CountersMatch
  AllOrNothing
  SomeCallProceeds
PROPERTIES
  ImplementsAtomicDeletion
  EveryDeletionEnds
