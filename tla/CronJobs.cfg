SPECIFICATION FairSpec
CONSTANTS
  Codes = {k1}
  Articles = {p1}
  Fetchers = {g1, g2}
  Handlers = {g1, g2}
  MaxRequests = 1
  MaxFaults = 1
INVARIANTS
  TypeOK
  MarkedIsHandled
  DuplicatesOverlapped
PROPERTIES
  CleaningSparesValid
  PublishedIsMarked
  ExpiredIsCleaned
CHECK_DEADLOCK FALSE
