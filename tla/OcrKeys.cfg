SPECIFICATION FairSpec
CONSTANTS
  NumKeys = 2
  Flows = {f1}
  Requests = {r1}
  Providers = {"baidu", "paddle", "other"}
  Weights = {1, 3}
  Quotas = {2}
  Rejected = {1}
  MaxEvents = 4
INVARIANTS
  TypeOK
  ReloadsConverge
  NoKeyStarves
PROPERTIES
  RejectedKeyIsDropped
CHECK_DEADLOCK FALSE
