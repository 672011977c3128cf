SPECIFICATION FairSpec
CONSTANTS
  Gated = {clean, verify}
  Direct = {batch, create}
  Nobody = Nobody
INVARIANTS
  TypeOK
  RedeemedThreeTimes
PROPERTIES
  RedeemsForItself
  AnnouncedTryNeverComes
  FlowsEnd
