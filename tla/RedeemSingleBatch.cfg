SPECIFICATION Spec
CONSTANTS
  Gated = {clean}
  Direct = {batch}
  Nobody = Nobody
INVARIANTS
  OneAccountAtATime
