SPECIFICATION Spec
CONSTANTS
  Codes = {c1}
  Accounts = {a1, a2}
  Disturbances = {"db"}
SYMMETRY Symmetry
INVARIANTS
  StrandedCanBeRetried
CHECK_DEADLOCK FALSE
