SPECIFICATION Spec
CONSTANTS
  Codes = {c1}
  Accounts = {a1, a2}
  Disturbances = {"db", "crash", "deletion", "repair"}
SYMMETRY Symmetry
INVARIANTS
  TypeOK
  StatsMatchLogs
CHECK_DEADLOCK FALSE
