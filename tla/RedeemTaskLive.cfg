SPECIFICATION FairSpec
CONSTANTS
  Codes = {c1}
  Accounts = {a1, a2}
  Disturbances = {"rerun", "login", "deletion"}
INVARIANTS
  SuccessIsTrue
  SuccessesWereGiven
PROPERTIES
  SubmittedIsProcessed
CHECK_DEADLOCK FALSE
