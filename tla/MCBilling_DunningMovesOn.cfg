\* One declined retry, with nobody else around.
SPECIFICATION FairSpec
CONSTANTS
  Workers = {w1}
  Requests = {c1}
  Ops = {}
  JobSlots = 4
  Starts <- AloneInDunning
  HasMandate = FALSE
  HasWallet = FALSE
  InfraErrors = FALSE
  WriteErrors = FALSE
  MaxCrashes = 0
  MaxAttempts = 4
  Intervals = 4
PROPERTIES
  DunningMovesOn
\* Every request may be served and every job settled: the system then rests.
CHECK_DEADLOCK FALSE
