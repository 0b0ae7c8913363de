\* Two jobs of one unpaid period, and nothing else.
SPECIFICATION Spec
CONSTANTS
  Workers = {w1, w2}
  Requests = {c1}
  Ops = {}
  JobSlots = 2
  Starts <- Recoveries
  HasMandate = FALSE
  HasWallet = FALSE
  InfraErrors = FALSE
  WriteErrors = FALSE
  MaxCrashes = 0
  MaxAttempts = 2
  Intervals = 2
INVARIANTS
  DebtIsCollectedOnce
\* Every request may be served and every job settled: the system then rests.
CHECK_DEADLOCK FALSE
