\* A past-due row with two retry jobs while the customer cancels, pauses,
\* resumes, replaces his card and pays: no failure but declines.
SPECIFICATION FairSpec
CONSTANTS
  Workers = {w1, w2}
  Requests = {c1, c2}
  Ops = {"cancel", "portal_cancel", "pause", "portal_resume", "resume", "recover", "retry_now", "update_card", "payment_success"}
  JobSlots = 3
  Starts <- Recoveries
  HasMandate = TRUE
  HasWallet = FALSE
  InfraErrors = FALSE
  WriteErrors = FALSE
  MaxCrashes = 0
  MaxAttempts = 2
  Intervals = 2
INVARIANTS
  PaidInvoicesAreLedgered
  ChargesAreRecorded
  SuspensionIsEarned
PROPERTIES
  ChargesReachTheLedger
  CancelledEnds
\* Every request may be served and every job settled: the system then rests.
CHECK_DEADLOCK FALSE
