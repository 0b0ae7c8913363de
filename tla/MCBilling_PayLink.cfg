\* The customer pays on the link dunning sent him.
SPECIFICATION FairSpec
CONSTANTS
  Workers = {w1}
  Requests = {c1}
  Ops = {"payment_success"}
  JobSlots = 4
  Starts <- AloneInDunning
  HasMandate = FALSE
  HasWallet = FALSE
  InfraErrors = FALSE
  WriteErrors = FALSE
  MaxCrashes = 0
  MaxAttempts = 4
  Intervals = 4
PROPERTIES
  PaymentsReachTheLedger
\* Every request may be served and every job settled: the system then rests.
CHECK_DEADLOCK FALSE
