\* A checkout and a trial, up to the first payment: merchant, customer and
\* payment webhook at once, with lost answers, failed writes and a crash.
SPECIFICATION Spec
CONSTANTS
  Workers = {w1, w2}
  Requests = {c1, c2}
  Ops = {"cancel_now", "pause", "regenerate_checkout", "payment_success", "payment_failed"}
  JobSlots = 3
  Starts <- Activations
  HasMandate = FALSE
  HasWallet = FALSE
  InfraErrors = TRUE
  WriteErrors = TRUE
  MaxCrashes = 1
  MaxAttempts = 2
  Intervals = 2
SYMMETRY Symmetry
INVARIANTS
  TypeOK
  LedgerIsBacked
  OneRecorderPerCharge
  AccessIsPaid
\* Every request may be served and every job settled: the system then rests.
CHECK_DEADLOCK FALSE
