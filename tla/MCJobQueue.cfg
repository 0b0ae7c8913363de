\* Two rows compete for the order of ClaimNext; each may be executed twice;
\* processes die twice in all.
SPECIFICATION FairSpec
CONSTANTS
  w1 = w1
  w2 = w2
  w3 = w3
  Workers <- MCWorkers
  Processes <- MCProcesses
  Sweepers <- MCSweepers
  Jobs = {j1, j2}
  Times = {1, 2}
  Limits = {1, 2}
  Idle = Idle
  Nobody = Nobody
  HandlersAreQuick = TRUE
  MaxCrashes = 2
INVARIANTS
  TypeOK
  OneWorkerPerJob
PROPERTIES
  KeepsPromise
  NoRowStaysLocked
  DueJobsAreServed
\* Every row may be settled, and no more may be inserted: the pool then polls an
\* empty queue for ever.
CHECK_DEADLOCK FALSE
