\* Two payouts, two requests at once, two goroutines and two faults anywhere.
SPECIFICATION FairSpec
CONSTANTS
  Payouts = {p1, p2}
  Handlers = {h1, h2}
  Workers = {w1, w2}
  Amounts = {1, 2}
  Settled <- MCSettled
  Idle = Idle
  RequestsAreQuick = TRUE
  MaxFaults = 2
INVARIANTS
  TypeOK
  OneRequestAtATime
  DebitsAreBacked
  BooksBalance
  PaidOutOnce
PROPERTIES
  PayoutsAreDecided
\* Both rows may be decided, and no more may be inserted.
CHECK_DEADLOCK FALSE
