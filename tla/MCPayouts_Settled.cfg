\* Two payouts, one request at a time, nothing goes wrong.
SPECIFICATION Spec
CONSTANTS
  Payouts = {p1, p2}
  Handlers = {h1}
  Workers = {w1}
  Amounts = {1, 2}
  Settled <- MCSettled
  Idle = Idle
  RequestsAreQuick = TRUE
  MaxFaults = 0
INVARIANTS
  WithdrawalsAreSettled
\* Both rows may be decided, and no more may be inserted.
CHECK_DEADLOCK FALSE
