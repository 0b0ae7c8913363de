SPECIFICATION Spec
CONSTANTS
  Requests = {r1, r2}
  Keys = {k1, k2}
  NoKey = no_key
  BodyKeys = {b1}
  Orders = {o1}
  Ids = {i1, i2}
  Plans = {3, 4, 9}
  Nothing = nothing
  Period = 2
  PromoLimit = 1
  LinkLimit = 1
  MaxRequests = 3
  MaxUpsets = 2
SYMMETRY Symmetry
INVARIANTS
  TypeOK
  RunsOncePerKey
  PromoIsBounded
  PlanIsPaidFor
  FirstRefundIsBooked
  IssuedRefundsMoveOnce
  LinkUsesAreCharged
CHECK_DEADLOCK FALSE
