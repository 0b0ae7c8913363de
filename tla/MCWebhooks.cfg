SPECIFICATION Spec
CONSTANTS
  Events = {1, 2, 3, 4}
  Endpoints = {e1, e2}
  Workers = {w1, w2}
  Modes = {live, test}
  None = none
  Threshold = 2
  MaxEndpoints = 1
  MaxAttempts = 2
  MaxUpsets = 1
SYMMETRY Symmetry
INVARIANTS
  TypeOK
  BreakerOpens
  NotHammered
  EveryEndpointIsTried
  SentOnce
  ModesApart
CHECK_DEADLOCK FALSE
