SPECIFICATION FairSpec
CONSTANTS
  Events = {1, 2}
  Endpoints = {e1, e2}
  Workers = {w1}
  Modes = {live}
  None = none
  Threshold = 2
  MaxEndpoints = 2
  MaxAttempts = 2
  MaxUpsets = 0
PROPERTY
  FailedDeliveriesRetry
CHECK_DEADLOCK FALSE
