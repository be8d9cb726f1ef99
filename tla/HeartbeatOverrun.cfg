CONSTANTS
  Second = 2
  TimeoutBudget = 2
  Ttl = 8
  MaxDelay = 4
  MaxOverrun = 1
  MaxLease = 14
  Grants = {0, 3, 8}
  Reports = {TRUE}
  Faults = {"ambiguous", "error", "limited", "client"}
  CreateTells = {TRUE, FALSE}
  RetryAfters = {0, 2}
SPECIFICATION Spec
CHECK_DEADLOCK FALSE
PROPERTY FirstFailureRetried
