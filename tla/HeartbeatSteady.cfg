CONSTANTS
  Second = 2
  TimeoutBudget = 1
  Ttl = 8
  MaxDelay = 60
  MaxOverrun = 1
  MaxLease = 32
  Grants = {8}
  Reports = {FALSE}
  Faults = {}
  CreateTells = {TRUE, FALSE}
  RetryAfters = {}
SPECIFICATION Spec
CHECK_DEADLOCK FALSE
INVARIANTS FallbackHeld
