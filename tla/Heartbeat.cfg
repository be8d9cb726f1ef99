CONSTANTS
  Second = 2
  TimeoutBudget = 2
  Ttl = 4
  MaxDelay = 4
  MaxOverrun = 1
  MaxLease = 8
  Grants = {0, 4}
  Reports = {TRUE, FALSE}
  Faults = {"ambiguous", "error", "limited", "client"}
  CreateTells = {TRUE, FALSE}
  RetryAfters = {0, 2, 5}
SPECIFICATION Spec
CHECK_DEADLOCK FALSE
INVARIANTS TypeOK LeadIsConservative MeasuredLeadIsConservative AttemptFitsLease UnseenIsPending BoundedBurst
