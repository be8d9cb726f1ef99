CONSTANTS
  MaxSeconds = 40
  MaxAttempts = 2
  Initial = 1
  Multiplier = 2
  MaxDelay = 3
  Cap = 4
  RetryAfter <- MCRetryAfter
  StaleFloors <- MCStaleFloors
  Horizon = 9
SPECIFICATION Spec
CHECK_DEADLOCK FALSE
INVARIANTS TypeOK ClockInv NeverParked RequestsBounded
PROPERTIES FloorKept DroppedOnlyIfDecided LedgerSteps
