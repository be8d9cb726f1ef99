CONSTANTS
  r1 = r1
  r2 = r2
  p1 = p1
  p2 = p2
  Reservation = {r1}
  Process = {p1}
  MaxAttempts = 1
  RetryEnabled = TRUE
  JournalMayFail = FALSE
SPECIFICATION ReplaySpec
PROPERTY LedgerLiveness JournalDrains
