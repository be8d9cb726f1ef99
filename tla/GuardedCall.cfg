CONSTANTS
  outer = outer
  inner = inner
  NoCall = NoCall
  Call = {outer, inner}
  Kinds = {"function", "coroutine", "stream", "async stream"}
  Interrupts = TRUE
SPECIFICATION LiveSpec
CHECK_DEADLOCK FALSE
INVARIANTS TypeOK CallInv AsyncSpendReachesDisk OwnContextIsOpen HeartbeatStopsFirst
PROPERTY LedgerSafety HoldEnds
