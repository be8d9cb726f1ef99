CONSTANTS
  outer = outer
  inner = inner
  NoCall = NoCall
  Call = {outer}
  Kinds = {"stream"}
  Interrupts = TRUE
SPECIFICATION Spec
CHECK_DEADLOCK FALSE
INVARIANT SpendReachesDisk
