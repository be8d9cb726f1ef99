CONSTANTS
  outer = outer
  inner = inner
  NoCall = NoCall
  Call = {outer, inner}
  Kinds = {"function"}
  Interrupts = FALSE
SPECIFICATION Spec
CHECK_DEADLOCK FALSE
INVARIANT ContextInsideCall
