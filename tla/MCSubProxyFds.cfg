SPECIFICATION Spec
CONSTANTS
  Conns = {c1, c2, c3}
  FdLimit = 2
CHECK_DEADLOCK FALSE
INVARIANTS ExhaustionWaitedOut
