SPECIFICATION Spec
CONSTANTS
  Conns = {c1, c2}
  FdLimit = 2
CHECK_DEADLOCK FALSE
INVARIANTS ResetConnectionIgnored
