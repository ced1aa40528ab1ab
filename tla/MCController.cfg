SPECIFICATION Spec
CONSTANTS
  MaxGen = 2
  MaxFaults = 1
  HasIpv6 = FALSE
  Modes = {"interactive", "file"}
  Rules = {a, b}
  NoPorts = noports
  EmptyPorts = emptyports
  NoCfg = nocfg
SYMMETRY RuleSymmetry
CONSTRAINT OneSessionAfterDrop
INVARIANTS
  TypeOK
  RestoredWhenStopped
  SessionIsDiverted
  NoStrayProxy
  AnswerTellsTheState
  GoodConfigAccepted
PROPERTIES StopPrecedesTeardown
