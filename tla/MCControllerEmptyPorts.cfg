SPECIFICATION Spec
CONSTANTS
  MaxGen = 2
  MaxFaults = 0
  HasIpv6 = FALSE
  Modes = {"interactive"}
  Rules = {a}
  NoPorts = noports
  EmptyPorts = emptyports
  NoCfg = nocfg
INVARIANTS EmptyPortsRecover
