SPECIFICATION FairClientSpec
CONSTANTS
  MaxGen = 1
  MaxFaults = 1
  HasIpv6 = FALSE
  Modes = {"interactive", "file"}
  Rules = {a}
  NoPorts = noports
  EmptyPorts = emptyports
  NoCfg = nocfg
PROPERTIES ReloadEnds SignalStops StoppedSessionVanishes ChildIsChildProcess ControllerIsSwitch
