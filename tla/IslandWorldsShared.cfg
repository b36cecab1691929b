CONSTANTS
  l1 = l1
  l2 = l2
  l3 = l3
  Launch = {l1, l2, l3}
  IslandPorts = 2
  WatchdogOn = FALSE
  NoPort = NoPort
SPECIFICATION Spec
INVARIANT PortExclusive
SYMMETRY LaunchSymmetry
CHECK_DEADLOCK FALSE
