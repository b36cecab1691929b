CONSTANTS
  l1 = l1
  l2 = l2
  l3 = l3
  Launch = {l1, l2, l3}
  IslandPorts = 2
  WatchdogOn = TRUE
  NoPort = NoPort
SPECIFICATION Spec
INVARIANT Bookkeeping
PROPERTIES LaunchAnswered ExitedIsForgotten
CHECK_DEADLOCK FALSE
