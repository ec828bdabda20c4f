SPECIFICATION LaunchSpec
CONSTANTS
  Commands = {c1, c2}
  MaxDaemons = 2
  MaxFaults = 1
INVARIANTS OneDaemon 
PROPERTY ServesInTheEnd
CHECK_DEADLOCK FALSE
