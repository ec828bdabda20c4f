SPECIFICATION LaunchSpec
CONSTANTS
  Commands = {c1, c2}
  MaxDaemons = 2
  MaxFaults = 0
INVARIANT ServingIsFound
CHECK_DEADLOCK FALSE
