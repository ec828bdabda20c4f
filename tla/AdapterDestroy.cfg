SPECIFICATION Spec
CONSTANTS
  Adapters = {a1}
  Reconnecters = {a1}
  MaxTicks = 1
  MaxAttempts = 1
  MaxRuns = 2
  MaxGrants = 1
  MaxFaults = 0
INVARIANT DestroyOnlyWhenOver
CHECK_DEADLOCK FALSE
