SPECIFICATION FairSpec
CONSTANTS
  Adapters = {a1}
  Reconnecters = {a1}
  MaxTicks = 1
  MaxAttempts = 2
  MaxRuns = 2
  MaxGrants = 2
  MaxFaults = 1
INVARIANTS NeverOrphaned PollerFollowsLease
PROPERTIES FallsSilent PollerRevived LosersLeave
CHECK_DEADLOCK FALSE
