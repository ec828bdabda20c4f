SPECIFICATION FairSpec
CONSTANTS
  Restarts = {r1, r2}
  Forced = {r1}
  MaxAttempts = 2
  MaxSpawns = 2
  MaxClaims = 8
  MaxIlls = 1
INVARIANTS OneAgentPerLease
PROPERTIES Revived NobodyHoldsForever
CHECK_DEADLOCK FALSE
