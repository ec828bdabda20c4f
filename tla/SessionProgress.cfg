SPECIFICATION FairSpec
CONSTANTS
  Messages = {}
  LeaseTerms = {1}
  DrainWindows = {1}
  ProcessingDeadline = 1
  Fallback = 1
  EntryTypes = {"stop", "spawn"}
  Gates = {"paused", "locked"}
  Slack = 0
  MaxClaims = 2
  MaxOutbox = 2
  MaxRuns = 1
  MaxDestroys = 1
PROPERTIES RevokesOnlyItsTarget DeadlinesAreMet StopBypassesGates DestroyCompletes
