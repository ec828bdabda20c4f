SPECIFICATION Spec
CONSTANTS
  Messages = {m1}
  LeaseTerms = {1, 3}
  DrainWindows = {0, 1}
  ProcessingDeadline = 3
  Fallback = 2
  EntryTypes = {}
  Gates = {}
  Slack = 1
  MaxClaims = 2
  MaxOutbox = 0
  MaxRuns = 3
  MaxDestroys = 1
INVARIANTS LiveHasLease WorkMatchesPhase NoOversleep
PROPERTIES ImplementsLease DestroyIsFinal
