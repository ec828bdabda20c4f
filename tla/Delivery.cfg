SPECIFICATION FairSpec
CONSTANTS
  Senders = {s1}
  Kinds = {"cue", "reset"}
  MaxItems = 2
  MaxAttempts = 3
  MaxRuns = 3
  MaxFaults = 2
INVARIANTS NothingLost ShownInOrder NewestResetHonoured
PROPERTIES DeliveredIsShown MissedWakeRouses
CHECK_DEADLOCK FALSE
