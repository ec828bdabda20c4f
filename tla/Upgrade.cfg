SPECIFICATION FairSpec
CONSTANTS
  e1 = e1
  e2 = e2
  Ensembles = {e1, e2}
  Peers = {"peer"}
  Sessions <- MCSessions
  MaxEntries = 1
  MaxFaults = 2
INVARIANTS CaptureBeforeDestroy CapturedTornDown
PROPERTIES SnapshotIsKept ConductorLast CutoverFinishes
CHECK_DEADLOCK FALSE
