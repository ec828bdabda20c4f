SPECIFICATION Spec
CONSTANTS
  p1 = p1
  p2 = p2
  s1 = s1
  task = task
  Players = {p1, p2}
  Rosters <- OneAndBoth
  Stages = {s1}
  Tasks = {task}
  Criteria = 1
  WorktreeUsers = {p1}
  Window = 1
  ReportTypes = {"result", "blocker", "update"}
  MaxSignals = 4
  MaxRuns = 2
CHECK_DEADLOCK FALSE
INVARIANTS VerdictFits NoReportLost OrderlyDrain
