SPECIFICATION FairSpec
CONSTANTS
  Names = {"a", "b"}
  Types = {"once", "interval", "cron"}
  Delays = {0, 1}
  Untils = {2}
  Counts = {0, 99}
  Interval = 2
  CronGaps = {1, 99}
  Grace = 1
  Clients = {c1}
  MaxCreates = 2
INVARIANTS TypeOK NeverOversleeps
PROPERTY DueIsServed
