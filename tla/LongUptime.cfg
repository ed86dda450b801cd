SPECIFICATION LogsSpec
CONSTANTS
  Day = 2
  logRetentionDays = 2
  Zones = {0}
  MaxLogTime = 8
CHECK_DEADLOCK FALSE
INVARIANTS
  OutputIsFiled
