SPECIFICATION JobSpec
CONSTANTS
  None = none
  BinJobs = {j2}
  CsvJobs = {j1}
  LogJobs = {j2}
  MaxBlocks = 1
INVARIANTS CompleteIsRecorded EndedIsRecorded
PROPERTIES CapturesOnlyGrow StopEndsJob
CHECK_DEADLOCK FALSE
