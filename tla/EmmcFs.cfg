\* Two logs and the calibration record, and a table of two open files: three names
\* for two entries.
SPECIFICATION Spec
CONSTANTS
  Logs = {"a.bin", "b.bin"}
  Cal = "ocal.cfg"
  LockEntries = 2
  MaxBlocks = 3
  MaxFaults = 2
INVARIANTS
  LocksAccounted
  OpenFileStays
  SavedStays
  LogInOrder
CHECK_DEADLOCK FALSE
