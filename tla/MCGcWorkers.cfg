CONSTANTS
  NSegs = 5
  SegBlocks = 2
  NWorkers = 2
  VICTIM_COUNT = 2
  Reserved = 1
  NrLogs = 2
  MAX_SKIP = 0
  GC_MERGE = TRUE
  Age <- MCAge
  Offsets = {2}
  Areas <- MCAreas
  Requests <- MCRequests
  Modes <- MCModes
  MaxWork = 2
SPECIFICATION FairSpec
CHECK_DEADLOCK FALSE
INVARIANTS
  VictimsHeldOnce
  VictimBitsHeld
  SyncGcFreed
  
PROPERTIES
  GcReturns
