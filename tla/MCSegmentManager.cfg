CONSTANTS
  MAIN_SEGS = 3
  blocks_per_seg = 2
  Logs = {l1, l2}
  NULL_ADDR = NULL_ADDR
  USHRT_SEGS = 16
  max_fragment_hole = 1
  MaxLeft = 0
SPECIFICATION FairSpec
INVARIANTS
  LogsOwnSegments
  
  LogTailUnused
PROPERTIES
  
  PrefreeReclaimed
