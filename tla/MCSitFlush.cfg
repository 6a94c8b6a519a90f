CONSTANTS
  MAIN_SEGS = 3
  SIT_ENTRY_PER_BLOCK = 2
  SIT_JOURNAL_ENTRIES = 2
  Images = {i1, i2}
  RESIZEFS = {TRUE, FALSE}
  MaxCount = 2
  NR_SUM_PAGES = 1
  NR_CURSEG_NODE_TYPE = 1
  Shapes <- MCShapes
SPECIFICATION Spec
CONSTRAINT CounterBound
SYMMETRY ImageSymmetry
VIEW LiveSit
INVARIANTS
  DirtyTracked
  LossConfinedToLeftSets
  LastPackFound
  CommittedSitFound
