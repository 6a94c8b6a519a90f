CONSTANTS
  Tasks = {t1, t2, t3}
  BUCKET_CNT = 2
  MAX_SIZE = 9
  Requests <- MCRequests
  PoolSize = 2
  MaxNodes = 4
  Null = Null
  Head = Head
SPECIFICATION Spec
SYMMETRY TaskSymmetry
INVARIANTS
  
  WaitsBeforeLinking
PROPERTIES
  GrantsAsPromised
CHECK_DEADLOCK FALSE
