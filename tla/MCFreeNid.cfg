SPECIFICATION Spec
CONSTANTS
  Tasks = {t1, t2}
  nat_blocks = 2
  NAT_ENTRY_PER_BLOCK = 2
  FREE_NID_PAGES = 1
  JournalSize = 1
  InUse = {0, 3}
  MaxCalls = 2
  MaxBackground = 3
INVARIANTS
  HandedOutOnce
  FreeNidsKnown
  AvailableAccount

  
CHECK_DEADLOCK FALSE
