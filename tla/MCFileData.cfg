SPECIFICATION Spec
CONSTANTS
  NP = 3
  NSegs = 4
  SegBlocks = 2
  MIN_EXTENT_LEN = 2
  Images <- MCImages
  Calls <- MCCalls
  MaxCalls = 2
  MaxEvents = 1
INVARIANTS
  
  
  ExtentsAgree
  SpaceMatchesFile
  
CHECK_DEADLOCK FALSE
