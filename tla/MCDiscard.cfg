CONSTANTS
  Segs = 4
  BlksPerSeg = 2
  Writers = {w1, w2}
  MaxDiscard = 2
  MaxRequests = 2
  Granularity = 2
  DefaultGranularity = 2
  Targets <- MCTargets
  MaxOps = 6
  MaxCkpts = 1
  MaxEvents = 1
SPECIFICATION Spec
CHECK_DEADLOCK FALSE
INVARIANTS
  NoLiveDiscard
PROPERTIES
  DiscardWaitEnds
