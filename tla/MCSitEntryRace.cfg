CONSTANTS
  Segs = {s1, s2, s3}
  blocks_per_seg = 2
  Allocs = {a1, a2}
  Invals = {}
  None = None
SPECIFICATION Spec
SYMMETRY Symmetry
INVARIANTS
  EntriesMatchMap
