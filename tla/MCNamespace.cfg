SPECIFICATION Spec
CONSTANTS
  Tasks = {t1, t2}
  Root = Root
  A = A
  F = F
  X = X
  Ino = {Root, A, F, X}
  Names = {n1, n2}
  N1 = n1
  Nil = Nil
  max_orphans = 1
  MaxOps = 3
  MaxFaults = 1
SYMMETRY Symmetric
INVARIANTS
  EntriesCounted
  OrphansExact
  ParentKnown
CHECK_DEADLOCK FALSE
