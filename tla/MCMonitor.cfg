SPECIFICATION Spec
CONSTANTS
  Threads = {t1, t2, t3}
  Conditions = {c1}
  Monitors = {1, 2}
  Routines <- MCRoutines
  None = None
  MaxDepth = 2
SYMMETRY Symmetry
CHECK_DEADLOCK FALSE
INVARIANTS
  HoldersOwn
  FoundOnce
  NobodyStranded
PROPERTIES
  AcceptsOnly
