SPECIFICATION Spec
CONSTANTS
  Procs = {p1, p2}
  Threads = {t1, t2}
  NoThread = NoThread
SYMMETRY Symmetry
INVARIANTS
  LanesIntact
  SearchMissesOnlyLocked
PROPERTIES
  ImplementsFifos
