SPECIFICATION Spec
CONSTANTS
  p1 = p1
  p2 = p2
  t1 = t1
  t2 = t2
  x1 = x1
  Procs = {p1, p2}
  Threads = {t1, t2}
  External = {}
  Removable = {p2}
  MainThread = t1
  NoProc = NoProc
  NoThread = NoThread
CONSTRAINT YieldBound
CHECK_DEADLOCK FALSE
INVARIANTS
  TicketsMatch
  IdleListExact
  NobodyStranded
PROPERTIES
  ImplementsParkUnpark
