SPECIFICATION FairSpec
CONSTANTS
  p1 = p1
  p2 = p2
  t1 = t1
  t2 = t2
  x1 = x1
  Procs = {p1}
  Threads = {t1}
  External = {x1}
  Removable = {}
  MainThread = t1
  NoProc = NoProc
  NoThread = NoThread
PROPERTIES
  FairlyImplementsParkUnpark
  ReadyRuns
