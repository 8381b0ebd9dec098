SPECIFICATION FairEitherSpec
\* The system stops when every thread has made its calls, or when the client waits.
CHECK_DEADLOCK FALSE
CONSTANTS
  t1 = t1
  t2 = t2
  t3 = t3
  f1 = f1
  f2 = f2
  Null = Null
  Poison = Poison
  Threads = {t1, t2, t3}
  Flags = {f1, f2}
  MaxCalls = 2
  Futures = {f3, f4, f5}
INVARIANTS
  PostsLiveUnlessLeaked
  DeletedOnce
  WakesToResult
PROPERTIES
  FairlyImplementsOnceCalls
  WaitEnds
