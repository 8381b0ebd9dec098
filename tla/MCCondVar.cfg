SPECIFICATION FairSpec
CONSTANTS
  Threads = {t1, t2}
  Alarm = Alarm
  None = None
  MaxDepth = 2
  NotifyUnlocked = FALSE
CHECK_DEADLOCK FALSE
INVARIANTS
  HoldersOwn
  FoundOnce
  TimeoutFindsNode
PROPERTIES
  SignalKept
  TimedWaitEnds
