SPECIFICATION Spec
CONSTANTS
  Threads = {t1, t2}
  Alarm = Alarm
  None = None
  MaxDepth = 2
  NotifyUnlocked = TRUE
CHECK_DEADLOCK FALSE
INVARIANTS
  NodeReady
