SPECIFICATION FairSpec
CONSTANTS
  t1 = t1
  t2 = t2
  t3 = t3
  c1 = c1
  c2 = c2
  None = None
  Threads = {t1, t2, t3}
  Chans = {c1, c2}
  MaxCalls <- MCMaxCalls
  Size <- MCSize
  Calls <- MCCalls
CHECK_DEADLOCK FALSE
INVARIANTS
  ExactlyOnce
  WaitersMatch
  UnparksMatchParks
  InOrderUnlessOvertaken
PROPERTIES
  CallsEnd
