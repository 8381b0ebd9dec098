SPECIFICATION FairSpec
CONSTANTS
  a = a
  b = b
  m1 = m1
  m2 = m2
  m3 = m3
  m4 = m4
  Null = Null
  NWorkers = 2
  NQueues = 3
  Actors = {a, b}
  Messages = {m1, m2, m3, m4}
  To <- MCTo
  Reaction <- MCReaction
  Endings = {m2, m3}
  Script <- EndedBetween
CHECK_DEADLOCK FALSE
INVARIANTS
  QueuesKept
PROPERTIES
  
  ImplementsMailboxes
  
