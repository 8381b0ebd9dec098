SPECIFICATION FairSpec
CONSTANTS
  t1 = t1
  t2 = t2
  t3 = t3
  t4 = t4
  Null = Null
  Threads = {t1, t2, t3, t4}
  Kinds = {"mcs_lock", "mcs_spin_lock", "fast_block_lock", "spin_queue_lock", "mcs_block_spin_lock", "block_spin_lock", "futex_mutex", "go_mutex", "exp_backoff_then_block_lock"}
INVARIANTS
  NobodyForgotten
  FirstComeFirstServed
PROPERTIES
  FairlyImplementsMutex
  EveryoneServed
