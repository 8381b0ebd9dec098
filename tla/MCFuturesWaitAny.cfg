SPECIFICATION FutureSpec
CONSTANTS
  Futures = {f1, f2}
CHECK_DEADLOCK FALSE
INVARIANTS
  PostsLive
