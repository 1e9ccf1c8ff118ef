\* Three subscriptions of two processes race copies, time limits and exits.
CONSTANTS
  Pids = {1, 2}
  Windows = {w1, w2}
  Threads = {t1, t2}
  Copiers = {c1}
  MaxSubs = 3
SPECIFICATION FairSpec
INVARIANTS CalledAtMostOnce NoneLost
PROPERTY NoneWaitsForever
CHECK_DEADLOCK FALSE
