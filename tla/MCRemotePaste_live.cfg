\* Every paste comes to its end, under fairness.  All fetches are of one event: when
\* no task is listed, only the other paste may still hold a task object, so a second
\* one is always free.
CONSTANTS
  Readers = {r1, r2}
  Tasks = {k1, k2}
  Keys = {s1}
  MaxEvents = 1
  MaxOutages = 0
SPECIFICATION FairSpec
PROPERTY PasteReturns
CHECK_DEADLOCK FALSE
