\* Four copies; one inner thread may overrun its interval.
CONSTANTS
  SeqMod = 3
  MaxCopies = 4
  MaxTimeouts = 1
SPECIFICATION FairSpec
INVARIANTS NoEventStranded PublishedInOrder
PROPERTY LatestHandled
CHECK_DEADLOCK FALSE
