\* A paste, with two presync threads or one and a reader of delayed entries: three
\* references to one link; a failed connection and a cut.
CONSTANTS
  Pastes = {p1}
  EntryReaders = {p1}
  PreThreads = {t1, t2}
  MaxOthers = 2
  None = None
  MaxFailures = 1
  MaxCuts = 1
SPECIFICATION FairSpec
INVARIANTS NoLinkLeft RefsWatched
PROPERTY LinkReleased
CHECK_DEADLOCK FALSE
