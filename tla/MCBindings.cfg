SPECIFICATION Spec
CONSTANTS
    MaxCalls = 2
    MaxWorks = 1
    Pastes = {1, 2}
    Requests <- SomeRequests
    UPDATE_PERCENT = 20
    UPDATE_PERCENT_WITHOUT_FILE = 40
    MaxSignals = 1
    MaxRecords = 3
    MaxClips = 2
    MaxNumber = 2
    Callbacks = {c1, c2}
    AppThreads = {main, worker}
    MaxObservers = 2
INVARIANTS PromisedGetterAlive WorkFreedOnce ProgressHeard FilesComplete NumbersLeadBack NoOrphans
PROPERTY CallsTold
CHECK_DEADLOCK FALSE
