CONSTANTS
    a1 = a1
    a2 = a2
    a3 = a3
    NoApp = NoApp
    Apps = {a1, a2, a3}
    Granted = {a3}
    Native = {}
    Old = {a2}
    MaxPresses = 2
    Tokens = {a1, a2}
    System = {a2}
    Managers = {a1}
    Proxies = {a2}
    NoToken = NoApp
    MaxCopies = 2
    MaxChanges = 4
    Owners = {100, 101}
    MaxJobs = 2
    MaxStarts = 4
    p1 = p1
    p2 = p2
    Procs = {p1, p2}
    Lengths = {1, 2, 3, 4}
    Sizes = {0, 2, 4}
    MAX_RECOGNITION_LENGTH = 3
    MAX_ENTITY_OBSERVER_COUNT = 2
    MaxHandles = 3
    MaxTexts = 2
    MonitorThreads = {p1, p2}
    MaxAsks = 3
    d1 = d1
    here = here
    Devices = {d1}
    Local = here
    Users = {100, 101}
    WifiUser = 1
    MaxEvents = 4
    MaxThreads = 2
    Bundles = {a1, a2}
    TextSizes = {0, 1029}
    TOTAL_APP_NUMBERS = 1
    Ticks = {503}
    MaxTime = 503
    MaxUses = 2
    MaxReports = 1
    MaxUsers = 2
SPECIFICATION Spec
CHECK_DEADLOCK FALSE
INVARIANTS
    OnePressOnePaste
    RulesObeyed
    CriticalKnown
    LatestObserverTold
    MonitorEnds
    
    PluginFollows
    ReportsAddUp
