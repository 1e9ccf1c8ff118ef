\* An application or a trusted service, one stop of the pasteboard service, three calls.
CONSTANTS
  Clients = {"c1"}
  Observers = {"o1"}
  Types <- MCTypes
  MaxObservers = 2
  MaxStops = 1
  MaxCalls = 3
SPECIFICATION FairSpec
INVARIANTS ObserversRestored NoneUnwanted ProxyNotStale
PROPERTIES CallsReturn DeadForgotten
CHECK_DEADLOCK FALSE
