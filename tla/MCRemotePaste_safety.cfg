\* Two pastes and two task objects; two events, or one and an outage.
CONSTANTS
  Readers = {r1, r2}
  Tasks = {k1, k2}
  Keys = {s1, s2}
  MaxEvents = 2
  MaxOutages = 1
SPECIFICATION Spec
INVARIANTS OneFetchPerEvent WaiterGetsItsEvent SameMeansStored
CONSTRAINT MCOutageBound
SYMMETRY MCSymmetry
CHECK_DEADLOCK FALSE
