--------------------------- MODULE MCRemotePaste ---------------------------
(* Symmetry and a bound for checking RemotePaste with TLC. *)
EXTENDS RemotePaste, TLC

\* Readers are interchangeable, and so are task objects and keys.
MCSymmetry == Permutations(Readers) \cup Permutations(Tasks) \cup Permutations(Keys)

\* Bound: the network goes only in behaviours of a single event.
MCOutageBound == outages = 0 \/ stamped < 2
=============================================================================
