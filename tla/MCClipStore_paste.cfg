\* Two pastes and a clear race one application that copies promised content twice.
CONSTANTS
  Users = {u1}
  Writers = {w1}
  Readers = {r1, r2}
  Clearers = {c1}
  Agers = {}
  Fetchers = {}
  NoClip = NoClip
  Shapes <- MCPromises
  CountMod = 2
  MaxCopies = 2
  MaxTime = 1
  MaxDeaths = 1
SPECIFICATION Spec
INVARIANT NeverOlderPayload
SYMMETRY MCSymmetry
CHECK_DEADLOCK FALSE
