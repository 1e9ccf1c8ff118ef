\* Two copies, a paste, a clear, an expiration and a remote clip race each other.
CONSTANTS
  Users = {u1}
  Writers = {w1, w2}
  Readers = {r1}
  Clearers = {c1}
  Agers = {a1}
  Fetchers = {f1}
  NoClip = NoClip
  Shapes <- MCPlainOrDelay
  CountMod = 2
  MaxCopies = 2
  MaxTime = 2
  MaxDeaths = 0
SPECIFICATION Spec
INVARIANT ExpiryArmed
PROPERTY BoardSpec
CHECK_DEADLOCK FALSE
