\* The change count at the limit of its width.
CONSTANTS
  Users = {u1}
  Writers = {w1}
  Readers = {}
  Clearers = {}
  Agers = {}
  Fetchers = {}
  NoClip = NoClip
  Shapes <- MCPlainOnly
  CountMod = 2
  MaxCopies = 2
  MaxTime = 1
  MaxDeaths = 0
SPECIFICATION Spec
INVARIANT ZeroOnlyInitially
CHECK_DEADLOCK FALSE
