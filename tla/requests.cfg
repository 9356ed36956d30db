SPECIFICATION Spec
CONSTANTS
  c1 = c1
  c2 = c2
  w1 = w1
  k1 = k1
  l1 = l1
  Clients = {c1, c2}
  Workers = {w1}
  Keys = {k1}
  Labels = {l1}
  Limit = 2
  Window = 2
  NoStart = NoStart
  Keep = 2
  Base = 2
  MaxCalls = 6
  MaxTime = 2
  Offsets = {0, 2}
SYMMETRY Alike
INVARIANTS TypeOK BurstBounded NewestKept ListingFollows
PROPERTIES RefusalsEarned
CHECK_DEADLOCK FALSE
