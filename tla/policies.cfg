SPECIFICATION Spec
CONSTANTS
  c1 = c1
  c2 = c2
  p1 = p1
  p2 = p2
  d1 = d1
  d2 = d2
  Clients = {c1, c2}
  PolicyIDs = {p1, p2}
  Devices = {d1}
  Versions = {0, 1, 2}
  Dates = {0, 2, 3}
  MaxTime = 3
  MaxCalls = 5
  None = None
INVARIANT TypeOK
PROPERTIES ActiveVersionGrows LockedStays
SYMMETRY Symmetry
CHECK_DEADLOCK FALSE
