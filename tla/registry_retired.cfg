SPECIFICATION Spec
CONSTANTS
  c1 = c1
  c2 = c2
  c3 = c3
  d1 = d1
  d2 = d2
  s1 = s1
  s2 = s2
  Clients = {c1, c2}
  DeviceIDs = {d1}
  StreamIDs = {}
  Seeded = {}
  MaxCalls = 4
  None = None
PROPERTY RetiredIsFinal
CHECK_DEADLOCK FALSE
