SPECIFICATION Spec
CONSTANTS
  c1 = c1
  c2 = c2
  w1 = w1
  w2 = w2
  i1 = i1
  i2 = i2
  a1 = a1
  a2 = a2
  k1 = k1
  k2 = k2
  Clients = {c1, c2}
  Workers = {w1}
  IncidentIDs = {i1}
  ActionIDs = {a1}
  Keys = {k1}
  NoteIDs = {1}
  MaxAttemptsInputs = {1}
  Ops = {"CreateAction", "ExecuteAction"}
  Buffer = 2
  MaxCalls = 3
  None = None
PROPERTY ActionsIdempotent
CHECK_DEADLOCK FALSE
