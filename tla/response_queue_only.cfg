SPECIFICATION Spec
CONSTANTS
  c1 = c1
  c2 = c2
  w1 = w1
  w2 = w2
  i1 = i1
  i2 = i2
  a1 = a1
  a2 = a2
  k1 = k1
  k2 = k2
  Clients = {c1, c2}
  Workers = {w1, w2}
  IncidentIDs = {i1}
  ActionIDs = {a1, a2}
  Keys = {k1, k2}
  NoteIDs = {1}
  MaxAttemptsInputs = {2}
  Ops = {"CreateAction", "CancelAction"}
  Buffer = 2
  MaxCalls = 3
  None = None
INVARIANTS KeysIndexActions EffectOnce
SYMMETRY Symmetry
CHECK_DEADLOCK FALSE
