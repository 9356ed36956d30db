SPECIFICATION Spec
CONSTANTS
  c1 = c1
  c2 = c2
  w1 = w1
  w2 = w2
  d1 = d1
  d2 = d2
  g1 = g1
  g2 = g2
  Clients = {c1}
  Workers = {w1, w2}
  Devices = {d1}
  Signals = {g1, g2}
  Detections <- MCDetections
  Width = 0
  Buffer = 1
  MaxTime = 1
  MaxCalls = 2
  None = None
INVARIANTS TypeOK IncidentsOfOneSignal IncidentsCoverAnomalies ListedOnce LinksAgree
SYMMETRY Symmetry
CHECK_DEADLOCK FALSE
