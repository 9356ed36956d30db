SPECIFICATION IngestionSpec
CONSTANTS
  c1 = c1
  c2 = c2
  w1 = w1
  d1 = d1
  d2 = d2
  s1 = s1
  s2 = s2
  g1 = g1
  Clients = {c1, c2}
  Workers = {w1}
  DeviceIDs = {d1, d2}
  StreamIDs = {s1, s2}
  Seeded = {d1}
  Batches <- MCBatches
  Signals = {g1}
  SignalOf <- MCSignalOf
  RuleLists <- MCRules
  Width = 1
  ListLimit = 2
  Keep = 3
  Buffer = 1
  MaxCalls = 5
  MaxBatches = 2
  MaxTime = 1
  None = None
INVARIANTS IngestionTypeOK NoSampleForgotten SamplesKeepDevice NoneOfRetired
PROPERTIES VersionsCount SeededLifecycle FinalStays WindowSummarises DetectionsMatchSamples
CHECK_DEADLOCK FALSE
