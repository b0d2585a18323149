SPECIFICATION FairSpec
CONSTANTS
  j1 = j1
  j2 = j2
  s1 = s1
  Job = {j1, j2}
  Sandbox = {s1}
  MaxConns = 1
  ChanCap = 1
  Reports = {0, 1, 2}
  NoJob = NoJob
  NoSandbox = NoSandbox
INVARIANTS
  EstimateWithinOne
PROPERTIES
  QueueDrains
CHECK_DEADLOCK FALSE
