SPECIFICATION FairSpec
CONSTANTS
  j1 = j1
  j2 = j2
  Job = {j1, j2}
  SandboxCount = 1
  Scores = {5}
  MaxWaits = 2
  NoJob = NoJob
PROPERTIES
  JudgedUnlessWaiting
  ReserveReturns
  ShutdownEnds
CHECK_DEADLOCK FALSE
