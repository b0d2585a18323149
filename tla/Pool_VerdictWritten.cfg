SPECIFICATION Spec
CONSTANTS
  j1 = j1
  j2 = j2
  j3 = j3
  Job = {j1, j2, j3}
  SandboxCount = 2
  Scores = {0, 5}
  MaxWaits = 2
  NoJob = NoJob
CHECK_DEADLOCK FALSE
INVARIANT VerdictWritten
