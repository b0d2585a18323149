SPECIFICATION Spec
CONSTANTS
  j1 = j1
  j2 = j2
  s1 = s1
  s2 = s2
  Job = {j1, j2}
  Sandbox = {s1, s2}
  MaxConns = 2
  ChanCap = 1
  Reports = {1}
  NoJob = NoJob
  NoSandbox = NoSandbox
INVARIANTS
  NeverPanics
CHECK_DEADLOCK FALSE
