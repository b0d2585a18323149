SPECIFICATION Spec
CONSTANTS
  j1 = j1
  j2 = j2
  s1 = s1
  Job = {j1, j2}
  Sandbox = {s1}
  MaxConns = 2
  ChanCap = 1
  Reports = {1}
  NoJob = NoJob
  NoSandbox = NoSandbox
SYMMETRY SchedulerSymmetry
INVARIANTS
  TypeOK
  JobInOnePlace
  RegisteredOpen
PROPERTIES
  ImplementsLifecycle
CHECK_DEADLOCK FALSE
