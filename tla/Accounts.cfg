SPECIFICATION Spec
SYMMETRY RequestSymmetry
CONSTANTS
  u1 = u1
  m1 = m1
  r1 = r1
  r2 = r2
  Name = {u1}
  Spare = {m1}
  Request = {r1, r2}
  MaxRequests = 3
  MaxUsers = 2
  MaxSecrets = 3
INVARIANTS
  TypeOK
  SecretsStayRetired
  LinkWorks
PROPERTIES
  SessionOfFirst
  LoginSettles
CHECK_DEADLOCK FALSE
