SPECIFICATION FairSpec
CONSTANTS
  u1 = u1
  a1 = a1
  User = {u1, a1}
  Admin = {a1}
  q1 = q1
  Question = {q1}
  r1 = r1
  r2 = r2
  r3 = r3
  Request = {r1, r2, r3}
  Scores = {0, 5}
  MaxRows = 2
  MaxRelations = 2
INVARIANTS
  TypeOK
  BoardAgrees
  OneHistory
  ViewsAgree
PROPERTIES
  BestNeverFalls
  TokensRead
CHECK_DEADLOCK FALSE
