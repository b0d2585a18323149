SPECIFICATION Spec
CONSTANTS
  r1 = r1
  r2 = r2
  Request = {r1, r2}
  Repo <- Repositories
  First <- RepositoryFirst
  Window <- TimesEntered
  MaxRequests = 3
  MaxQuestions = 2
  MaxExams = 1
  MaxTime = 4
  TokenLife = 3
  Period = 2
SYMMETRY CatalogSymmetry
INVARIANTS
  TypeOK
  ViewsAgree
  PushReachesOwn
  HookWorks
CHECK_DEADLOCK FALSE
