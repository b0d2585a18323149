SPECIFICATION FairSpec
CONSTANTS
  Counts = {0, 1}
  Window = 1
  MaxAsks = 1
  NoStatus = NoStatus
INVARIANTS
  TypeOK
PROPERTIES
  EstimateCatchesUp
  HeardAgainAndAgain
  Reconnects
CHECK_DEADLOCK FALSE
