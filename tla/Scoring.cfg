SPECIFICATION Spec
CONSTANTS
  Tasks <- TaskLists
  Points <- PointsOf
  Reports <- ReportsOf
  OtherScores <- ScoresOfOthers
  OtherSuites <- SuitesOfOthers
  MaxJobs = 3
INVARIANTS
  ScoreIsBestRun
  MessageExplains
CHECK_DEADLOCK FALSE
