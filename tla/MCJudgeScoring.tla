-------------------------- MODULE MCJudgeScoring --------------------------
(* Model-checking instance of JudgeScoring: two targets, one target listed   *)
(* twice, or a score map without targets; suites with a fraction of their    *)
(* points, one of them named like a target, one without points.  Others      *)
(* write a score that is no hundredth of a point, or one below zero.         *)
EXTENDS JudgeScoring

TaskLists  == {<<"t1", "t2">>, <<"t1", "t1">>, <<>>}
PointsOf   == [t1 |-> 1, s |-> 2]
Suite(name, ac, wa) == [name |-> name, ac |-> ac, wa |-> wa]
ReportsOf  == {<<Suite("t1", 1, 2)>>, <<Suite("t1", 2, 1), Suite("s", 1, 1)>>,
               <<Suite("t1", 0, 1), Suite("x", 1, 0)>>, <<Suite("s", 0, 0)>>}
ScoresOfOthers == {805, -600}
SuitesOfOthers == {<<[name |-> "t2", get |-> 600]>>}
=============================================================================
