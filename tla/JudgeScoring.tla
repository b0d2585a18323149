---------------------------- MODULE JudgeScoring ----------------------------
(***************************************************************************)
(* How a judge comes to a score and a message (sandbox/runHandler.go from   *)
(* the copy of the code on, sandbox/result.go) through two files in the     *)
(* box, score.txt and message.txt, which the score parser                   *)
(* (sandbox/grp_parser/main.go) updates once per target.  SandboxPool has   *)
(* the judge as one choice among Scores; here is what is chosen.            *)
(*                                                                         *)
(* Jobs follow one another in one box.  The scripts are the teachers':      *)
(* what they do to a target is a choice, and a score script ends with a     *)
(* run of the parser, which alone writes the two files by then.  Before,    *)
(* the files of a submission may bring them along, and so may what is       *)
(* compiled and run: the box is writable.  Counts, texts and times of a     *)
(* message are left out.                                                    *)
(***************************************************************************)
EXTENDS Integers, Sequences, FiniteSets, FiniteSetsExt, Functions

CONSTANTS
  Tasks,     \* the lists of targets that a score map may have
  Reports,   \* what a test program writes: suites [name, ac, wa]
  Points,    \* the score map: points per suite
  OtherScores, OtherSuites,   \* what others may write to the two files
  MaxJobs    \* bound on the jobs of the box

ASSUME ScoringAssumption ==
  /\ MaxJobs \in Nat /\ \A n \in DOMAIN Points : Points[n] \in Nat
  /\ \A t \in Tasks : t \in Seq(Range(t))
  /\ \A r \in Reports : /\ IsFiniteSet(DOMAIN r)
                         /\ \A k \in DOMAIN r : {r[k].ac, r[k].wa} \subseteq Nat
  /\ OtherScores \subseteq Int
  /\ \A s \in OtherSuites : IsFiniteSet(DOMAIN s) /\ \A k \in DOMAIN s : s[k].get \in Nat

VARIABLES
  phase,      \* "idle", the stages, or how the last job ended
  tasks,      \* the targets of the job
  compiled, executed, scored,   \* results so far: [target, status]
  box,        \* score.txt, NoScore if it cannot be read, and the suites of
              \* message.txt, none if it cannot be read
  copied,     \* whether the code was copied to the box
  row,        \* the score in the database
  message,    \* the message that goes with it: the suites [name, get] of
              \* message.txt, and the targets that are added as failed
  jobs,       \* how many jobs there were
  left,       \* history: what the box held when scoring began
  runs,       \* history: rounded scores that the parser computed for the job
  cut         \* history: whether a parser was stopped half-way

results == <<compiled, executed, scored>>
history == <<left, runs, cut>>
vars    == <<phase, tasks, results, box, copied, row, message, jobs, history>>

(* Scores are counted in units of 1/600 point: thirds of a point and        *)
(* hundredths, to which the parser rounds, are whole numbers.               *)
Point   == 600
Failed  == -2 * Point
Judging == -1 * Point
NoScore == -1
Clean   == [score |-> NoScore, suites |-> <<>>]
NoMessage == [suites |-> <<>>, errors |-> {}]

Init ==
  /\ phase = "idle" /\ tasks = <<>>
  /\ compiled = <<>> /\ executed = <<>> /\ scored = <<>>
  /\ box = Clean /\ copied = TRUE /\ row = Judging /\ message = NoMessage /\ jobs = 0
  /\ left = Clean /\ runs = {} /\ cut = FALSE

-----------------------------------------------------------------------------
Round(score) == 6 * ((score + 3) \div 6)

(* Parse: the share of the tests that passed, for suites of the score map   *)
(* that have tests.                                                         *)
GetScore(s) ==
  IF s.name \in DOMAIN Points /\ s.ac + s.wa > 0
  THEN (s.ac * Points[s.name] * Point) \div (s.ac + s.wa) ELSE 0

Parse(report) == [k \in DOMAIN report |->
                    [name |-> report[k].name, get |-> GetScore(report[k])]]

SumOf(suites) == SumFunction([k \in DOMAIN suites |-> suites[k].get])

Higher(score) == ~(box.score > score)

(* Mutant: the last score instead of the best.                              *)
WriteScoreLast(score) == Round(score)

(* writeScore reads the old score, -1 if it cannot.                         *)
WriteScore(score) == Round(IF Higher(score) THEN score ELSE box.score)

(* Mutant: the message is written in any case.                              *)
WriteMessageAlways(suites) == suites

WriteMessage(suites) == IF Higher(SumOf(suites)) THEN suites ELSE box.suites

(* What a run of the parser leaves.  It may be stopped before it writes     *)
(* anything, while score.txt is empty, before message.txt and while that is *)
(* empty: by an error, the limit on file sizes or the end of the job's 60   *)
(* seconds.                                                                 *)
Stops == {"early", "emptied", "scored", "cleared", "never"}

ParserLeaves(suites, stop) ==
  LET score == WriteScore(SumOf(suites))
  IN  CASE stop = "early"   -> box
        [] stop = "emptied" -> [box EXCEPT !.score = NoScore]
        [] stop = "scored"  -> [box EXCEPT !.score = score]
        [] stop = "cleared" -> [score |-> score,
                                suites |-> IF Higher(SumOf(suites)) THEN <<>> ELSE box.suites]
        [] stop = "never"   -> [score |-> score, suites |-> WriteMessage(suites)]

-----------------------------------------------------------------------------
(* Either file is as it was, gone, or written by somebody else.             *)
Written(b) == [score  : {b.score, NoScore} \cup OtherScores,
               suites : {b.suites, <<>>} \cup OtherSuites]

(* runShellCommand takes up a job in a box that isolate has initialised, or *)
(* that was handed on as the last job left it, and copies all files of the  *)
(* submission there.  Copying may fail half-way, which is ignored.          *)
Begin ==
  /\ phase \notin {"compile", "execute", "score"}
  /\ jobs < MaxJobs /\ jobs' = jobs + 1
  /\ phase' = "compile" /\ tasks' \in Tasks
  /\ compiled' = <<>> /\ executed' = <<>> /\ scored' = <<>>
  /\ \E b \in {box, Clean} : box' \in Written(b)
  /\ copied' \in BOOLEAN
  /\ row' = Judging /\ message' = NoMessage
  /\ left' = box' /\ runs' = {} /\ cut' = FALSE

(* The target's own programs are run in the box.                            *)
Touches == box' \in Written(box) /\ left' = box' /\ UNCHANGED <<runs, cut>>

Stage(name) == phase = name /\ UNCHANGED <<phase, tasks, copied, row, message, jobs>>

(* A script, or the parser, cannot be written to the box.                   *)
GiveUp ==
  /\ \/ phase = "compile" /\ compiled = <<>>
     \/ phase = "compile" /\ Len(compiled) = Len(tasks)
     \/ phase = "execute" /\ Len(executed) = Len(compiled)
  /\ phase' = "failed" /\ row' = Failed
  /\ UNCHANGED <<tasks, results, box, copied, message, jobs, history>>

CompileTarget ==
  /\ Stage("compile") /\ Len(compiled) < Len(tasks)
  /\ \E status \in {"SUCCESS", "COMPILE_ERROR"} :
       compiled' = Append(compiled, [target |-> tasks[Len(compiled) + 1], status |-> status])
  /\ Touches /\ UNCHANGED <<executed, scored>>

Goes(from, done, to) ==
  /\ phase = from /\ done /\ phase' = to
  /\ UNCHANGED <<tasks, results, box, copied, row, message, jobs, history>>

(* A test program that exits with 1 has written its report; one that dumps  *)
(* core and exits is a runtime error.                                       *)
StatusOf == [ended |-> "SUCCESS", exit1 |-> "SUCCESS", core |-> "RUNTIME_ERROR",
             other |-> "FAILED"]

(* Only a target that "FAILED" to compile would be left out; one with a     *)
(* COMPILE_ERROR is run.                                                    *)
ExecuteTarget ==
  /\ Stage("execute") /\ Len(executed) < Len(compiled)
  /\ LET c == compiled[Len(executed) + 1]
     IN  \E how \in IF c.status = "FAILED" THEN {"other"} ELSE DOMAIN StatusOf :
           executed' = Append(executed, [target |-> c.target, status |-> StatusOf[how]])
  /\ Touches /\ UNCHANGED <<compiled, scored>>

(* mergeCompileAndExecuteResult: a target that is listed twice has the      *)
(* result of its last compilation.                                          *)
CompileStatus(target) ==
  compiled[Max({k \in DOMAIN compiled : compiled[k].target = target})].status

Merged(k) ==
  LET e == executed[k]
  IN  IF CompileStatus(e.target) # "SUCCESS"
      THEN [e EXCEPT !.status = CompileStatus(e.target)] ELSE e

(* runScore: the score script of a target, or its failure.                  *)
ScoreTarget ==
  LET e == Merged(Len(scored) + 1)
  IN  /\ Stage("score") /\ Len(scored) < Len(executed)
      /\ \/ /\ e.status # "SUCCESS"
            /\ scored' = Append(scored, e)
            /\ UNCHANGED <<box, history>>
         \/ /\ e.status = "SUCCESS"
            /\ \E report \in Reports, stop \in Stops :
                 /\ box' = ParserLeaves(Parse(report), stop)
                 /\ runs' = runs \cup {Round(SumOf(Parse(report)))}
                 /\ cut' = (cut \/ stop # "never")
                 /\ scored' = Append(scored, [e EXCEPT
                      !.status = IF stop = "never" THEN "SUCCESS" ELSE "FAILED"])
            /\ UNCHANGED left
      /\ UNCHANGED <<compiled, executed>>

(* MergeJudgeResults reads the points of a suite into an int: a fraction is *)
(* refused and leaves zero.                                                 *)
ReadPoints(get) == IF get % Point = 0 THEN get ELSE 0

ReadSuites == [k \in DOMAIN box.suites |->
  [name |-> box.suites[k].name, get |-> ReadPoints(box.suites[k].get)]]

NamesOf(suites) == {suites[k].name : k \in DOMAIN suites}

FailedTargets ==
  {scored[k].target : k \in {n \in DOMAIN scored : scored[n].status # "SUCCESS"}}

TotalScore == IF box.score = NoScore THEN 0 ELSE box.score

(* Failures are added of targets for which there is no suite.  Without a    *)
(* copy the files are looked for elsewhere.  Updates leaves the score alone *)
(* when the new one is zero.                                                *)
Finish ==
  /\ phase = "score" /\ Len(scored) = Len(executed)
  /\ phase' = "judged"
  /\ message' = IF copied
                THEN [suites |-> ReadSuites, errors |-> FailedTargets \ NamesOf(box.suites)]
                ELSE [suites |-> <<>>, errors |-> FailedTargets]
  /\ row' = IF copied /\ TotalScore # 0 THEN TotalScore ELSE row
  /\ UNCHANGED <<tasks, results, box, copied, jobs, history>>

Next ==
  \/ Begin \/ GiveUp \/ CompileTarget \/ ExecuteTarget \/ ScoreTarget \/ Finish
  \/ Goes("compile", Len(compiled) = Len(tasks), "execute")
  \/ Goes("execute", Len(executed) = Len(compiled), "score")

Spec == Init /\ [][Next]_vars

-----------------------------------------------------------------------------
LeftScore == IF left.score = NoScore THEN 0 ELSE left.score

(* The score of a submission is that of the best run of the parser for one  *)
(* of its targets, not the sum over its targets; or else, if that is        *)
(* higher, what score.txt held when scoring began: nothing tells a score of *)
(* the parser from one that an earlier submission left in a box handed on   *)
(* without isolate --init, that came with the files of this one, or that    *)
(* its program wrote.  A parser that is stopped may lose a score, and adds  *)
(* none.  A best score of zero leaves the code for judging.                 *)
ScoreIsBestRun ==
  phase = "judged" =>
    LET best == Max(runs \cup {Round(LeftScore)})
    IN  /\ row \in {Judging} \cup runs \cup {LeftScore, Round(LeftScore)}
        /\ copied /\ ~cut => Round(row) = best \/ (best = 0 /\ row = Judging)

(* The message explains the score.  Every target that failed is in it, and  *)
(* no other target as failed.  If the box held neither file when scoring    *)
(* began, or the score is higher than the one it held, the suites are those *)
(* of one run of the parser, the one whose score the submission has, or a   *)
(* target is reported whose parser was stopped.  The points it shows do not *)
(* exceed the score; they fall short of it where a suite's are a fraction.  *)
MessageExplains ==
  phase = "judged" =>
    /\ message.errors \subseteq FailedTargets
    /\ FailedTargets \subseteq message.errors \cup NamesOf(message.suites)
    /\ copied /\ (left = Clean \/ Round(LeftScore) < Round(TotalScore)) =>
         \/ /\ Round(SumOf(box.suites)) = TotalScore
            /\ SumOf(message.suites) <= TotalScore
         \/ cut /\ \E k \in DOMAIN scored : scored[k].status = "FAILED"
=============================================================================
