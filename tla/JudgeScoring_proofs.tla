------------------------ MODULE JudgeScoring_proofs ------------------------
(***************************************************************************)
(* Proofs about JudgeScoring: the score of a job is that of its best run,  *)
(* and the message goes with it, for all score maps, reports and scripts.  *)
(***************************************************************************)
EXTENDS JudgeScoring, DataLemmas

-----------------------------------------------------------------------------
(* The inductive invariant.                                                 *)

Target == UNION {Range(t) : t \in Tasks}
Status == {"SUCCESS", "COMPILE_ERROR", "RUNTIME_ERROR", "FAILED"}
Result == [target : Target, status : Status]

(* Scores as the parser writes them: in hundredths of a point.              *)
Cents == {6 * n : n \in Nat}

IsSuites(s) == IsFiniteSet(DOMAIN s) /\ \A k \in DOMAIN s : s[k].get \in Nat

IsBox(b) ==
  /\ b = [score |-> b.score, suites |-> b.suites]
  /\ b.score \in Int /\ IsSuites(b.suites)

(* A stage has results for a part of what the stage before has them for.    *)
Stages ==
  /\ tasks \in Seq(Target)
  /\ compiled \in Seq(Result) /\ executed \in Seq(Result) /\ scored \in Seq(Result)
  /\ Len(executed) <= Len(compiled) /\ Len(scored) <= Len(executed)
  /\ \A k \in DOMAIN executed : executed[k].target = compiled[k].target

(* From what was there when scoring began, the score file holds the best    *)
(* score so far, unless a parser was stopped.                               *)
Files ==
  /\ IsBox(box) /\ IsBox(left)
  /\ runs \in SUBSET Cents /\ IsFiniteSet(runs)
  /\ cut \in BOOLEAN /\ copied \in BOOLEAN
  /\ phase \in {"compile", "execute"} => runs = {}
  /\ box.score \in {NoScore, left.score, Round(LeftScore)} \cup runs
  /\ ~cut => Round(TotalScore) = Max(runs \cup {Round(LeftScore)})

(* The row is written last.                                                 *)
Verdict ==
  /\ phase \in {"compile", "execute", "score"} => row = Judging
  /\ phase = "judged" => /\ row \in {Judging} \cup runs \cup {LeftScore, Round(LeftScore)}
                         /\ copied => row = IF TotalScore = 0 THEN Judging ELSE TotalScore

(* A parser that was stopped leaves a target that failed; without one the   *)
(* suites are those of the score, if there were none or the score has risen *)
(* since scoring began.                                                     *)
Suites ==
  /\ cut => \E k \in DOMAIN scored : scored[k].status = "FAILED"
  /\ ~cut /\ (left = Clean \/ Round(LeftScore) < Round(TotalScore))
       => Round(SumOf(box.suites)) = TotalScore
  /\ phase = "judged" =>
       /\ message.errors \subseteq FailedTargets
       /\ FailedTargets \subseteq message.errors \cup NamesOf(message.suites)
       /\ copied => message.suites = ReadSuites

JudgeInv == Stages /\ Files /\ Verdict /\ Suites

-----------------------------------------------------------------------------
(* Rounding and sums.                                                       *)

(* Rounding gives hundredths, keeps the order, and leaves hundredths alone. *)
LEMMA RoundFacts ==
  /\ \A s \in Int : Round(s) \in Int /\ Round(Round(s)) = Round(s)
  /\ \A s, t \in Int : s <= t => Round(s) <= Round(t)
  /\ \A s \in Nat : Round(s) \in Cents
  /\ \A s \in Cents : s \in Nat /\ Round(s) = s
<1>1. ASSUME NEW n \in Int PROVE Round(6 * n) = 6 * n
  <2>1. (6 * n + 3) \div 6 = n
    OBVIOUS
  <2>. QED BY <2>1 DEF Round
<1>2. ASSUME NEW s \in Int PROVE Round(s) \in Int /\ Round(Round(s)) = Round(s)
  <2>1. PICK n \in Int : n = (s + 3) \div 6
    OBVIOUS
  <2>2. Round(s) = 6 * n
    BY <2>1 DEF Round
  <2>. QED BY <1>1, <2>2
<1>3. ASSUME NEW s \in Int, NEW t \in Int, s <= t PROVE Round(s) <= Round(t)
  <2>1. PICK m \in Int : m = (s + 3) \div 6
    OBVIOUS
  <2>2. PICK n \in Int : n = (t + 3) \div 6
    OBVIOUS
  <2>3. m <= n
    BY <1>3, <2>1, <2>2
  <2>4. Round(s) = 6 * m /\ Round(t) = 6 * n
    BY <2>1, <2>2 DEF Round
  <2>. QED BY <2>3, <2>4
<1>4. ASSUME NEW s \in Nat PROVE Round(s) \in Cents
  <2>1. (s + 3) \div 6 \in Nat
    OBVIOUS
  <2>. QED BY <2>1 DEF Round, Cents
<1>5. ASSUME NEW s \in Cents PROVE s \in Nat /\ Round(s) = s
  <2>1. PICK n \in Nat : s = 6 * n
    BY DEF Cents
  <2>. QED BY <1>1, <2>1
<1>. QED BY <1>2, <1>3, <1>4, <1>5

(* The sum of numbers.                                                      *)
LEMMA SumOfNat ==
  ASSUME NEW s, IsSuites(s)
  PROVE  SumOf(s) \in Nat
<1>. DEFINE f == [k \in DOMAIN s |-> s[k].get]
<1>1. f \in [DOMAIN s -> Nat] /\ IsFiniteSet(DOMAIN s)
  BY DEF IsSuites
<1>. HIDE DEF f
<1>2. SumFunction(f) \in Nat
  BY <1>1, SumFacts
<1>. QED BY <1>2 DEF SumOf, f

(* The sum of hundredths is one.                                            *)
LEMMA SumOfCents ==
  ASSUME NEW S, IsFiniteSet(S), NEW f \in [S -> Cents]
  PROVE  SumFunction(f) \in Cents
<1>1. Cents \subseteq Nat /\ 0 \in Cents /\ \A a, b \in Cents : a + b \in Cents
  <2>1. ASSUME NEW a \in Cents, NEW b \in Cents PROVE a + b \in Cents
    <3>1. PICK m \in Nat : a = 6 * m
      BY DEF Cents
    <3>2. PICK n \in Nat : b = 6 * n
      BY DEF Cents
    <3>3. a + b = 6 * (m + n) /\ m + n \in Nat
      BY <3>1, <3>2
    <3>. QED BY <3>3 DEF Cents
  <2>2. 0 = 6 * 0
    OBVIOUS
  <2>. QED BY <2>1, <2>2, RoundFacts DEF Cents
<1>2. f \in [S -> Nat]
  BY <1>1
<1>3. PICK g \in [SUBSET S -> Nat] : Totals(f, S, g)
  BY <1>2, SumSteps
<1>4. /\ g[{}] = 0 /\ SumFunction(f) = g[S]
      /\ \A T \in SUBSET S : \A x \in T : g[T] = f[x] + g[T \ {x}]
  BY <1>3 DEF Totals
<1>. DEFINE P == {T \in SUBSET S : g[T] \in Cents}
<1>5. {} \in P
  BY <1>1, <1>4
<1>6. ASSUME NEW T \in SUBSET S, NEW x \in S \ T, T \in P PROVE T \cup {x} \in P
  <2>1. (T \cup {x}) \ {x} = T
    OBVIOUS
  <2>2. g[T \cup {x}] = f[x] + g[(T \cup {x}) \ {x}]
    BY <1>4
  <2>3. g[T \cup {x}] = f[x] + g[T] /\ f[x] \in Cents /\ g[T] \in Cents
    BY <1>6, <2>1, <2>2
  <2>4. g[T \cup {x}] \in Cents
    <3>. HIDE DEF P
    <3>1. f[x] + g[T] \in Cents
      BY <1>1, <2>3
    <3>. QED BY <2>3, <3>1
  <2>. QED BY <2>4
<1>7. S \in P
  <2>. HIDE DEF P
  <2>. QED BY <1>5, <1>6, FiniteSetInduction
<1>. QED BY <1>4, <1>7

(* Without suites there are no points.                                      *)
LEMMA EmptySum == Round(SumOf(<<>>)) = 0
<1>1. IsFiniteSet({})
  BY FS_EmptySet
<1>2. PICK f : f = [k \in {} |-> 0]
  OBVIOUS
<1>3. f \in [{} -> Nat]
  BY <1>2
<1>4. SumFunction(f) = 0
  <2>1. PICK g \in [SUBSET {} -> Nat] : Totals(f, {}, g)
    BY <1>1, <1>3, SumSteps
  <2>. QED BY <2>1 DEF Totals
<1>5. [k \in DOMAIN <<>> |-> <<>>[k].get] = f
  BY <1>2
<1>6. SumOf(<<>>) = 0
  BY <1>4, <1>5 DEF SumOf
<1>7. 0 = 6 * 0
  OBVIOUS
<1>8. 0 \in Cents
  BY <1>7 DEF Cents
<1>9. Round(0) = 0
  BY <1>8, RoundFacts
<1>. QED BY <1>6, <1>9

(* The points that a message shows do not exceed the score of its suites:   *)
(* a fraction is read as zero.                                              *)
LEMMA ReadFacts ==
  ASSUME IsSuites(box.suites)
  PROVE  SumOf(ReadSuites) <= Round(SumOf(box.suites))
<1>. DEFINE s == box.suites
            f == [k \in DOMAIN s |-> ReadSuites[k].get]
            h == [k \in DOMAIN s |-> s[k].get]
<1>1. ASSUME NEW k \in DOMAIN s
      PROVE  /\ s[k].get \in Nat /\ ReadSuites[k].get \in Cents
             /\ ReadSuites[k].get <= s[k].get
  <2>1. s[k].get \in Nat /\ ReadSuites[k].get = ReadPoints(s[k].get)
    BY DEF IsSuites, ReadSuites
  <2>2. ASSUME NEW n \in Nat PROVE ReadPoints(n) \in Cents /\ ReadPoints(n) <= n
    <3>1. CASE n % Point = 0
      <4>1. n = 600 * (n \div 600) /\ n \div 600 \in Nat
        BY <3>1 DEF Point
      <4>2. PICK d \in Nat : n = 600 * d
        BY <4>1
      <4>3. n \in Cents
        <5>1. n = 6 * (100 * d) /\ 100 * d \in Nat
          BY <4>2
        <5>2. PICK m \in Nat : n = 6 * m
          BY <5>1
        <5>. QED BY <5>2 DEF Cents
      <4>. QED BY <3>1, <4>3 DEF ReadPoints
    <3>2. CASE n % Point # 0
      <4>1. 0 = 6 * 0
        OBVIOUS
      <4>. QED BY <3>2, <4>1 DEF ReadPoints, Cents
    <3>. QED BY <3>1, <3>2
  <2>. QED BY <2>1, <2>2
<1>2. /\ IsFiniteSet(DOMAIN s) /\ f \in [DOMAIN s -> Cents] /\ f \in [DOMAIN s -> Nat]
      /\ h \in [DOMAIN s -> Nat] /\ \A k \in DOMAIN s : f[k] <= h[k]
  BY <1>1, RoundFacts DEF IsSuites
<1>3. DOMAIN ReadSuites = DOMAIN s
  BY DEF ReadSuites
<1>4. SumOf(ReadSuites) = SumFunction(f) /\ SumOf(s) = SumFunction(h)
  BY <1>3 DEF SumOf
<1>. HIDE DEF f, h, s
<1>5. SumFunction(f) \in Cents
  BY <1>2, SumOfCents
<1>6. SumFunction(f) \in Nat /\ SumFunction(h) \in Nat /\ SumFunction(f) <= SumFunction(h)
  BY <1>2, SumFacts
<1>7. Round(SumFunction(f)) = SumFunction(f) /\ Round(SumFunction(f)) <= Round(SumFunction(h))
  BY <1>5, <1>6, RoundFacts
<1>. QED BY <1>4, <1>7 DEF s

(* What the parser makes of a report are suites with points.                *)
LEMMA ParseFits ==
  ASSUME NEW report \in Reports
  PROVE  IsSuites(Parse(report))
<1>1. IsFiniteSet(DOMAIN report) /\ DOMAIN Parse(report) = DOMAIN report
  BY ScoringAssumption DEF Parse
<1>2. ASSUME NEW k \in DOMAIN report PROVE Parse(report)[k].get \in Nat
  <2>1. report[k].ac \in Nat /\ report[k].wa \in Nat
    BY ScoringAssumption
  <2>2. ASSUME NEW a \in Nat, NEW b \in Nat, b > 0 PROVE a \div b \in Nat
    BY <2>2
  <2>3. CASE report[k].name \in DOMAIN Points /\ report[k].ac + report[k].wa > 0
    <3>1. Points[report[k].name] \in Nat
      BY <2>3, ScoringAssumption
    <3>2. /\ report[k].ac * Points[report[k].name] * Point \in Nat
          /\ report[k].ac + report[k].wa \in Nat
      BY <2>1, <3>1 DEF Point
    <3>3. (report[k].ac * Points[report[k].name] * Point) \div (report[k].ac + report[k].wa) \in Nat
      BY <2>2, <2>3, <3>2
    <3>. QED BY <2>3, <3>3 DEF Parse, GetScore
  <2>4. CASE ~(report[k].name \in DOMAIN Points /\ report[k].ac + report[k].wa > 0)
    BY <2>4 DEF Parse, GetScore
  <2>. QED BY <2>3, <2>4
<1>. QED BY <1>1, <1>2 DEF IsSuites

-----------------------------------------------------------------------------
(* The parser.                                                              *)

(* The score file holds what it held, rounded, or the rounded score of the  *)
(* run, whichever is greater, if the parser is not stopped before it wrote. *)
LEMMA ScoreFacts ==
  ASSUME IsBox(box), NEW s \in Nat
  PROVE  /\ WriteScore(s) \in Cents
         /\ \/ WriteScore(s) = Round(s)
            \/ box.score \in Nat /\ WriteScore(s) = Round(box.score)
         /\ WriteScore(s) >= Round(s) /\ WriteScore(s) >= Round(TotalScore)
         /\ WriteScore(s) \in {Round(TotalScore), Round(s)}
         /\ Higher(s) => WriteScore(s) = Round(s)
         /\ ~Higher(s) => WriteScore(s) = Round(box.score) /\ TotalScore = box.score
<1>1. box.score \in Int /\ TotalScore \in Int /\ Round(s) \in Cents /\ Round(s) \in Int
  BY RoundFacts DEF IsBox, TotalScore
<1>2. CASE Higher(s)
  <2>1. TotalScore <= s
    BY <1>1, <1>2 DEF Higher, TotalScore
  <2>2. Round(TotalScore) <= Round(s) /\ Round(TotalScore) \in Int
    BY <1>1, <2>1, RoundFacts
  <2>3. WriteScore(s) = Round(s)
    BY <1>2 DEF WriteScore
  <2>. QED BY <1>1, <1>2, <2>2, <2>3
<1>3. CASE ~Higher(s)
  <2>1. box.score > s /\ TotalScore = box.score
    BY <1>1, <1>3 DEF Higher, TotalScore, NoScore
  <2>2. WriteScore(s) = Round(box.score)
    BY <1>3 DEF WriteScore
  <2>3. box.score \in Nat /\ Round(s) <= Round(box.score)
    BY <1>1, <2>1, RoundFacts
  <2>4. Round(box.score) \in Cents /\ Round(box.score) \in Int
    BY <1>1, <2>3, RoundFacts
  <2>. QED BY <1>1, <1>3, <2>1, <2>2, <2>3, <2>4
<1>. QED BY <1>2, <1>3

(* The best of what was best and one score more.                            *)
LEMMA BestFacts ==
  ASSUME NEW S \in SUBSET Int, S # {}, IsFiniteSet(S), NEW s \in Int, NEW w \in {Max(S), s},
         w >= Max(S), w >= s
  PROVE  w = Max(S \cup {s})
<1>1. S \cup {s} \in SUBSET Int /\ IsFiniteSet(S \cup {s})
  BY FS_AddElement
<1>2. Max(S) \in S /\ \A x \in S : x <= Max(S)
  BY MaxFacts
<1>3. Max(S \cup {s}) \in S \cup {s} /\ \A x \in S \cup {s} : x <= Max(S \cup {s})
  BY <1>1, MaxFacts
<1>4. w \in S \cup {s} /\ \A x \in S \cup {s} : x <= w
  <2>1. PICK b \in S : b = Max(S)
    BY <1>2
  <2>2. /\ w \in {b, s} /\ w >= b /\ w >= s /\ b \in Int
        /\ \A x \in S : x <= b /\ x \in Int
    BY <1>2, <2>1
  <2>. QED BY <2>2
<1>. DEFINE m == Max(S \cup {s})
<1>. HIDE DEF m
<1>5. m \in Int /\ w \in Int /\ m <= w /\ w <= m
  BY <1>1, <1>3, <1>4 DEF m
<1>. QED BY <1>5 DEF m

(* One score is the best of itself.                                         *)
LEMMA OneBest == ASSUME NEW n \in Int PROVE n = Max({n})
<1>1. {n} \in SUBSET Int /\ {n} # {} /\ IsFiniteSet({n})
  BY FS_Singleton
<1>2. Max({n}) \in {n}
  BY <1>1, MaxFacts
<1>. QED BY <1>2

(* However it is stopped, the parser leaves a box.                          *)
LEMMA ParserFits ==
  ASSUME IsBox(box), NEW suites, IsSuites(suites), NEW stop \in Stops
  PROVE  /\ IsBox(ParserLeaves(suites, stop))
         /\ \/ ParserLeaves(suites, stop).score \in {NoScore, box.score, Round(SumOf(suites))}
            \/ box.score \in Nat /\ ParserLeaves(suites, stop).score = Round(box.score)
         /\ stop = "never" =>
              /\ ParserLeaves(suites, stop).score = WriteScore(SumOf(suites))
              /\ ParserLeaves(suites, stop).suites = WriteMessage(suites)
<1>. DEFINE score == WriteScore(SumOf(suites))
<1>1. /\ score \in Int
      /\ score = Round(SumOf(suites)) \/ (box.score \in Nat /\ score = Round(box.score))
  BY SumOfNat, ScoreFacts, RoundFacts
<1>2. /\ box = [score |-> box.score, suites |-> box.suites]
      /\ box.score \in Int /\ NoScore \in Int /\ IsSuites(box.suites)
  BY DEF IsBox, NoScore
<1>3. IsSuites(WriteMessage(suites)) /\ IsSuites(<<>>)
  BY <1>2, FS_EmptySet DEF WriteMessage, IsSuites
<1>. HIDE DEF score
<1>4. CASE stop = "early"
  BY <1>2, <1>4 DEF ParserLeaves, IsBox
<1>5. CASE stop = "emptied"
  BY <1>2, <1>5 DEF ParserLeaves, IsBox
<1>6. CASE stop = "scored"
  BY <1>1, <1>2, <1>6 DEF ParserLeaves, IsBox, score
<1>7. CASE stop = "cleared"
  BY <1>1, <1>2, <1>3, <1>7 DEF ParserLeaves, IsBox, score
<1>8. CASE stop = "never"
  BY <1>1, <1>3, <1>8 DEF ParserLeaves, IsBox, score
<1>. QED BY <1>4, <1>5, <1>6, <1>7, <1>8 DEF Stops

-----------------------------------------------------------------------------
(* Steps.                                                                   *)

(* A target that was run has a status from its compilation.                 *)
LEMMA MergedFits ==
  ASSUME Stages, NEW k \in DOMAIN executed
  PROVE  Merged(k) \in Result
<1>. DEFINE e == executed[k]
            same == {n \in DOMAIN compiled : compiled[n].target = e.target}
<1>1. e \in Result /\ k \in DOMAIN compiled /\ compiled[k].target = e.target
  BY DEF Stages
<1>2. k \in same /\ same \in SUBSET Int /\ DOMAIN compiled = 1 .. Len(compiled)
  BY <1>1 DEF Stages
<1>3. IsFiniteSet(same)
  <2>1. Len(compiled) \in Nat
    BY DEF Stages
  <2>2. IsFiniteSet(1 .. Len(compiled)) /\ same \in SUBSET (1 .. Len(compiled))
    BY <1>2, <2>1, FS_Interval
  <2>. HIDE DEF same
  <2>. QED BY <2>2, FS_Subset
<1>4. Max(same) \in same
  <2>. HIDE DEF same
  <2>. QED BY <1>2, <1>3, MaxFacts
<1>5. PICK n \in DOMAIN compiled : n = Max(same)
  BY <1>4
<1>6. CompileStatus(e.target) = compiled[n].status
  BY <1>5 DEF CompileStatus
<1>7. compiled[n] \in Result
  BY <1>5 DEF Stages
<1>8. CompileStatus(e.target) \in Status
  BY <1>6, <1>7 DEF Result
<1>. HIDE DEF e
<1>9. [e EXCEPT !.status = CompileStatus(e.target)] \in Result
  BY <1>1, <1>8 DEF Result
<1>. QED BY <1>1, <1>9 DEF Merged, e

(* What a score script does.                                                *)
Scores(r) ==
  /\ scored' = Append(scored, r) /\ r \in Result
  /\ UNCHANGED <<phase, tasks, copied, row, message, jobs, left, compiled, executed>>
  /\ phase = "score"

(* A target is passed over, or the parser runs for it.                      *)
LEMMA ScoreCases ==
  ASSUME Stages, ScoreTarget
  PROVE  \E r \in Result :
           /\ Scores(r) /\ Len(scored) < Len(executed)
           /\ \/ UNCHANGED <<box, runs, cut>>
              \/ \E report \in Reports, stop \in Stops :
                   /\ box' = ParserLeaves(Parse(report), stop)
                   /\ runs' = runs \cup {Round(SumOf(Parse(report)))}
                   /\ cut' = (cut \/ stop # "never")
                   /\ stop # "never" => r.status = "FAILED"
<1>. DEFINE e == Merged(Len(scored) + 1)
<1>1. Len(scored) < Len(executed) /\ Len(scored) + 1 \in DOMAIN executed
  BY DEF ScoreTarget, Stages
<1>2. e \in Result
  BY <1>1, MergedFits
<1>. HIDE DEF e
<1>3. CASE e.status # "SUCCESS"
  <2>1. Scores(e) /\ UNCHANGED <<box, runs, cut>>
    BY <1>2, <1>3 DEF ScoreTarget, Scores, Stage, history, e
  <2>. QED BY <1>1, <1>2, <2>1
<1>4. CASE e.status = "SUCCESS"
  <2>1. PICK report \in Reports, stop \in Stops :
          /\ box' = ParserLeaves(Parse(report), stop)
          /\ runs' = runs \cup {Round(SumOf(Parse(report)))}
          /\ cut' = (cut \/ stop # "never")
          /\ scored' = Append(scored, [e EXCEPT
               !.status = IF stop = "never" THEN "SUCCESS" ELSE "FAILED"])
    BY <1>4 DEF ScoreTarget, e
  <2>. DEFINE r == [e EXCEPT !.status = IF stop = "never" THEN "SUCCESS" ELSE "FAILED"]
  <2>2. r \in Result /\ (stop # "never" => r.status = "FAILED")
    BY <1>2 DEF Result, Status
  <2>3. scored' = Append(scored, r)
    BY <2>1
  <2>. HIDE DEF r
  <2>4. Scores(r)
    BY <1>4, <2>2, <2>3 DEF ScoreTarget, Scores, Stage, e
  <2>. QED BY <1>1, <2>1, <2>2, <2>4
<1>. QED BY <1>3, <1>4

(* A stage has results for what the stage before has them for.              *)
LEMMA StagesNext == ASSUME Stages, [Next]_vars PROVE Stages'
<1>. DEFINE Kept == UNCHANGED <<tasks, compiled, executed, scored>>
<1>1. ASSUME Kept PROVE Stages'
  BY <1>1 DEF Stages
<1>2. ASSUME Begin PROVE Stages'
  <2>1. tasks' \in Tasks /\ compiled' = <<>> /\ executed' = <<>> /\ scored' = <<>>
    BY <1>2 DEF Begin
  <2>2. tasks' \in Seq(Range(tasks')) /\ Range(tasks') \subseteq Target
    BY <2>1, ScoringAssumption DEF Target
  <2>3. tasks' \in Seq(Target)
    BY <2>2
  <2>. QED BY <2>1, <2>3 DEF Stages
<1>3. ASSUME CompileTarget PROVE Stages'
  <2>1. PICK status \in {"SUCCESS", "COMPILE_ERROR"} :
          compiled' = Append(compiled, [target |-> tasks[Len(compiled) + 1], status |-> status])
    BY <1>3 DEF CompileTarget
  <2>2. Len(compiled) < Len(tasks) /\ UNCHANGED <<tasks, executed, scored>>
    BY <1>3 DEF CompileTarget, Stage
  <2>. DEFINE r == [target |-> tasks[Len(compiled) + 1], status |-> status]
  <2>3. tasks[Len(compiled) + 1] \in Target
    BY <2>2 DEF Stages
  <2>4. r \in Result /\ compiled' = Append(compiled, r)
    BY <2>1, <2>3 DEF Result, Status
  <2>. HIDE DEF r
  <2>5. /\ compiled' \in Seq(Result) /\ Len(compiled') = Len(compiled) + 1
        /\ \A k \in DOMAIN compiled : compiled'[k] = compiled[k]
    BY <2>4 DEF Stages
  <2>6. ASSUME NEW k \in DOMAIN executed PROVE executed[k].target = compiled'[k].target
    <3>1. k \in DOMAIN compiled /\ executed[k].target = compiled[k].target
      BY DEF Stages
    <3>. QED BY <2>5, <3>1
  <2>7. Len(executed) <= Len(compiled')
    BY <2>5 DEF Stages
  <2>. QED BY <2>2, <2>5, <2>6, <2>7 DEF Stages
<1>4. ASSUME ExecuteTarget PROVE Stages'
  <2>. DEFINE n == Len(executed) + 1
  <2>1. n \in DOMAIN compiled /\ UNCHANGED <<tasks, compiled, scored>>
    BY <1>4 DEF ExecuteTarget, Stage, Stages
  <2>2. PICK how \in DOMAIN StatusOf :
          executed' = Append(executed, [target |-> compiled[n].target, status |-> StatusOf[how]])
    BY <1>4 DEF ExecuteTarget, StatusOf
  <2>. DEFINE r == [target |-> compiled[n].target, status |-> StatusOf[how]]
  <2>3. compiled[n] \in Result
    BY <2>1 DEF Stages
  <2>4. compiled[n].target \in Target /\ StatusOf[how] \in Status
    BY <2>3 DEF Result, StatusOf, Status
  <2>5. r \in Result /\ executed' = Append(executed, r) /\ r.target = compiled[n].target
    BY <2>2, <2>4 DEF Result
  <2>. HIDE DEF r
  <2>6. /\ executed' \in Seq(Result) /\ Len(executed') = n /\ executed'[n] = r
        /\ \A k \in DOMAIN executed : executed'[k] = executed[k]
        /\ \A k \in DOMAIN executed' : k \in DOMAIN executed \/ k = n
    BY <2>5 DEF Stages
  <2>7. n <= Len(compiled) /\ Len(scored) <= n
    BY <2>1 DEF Stages
  <2>. QED BY <2>1, <2>5, <2>6, <2>7 DEF Stages
<1>5. ASSUME ScoreTarget PROVE Stages'
  <2>1. PICK r \in Result : Scores(r) /\ Len(scored) < Len(executed)
    BY <1>5, ScoreCases
  <2>2. scored' \in Seq(Result) /\ Len(scored') = Len(scored) + 1
    BY <2>1 DEF Scores, Stages
  <2>3. Len(scored') <= Len(executed)
    BY <2>1, <2>2 DEF Stages
  <2>. QED BY <2>1, <2>2, <2>3 DEF Scores, Stages
<1>6. ASSUME GiveUp \/ Finish PROVE Kept
  BY <1>6 DEF GiveUp, Finish, results
<1>7. ASSUME NEW from, NEW done, NEW to, Goes(from, done, to) PROVE Kept
  BY <1>7 DEF Goes, results
<1>8. ASSUME UNCHANGED vars PROVE Kept
  BY <1>8 DEF vars, results
<1>. HIDE DEF Kept
<1>. QED BY <1>1, <1>2, <1>3, <1>4, <1>5, <1>6, <1>7, <1>8 DEF Next

(* Whoever writes to the files leaves a box.                                *)
LEMMA WrittenFits == ASSUME NEW b, IsBox(b), NEW c \in Written(b) PROVE IsBox(c)
<1>1. /\ c = [score |-> c.score, suites |-> c.suites]
      /\ c.score \in {b.score, NoScore} \cup OtherScores
      /\ c.suites \in {b.suites, <<>>} \cup OtherSuites
  BY DEF Written
<1>2. c.score \in Int
  BY <1>1, ScoringAssumption DEF IsBox, NoScore
<1>3. IsSuites(c.suites)
  <2>1. IsSuites(<<>>)
    BY FS_EmptySet DEF IsSuites
  <2>. QED BY <1>1, <2>1, ScoringAssumption DEF IsBox, IsSuites
<1>. QED BY <1>1, <1>2, <1>3 DEF IsBox

(* Until scoring begins the files are anybody's; afterwards they are the    *)
(* parser's.                                                                *)
LEMMA FilesKept ==
  ASSUME [Next]_vars
  PROVE  \/ Begin \/ ScoreTarget
         \/ Touches /\ UNCHANGED <<phase, copied>> /\ phase \in {"compile", "execute"}
         \/ /\ UNCHANGED <<box, copied, left, runs, cut>>
            /\ phase' \in {"compile", "execute"} => phase \in {"compile", "execute"}
<1>. DEFINE Kept == /\ UNCHANGED <<box, copied, left, runs, cut>>
                    /\ phase' \in {"compile", "execute"} => phase \in {"compile", "execute"}
<1>1. ASSUME \/ Goes("compile", Len(compiled) = Len(tasks), "execute")
             \/ Goes("execute", Len(executed) = Len(compiled), "score")
      PROVE  Kept
  BY <1>1 DEF Goes, history
<1>2. ASSUME CompileTarget \/ ExecuteTarget
      PROVE  Touches /\ UNCHANGED <<phase, copied>> /\ phase \in {"compile", "execute"}
  BY <1>2 DEF CompileTarget, ExecuteTarget, Stage
<1>3. ASSUME GiveUp \/ Finish \/ UNCHANGED vars PROVE Kept
  BY <1>3 DEF GiveUp, Finish, vars, history
<1>. QED BY <1>1, <1>2, <1>3 DEF Next

(* A job begins to be scored with what the box holds.                       *)
LEMMA FilesBegin ==
  ASSUME IsBox(box'), left' = box', runs' = {}, cut' \in BOOLEAN, copied' \in BOOLEAN
  PROVE  Files'
<1>1. LeftScore' = TotalScore'
  BY DEF LeftScore, TotalScore
<1>2. TotalScore' \in Int
  BY DEF TotalScore, IsBox
<1>3. PICK n \in Int : n = Round(TotalScore')
  BY <1>2, RoundFacts
<1>4. runs' \cup {Round(LeftScore')} = {n}
  BY <1>1, <1>3
<1>5. Round(TotalScore') = Max(runs' \cup {Round(LeftScore')})
  BY <1>3, <1>4, OneBest
<1>6. Round(TotalScore)' = Round(TotalScore') /\ Round(LeftScore)' = Round(LeftScore')
  BY DEF Round
<1>. QED BY <1>5, <1>6, FS_EmptySet DEF Files

(* The score file goes with the runs of the job.                            *)
LEMMA FilesNext == ASSUME Stages, Files, [Next]_vars PROVE Files'
<1>1. ASSUME UNCHANGED <<box, copied, left, runs, cut>>,
             phase' \in {"compile", "execute"} => phase \in {"compile", "execute"}
      PROVE  Files'
  BY <1>1 DEF Files, TotalScore, LeftScore
<1>2. ASSUME Begin PROVE Files'
  <2>1. /\ copied' \in BOOLEAN /\ left' = box' /\ runs' = {} /\ cut' = FALSE
        /\ \E b \in {box, Clean} : box' \in Written(b)
    BY <1>2 DEF Begin
  <2>2. IsBox(Clean)
    BY FS_EmptySet DEF IsBox, Clean, IsSuites, NoScore
  <2>3. IsBox(box')
    BY <2>1, <2>2, WrittenFits DEF Files
  <2>. QED BY <2>1, <2>3, FilesBegin
<1>4. ASSUME Touches, UNCHANGED <<phase, copied>>, phase \in {"compile", "execute"}
      PROVE  Files'
  <2>1. box' \in Written(box) /\ left' = box' /\ runs' = runs /\ cut' = cut
    BY <1>4 DEF Touches
  <2>2. IsBox(box')
    BY <2>1, WrittenFits DEF Files
  <2>3. runs' = {} /\ cut' \in BOOLEAN /\ copied' \in BOOLEAN
    BY <1>4, <2>1 DEF Files
  <2>. QED BY <2>1, <2>2, <2>3, FilesBegin
<1>3. ASSUME ScoreTarget PROVE Files'
  <2>1. UNCHANGED <<copied, left>> /\ phase' = "score"
    BY <1>3, ScoreCases DEF Scores
  <2>2. CASE UNCHANGED <<box, runs, cut>>
    BY <1>1, <2>1, <2>2
  <2>3. CASE \E report \in Reports, stop \in Stops :
                /\ box' = ParserLeaves(Parse(report), stop)
                /\ runs' = runs \cup {Round(SumOf(Parse(report)))}
                /\ cut' = (cut \/ stop # "never")
    <3>1. PICK report \in Reports, stop \in Stops :
                /\ box' = ParserLeaves(Parse(report), stop)
                /\ runs' = runs \cup {Round(SumOf(Parse(report)))}
                /\ cut' = (cut \/ stop # "never")
      BY <2>3
    <3>. DEFINE suites == Parse(report)
                s      == SumOf(suites)
    <3>2. IsSuites(suites) /\ s \in Nat
      BY ParseFits, SumOfNat
    <3>. HIDE DEF suites, s
    <3>3. /\ box' = ParserLeaves(suites, stop) /\ runs' = runs \cup {Round(s)}
          /\ cut' = (cut \/ stop # "never")
      BY <3>1 DEF suites, s
    <3>4. /\ IsBox(box')
          /\ \/ box'.score \in {NoScore, box.score, Round(s)}
             \/ box.score \in Nat /\ box'.score = Round(box.score)
          /\ stop = "never" => box'.score = WriteScore(s)
      BY <3>2, <3>3, ParserFits DEF Files, s
    <3>5. Round(s) \in Cents /\ Round(s) \in Nat
      BY <3>2, RoundFacts
    <3>6. runs' \in SUBSET Cents /\ IsFiniteSet(runs')
      BY <3>3, <3>5, FS_AddElement DEF Files
    <3>7. box'.score \in {NoScore, left'.score, Round(LeftScore)} \cup runs'
      <4>1. CASE box'.score \in {NoScore, box.score, Round(s)}
        BY <2>1, <3>3, <4>1 DEF Files
      <4>2. CASE box.score \in Nat /\ box'.score = Round(box.score)
        <5>1. box.score \in {left.score, Round(LeftScore)} \cup runs /\ box.score # NoScore
          BY <4>2 DEF Files, NoScore
        <5>2. CASE box.score = left.score
          BY <2>1, <4>2, <5>1, <5>2 DEF LeftScore
        <5>3. CASE box.score = Round(LeftScore)
          <6>1. LeftScore \in Int
            BY DEF Files, IsBox, LeftScore
          <6>2. Round(box.score) = Round(LeftScore)
            BY <5>3, <6>1, RoundFacts
          <6>. QED BY <2>1, <4>2, <6>2 DEF LeftScore
        <5>4. CASE box.score \in runs
          <6>1. Round(box.score) = box.score
            BY <5>4, RoundFacts DEF Files
          <6>. QED BY <3>3, <4>2, <5>4, <6>1
        <5>. QED BY <5>1, <5>2, <5>3, <5>4
      <4>. QED BY <3>4, <4>1, <4>2
    <3>8. ASSUME ~cut' PROVE Round(TotalScore') = Max(runs' \cup {Round(LeftScore')})
      <4>1. ~cut /\ stop = "never"
        BY <3>3, <3>8 DEF Files
      <4>. DEFINE S == runs \cup {Round(LeftScore)}
                  w == WriteScore(s)
      <4>2. LeftScore \in Int /\ Round(LeftScore) \in Int
        BY RoundFacts DEF Files, IsBox, LeftScore
      <4>3. S \in SUBSET Int /\ S # {} /\ IsFiniteSet(S)
        BY <4>2, FS_AddElement, RoundFacts DEF Files
      <4>4. Round(TotalScore) = Max(S)
        BY <4>1 DEF Files
      <4>5. /\ w \in Cents /\ w >= Round(s) /\ w >= Round(TotalScore)
            /\ w \in {Round(TotalScore), Round(s)}
        BY <3>2, ScoreFacts DEF Files
      <4>. HIDE DEF S, w
      <4>6. w = Max(S \cup {Round(s)})
        BY <3>5, <4>3, <4>4, <4>5, BestFacts
      <4>7. Round(TotalScore') = w
        <5>1. box'.score = w
          BY <3>4, <4>1 DEF w
        <5>2. w \in Nat /\ Round(w) = w
          BY <4>5, RoundFacts
        <5>3. TotalScore' = w
          BY <5>1, <5>2 DEF TotalScore, NoScore
        <5>. QED BY <5>2, <5>3
      <4>8. runs' \cup {Round(LeftScore')} = S \cup {Round(s)}
        BY <2>1, <3>3 DEF S, LeftScore
      <4>. QED BY <4>6, <4>7, <4>8
    <3>9. cut' \in BOOLEAN
      BY <3>3 DEF Files
    <3>10. Round(TotalScore)' = Round(TotalScore') /\ Round(LeftScore)' = Round(LeftScore')
      BY DEF Round
    <3>11. LeftScore' = LeftScore
      BY <2>1 DEF LeftScore
    <3>. QED BY <2>1, <3>4, <3>6, <3>7, <3>8, <3>9, <3>10, <3>11 DEF Files
  <2>. QED BY <1>3, <2>2, <2>3, ScoreCases
<1>. QED BY <1>1, <1>2, <1>3, <1>4, FilesKept

(* The row is written once, with the score of the file.                     *)
LEMMA VerdictNext == ASSUME Stages, Files, Verdict, [Next]_vars PROVE Verdict'
<1>1. ASSUME Begin PROVE Verdict'
  BY <1>1 DEF Begin, Verdict
<1>2. ASSUME GiveUp PROVE Verdict'
  BY <1>2 DEF GiveUp, Verdict
<1>3. ASSUME CompileTarget \/ ExecuteTarget PROVE Verdict'
  BY <1>3 DEF CompileTarget, ExecuteTarget, Stage, Touches, Verdict
<1>4. ASSUME ScoreTarget PROVE Verdict'
  <2>1. phase = "score" /\ UNCHANGED <<phase, row>>
    BY <1>4 DEF ScoreTarget, Stage
  <2>. QED BY <2>1 DEF Verdict
<1>5. ASSUME Finish PROVE Verdict'
  <2>1. /\ phase = "score" /\ phase' = "judged" /\ UNCHANGED <<box, copied, left, runs>>
        /\ row' = IF copied /\ TotalScore # 0 THEN TotalScore ELSE row
    BY <1>5 DEF Finish, history
  <2>2. row = Judging
    BY <2>1 DEF Verdict
  <2>3. TotalScore' = TotalScore /\ LeftScore' = LeftScore
    BY <2>1 DEF TotalScore, LeftScore
  <2>4. TotalScore # 0 => TotalScore \in runs \cup {LeftScore, Round(LeftScore)}
    BY DEF TotalScore, LeftScore, Files
  <2>. QED BY <2>1, <2>2, <2>3, <2>4 DEF Verdict
<1>6. ASSUME Goes("compile", Len(compiled) = Len(tasks), "execute")
             \/ Goes("execute", Len(executed) = Len(compiled), "score")
      PROVE  Verdict'
  BY <1>6 DEF Goes, Verdict
<1>7. ASSUME UNCHANGED vars PROVE Verdict'
  BY <1>7 DEF vars, history, Verdict, TotalScore, LeftScore
<1>. QED BY <1>1, <1>2, <1>3, <1>4, <1>5, <1>6, <1>7 DEF Next

(* The message file goes with the score file.                               *)
LEMMA SuitesNext == ASSUME Stages, Files, Verdict, Suites, [Next]_vars PROVE Suites'
<1>0. ASSUME IsBox(box'), left' = box', phase' # "judged",
             cut' => \E k \in DOMAIN scored' : scored'[k].status = "FAILED"
      PROVE  Suites'
  <2>1. LeftScore' = TotalScore' /\ TotalScore' \in Int
    BY <1>0 DEF LeftScore, TotalScore, IsBox
  <2>2. ~(Round(LeftScore') < Round(TotalScore'))
    BY <2>1, RoundFacts
  <2>3. ASSUME left' = Clean PROVE Round(SumOf(box'.suites)) = TotalScore'
    <3>1. box'.suites = <<>> /\ TotalScore' = 0
      BY <1>0, <2>3 DEF Clean, TotalScore
    <3>. QED BY <3>1, EmptySum
  <2>. QED BY <1>0, <2>2, <2>3 DEF Suites
<1>1. ASSUME Begin PROVE Suites'
  <2>1. left' = box' /\ cut' = FALSE /\ phase' = "compile"
    BY <1>1 DEF Begin
  <2>2. IsBox(box')
    BY FilesNext DEF Files
  <2>. QED BY <1>0, <2>1, <2>2
<1>2. ASSUME UNCHANGED <<box, left, cut, scored, message>>, phase' # "judged" PROVE Suites'
  BY <1>2 DEF Suites, TotalScore, LeftScore
<1>3. ASSUME CompileTarget \/ ExecuteTarget PROVE Suites'
  <2>1. left' = box' /\ cut' = cut /\ scored' = scored /\ phase' # "judged"
    BY <1>3 DEF CompileTarget, ExecuteTarget, Stage, Touches
  <2>2. IsBox(box')
    BY FilesNext DEF Files
  <2>3. cut' => \E k \in DOMAIN scored' : scored'[k].status = "FAILED"
    BY <2>1 DEF Suites
  <2>. QED BY <1>0, <2>1, <2>2, <2>3
<1>4. ASSUME GiveUp PROVE UNCHANGED <<box, left, cut, scored, message>> /\ phase' # "judged"
  BY <1>4 DEF GiveUp, results, history
<1>5. ASSUME Goes("compile", Len(compiled) = Len(tasks), "execute")
             \/ Goes("execute", Len(executed) = Len(compiled), "score")
      PROVE  UNCHANGED <<box, left, cut, scored, message>> /\ phase' # "judged"
  BY <1>5 DEF Goes, results, history
<1>6. ASSUME ScoreTarget PROVE Suites'
  <2>1. PICK r \in Result :
           /\ Scores(r)
           /\ \/ UNCHANGED <<box, runs, cut>>
              \/ \E report \in Reports, stop \in Stops :
                   /\ box' = ParserLeaves(Parse(report), stop)
                   /\ cut' = (cut \/ stop # "never")
                   /\ stop # "never" => r.status = "FAILED"
    BY <1>6, ScoreCases
  <2>2. phase' # "judged" /\ left' = left /\ scored' = Append(scored, r)
    BY <2>1 DEF Scores
  <2>3. /\ Len(scored) + 1 \in DOMAIN scored' /\ scored'[Len(scored) + 1] = r
        /\ \A k \in DOMAIN scored : k \in DOMAIN scored' /\ scored'[k] = scored[k]
    BY <2>2 DEF Stages
  <2>4. CASE UNCHANGED <<box, runs, cut>>
    BY <2>2, <2>3, <2>4 DEF Suites, TotalScore, LeftScore
  <2>5. CASE \E report \in Reports, stop \in Stops :
               /\ box' = ParserLeaves(Parse(report), stop)
               /\ cut' = (cut \/ stop # "never")
               /\ stop # "never" => r.status = "FAILED"
    <3>1. PICK report \in Reports, stop \in Stops :
               /\ box' = ParserLeaves(Parse(report), stop)
               /\ cut' = (cut \/ stop # "never")
               /\ stop # "never" => r.status = "FAILED"
      BY <2>5
    <3>2. ASSUME cut' PROVE \E k \in DOMAIN scored' : scored'[k].status = "FAILED"
      BY <2>3, <3>1, <3>2 DEF Suites, Files
    <3>3. ASSUME ~cut', left' = Clean \/ Round(LeftScore') < Round(TotalScore')
          PROVE  Round(SumOf(box'.suites)) = TotalScore'
      <4>. DEFINE suites == Parse(report)
                  s      == SumOf(suites)
      <4>1. stop = "never" /\ ~cut
        BY <3>1, <3>3 DEF Files
      <4>2. IsSuites(suites) /\ s \in Nat /\ IsBox(box)
        BY ParseFits, SumOfNat DEF Files
      <4>. HIDE DEF suites
      <4>3. box'.score = WriteScore(s) /\ box'.suites = WriteMessage(suites)
        BY <3>1, <4>1, <4>2, ParserFits DEF suites
      <4>4. /\ WriteScore(s) \in Cents
            /\ Higher(s) => WriteScore(s) = Round(s)
            /\ ~Higher(s) => WriteScore(s) = Round(box.score) /\ TotalScore = box.score
        BY <4>2, ScoreFacts
      <4>5. WriteMessage(suites) = IF Higher(s) THEN suites ELSE box.suites
        BY DEF WriteMessage
      <4>. HIDE DEF s
      <4>7. TotalScore' = WriteScore(s)
        BY <4>3, <4>4, RoundFacts DEF TotalScore, NoScore
      <4>8. CASE Higher(s)
        BY <4>3, <4>4, <4>5, <4>7, <4>8 DEF s
      <4>9. CASE ~Higher(s)
        <5>1. TotalScore \in Int /\ TotalScore' = Round(TotalScore)
          BY <4>2, <4>4, <4>7, <4>9 DEF IsBox
        <5>2. Round(TotalScore') = Round(TotalScore) /\ LeftScore' = LeftScore
          BY <2>2, <5>1, RoundFacts DEF LeftScore
        <5>3. left = Clean \/ Round(LeftScore) < Round(TotalScore)
          BY <2>2, <3>3, <5>2
        <5>4. Round(SumOf(box.suites)) = TotalScore
          BY <4>1, <5>3 DEF Suites
        <5>5. TotalScore' = TotalScore
          <6>1. SumOf(box.suites) \in Nat
            BY <4>2, SumOfNat DEF IsBox
          <6>2. Round(Round(SumOf(box.suites))) = Round(SumOf(box.suites))
            BY <6>1, RoundFacts
          <6>. QED BY <5>1, <5>4, <6>2
        <5>. QED BY <4>3, <4>5, <4>9, <5>4, <5>5
      <4>. QED BY <4>8, <4>9
    <3>. QED BY <2>2, <3>2, <3>3 DEF Suites
  <2>. QED BY <2>1, <2>4, <2>5
<1>7. ASSUME Finish PROVE Suites'
  <2>1. /\ UNCHANGED <<box, left, cut, scored, copied>>
        /\ message' = IF copied
             THEN [suites |-> ReadSuites, errors |-> FailedTargets \ NamesOf(box.suites)]
             ELSE [suites |-> <<>>, errors |-> FailedTargets]
    BY <1>7 DEF Finish, results, history
  <2>2. /\ TotalScore' = TotalScore /\ LeftScore' = LeftScore
        /\ FailedTargets' = FailedTargets
        /\ ReadSuites' = ReadSuites
    BY <2>1 DEF TotalScore, LeftScore, FailedTargets, ReadSuites
  <2>3. NamesOf(ReadSuites) = NamesOf(box.suites)
    BY DEF NamesOf, ReadSuites
  <2>. QED BY <2>1, <2>2, <2>3 DEF Suites
<1>8. ASSUME UNCHANGED vars PROVE Suites'
  BY <1>8 DEF vars, results, history, Suites, TotalScore, LeftScore, FailedTargets, ReadSuites
<1>. QED BY <1>1, <1>2, <1>3, <1>4, <1>5, <1>6, <1>7, <1>8 DEF Next

(* At first the box is clean, and nothing is judged.                        *)
LEMMA JudgeInit == Init => JudgeInv
<1>. SUFFICES ASSUME Init PROVE JudgeInv
  OBVIOUS
<1>1. Stages
  BY DEF Init, Stages
<1>2. TotalScore = 0 /\ LeftScore = 0 /\ IsBox(Clean)
  BY FS_EmptySet DEF Init, TotalScore, LeftScore, Clean, IsBox, IsSuites, NoScore
<1>3. Round(TotalScore) = 0 /\ Round(LeftScore) = 0
  <2>1. 0 = 6 * 0
    OBVIOUS
  <2>2. 0 \in Cents
    BY <2>1 DEF Cents
  <2>. QED BY <1>2, <2>2, RoundFacts
<1>4. runs \cup {Round(LeftScore)} = {0} /\ 0 = Max({0})
  BY <1>3, OneBest DEF Init
<1>5. Files
  BY <1>2, <1>3, <1>4, FS_EmptySet DEF Init, Files, Clean
<1>6. Verdict
  BY DEF Init, Verdict
<1>7. Suites
  BY <1>2, EmptySum DEF Init, Suites, Clean
<1>. QED BY <1>1, <1>5, <1>6, <1>7 DEF JudgeInv

(* The two files, the results and the row fit together in every state.      *)
THEOREM Inductive == Spec => []JudgeInv
<1>1. JudgeInv /\ [Next]_vars => JudgeInv'
  BY StagesNext, FilesNext, VerdictNext, SuitesNext DEF JudgeInv
<1>. QED BY <1>1, JudgeInit, PTL DEF Spec

(* The score of a submission is that of its best run of the parser, or what *)
(* its box held when scoring began, from whoever wrote it; with no parser   *)
(* stopped it is the greater of the two.                                    *)
THEOREM ScoresAreBestRuns == Spec => []ScoreIsBestRun
<1>1. JudgeInv => ScoreIsBestRun
  <2>. SUFFICES ASSUME JudgeInv, phase = "judged" PROVE ScoreIsBestRun
    BY DEF ScoreIsBestRun
  <2>1. row \in {Judging} \cup runs \cup {LeftScore, Round(LeftScore)}
    BY DEF JudgeInv, Verdict
  <2>2. ASSUME copied, ~cut
        PROVE  \/ Round(row) = Max(runs \cup {Round(LeftScore)})
               \/ Max(runs \cup {Round(LeftScore)}) = 0 /\ row = Judging
    <3>1. Round(TotalScore) = Max(runs \cup {Round(LeftScore)})
      BY <2>2 DEF JudgeInv, Files
    <3>2. row = IF TotalScore = 0 THEN Judging ELSE TotalScore
      BY <2>2 DEF JudgeInv, Verdict
    <3>3. Round(0) = 0
      BY DEF Round
    <3>. QED BY <3>1, <3>2, <3>3
  <2>. QED BY <2>1, <2>2 DEF ScoreIsBestRun
<1>. QED BY <1>1, Inductive, PTL

(* Every target that failed is in the message, and the suites are those of  *)
(* the run that made the score, or a parser was stopped, or the score was   *)
(* not made by a run.                                                       *)
THEOREM MessagesExplain == Spec => []MessageExplains
<1>1. JudgeInv => MessageExplains
  <2>. SUFFICES ASSUME JudgeInv, phase = "judged" PROVE MessageExplains
    BY DEF MessageExplains
  <2>1. /\ message.errors \subseteq FailedTargets
        /\ FailedTargets \subseteq message.errors \cup NamesOf(message.suites)
        /\ copied => message.suites = ReadSuites
        /\ cut => \E k \in DOMAIN scored : scored[k].status = "FAILED"
        /\ ~cut /\ (left = Clean \/ Round(LeftScore) < Round(TotalScore))
             => Round(SumOf(box.suites)) = TotalScore
        /\ cut \in BOOLEAN
    BY DEF JudgeInv, Suites, Files
  <2>2. SumOf(ReadSuites) <= Round(SumOf(box.suites))
    BY ReadFacts DEF JudgeInv, Files, IsBox
  <2>. QED BY <2>1, <2>2 DEF MessageExplains
<1>. QED BY <1>1, Inductive, PTL
=============================================================================
