------------------------- MODULE Submissions_proofs -------------------------
(***************************************************************************)
(* Theorems about Submissions, for every set of users, questions, requests *)
(* and scores, and every bound on the tables.                              *)
(***************************************************************************)
EXTENDS Submissions, DataLemmas

-----------------------------------------------------------------------------
(* The inductive invariant.                                                 *)

Code  == {Waiting, Failed, Judging}
Score == Code \cup Scores

(* What a leaderboard has read.                                             *)
Points == UNION {[us -> Nat] : us \in SUBSET User}

ReaderInv ==
  reader \in [pc : {"idle", "counted", "ranked", "answered"}, board : Board,
              count : 0 .. Cardinality(User), totals : Points, details : Points,
              moved : BOOLEAN]

(* A row belongs to a relation that can be seen, and has a code unless it   *)
(* has its verdict.                                                         *)
RowInv ==
  \A i \in DOMAIN rows : /\ rows[i].rel \in Visible
                         /\ rows[i].stage # "over" => rows[i].score \in Code

(* The first relation of its user and question that can be seen, unless     *)
(* relations of theirs have become visible against the order of IDs.        *)
IsFirst(d) == \A e \in 1 .. d - 1 : e \in hidden \/ relations[e] # relations[d]
Settled(d) == relations[d] \in overtaken \/ IsFirst(d)

(* A request has read relations that can be seen, or inserted one: at least *)
(* one, and a push or the rescore of a user the first.                      *)
RequestInv ==
  \A r \in Request :
    /\ pc[r] = "missing" => asked[r] \in Relation
    /\ pc[r] = "inserted" => found[r] \subseteq DOMAIN relations
    /\ pc[r] \in {"one", "all"} => found[r] \subseteq Visible /\ found[r] # {}
    /\ pc[r] = "one" => \E d \in Visible : found[r] = {d} /\ Settled(d)

(* So do the rows that pushes and such rescores have added.                 *)
SettledInv == \A i \in DOMAIN rows : rows[i].by = "one" => Settled(rows[i].rel)

TableInv == TypeOK /\ ReaderInv /\ RowInv /\ RequestInv /\ SettledInv

-----------------------------------------------------------------------------
(* What the steps do to the two tables.                                     *)

(* Neither table ever loses a record, a record keeps its key and can still  *)
(* be seen, and a score is never replaced by a lower one, but for one code  *)
(* by another.  That a relation has been overtaken is not forgotten.        *)
Kept ==
  /\ hidden' \cap DOMAIN relations \subseteq hidden
  /\ overtaken \subseteq overtaken'
  /\ \A e \in hidden \ hidden', d \in Visible :
       d > e /\ relations[d] = relations[e] => relations[e] \in overtaken'
  /\ Len(relations) <= Len(relations')
  /\ \A d \in DOMAIN relations : relations'[d] = relations[d]
  /\ Len(rows) <= Len(rows')
  /\ \A i \in DOMAIN rows :
       /\ rows'[i].rel = rows[i].rel
       /\ rows'[i].score >= rows[i].score \/ rows[i].score < 0

(* Scores and codes are numbers, and a code is negative.                    *)
LEMMA ScoreFacts == /\ Score \subseteq Int
                    /\ \A s \in Scores : s >= 0
                    /\ \A s \in Code : s < 0 /\ s \notin Scores
  BY SubmissionsAssumption DEF Score, Code, Waiting, Failed, Judging

(* A step of a row changes its stage and its score, and no other row.       *)
LEMMA RowStepFacts ==
  ASSUME TypeOK, NEW i, NEW from \in Stage, NEW to \in Stage, NEW score \in Score,
         RowStep(i, from, to, score)
  PROVE  /\ rows' \in Seq(Row) /\ Len(rows') = Len(rows)
         /\ i \in DOMAIN rows /\ rows[i].stage = from
         /\ rows'[i].stage = to /\ rows'[i].score = score
         /\ rows'[i].rel = rows[i].rel /\ rows'[i].by = rows[i].by
         /\ \A k \in DOMAIN rows : k # i => rows'[k] = rows[k]
<1>. DEFINE new == [rows[i] EXCEPT !.stage = to, !.score = score]
<1>1. /\ i \in DOMAIN rows /\ rows[i].stage = from /\ rows \in Seq(Row)
      /\ rows' = [rows EXCEPT ![i] = new]
  BY DEF RowStep, TypeOK
<1>2. rows[i] \in Row
  BY <1>1
<1>3. new \in Row
  BY <1>2 DEF Row, Score, Code
<1>. HIDE DEF new
<1>4. rows' \in Seq(Row) /\ Len(rows') = Len(rows)
  BY <1>1, <1>3
<1>5. rows'[i] = new /\ \A k \in DOMAIN rows : k # i => rows'[k] = rows[k]
  BY <1>1
<1>6. /\ new.stage = to /\ new.score = score
      /\ new.rel = rows[i].rel /\ new.by = rows[i].by
  BY <1>2 DEF new, Row
<1>. QED BY <1>1, <1>4, <1>5, <1>6

(* A request adds a row for each of the relations it has found.             *)
LEMMA CreateRowsFacts ==
  ASSUME TableInv, NEW r \in Request, CreateRows(r)
  PROVE  /\ rows' \in Seq(Row) /\ Len(rows) <= Len(rows') /\ Len(rows') <= MaxRows
         /\ \A k \in DOMAIN rows : rows'[k] = rows[k]
         /\ \A k \in DOMAIN rows' \ DOMAIN rows :
              /\ rows'[k].rel \in found[r] /\ rows'[k].by = pc[r]
              /\ rows'[k].score = Waiting
<1>. DEFINE n == Cardinality(found[r])
            nth(k) == CHOOSE d \in found[r] : Cardinality({e \in found[r] : e < d}) = k - 1
            new == [k \in 1 .. n |-> NewRow(nth(k), pc[r], Len(rows) + 1)]
<1>1. /\ pc[r] \in {"one", "all"} /\ Len(rows) + n <= MaxRows
      /\ rows' = rows \o new
  BY DEF CreateRows, relationVars
<1>2. /\ found[r] \in SUBSET Nat /\ found[r] \subseteq 1 .. MaxRelations
      /\ found[r] # {} /\ rows \in Seq(Row)
  BY <1>1 DEF TableInv, TypeOK, RequestInv
<1>3. IsFiniteSet(found[r]) /\ n \in Nat \ {0}
  <2>1. IsFiniteSet(found[r])
    <3>1. IsFiniteSet(1 .. MaxRelations)
      BY SubmissionsAssumption, FS_Interval
    <3>. QED BY <1>2, <3>1, FS_Subset
  <2>. QED BY <1>2, <2>1, FS_CardinalityType, FS_EmptySet
<1>4. ASSUME NEW k \in 1 .. n PROVE nth(k) \in found[r]
  <2>1. \E d \in found[r] : Cardinality({e \in found[r] : e < d}) = k - 1
    BY <1>2, <1>3, RankExists
  <2>. QED BY <2>1
<1>. HIDE DEF nth
<1>5. Len(rows) + 1 \in 1 .. MaxRows
  <2>1. Len(rows) \in Nat /\ MaxRows \in Nat
    BY <1>2, SubmissionsAssumption
  <2>. HIDE DEF n
  <2>. QED BY <1>1, <1>3, <2>1
<1>6. ASSUME NEW k \in 1 .. n
      PROVE  /\ new[k] \in Row /\ new[k].rel \in found[r]
             /\ new[k].by = pc[r] /\ new[k].score = Waiting
  <2>1. new[k] = NewRow(nth(k), pc[r], Len(rows) + 1)
    OBVIOUS
  <2>. HIDE DEF new, n
  <2>. QED BY <1>1, <1>2, <1>4, <1>5, <2>1 DEF NewRow, Row, Stage
<1>7. new \in Seq(Row) /\ Len(new) = n
  <2>1. new \in [1 .. n -> Row]
    BY <1>6
  <2>. HIDE DEF new, n
  <2>. QED BY <1>3, <2>1
<1>8. DOMAIN new = 1 .. n
  OBVIOUS
<1>. HIDE DEF new, n
<1>9. /\ rows' \in Seq(Row) /\ Len(rows') = Len(rows) + n
      /\ Len(rows) \in Nat /\ DOMAIN rows = 1 .. Len(rows)
      /\ DOMAIN rows' = 1 .. Len(rows')
  <2>1. new \in Seq(Row) /\ rows \in Seq(Row) /\ rows' = rows \o new
    BY <1>1, <1>2, <1>7
  <2>2. rows' \in Seq(Row)
    BY <2>1
  <2>3. Len(rows') = Len(rows) + n
    <3>1. Len(rows \o new) = Len(rows) + Len(new)
      BY <2>1
    <3>. QED BY <1>7, <2>1, <3>1
  <2>. QED BY <2>1, <2>2, <2>3
<1>10. ASSUME NEW k \in DOMAIN rows PROVE rows'[k] = rows[k]
  BY <1>1, <1>2, <1>7
<1>11. ASSUME NEW k \in DOMAIN rows' \ DOMAIN rows
       PROVE  k - Len(rows) \in 1 .. n /\ rows'[k] = new[k - Len(rows)]
  <2>1. k \in 1 .. Len(rows) + n /\ k \notin 1 .. Len(rows)
    BY <1>9
  <2>2. k > Len(rows) /\ k - Len(rows) \in 1 .. n
    BY <1>3, <1>9, <2>1
  <2>. QED BY <1>1, <1>2, <1>7, <2>1, <2>2
<1>12. ASSUME NEW k \in DOMAIN rows' \ DOMAIN rows
       PROVE  /\ rows'[k].rel \in found[r] /\ rows'[k].by = pc[r]
              /\ rows'[k].score = Waiting
  BY <1>6, <1>11
<1>13. Len(rows) <= Len(rows') /\ Len(rows') <= MaxRows
  BY <1>1, <1>3, <1>9
<1>. QED BY <1>9, <1>10, <1>12, <1>13

(* Of dispatching and judging: a row that is over stays as it is, and a     *)
(* step to another stage leaves a code.                                     *)
LEMMA RowSteps ==
  ASSUME TableInv, NEW i, Dispatch(i) \/ Judge(i)
  PROVE  \E from, to \in Stage, score \in Score :
            /\ RowStep(i, from, to, score)
            /\ from # "over" /\ (to # "over" => score \in Code)
<1>1. ASSUME NEW from \in Stage \ {"over"}, NEW to \in Stage, NEW score \in Score,
             RowStep(i, from, to, score), to # "over" => score \in Code
      PROVE  \E f, t \in Stage, v \in Score :
                RowStep(i, f, t, v) /\ f # "over" /\ (t # "over" => v \in Code)
  BY <1>1
<1>2. ASSUME i \in DOMAIN rows, rows[i].stage # "over"
      PROVE  rows[i].score \in Code
  BY <1>2 DEF TableInv, RowInv
<1>3. Failed \in Code /\ Judging \in Code
  BY DEF Code
<1>4. CASE TokenFound(i)
  BY <1>1, <1>2, <1>4 DEF TokenFound, RowStep, Stage, Score
<1>5. CASE TokenFails(i)
  BY <1>1, <1>3, <1>5 DEF TokenFails, Stage, Score
<1>6. CASE JobLost(i)
  BY <1>1, <1>2, <1>6 DEF JobLost, RowStep, Stage, Score
<1>7. CASE JudgeStart(i)
  BY <1>1, <1>3, <1>7 DEF JudgeStart, Stage, Score
<1>8. CASE JudgeFails(i)
  BY <1>1, <1>3, <1>8 DEF JudgeFails, Stage, Score
<1>9. CASE JudgeFinish(i)
  <2>1. PICK score \in Scores :
          RowStep(i, "judging", "over", IF score = 0 THEN rows[i].score ELSE score)
    BY <1>9 DEF JudgeFinish
  <2>2. (IF score = 0 THEN rows[i].score ELSE score) \in Score
    BY <1>2, <2>1 DEF RowStep, Score
  <2>. QED BY <1>1, <2>1, <2>2 DEF Stage
<1>. QED BY <1>4, <1>5, <1>6, <1>7, <1>8, <1>9 DEF Dispatch, Judge

(* A restart only marks rows, one by one.                                   *)
LEMMA RestartFacts ==
  ASSUME TypeOK, Restart
  PROVE  /\ rows' \in Seq(Row) /\ Len(rows') = Len(rows)
         /\ \A k \in DOMAIN rows :
              rows'[k] = rows[k] \/ rows'[k] = [rows[k] EXCEPT !.stage = "lost"]
<1>. DEFINE new(k) == IF rows[k].stage = "token" THEN [rows[k] EXCEPT !.stage = "lost"]
                                                 ELSE rows[k]
<1>1. rows \in Seq(Row) /\ rows' = [k \in DOMAIN rows |-> new(k)]
  BY DEF TypeOK, Restart
<1>2. ASSUME NEW k \in DOMAIN rows
      PROVE  new(k) \in Row /\ rows'[k] = new(k)
  <2>1. rows[k] \in Row
    BY <1>1
  <2>. QED BY <1>1, <2>1 DEF Row, Stage
<1>3. rows' \in [1 .. Len(rows) -> Row] /\ Len(rows) \in Nat
  <2>. HIDE DEF new
  <2>. QED BY <1>1, <1>2
<1>4. rows' \in Seq(Row) /\ Len(rows') = Len(rows)
  BY <1>3
<1>. QED BY <1>2, <1>4

(* No step but a restart, a row's or a request's touches the rows, and only *)
(* the creation of a relation touches the relations.                        *)
Quiet == UNCHANGED <<relations, hidden, overtaken, rows>>

(* Every step keeps what the tables say.                                    *)
LEMMA KeptNext == TableInv /\ [Next]_vars => Kept
<1>. SUFFICES ASSUME TableInv, [Next]_vars PROVE Kept
  OBVIOUS
<1>1. /\ relations \in Seq(Relation) /\ rows \in Seq(Row)
      /\ Len(relations) \in Nat /\ Len(rows) \in Nat
      /\ \A i \in DOMAIN rows : rows[i].score \in Int
  <2>1. relations \in Seq(Relation) /\ rows \in Seq(Row)
    BY DEF TableInv, TypeOK
  <2>2. ASSUME NEW i \in DOMAIN rows PROVE rows[i].score \in Int
    <3>1. rows[i] \in Row
      BY <2>1
    <3>2. rows[i].score \in Score
      BY <3>1 DEF Row, Score, Code
    <3>. QED BY <3>2, ScoreFacts
  <2>. QED BY <2>1, <2>2
<1>2. CASE Quiet
  BY <1>1, <1>2 DEF Quiet, Kept
<1>3. ASSUME NEW r \in Request, CreateRepositoryInserts(r) PROVE Kept
  <2>1. /\ UNCHANGED <<rows, overtaken>> /\ hidden' = hidden \cup {Len(relations) + 1}
        /\ relations' = Append(relations, asked[r]) /\ asked[r] \in Relation
    BY <1>3 DEF CreateRepositoryInserts, RequestStep, TableInv, RequestInv
  <2>2. /\ Len(relations') = Len(relations) + 1 /\ DOMAIN relations = 1 .. Len(relations)
        /\ \A d \in DOMAIN relations : relations'[d] = relations[d]
    BY <1>1, <2>1
  <2>3. hidden' \cap DOMAIN relations \subseteq hidden
    BY <1>1, <2>1, <2>2
  <2>. QED BY <1>1, <2>1, <2>2, <2>3 DEF Kept
<1>31. ASSUME NEW r \in Request, CreateRepositoryCommits(r) PROVE Kept
  <2>1. /\ UNCHANGED <<rows, relations>> /\ hidden' = hidden \ found[r]
        /\ overtaken' = overtaken \cup
             {relations[d] : d \in {e \in found[r] :
                                     \E f \in Visible : f > e /\ relations[f] = relations[e]}}
    BY <1>31 DEF CreateRepositoryCommits
  <2>2. ASSUME NEW e \in hidden \ hidden', NEW d \in Visible,
               d > e, relations[d] = relations[e]
        PROVE  relations[e] \in overtaken'
    BY <2>1, <2>2
  <2>. QED BY <1>1, <2>1, <2>2 DEF Kept
<1>4. ASSUME NEW r \in Request, CreateRows(r) PROVE Kept
  <2>1. UNCHANGED <<relations, hidden, overtaken>>
    BY <1>4 DEF CreateRows, relationVars
  <2>. QED BY <1>1, <1>4, <2>1, CreateRowsFacts DEF Kept
<1>5. ASSUME NEW i, Dispatch(i) \/ Judge(i) PROVE Kept
  <2>1. PICK from, to \in Stage, score \in Score :
          RowStep(i, from, to, score) /\ from # "over" /\ (to # "over" => score \in Code)
    BY <1>5, RowSteps
  <2>2. UNCHANGED <<relations, hidden, overtaken>>
    BY <2>1 DEF RowStep, relationVars
  <2>3. /\ Len(rows') = Len(rows) /\ i \in DOMAIN rows /\ rows[i].stage = from
        /\ rows'[i].rel = rows[i].rel
        /\ \A k \in DOMAIN rows : k # i => rows'[k] = rows[k]
    <3>1. TypeOK
      BY DEF TableInv
    <3>. QED BY <2>1, <3>1, RowStepFacts
  <2>4. rows[i].score < 0
    BY <2>1, <2>3 DEF TableInv, RowInv, Code, Waiting, Failed, Judging
  <2>7. ASSUME NEW k \in DOMAIN rows
        PROVE  /\ rows'[k].rel = rows[k].rel
               /\ rows'[k].score >= rows[k].score \/ rows[k].score < 0
    <3>1. CASE k = i
      BY <2>3, <2>4, <3>1
    <3>2. CASE k # i
      <4>1. rows'[k] = rows[k] /\ rows[k].score \in Int
        BY <1>1, <2>3, <3>2
      <4>. QED BY <4>1
    <3>. QED BY <3>1, <3>2
  <2>. QED BY <1>1, <2>2, <2>3, <2>7 DEF Kept
<1>6. CASE Restart
  <2>1. UNCHANGED <<relations, hidden, overtaken>>
    BY <1>6 DEF Restart, relationVars
  <2>2. /\ Len(rows') = Len(rows)
        /\ \A k \in DOMAIN rows :
             rows'[k] = rows[k] \/ rows'[k] = [rows[k] EXCEPT !.stage = "lost"]
    BY <1>6, RestartFacts DEF TableInv
  <2>3. ASSUME NEW k \in DOMAIN rows
        PROVE  rows'[k].rel = rows[k].rel /\ rows'[k].score = rows[k].score
    <3>1. rows[k] \in Row
      BY <1>1
    <3>. QED BY <2>2, <3>1 DEF Row
  <2>. QED BY <1>1, <2>1, <2>2, <2>3 DEF Kept
<1>7. ASSUME NEW r \in Request, Handle(r) PROVE Kept
  <2>1. CASE CreateRepositoryLooks(r)
    BY <1>2, <2>1 DEF CreateRepositoryLooks, Quiet, relationVars
  <2>2. CASE FindOne(r)
    BY <1>2, <2>2 DEF FindOne, Quiet, relationVars
  <2>3. CASE ReScoreQuestion(r)
    BY <1>2, <2>3 DEF ReScoreQuestion, Quiet, relationVars
  <2>. QED BY <1>3, <1>31, <1>4, <1>7, <2>1, <2>2, <2>3 DEF Handle, PostGiteaHook, ReScoreUserQuestion
<1>8. ASSUME Moves PROVE Kept
  BY <1>2, <1>8 DEF Moves, PatchQuestion, AddQuestionToExam, RemoveQuestionFromExam, ChangeRole,
                    BoardMoves, relationVars, Quiet
<1>9. CASE Leaderboard
  BY <1>2, <1>9 DEF Leaderboard, ReadCount, ReadTotals, ReadDetails, Answer,
                    ReaderStep, Quiet, relationVars
<1>10. CASE UNCHANGED vars
  BY <1>2, <1>10 DEF vars, relationVars, Quiet
<1>. QED BY <1>5, <1>6, <1>7, <1>8, <1>9, <1>10 DEF Next

-----------------------------------------------------------------------------
(* What the views of scores have in common.                                 *)

(* The rows of a user and a question are finitely many, and one of them has *)
(* the best score.                                                          *)
LEMMA RowsOfFacts ==
  TypeOK => \A u, q :
    /\ RowsOf(u, q) \subseteq DOMAIN rows /\ IsFiniteSet(RowsOf(u, q))
    /\ \A i \in RowsOf(u, q) : rows[i].score \in Score /\ rows[i].batch \in Nat
    /\ RowsOf(u, q) # {} =>
         /\ \E i \in RowsOf(u, q) : rows[i].score = BestOf(RowsOf(u, q))
         /\ \A i \in RowsOf(u, q) : rows[i].score <= BestOf(RowsOf(u, q))
<1>. SUFFICES ASSUME TypeOK, NEW u, NEW q
              PROVE  /\ RowsOf(u, q) \subseteq DOMAIN rows /\ IsFiniteSet(RowsOf(u, q))
                     /\ \A i \in RowsOf(u, q) :
                          rows[i].score \in Score /\ rows[i].batch \in Nat
                     /\ RowsOf(u, q) # {} =>
                          /\ \E i \in RowsOf(u, q) : rows[i].score = BestOf(RowsOf(u, q))
                          /\ \A i \in RowsOf(u, q) : rows[i].score <= BestOf(RowsOf(u, q))
  OBVIOUS
<1>1. rows \in Seq(Row) /\ DOMAIN rows = 1 .. Len(rows) /\ Len(rows) \in Nat
  BY DEF TypeOK
<1>2. RowsOf(u, q) \subseteq DOMAIN rows
  BY DEF RowsOf
<1>3. IsFiniteSet(RowsOf(u, q))
  <2>1. IsFiniteSet(1 .. Len(rows))
    BY <1>1, FS_Interval
  <2>. QED BY <1>1, <1>2, <2>1, FS_Subset
<1>4. ASSUME NEW i \in RowsOf(u, q)
      PROVE  rows[i].score \in Score /\ rows[i].batch \in Nat
  <2>1. rows[i] \in Row
    BY <1>1, <1>2
  <2>. QED BY <2>1 DEF Row, Score, Code
<1>5. ASSUME RowsOf(u, q) # {}
      PROVE  /\ \E i \in RowsOf(u, q) : rows[i].score = BestOf(RowsOf(u, q))
             /\ \A i \in RowsOf(u, q) : rows[i].score <= BestOf(RowsOf(u, q))
  <2>. DEFINE scores == {rows[i].score : i \in RowsOf(u, q)}
  <2>1. IsFiniteSet(scores)
    <3>. DEFINE f == [i \in RowsOf(u, q) |-> rows[i].score]
    <3>1. IsFiniteSet({f[i] : i \in RowsOf(u, q)})
      BY <1>3, FiniteImage
    <3>2. {f[i] : i \in RowsOf(u, q)} = scores
      OBVIOUS
    <3>. QED BY <3>1, <3>2
  <2>2. scores \in SUBSET Int /\ scores # {}
    BY <1>4, <1>5, ScoreFacts
  <2>3. Max(scores) \in scores /\ \A v \in scores : v <= Max(scores)
    <3>. HIDE DEF scores
    <3>. QED BY <2>1, <2>2, MaxFacts
  <2>. QED BY <2>3 DEF BestOf
<1>. QED BY <1>2, <1>3, <1>4, <1>5

(* The same score is the best on every page.                                *)
LEMMA BestFacts ==
  TypeOK => \A u, q :
    /\ Best(u, q) \in Nat
    /\ RowsOf(u, q) = {} => Best(u, q) = 0
    /\ RowsOf(u, q) # {} =>
         /\ Best(u, q) = Greatest(BestOf(RowsOf(u, q)))
         /\ rows[BestRow(u, q)].score = BestOf(RowsOf(u, q))
         /\ TopScore(u, q) = Best(u, q)
         /\ TopExamScore(u, q) = BestOf(RowsOf(u, q))
<1>. SUFFICES ASSUME TypeOK, NEW u, NEW q
              PROVE  /\ Best(u, q) \in Nat
                     /\ RowsOf(u, q) = {} => Best(u, q) = 0
                     /\ RowsOf(u, q) # {} =>
                          /\ Best(u, q) = Greatest(BestOf(RowsOf(u, q)))
                          /\ rows[BestRow(u, q)].score = BestOf(RowsOf(u, q))
                          /\ TopScore(u, q) = Best(u, q)
                          /\ TopExamScore(u, q) = BestOf(RowsOf(u, q))
  OBVIOUS
<1>. DEFINE R == RowsOf(u, q)
            M == BestOf(R)
            scores == {rows[i].score : i \in R}
<1>1. /\ IsFiniteSet(R)
      /\ \A i \in R : rows[i].score \in Int /\ rows[i].batch \in Nat
      /\ R # {} => /\ \E i \in R : rows[i].score = M
                   /\ \A i \in R : rows[i].score <= M
  BY RowsOfFacts, ScoreFacts
<1>. HIDE DEF M, R
<1>2. CASE R = {}
  <2>1. {0} \cup scores = {0}
    BY <1>2
  <2>2. Max({0}) = 0
    BY DEF Max
  <2>3. Best(u, q) = 0
    BY <2>1, <2>2 DEF Best, R
  <2>. QED BY <1>2, <2>3 DEF R
<1>3. CASE R # {}
  <2>1. M \in Int /\ M \in scores /\ \A v \in scores : v \in Int /\ v <= M
    BY <1>1, <1>3
  <2>2. Best(u, q) = Greatest(M) /\ Best(u, q) \in Nat
    <3>1. \A v \in {0} \cup scores : Greatest(M) >= v
      BY <2>1 DEF Greatest
    <3>2. Greatest(M) \in {0} \cup scores
      BY <2>1 DEF Greatest
    <3>3. \A v \in {0} \cup scores : v \in Int
      BY <2>1
    <3>4. Max({0} \cup scores) = Greatest(M)
      <4>. HIDE DEF scores
      <4>1. Max({0} \cup scores) \in {0} \cup scores
            /\ \A v \in {0} \cup scores : Max({0} \cup scores) >= v
        BY <3>1, <3>2 DEF Max
      <4>2. Max({0} \cup scores) >= Greatest(M) /\ Greatest(M) >= Max({0} \cup scores)
        BY <3>1, <3>2, <4>1
      <4>3. Max({0} \cup scores) \in Int /\ Greatest(M) \in Int
        BY <3>2, <3>3, <4>1
      <4>. QED BY <4>2, <4>3
    <3>5. Greatest(M) \in Nat
      BY <2>1 DEF Greatest
    <3>. QED BY <3>4, <3>5 DEF Best, R
  <2>3. rows[BestRow(u, q)].score = M
    <3>. DEFINE top == {i \in R : rows[i].score = M}
                batches == {rows[i].batch : i \in top}
                Wins(i) == \A k \in R \ {i} :
                             \/ rows[k].score < rows[i].score
                             \/ rows[k].score = rows[i].score /\ rows[i].batch <= rows[k].batch
    <3>1. batches \in SUBSET Nat /\ batches # {}
      BY <1>1, <1>3
    <3>2. Min(batches) \in batches /\ \A b \in batches : Min(batches) <= b
      <4>. HIDE DEF batches
      <4>. QED BY <3>1, MinFacts
    <3>3. PICK i \in top : \A k \in top : rows[i].batch <= rows[k].batch
      BY <3>2
    <3>4. ASSUME NEW k \in R PROVE \/ rows[k].score < rows[i].score
                                   \/ /\ rows[k].score = rows[i].score
                                      /\ rows[i].batch <= rows[k].batch
      <4>1. rows[k].score <= M /\ rows[k].score \in Int /\ M \in Int
        BY <1>1, <1>3, <2>1
      <4>. QED BY <3>3, <4>1
    <3>5. BestRow(u, q) \in R /\ Wins(BestRow(u, q))
      <4>1. \E w \in R : Wins(w)
        BY <3>3, <3>4
      <4>. HIDE DEF Wins
      <4>2. BestRow(u, q) = CHOOSE w \in R : Wins(w)
        BY DEF BestRow, R, Wins
      <4>. QED BY <4>1, <4>2
    <3>6. rows[BestRow(u, q)].score >= M
      <4>1. PICK m \in R : rows[m].score = M
        BY <1>1, <1>3
      <4>2. CASE m = BestRow(u, q)
        BY <2>1, <4>1, <4>2
      <4>3. CASE m # BestRow(u, q)
        <5>1. rows[BestRow(u, q)].score \in Int
          BY <1>1, <3>5
        <5>. QED BY <2>1, <3>5, <4>1, <4>3, <5>1
      <4>. QED BY <4>2, <4>3
    <3>7. rows[BestRow(u, q)].score \in Int /\ rows[BestRow(u, q)].score <= M
      BY <1>1, <1>3, <3>5
    <3>. QED BY <2>1, <3>6, <3>7
  <2>4. TopScore(u, q) = Greatest(M)
    <3>. DEFINE t == CHOOSE i \in TopRows(u, q) : TRUE
    <3>1. PICK m \in R : rows[m].score = M
      BY <1>1, <1>3
    <3>2. ASSUME NEW k \in R PROVE Greatest(rows[k].score) <= Greatest(M)
      <4>1. rows[k].score <= M /\ rows[k].score \in Int /\ M \in Int
        BY <1>1, <1>3, <2>1
      <4>. QED BY <4>1 DEF Greatest
    <3>3. m \in TopRows(u, q)
      BY <3>1, <3>2 DEF TopRows, R
    <3>4. t \in TopRows(u, q)
      BY <3>3
    <3>5. t \in R /\ Greatest(rows[m].score) <= Greatest(rows[t].score)
      BY <3>1, <3>4 DEF TopRows, R
    <3>6. Greatest(rows[t].score) \in Int /\ Greatest(M) \in Int
      BY <1>1, <2>1, <3>5 DEF Greatest
    <3>7. Greatest(rows[t].score) = Greatest(M)
      <4>. HIDE DEF t
      <4>. QED BY <3>1, <3>2, <3>5, <3>6
    <3>. QED BY <3>7 DEF TopScore
  <2>5. TopExamScore(u, q) = M
    <3>. DEFINE t == CHOOSE i \in TopExamRows(u, q) : TRUE
    <3>1. PICK m \in R : rows[m].score = M
      BY <1>1, <1>3
    <3>2. m \in TopExamRows(u, q)
      BY <1>1, <3>1 DEF TopExamRows, R
    <3>3. t \in TopExamRows(u, q)
      BY <3>2
    <3>4. t \in R /\ rows[m].score <= rows[t].score
      BY <3>1, <3>3 DEF TopExamRows, R
    <3>5. rows[t].score = M
      <4>. HIDE DEF t
      <4>1. rows[t].score \in Int /\ rows[t].score <= M
        BY <1>1, <3>4
      <4>. QED BY <2>1, <3>1, <3>4, <4>1
    <3>. QED BY <3>5 DEF TopExamScore
  <2>. QED BY <1>3, <2>2, <2>3, <2>4, <2>5 DEF M, R
<1>. QED BY <1>2, <1>3

(* What a leaderboard adds up.                                              *)
BestSum(u, b) == SumFunction([q \in Tried(u, Shown(b)) |-> Best(u, q)])

(* The totals and the scores per question are the same sum of best scores.  *)
LEMMA SumsAgree ==
  TypeOK => \A u, b :
    /\ Tried(u, Shown(b)) \in SUBSET Question /\ IsFiniteSet(Tried(u, Shown(b)))
    /\ BestSum(u, b) \in Nat
    /\ Total(u, b) = BestSum(u, b) /\ Detail(u, b) = BestSum(u, b)
    /\ SumFunction([q \in Tried(u, Shown(b)) |-> TopScore(u, q)]) = BestSum(u, b)
<1>. SUFFICES ASSUME TypeOK, NEW u, NEW b
              PROVE  /\ Tried(u, Shown(b)) \in SUBSET Question
                     /\ IsFiniteSet(Tried(u, Shown(b)))
                     /\ BestSum(u, b) \in Nat
                     /\ Total(u, b) = BestSum(u, b) /\ Detail(u, b) = BestSum(u, b)
                     /\ SumFunction([q \in Tried(u, Shown(b)) |-> TopScore(u, q)])
                          = BestSum(u, b)
  OBVIOUS
<1>. DEFINE tried == Tried(u, Shown(b))
            best == [q \in tried |-> Best(u, q)]
<1>1. tried \in SUBSET Question /\ \A q \in tried : RowsOf(u, q) # {}
  BY DEF Tried, Shown, OfBoard, TypeOK
<1>2. IsFiniteSet(tried)
  BY <1>1, SubmissionsAssumption, FS_Subset
<1>. HIDE DEF tried
<1>3. best \in [tried -> Nat]
  BY BestFacts
<1>4. SumFunction(best) \in Nat
  <2>. HIDE DEF best
  <2>1. tried \in SUBSET tried /\ \A q \in tried : best[q] <= best[q]
    BY <1>3
  <2>. QED BY <1>2, <1>3, <2>1, SumFacts
<1>5. [q \in tried |-> Greatest(rows[BestRow(u, q)].score)] = best
  <2>1. \A q \in tried : Greatest(rows[BestRow(u, q)].score) = Best(u, q)
    BY <1>1, BestFacts
  <2>. QED BY <2>1
<1>6. [q \in tried |-> Greatest(Max({rows[i].score : i \in RowsOf(u, q)}))] = best
  <2>1. ASSUME NEW q \in tried
        PROVE  Greatest(Max({rows[i].score : i \in RowsOf(u, q)})) = Best(u, q)
    <3>1. Best(u, q) = Greatest(BestOf(RowsOf(u, q)))
      BY <1>1, BestFacts
    <3>. QED BY <3>1 DEF BestOf
  <2>. QED BY <2>1
<1>7. [q \in tried |-> TopScore(u, q)] = best
  <2>1. \A q \in tried : TopScore(u, q) = Best(u, q)
    BY <1>1, BestFacts
  <2>. QED BY <2>1
<1>8. Total(u, b) = SumFunction(best)
  BY <1>5 DEF Total, tried
<1>9. Detail(u, b) = SumFunction(best)
  BY <1>6 DEF Detail, tried
<1>. QED BY <1>1, <1>2, <1>4, <1>7, <1>8, <1>9 DEF BestSum, tried

-----------------------------------------------------------------------------
(* The invariant is inductive.                                              *)

(* What TypeOK says of the reader.                                          *)
ReaderTyped ==
  /\ reader.pc \in {"idle", "counted", "ranked", "answered"}
  /\ reader.board \in Board /\ reader.count \in 0 .. Cardinality(User)
  /\ \A u \in DOMAIN reader.totals : u \in User /\ reader.totals[u] \in Nat
  /\ \A u \in DOMAIN reader.details : u \in User /\ reader.details[u] \in Nat

(* ReaderInv says that.                                                     *)
LEMMA ReaderTypes == ReaderInv => ReaderTyped
<1>1. ASSUME NEW f \in Points
      PROVE  \A u \in DOMAIN f : u \in User /\ f[u] \in Nat
  BY DEF Points
<1>2. ASSUME ReaderInv
      PROVE  /\ reader.pc \in {"idle", "counted", "ranked", "answered"}
             /\ reader.board \in Board /\ reader.count \in 0 .. Cardinality(User)
             /\ reader.totals \in Points /\ reader.details \in Points
  BY <1>2 DEF ReaderInv
<1>. QED BY <1>1, <1>2 DEF ReaderTyped

(* A leaderboard that has not been asked has read nothing.                  *)
LEMMA NoAnswerType ==
  NoAnswer \in [pc : {"idle"}, board : Board, count : 0 .. Cardinality(User),
                totals : Points, details : Points, moved : BOOLEAN]
<1>1. <<>> \in [{} -> Nat]
  OBVIOUS
<1>2. <<>> \in Points
  BY <1>1 DEF Points
<1>3. 0 \in 0 .. Cardinality(User)
  BY SubmissionsAssumption, FS_CardinalityType
<1>. QED BY <1>2, <1>3 DEF NoAnswer, Board

(* The tables are empty at first.                                           *)
LEMMA TableInit == Init => TableInv
<1>. SUFFICES ASSUME Init PROVE TableInv
  OBVIOUS
<1>1. ReaderInv
  BY NoAnswerType DEF Init, ReaderInv
<1>2. TypeOK
  <2>1. /\ relations = <<>> /\ rows = <<>> /\ active = Question /\ inExam \subseteq Question
        /\ pc = [r \in Request |-> "idle"] /\ found = [r \in Request |-> {}]
        /\ asked = [r \in Request |-> Nothing]
    BY DEF Init
  <2>4. hidden = {} /\ overtaken = {} /\ admins = Admin /\ Admin \subseteq User
    BY SubmissionsAssumption DEF Init
  <2>2. relations \in Seq(Relation) /\ Len(relations) <= MaxRelations
    BY <2>1, SubmissionsAssumption
  <2>3. rows \in Seq(Row) /\ Len(rows) <= MaxRows
    BY <2>1, SubmissionsAssumption
  <2>. QED BY <1>1, <2>1, <2>2, <2>3, <2>4, ReaderTypes DEF TypeOK, ReaderTyped
<1>3. RowInv /\ SettledInv
  BY DEF Init, RowInv, SettledInv
<1>4. RequestInv
  BY DEF Init, RequestInv
<1>. QED BY <1>1, <1>2, <1>3, <1>4 DEF TableInv

(* What a leaderboard reads has the right types.                            *)
LEMMA ReaderNext == TableInv /\ [Next]_vars => ReaderInv'
<1>. SUFFICES ASSUME TableInv, [Next]_vars PROVE ReaderInv'
  OBVIOUS
<1>. USE DEF ReaderInv
<1>0. ReaderInv /\ TypeOK
  BY DEF TableInv
<1>10. ASSUME NEW u, NEW b PROVE Total(u, b) \in Nat /\ Detail(u, b) \in Nat
  <2>1. BestSum(u, b) \in Nat /\ Total(u, b) = BestSum(u, b) /\ Detail(u, b) = BestSum(u, b)
    BY <1>0, SumsAgree
  <2>. QED BY <2>1
<1>1. CASE UNCHANGED reader
  BY <1>0, <1>1
<1>2. ASSUME Moves PROVE ReaderInv'
  BY <1>0, <1>2 DEF Moves, PatchQuestion, AddQuestionToExam, RemoveQuestionFromExam, ChangeRole,
                    BoardMoves, relationVars
<1>3. CASE ReadCount
  <2>1. PICK b \in Board : reader' = [NoAnswer EXCEPT !.pc = "counted", !.board = b,
                                                    !.count = CountUsers(b)]
    BY <1>3 DEF ReadCount, ReaderStep, relationVars
  <2>2. CountUsers(b) \in 0 .. Cardinality(User)
    <3>1. ASSUME NEW us \in SUBSET User PROVE Cardinality(us) \in 0 .. Cardinality(User)
      BY SubmissionsAssumption, FS_Subset, FS_CardinalityType
    <3>. QED BY <3>1 DEF CountUsers
  <2>. QED BY <2>1, <2>2, NoAnswerType
<1>4. CASE ReadTotals
  <2>. DEFINE totals == [u \in Ranked(reader.board) |-> Total(u, reader.board)]
  <2>1. totals \in Points
    <3>1. Ranked(reader.board) \in SUBSET User
      BY DEF Ranked
    <3>2. \A u \in User : Total(u, reader.board) \in Nat
      BY <1>10
    <3>3. totals \in [Ranked(reader.board) -> Nat]
      BY <3>1, <3>2
    <3>. HIDE DEF totals
    <3>. QED BY <3>1, <3>3 DEF Points
  <2>2. reader' = NoAnswer \/ reader' = [reader EXCEPT !.pc = "ranked", !.totals = totals]
    BY <1>4 DEF ReadTotals, ReaderStep, relationVars
  <2>. HIDE DEF totals
  <2>. QED BY <1>0, <2>1, <2>2, NoAnswerType
<1>5. CASE ReadDetails
  <2>. DEFINE details == [u \in DOMAIN reader.totals |-> Detail(u, reader.board)]
  <2>1. details \in Points
    <3>1. DOMAIN reader.totals \in SUBSET User
      BY <1>0, ReaderTypes DEF ReaderTyped
    <3>2. \A u \in User : Detail(u, reader.board) \in Nat
      BY <1>10
    <3>3. details \in [DOMAIN reader.totals -> Nat]
      BY <3>1, <3>2
    <3>. HIDE DEF details
    <3>. QED BY <3>1, <3>3 DEF Points
  <2>2. reader' = [reader EXCEPT !.pc = "answered", !.details = details]
    BY <1>5 DEF ReadDetails, ReaderStep, relationVars
  <2>. HIDE DEF details
  <2>. QED BY <1>0, <2>1, <2>2
<1>6. CASE Answer \/ Restart
  BY <1>6, NoAnswerType DEF Answer, Restart, ReaderStep
<1>7. ASSUME NEW r \in Request, Handle(r) PROVE UNCHANGED reader
  BY <1>7 DEF Handle, CreateRepositoryLooks, CreateRepositoryInserts, CreateRepositoryCommits,
              PostGiteaHook,
              ReScoreUserQuestion, FindOne, ReScoreQuestion, CreateRows, RequestStep, relationVars
<1>8. ASSUME NEW i, Dispatch(i) \/ Judge(i) PROVE UNCHANGED reader
  BY <1>8 DEF Dispatch, Judge, TokenFound, TokenFails, JobLost, JudgeStart, JudgeFails,
              JudgeFinish, RowStep, relationVars
<1>9. CASE UNCHANGED vars
  BY <1>1, <1>9 DEF vars, relationVars
<1>. QED BY <1>1, <1>2, <1>3, <1>4, <1>5, <1>6, <1>7, <1>8, <1>9 DEF Next, Leaderboard

(* What can be seen stays.                                                  *)
LEMMA SeenStays == ASSUME TypeOK, TypeOK', Kept PROVE Visible \subseteq Visible'
<1>1. /\ DOMAIN relations = 1 .. Len(relations) /\ DOMAIN relations' = 1 .. Len(relations')
      /\ Len(relations) \in Nat /\ Len(relations') \in Nat
  BY DEF TypeOK
<1>2. Len(relations) <= Len(relations') /\ hidden' \cap DOMAIN relations \subseteq hidden
  BY DEF Kept
<1>3. DOMAIN relations \subseteq DOMAIN relations'
  BY <1>1, <1>2
<1>. QED BY <1>2, <1>3 DEF Visible

(* A relation keeps its place, so that the first of a user and a question   *)
(* remains the first, or is overtaken.                                      *)
LEMMA SettledStays ==
  ASSUME TypeOK, TypeOK', Kept, NEW d \in Visible, Settled(d)
  PROVE  d \in Visible' /\ Settled(d)'
<1>1. /\ relations \in Seq(Relation) /\ DOMAIN relations = 1 .. Len(relations)
      /\ relations' \in Seq(Relation) /\ DOMAIN relations' = 1 .. Len(relations')
      /\ Len(relations) \in Nat /\ Len(relations') \in Nat
  BY DEF TypeOK
<1>2. /\ \A e \in DOMAIN relations : relations'[e] = relations[e]
      /\ Len(relations) <= Len(relations') /\ overtaken \subseteq overtaken'
      /\ hidden' \cap DOMAIN relations \subseteq hidden
      /\ \A e \in hidden \ hidden', f \in Visible :
           f > e /\ relations[f] = relations[e] => relations[e] \in overtaken'
  BY DEF Kept
<1>3. d \in DOMAIN relations /\ d \notin hidden /\ relations'[d] = relations[d]
  BY <1>2 DEF Visible
<1>4. d \in Visible'
  BY SeenStays
<1>5. CASE relations[d] \in overtaken
  BY <1>2, <1>3, <1>4, <1>5 DEF Settled
<1>6. CASE IsFirst(d) /\ relations'[d] \notin overtaken'
  <2>1. ASSUME NEW e \in 1 .. d - 1, e \notin hidden', relations'[e] = relations'[d]
        PROVE  FALSE
    <3>1. e \in DOMAIN relations /\ d > e
      BY <1>1, <1>3
    <3>2. relations[e] = relations[d]
      BY <1>2, <1>3, <2>1, <3>1
    <3>3. e \in hidden
      BY <1>6, <3>2 DEF IsFirst
    <3>4. relations[e] \in overtaken'
      BY <1>2, <2>1, <3>1, <3>2, <3>3
    <3>. QED BY <1>3, <1>6, <3>2, <3>4
  <2>. QED BY <1>4, <2>1 DEF Settled, IsFirst
<1>7. CASE IsFirst(d) /\ relations'[d] \in overtaken'
  BY <1>4, <1>7 DEF Settled
<1>. QED BY <1>5, <1>6, <1>7 DEF Settled

(* First finds the record with the lowest ID that can be seen.              *)
LEMMA FirstFacts ==
  ASSUME TypeOK, NEW u, NEW q, RelationsOf(u, q) # {}
  PROVE  LET d == First(RelationsOf(u, q))
         IN  d \in Visible /\ IsFirst(d)
<1>. DEFINE ids == RelationsOf(u, q)
            d == First(ids)
<1>1. /\ relations \in Seq(Relation) /\ DOMAIN relations = 1 .. Len(relations)
      /\ Len(relations) \in Nat
  BY DEF TypeOK
<1>2. ids \in SUBSET Nat /\ ids # {} /\ ids \subseteq Visible
  BY <1>1 DEF RelationsOf, Visible
<1>3. d \in ids /\ \A e \in ids : d <= e
  <2>. HIDE DEF ids
  <2>. QED BY <1>2, MinFacts DEF First
<1>4. IsFirst(d)
  <2>1. SUFFICES ASSUME NEW e \in 1 .. d - 1, e \notin hidden, relations[e] = relations[d]
                 PROVE  FALSE
    BY DEF IsFirst
  <2>2. d \in Nat /\ d \in DOMAIN relations
    BY <1>2, <1>3 DEF Visible
  <2>. HIDE DEF d
  <2>3. e \in DOMAIN relations /\ e < d
    BY <1>1, <2>2
  <2>4. relations[d] = [user |-> u, question |-> q]
    BY <1>3 DEF RelationsOf
  <2>5. e \in ids
    BY <2>1, <2>3, <2>4 DEF RelationsOf, Visible
  <2>6. d <= e /\ e \in Nat
    BY <1>3, <2>5
  <2>. QED BY <2>2, <2>3, <2>6
<1>. QED BY <1>2, <1>3, <1>4

(* No other relation is first.                                              *)
LEMMA FirstIsOne ==
  ASSUME TypeOK, NEW d \in Visible, IsFirst(d)
  PROVE  d = First(RelationsOf(relations[d].user, relations[d].question))
<1>. DEFINE ids == RelationsOf(relations[d].user, relations[d].question)
            f == First(ids)
<1>1. /\ relations \in Seq(Relation) /\ DOMAIN relations = 1 .. Len(relations)
      /\ Len(relations) \in Nat /\ d \in DOMAIN relations
  BY DEF TypeOK, Visible
<1>2. d \in ids
  <2>1. relations[d] \in Relation
    BY <1>1
  <2>. QED BY <2>1 DEF RelationsOf, Relation
<1>3. ids \in SUBSET Nat
  BY <1>1 DEF RelationsOf, Visible
<1>4. f \in ids /\ f <= d
  <2>. HIDE DEF ids
  <2>. QED BY <1>2, <1>3, MinFacts DEF First
<1>5. f \in Visible /\ relations[f] = relations[d]
  <2>. HIDE DEF f
  <2>. QED BY <1>2, <1>4 DEF RelationsOf
<1>6. f \in Nat /\ d \in Nat /\ f \notin hidden
  BY <1>1, <1>3, <1>4, <1>5 DEF Visible
<1>7. ~(f < d)
  <2>. HIDE DEF f
  <2>1. f >= 1
    BY <1>1, <1>5 DEF Visible
  <2>. QED BY <1>5, <1>6, <2>1 DEF IsFirst
<1>. HIDE DEF f
<1>8. f = d
  BY <1>4, <1>6, <1>7
<1>. QED BY <1>8 DEF f

(* Every step keeps the types of the tables and of the requests.            *)
LEMMA TypeNext == TableInv /\ [Next]_vars => TypeOK'
<1>. SUFFICES ASSUME TableInv, [Next]_vars PROVE TypeOK'
  OBVIOUS
<1>. DEFINE Tables ==
       /\ relations \in Seq(Relation) /\ Len(relations) <= MaxRelations
       /\ hidden \subseteq DOMAIN relations /\ overtaken \subseteq Relation
       /\ rows \in Seq(Row) /\ Len(rows) <= MaxRows
       /\ admins \subseteq User
       /\ active \subseteq Question /\ inExam \subseteq Question
       /\ pc \in [Request -> {"idle", "missing", "inserted", "one", "all", "done"}]
       /\ found \in [Request -> SUBSET (1 .. MaxRelations)]
       /\ asked \in [Request -> Relation \cup {Nothing}]
<1>1. Tables
  BY DEF TableInv, TypeOK
<1>2. DOMAIN relations \subseteq 1 .. MaxRelations
  <2>1. DOMAIN relations = 1 .. Len(relations) /\ Len(relations) \in Nat
    BY <1>1
  <2>. QED BY <1>1, <2>1, SubmissionsAssumption
<1>3. Tables' => TypeOK'
  <2>1. ReaderInv'
    BY ReaderNext
  <2>2. ReaderTyped'
    BY <2>1, ReaderTypes, PTL
  <2>. QED BY <2>2 DEF TypeOK, ReaderTyped
<1>4. ASSUME NEW r \in Request, Handle(r) PROVE Tables'
  <2>1. ASSUME NEW from, NEW to \in {"missing", "inserted", "one", "all", "done"}, RequestStep(r, from, to)
        PROVE  /\ UNCHANGED <<admins, active, inExam>>
               /\ pc' \in [Request -> {"idle", "missing", "inserted", "one", "all", "done"}]
    BY <1>1, <2>1 DEF RequestStep
  <2>2. CASE CreateRepositoryLooks(r)
    BY <1>1, <2>1, <2>2 DEF CreateRepositoryLooks, relationVars
  <2>3. CASE CreateRepositoryInserts(r)
    <3>1. asked[r] \in Relation
      BY <2>3 DEF TableInv, RequestInv, CreateRepositoryInserts, RequestStep
    <3>2. /\ relations' = Append(relations, asked[r]) /\ Len(relations) + 1 <= MaxRelations
          /\ hidden' = hidden \cup {Len(relations) + 1} /\ UNCHANGED <<overtaken, rows>>
          /\ found' = [found EXCEPT ![r] = {Len(relations) + 1}]
          /\ asked' = [asked EXCEPT ![r] = Nothing]
          /\ RequestStep(r, "missing", "inserted")
      BY <2>3 DEF CreateRepositoryInserts
    <3>3. relations' \in Seq(Relation) /\ Len(relations') <= MaxRelations
      BY <1>1, <3>1, <3>2, SubmissionsAssumption
    <3>4. hidden' \subseteq DOMAIN relations' /\ Len(relations) + 1 \in 1 .. MaxRelations
      BY <1>1, <3>1, <3>2, SubmissionsAssumption
    <3>5. found' \in [Request -> SUBSET (1 .. MaxRelations)]
      BY <1>1, <3>2, <3>4
    <3>. QED BY <1>1, <2>1, <3>2, <3>3, <3>4, <3>5
  <2>31. CASE CreateRepositoryCommits(r)
    <3>1. found[r] \subseteq DOMAIN relations
      BY <2>31 DEF TableInv, RequestInv, CreateRepositoryCommits, RequestStep
    <3>2. /\ UNCHANGED <<relations, rows, asked>> /\ hidden' = hidden \ found[r]
          /\ overtaken' = overtaken \cup
               {relations[d] : d \in {e \in found[r] :
                                       \E f \in Visible : f > e /\ relations[f] = relations[e]}}
          /\ found' = [found EXCEPT ![r] = {}]
          /\ RequestStep(r, "inserted", "done")
      BY <2>31 DEF CreateRepositoryCommits
    <3>3. overtaken' \subseteq Relation
      BY <1>1, <3>1, <3>2
    <3>. QED BY <1>1, <2>1, <3>2, <3>3
  <2>4. CASE FindOne(r)
    <3>1. PICK a \in Relation :
            /\ RelationsOf(a.user, a.question) # {} /\ RequestStep(r, "idle", "one")
            /\ found' = [found EXCEPT ![r] = {First(RelationsOf(a.user, a.question))}]
            /\ UNCHANGED <<relations, hidden, overtaken, rows, asked>>
      BY <2>4 DEF FindOne, relationVars
    <3>2. First(RelationsOf(a.user, a.question)) \in DOMAIN relations
      BY <3>1, FirstFacts DEF TableInv, Visible
    <3>. QED BY <1>1, <1>2, <2>1, <3>1, <3>2
  <2>5. CASE ReScoreQuestion(r)
    BY <1>1, <1>2, <2>1, <2>5 DEF ReScoreQuestion, Visible, relationVars
  <2>6. CASE CreateRows(r)
    <3>1. rows' \in Seq(Row) /\ Len(rows') <= MaxRows
      BY <2>6, CreateRowsFacts
    <3>. QED BY <1>1, <2>1, <2>6, <3>1 DEF CreateRows, relationVars
  <2>. QED BY <1>4, <2>2, <2>3, <2>31, <2>4, <2>5, <2>6
           DEF Handle, PostGiteaHook, ReScoreUserQuestion
<1>5. ASSUME NEW i, Dispatch(i) \/ Judge(i) PROVE Tables'
  <2>1. PICK from, to \in Stage, score \in Score : RowStep(i, from, to, score)
    BY <1>5, RowSteps
  <2>2. rows' \in Seq(Row) /\ Len(rows') = Len(rows)
    BY <2>1, RowStepFacts DEF TableInv
  <2>. QED BY <1>1, <2>1, <2>2 DEF RowStep, relationVars
<1>6. ASSUME Restart PROVE Tables'
  <2>1. rows' \in Seq(Row) /\ Len(rows') = Len(rows)
    BY <1>6, RestartFacts DEF TableInv
  <2>2. pc' \in [Request -> {"idle", "missing", "inserted", "one", "all", "done"}]
    BY <1>6 DEF Restart, relationVars
  <2>. QED BY <1>1, <1>6, <2>1, <2>2 DEF Restart, relationVars
<1>7. ASSUME Moves PROVE Tables'
  BY <1>1, <1>7 DEF Moves, PatchQuestion, AddQuestionToExam, RemoveQuestionFromExam, ChangeRole,
                    BoardMoves, relationVars
<1>8. ASSUME Leaderboard PROVE Tables'
  BY <1>1, <1>8 DEF Leaderboard, ReadCount, ReadTotals, ReadDetails, Answer, ReaderStep,
                    relationVars
<1>9. ASSUME UNCHANGED vars PROVE Tables'
  BY <1>1, <1>9 DEF vars, relationVars
<1>. QED BY <1>3, <1>4, <1>5, <1>6, <1>7, <1>8, <1>9 DEF Next

(* Every row refers to a relation, and only verdicts are scores.            *)
LEMMA RowNext == TableInv /\ [Next]_vars => RowInv'
<1>. SUFFICES ASSUME TableInv, [Next]_vars, NEW k \in DOMAIN rows'
              PROVE  /\ rows'[k].rel \in Visible'
                     /\ rows'[k].stage # "over" => rows'[k].score \in Code
  BY DEF RowInv
<1>1. /\ relations \in Seq(Relation) /\ DOMAIN relations = 1 .. Len(relations)
      /\ rows \in Seq(Row) /\ DOMAIN rows = 1 .. Len(rows)
      /\ Len(relations) \in Nat /\ Len(rows) \in Nat
      /\ relations' \in Seq(Relation) /\ DOMAIN relations' = 1 .. Len(relations')
      /\ rows' \in Seq(Row) /\ DOMAIN rows' = 1 .. Len(rows')
      /\ Len(relations') \in Nat
  BY TypeNext DEF TableInv, TypeOK
<1>2. Visible \subseteq Visible'
  BY KeptNext, TypeNext, SeenStays DEF TableInv
<1>3. ASSUME k \in DOMAIN rows
      PROVE  /\ rows[k].rel \in Visible'
             /\ rows[k].stage # "over" => rows[k].score \in Code
  BY <1>2, <1>3 DEF TableInv, RowInv
<1>4. k \in DOMAIN rows => rows[k] \in Row
  BY <1>1
<1>5. CASE UNCHANGED rows
  BY <1>3, <1>5
<1>6. ASSUME NEW r \in Request, CreateRows(r)
      PROVE  /\ rows'[k].rel \in Visible'
             /\ rows'[k].stage # "over" => rows'[k].score \in Code
  <2>1. CASE k \in DOMAIN rows
    <3>1. rows'[k] = rows[k]
      BY <1>6, <2>1, CreateRowsFacts
    <3>. QED BY <1>3, <2>1, <3>1
  <2>2. CASE k \notin DOMAIN rows
    <3>1. rows'[k].rel \in found[r] /\ rows'[k].score = Waiting
      BY <1>6, <2>2, CreateRowsFacts
    <3>2. found[r] \subseteq Visible
      BY <1>6 DEF TableInv, RequestInv, CreateRows
    <3>. QED BY <1>2, <3>1, <3>2 DEF Code
  <2>. QED BY <2>1, <2>2
<1>7. ASSUME NEW i, Dispatch(i) \/ Judge(i)
      PROVE  /\ rows'[k].rel \in Visible'
             /\ rows'[k].stage # "over" => rows'[k].score \in Code
  <2>1. PICK from, to \in Stage, score \in Score :
          RowStep(i, from, to, score) /\ from # "over" /\ (to # "over" => score \in Code)
    BY <1>7, RowSteps
  <2>2. /\ Len(rows') = Len(rows) /\ i \in DOMAIN rows
        /\ rows'[i].stage = to /\ rows'[i].score = score /\ rows'[i].rel = rows[i].rel
        /\ \A j \in DOMAIN rows : j # i => rows'[j] = rows[j]
    <3>1. TypeOK
      BY DEF TableInv
    <3>. QED BY <2>1, <3>1, RowStepFacts
  <2>3. k \in DOMAIN rows
    BY <1>1, <2>2
  <2>. QED BY <1>3, <2>1, <2>2, <2>3
<1>8. CASE Restart
  <2>1. /\ Len(rows') = Len(rows)
        /\ \A j \in DOMAIN rows :
             rows'[j] = rows[j] \/ rows'[j] = [rows[j] EXCEPT !.stage = "lost"]
    BY <1>8, RestartFacts DEF TableInv
  <2>2. k \in DOMAIN rows
    BY <1>1, <2>1
  <2>3. PICK i \in DOMAIN rows : i = k
    BY <2>2
  <2>4. CASE rows'[k] = rows[k]
    BY <1>3, <2>2, <2>4
  <2>5. CASE rows'[k] = [rows[k] EXCEPT !.stage = "lost"] /\ rows[k].stage = "token"
    BY <1>3, <1>4, <2>2, <2>5 DEF Row
  <2>6. rows'[k] = [rows[k] EXCEPT !.stage = "lost"] => rows[k].stage = "token" \/ rows'[k] = rows[k]
    BY <1>8, <2>2 DEF Restart, relationVars
  <2>. QED BY <2>1, <2>2, <2>4, <2>5, <2>6
<1>9. ASSUME NEW r \in Request, Handle(r), ~CreateRows(r) PROVE UNCHANGED rows
  BY <1>9 DEF Handle, CreateRepositoryLooks, CreateRepositoryInserts, CreateRepositoryCommits,
              PostGiteaHook,
              ReScoreUserQuestion, FindOne, ReScoreQuestion
<1>10. ASSUME Moves PROVE UNCHANGED rows
  BY <1>10 DEF Moves, PatchQuestion, AddQuestionToExam, RemoveQuestionFromExam, ChangeRole,
                    BoardMoves, relationVars
<1>11. CASE Leaderboard
  BY <1>5, <1>11 DEF Leaderboard, ReadCount, ReadTotals, ReadDetails, Answer, ReaderStep,
                    relationVars
<1>12. CASE UNCHANGED vars
  BY <1>5, <1>12 DEF vars, relationVars
<1>. QED BY <1>5, <1>6, <1>7, <1>8, <1>9, <1>10, <1>11, <1>12 DEF Next

(* A request only reads relations that can be seen, and a push the first.   *)
LEMMA RequestNext == TableInv /\ [Next]_vars => RequestInv'
<1>. SUFFICES ASSUME TableInv, [Next]_vars PROVE RequestInv'
  OBVIOUS
<1>. DEFINE Holds(r) ==
              /\ pc[r] = "missing" => asked[r] \in Relation
              /\ pc[r] = "inserted" => found[r] \subseteq DOMAIN relations
              /\ pc[r] \in {"one", "all"} => found[r] \subseteq Visible /\ found[r] # {}
              /\ pc[r] = "one" => \E d \in Visible : found[r] = {d} /\ Settled(d)
<1>. SUFFICES ASSUME NEW r \in Request PROVE Holds(r)'
  BY DEF RequestInv
<1>1. Holds(r) /\ TypeOK /\ TypeOK' /\ Kept
  BY KeptNext, TypeNext DEF TableInv, RequestInv
<1>2. /\ relations \in Seq(Relation) /\ pc \in [Request -> {"idle", "missing", "inserted", "one", "all", "done"}]
      /\ found \in [Request -> SUBSET (1 .. MaxRelations)]
      /\ asked \in [Request -> Relation \cup {Nothing}]
  BY <1>1 DEF TypeOK
<1>3. DOMAIN relations \subseteq DOMAIN relations'
  <2>1. relations' \in Seq(Relation)
    BY TypeNext DEF TypeOK
  <2>2. /\ DOMAIN relations = 1 .. Len(relations) /\ DOMAIN relations' = 1 .. Len(relations')
        /\ Len(relations) \in Nat /\ Len(relations') \in Nat
        /\ Len(relations) <= Len(relations')
    BY <1>1, <1>2, <2>1 DEF Kept
  <2>. QED BY <2>2
<1>4. Visible \subseteq Visible' /\ \A d \in Visible : Settled(d) => Settled(d)'
  BY <1>1, SeenStays, SettledStays
<1>5. ASSUME pc'[r] = pc[r], found'[r] = found[r], asked'[r] = asked[r] PROVE Holds(r)'
  <2>1. /\ pc'[r] = "missing" => asked'[r] \in Relation
        /\ pc'[r] = "inserted" => found'[r] \subseteq DOMAIN relations'
        /\ pc'[r] \in {"one", "all"} => found'[r] \subseteq Visible' /\ found'[r] # {}
    BY <1>1, <1>3, <1>4, <1>5
  <2>2. ASSUME pc'[r] = "one"
        PROVE  \E d \in Visible' : found'[r] = {d} /\ Settled(d)'
    BY <1>1, <1>4, <1>5, <2>2
  <2>. QED BY <2>1, <2>2
<1>6. ASSUME NEW s \in Request, Handle(s) PROVE Holds(r)'
  <2>1. CASE s # r
    <3>1. pc'[r] = pc[r] /\ found'[r] = found[r] /\ asked'[r] = asked[r]
      BY <1>2, <1>6, <2>1
         DEF Handle, CreateRepositoryLooks, CreateRepositoryInserts, CreateRepositoryCommits,
              PostGiteaHook,
             ReScoreUserQuestion, FindOne, ReScoreQuestion, CreateRows, RequestStep, relationVars
    <3>. QED BY <1>5, <3>1
  <2>2. CASE s = r
    <3>1. CASE CreateRepositoryLooks(r)
      BY <1>1, <1>2, <3>1 DEF CreateRepositoryLooks, RequestStep
    <3>2. CASE CreateRepositoryInserts(r)
      <4>1. /\ relations' = Append(relations, asked[r]) /\ found'[r] = {Len(relations) + 1}
            /\ pc'[r] = "inserted"
        BY <1>2, <3>2 DEF CreateRepositoryInserts, RequestStep
      <4>2. found'[r] \subseteq DOMAIN relations'
        BY <1>2, <4>1
      <4>. QED BY <4>1, <4>2
    <3>21. CASE CreateRepositoryCommits(r)
      BY <1>2, <3>21 DEF CreateRepositoryCommits, RequestStep
    <3>3. CASE FindOne(r)
      <4>1. PICK a \in Relation :
              /\ RelationsOf(a.user, a.question) # {} /\ RequestStep(r, "idle", "one")
              /\ found' = [found EXCEPT ![r] = {First(RelationsOf(a.user, a.question))}]
              /\ UNCHANGED <<relations, hidden, overtaken, rows, asked>>
        BY <3>3 DEF FindOne, relationVars
      <4>2. PICK d \in Visible : d = First(RelationsOf(a.user, a.question)) /\ IsFirst(d)
        BY <1>1, <4>1, FirstFacts
      <4>3. found'[r] = {d} /\ pc'[r] = "one" /\ UNCHANGED <<relations, hidden, overtaken>>
        BY <1>2, <4>1, <4>2 DEF RequestStep
      <4>4. d \in Visible' /\ Settled(d)'
        BY <4>2, <4>3 DEF Settled, IsFirst, Visible
      <4>. QED BY <4>3, <4>4
    <3>4. CASE ReScoreQuestion(r)
      BY <1>1, <1>2, <3>4 DEF ReScoreQuestion, RequestStep, Visible, relationVars
    <3>5. CASE CreateRows(r)
      <4>1. found'[r] = {} /\ pc'[r] = "done"
        BY <1>2, <3>5 DEF CreateRows, RequestStep
      <4>. QED BY <4>1
    <3>. QED BY <1>6, <2>2, <3>1, <3>2, <3>21, <3>3, <3>4, <3>5
             DEF Handle, PostGiteaHook, ReScoreUserQuestion
  <2>. QED BY <2>1, <2>2
<1>7. ASSUME NEW i, Dispatch(i) \/ Judge(i) PROVE Holds(r)'
  <2>1. UNCHANGED <<pc, found, asked>>
    BY <1>7 DEF Dispatch, Judge, TokenFound, TokenFails, JobLost, JudgeStart, JudgeFails,
                JudgeFinish, RowStep, relationVars
  <2>. QED BY <1>5, <2>1
<1>8. CASE Restart
  <2>1. found'[r] = {} /\ pc'[r] \in {"idle", "done"}
    BY <1>8 DEF Restart, relationVars
  <2>. QED BY <2>1
<1>9. ASSUME Moves PROVE Holds(r)'
  BY <1>5, <1>9 DEF Moves, PatchQuestion, AddQuestionToExam, RemoveQuestionFromExam, ChangeRole,
                    BoardMoves, relationVars
<1>10. CASE Leaderboard
  BY <1>5, <1>10 DEF Leaderboard, ReadCount, ReadTotals, ReadDetails, Answer, ReaderStep,
                    relationVars
<1>11. CASE UNCHANGED vars
  BY <1>5, <1>11 DEF vars, relationVars
<1>. QED BY <1>6, <1>7, <1>8, <1>9, <1>10, <1>11 DEF Next

(* A row that a push adds goes to the first relation of its user and        *)
(* question, and a relation that is first remains so or is overtaken.       *)
LEMMA HistoryNext == TableInv /\ [Next]_vars => SettledInv'
<1>. SUFFICES ASSUME TableInv, [Next]_vars, NEW k \in DOMAIN rows', rows'[k].by = "one"
              PROVE  (Settled(rows[k].rel))'
  BY DEF SettledInv
<1>1. TypeOK /\ TypeOK' /\ Kept /\ RowInv /\ SettledInv
  BY KeptNext, TypeNext DEF TableInv
<1>2. /\ rows \in Seq(Row) /\ rows' \in Seq(Row)
      /\ DOMAIN rows = 1 .. Len(rows) /\ DOMAIN rows' = 1 .. Len(rows')
      /\ Len(rows) \in Nat /\ Len(rows') \in Nat
  BY <1>1, TypeNext DEF TypeOK
<1>3. ASSUME NEW d \in Visible, Settled(d), rows'[k].rel = d
      PROVE  (Settled(rows[k].rel))'
  <2>1. Settled(d)'
    BY <1>1, <1>3, SettledStays
  <2>. QED BY <1>3, <2>1 DEF Settled, IsFirst
<1>4. CASE k \in DOMAIN rows /\ rows[k].by = "one"
  <2>. DEFINE d == rows[k].rel
  <2>1. d \in Visible /\ Settled(d)
    BY <1>1, <1>4 DEF RowInv, SettledInv
  <2>2. rows'[k].rel = d
    BY <1>1, <1>4 DEF Kept
  <2>. HIDE DEF d
  <2>. QED BY <1>3, <2>1, <2>2
<1>5. CASE UNCHANGED rows
  BY <1>4, <1>5
<1>6. ASSUME NEW r \in Request, CreateRows(r), k \notin DOMAIN rows
      PROVE  \E d \in Visible : Settled(d) /\ rows'[k].rel = d
  <2>1. rows'[k].rel \in found[r] /\ rows'[k].by = pc[r]
    BY <1>6, CreateRowsFacts
  <2>2. \E d \in Visible : found[r] = {d} /\ Settled(d)
    BY <2>1 DEF TableInv, RequestInv
  <2>. QED BY <2>1, <2>2
<1>7. ASSUME NEW r \in Request, CreateRows(r), k \in DOMAIN rows
      PROVE  rows[k].by = "one"
  BY <1>7, CreateRowsFacts
<1>8. ASSUME NEW i, Dispatch(i) \/ Judge(i)
      PROVE  k \in DOMAIN rows /\ rows[k].by = "one"
  <2>1. PICK from, to \in Stage, score \in Score : RowStep(i, from, to, score)
    BY <1>8, RowSteps
  <2>2. /\ Len(rows') = Len(rows) /\ i \in DOMAIN rows /\ rows'[i].by = rows[i].by
        /\ \A j \in DOMAIN rows : j # i => rows'[j] = rows[j]
    BY <1>1, <2>1, RowStepFacts
  <2>. QED BY <1>2, <2>2
<1>9. CASE Restart
  <2>1. /\ Len(rows') = Len(rows)
        /\ \A j \in DOMAIN rows :
             rows'[j] = rows[j] \/ rows'[j] = [rows[j] EXCEPT !.stage = "lost"]
    BY <1>1, <1>9, RestartFacts
  <2>2. k \in DOMAIN rows
    BY <1>2, <2>1
  <2>3. rows[k] \in Row
    BY <1>2, <2>2
  <2>4. rows[k].by = "one"
    BY <2>1, <2>2, <2>3 DEF Row
  <2>. QED BY <1>4, <2>2, <2>4
<1>10. ASSUME NEW r \in Request, Handle(r), ~CreateRows(r) PROVE UNCHANGED rows
  BY <1>10 DEF Handle, CreateRepositoryLooks, CreateRepositoryInserts, CreateRepositoryCommits,
              PostGiteaHook,
               ReScoreUserQuestion, FindOne, ReScoreQuestion
<1>11. ASSUME Moves PROVE UNCHANGED rows
  BY <1>11 DEF Moves, PatchQuestion, AddQuestionToExam, RemoveQuestionFromExam, ChangeRole,
                    BoardMoves, relationVars
<1>12. CASE Leaderboard
  BY <1>5, <1>12 DEF Leaderboard, ReadCount, ReadTotals, ReadDetails, Answer, ReaderStep,
                    relationVars
<1>13. CASE UNCHANGED vars
  BY <1>5, <1>13 DEF vars, relationVars
<1>14. ASSUME NEW r \in Request, Handle(r)
       PROVE  (Settled(rows[k].rel))'
  BY <1>3, <1>4, <1>5, <1>6, <1>7, <1>10, <1>14
<1>15. ASSUME NEW i, Dispatch(i) \/ Judge(i)
       PROVE  (Settled(rows[k].rel))'
  BY <1>4, <1>8, <1>15
<1>16. ASSUME Moves
       PROVE  (Settled(rows[k].rel))'
  BY <1>5, <1>11, <1>16
<1>. QED BY <1>9, <1>12, <1>13, <1>14, <1>15, <1>16 DEF Next

(* The invariant of the tables holds in every state.                        *)
THEOREM Inductive == Spec => []TableInv
<1>1. Init => TableInv
  BY TableInit
<1>2. TableInv /\ [Next]_vars => TableInv'
  BY TypeNext, ReaderNext, RowNext, RequestNext, HistoryNext DEF TableInv
<1>. QED BY <1>1, <1>2, PTL DEF Spec

(* The tables, the requests and the leaderboards keep their types.          *)
THEOREM Typing == Spec => []TypeOK
<1>1. TableInv => TypeOK
  BY DEF TableInv
<1>. QED BY <1>1, Inductive, PTL

(* Every push and every rescore by a user goes to one relation, although    *)
(* concurrent requests may create two and one of them may never be seen;    *)
(* but not when the two have become visible against the order of IDs.       *)
THEOREM PushesShareHistory == Spec => []OneHistory
<1>1. ASSUME TableInv PROVE OneHistory
  <2>1. ASSUME NEW i \in DOMAIN rows, rows[i].by = "one",
               relations[rows[i].rel] \notin overtaken
        PROVE  rows[i].rel = First(RelationsOf(relations[rows[i].rel].user,
                                               relations[rows[i].rel].question))
    <3>1. rows[i].rel \in Visible /\ IsFirst(rows[i].rel) /\ TypeOK
      BY <1>1, <2>1 DEF TableInv, RowInv, SettledInv, Settled
    <3>. QED BY <3>1, FirstIsOne
  <2>. QED BY <2>1 DEF OneHistory
<1>. QED BY <1>1, Inductive, PTL

-----------------------------------------------------------------------------
(* Scores.                                                                  *)

(* The rows of a user and a question stay theirs.                           *)
LEMMA RowsOfStay ==
  ASSUME TableInv, [Next]_vars, NEW u, NEW q PROVE RowsOf(u, q) \subseteq RowsOf(u, q)'
<1>1. /\ rows \in Seq(Row) /\ rows' \in Seq(Row)
      /\ DOMAIN rows = 1 .. Len(rows) /\ DOMAIN rows' = 1 .. Len(rows')
      /\ Len(rows) \in Nat /\ Len(rows') \in Nat
  BY TypeNext DEF TableInv, TypeOK
<1>2. Kept
  BY KeptNext
<1>3. DOMAIN rows \subseteq DOMAIN rows'
  BY <1>1, <1>2 DEF Kept
<1>4. ASSUME NEW i \in RowsOf(u, q) PROVE i \in RowsOf(u, q)'
  <2>1. i \in DOMAIN rows /\ rows[i].rel \in DOMAIN relations
    BY DEF RowsOf, TableInv, RowInv, Visible
  <2>2. relations'[rows'[i].rel] = relations[rows[i].rel]
    BY <1>2, <2>1 DEF Kept
  <2>. QED BY <1>3, <2>1, <2>2 DEF RowsOf
<1>. QED BY <1>4

(* The best score is that of a row, if any has more than a code or zero,    *)
(* and no row has a better one.                                             *)
BestIsBest ==
  \A u, q :
    /\ Best(u, q) \in Nat
    /\ \A i \in RowsOf(u, q) : rows[i].score \in Int /\ rows[i].score <= Best(u, q)
    /\ Best(u, q) # 0 => \E i \in RowsOf(u, q) : rows[i].score = Best(u, q)

(* This holds whenever the types are right.                                 *)
LEMMA BestBounds == TypeOK => BestIsBest
<1>. SUFFICES ASSUME TypeOK, NEW u, NEW q
              PROVE  /\ Best(u, q) \in Nat
                     /\ \A i \in RowsOf(u, q) :
                          rows[i].score \in Int /\ rows[i].score <= Best(u, q)
                     /\ Best(u, q) # 0 =>
                          \E i \in RowsOf(u, q) : rows[i].score = Best(u, q)
  BY DEF BestIsBest
<1>. DEFINE R == RowsOf(u, q)
            M == BestOf(R)
<1>1. /\ Best(u, q) \in Nat /\ (R = {} => Best(u, q) = 0)
      /\ (R # {} => Best(u, q) = Greatest(M))
  BY BestFacts
<1>2. /\ \A i \in R : rows[i].score \in Int
      /\ R # {} => \E i \in R : rows[i].score = M
      /\ R # {} => \A i \in R : rows[i].score <= M
  BY RowsOfFacts, ScoreFacts
<1>. HIDE DEF R, M
<1>3. CASE R = {}
  BY <1>1, <1>3 DEF R
<1>4. CASE R # {}
  <2>1. M \in Int
    BY <1>2, <1>4
  <2>2. M <= Greatest(M) /\ (Greatest(M) # 0 => Greatest(M) = M) /\ Greatest(M) \in Int
    BY <2>1 DEF Greatest
  <2>3. ASSUME NEW i \in R PROVE rows[i].score <= Best(u, q)
    <3>1. rows[i].score \in Int /\ rows[i].score <= M
      BY <1>2, <1>4
    <3>. QED BY <1>1, <1>4, <2>1, <2>2, <3>1
  <2>. QED BY <1>1, <1>2, <1>4, <2>2, <2>3 DEF R
<1>. QED BY <1>3, <1>4

(* No step lowers the best score of a user at a question.                   *)
LEMMA BestStep ==
  ASSUME TableInv, [Next]_vars, NEW u, NEW q PROVE Best(u, q)' >= Best(u, q)
<1>1. BestIsBest /\ BestIsBest'
  <2>1. TypeOK /\ TypeOK'
    BY TypeNext DEF TableInv
  <2>. QED BY <2>1, BestBounds, PTL
<1>2. Best(u, q) \in Nat /\ Best(u, q)' \in Nat
  BY <1>1 DEF BestIsBest
<1>3. CASE Best(u, q) = 0
  BY <1>2, <1>3
<1>4. CASE Best(u, q) # 0
  <2>1. PICK i \in RowsOf(u, q) : rows[i].score = Best(u, q)
    BY <1>1, <1>4 DEF BestIsBest
  <2>2. i \in DOMAIN rows /\ i \in RowsOf(u, q)'
    BY RowsOfStay DEF RowsOf
  <2>3. rows'[i].score \in Int /\ rows'[i].score <= Best(u, q)'
    BY <1>1, <2>2 DEF BestIsBest
  <2>4. rows'[i].score >= rows[i].score \/ rows[i].score < 0
    BY <2>2, KeptNext DEF Kept
  <2>. QED BY <1>2, <2>1, <2>3, <2>4
<1>. QED BY <1>3, <1>4

(* The best score of a user at a question never falls: neither a push nor a *)
(* rescore, neither a judge that fails nor a restart takes it away.         *)
THEOREM BestScoresNeverFall == Spec => BestNeverFalls
<1>1. TableInv /\ [Next]_vars =>
        [\A u \in User, q \in Question : Best(u, q)' >= Best(u, q)]_vars
  BY BestStep
<1>. QED BY <1>1, Inductive, PTL DEF Spec, BestNeverFalls

-----------------------------------------------------------------------------
(* The views.                                                               *)

(* The rows of a user are the rows of its questions, and those the rows of  *)
(* its relations.                                                           *)
LEMMA HistoriesAgree ==
  ASSUME TableInv, NEW u, NEW q \in Question
  PROVE  /\ AllHistory(u) = UNION {HistoryOfQuestion(u, p) : p \in Question}
         /\ HistoryOfQuestion(u, q) = UNION {HistoryOfRelation(u, d) : d \in RelationsOf(u, q)}
<1>1. ASSUME NEW i \in DOMAIN rows
      PROVE  /\ rows[i].rel \in Visible
             /\ relations[rows[i].rel] \in Relation
  BY DEF TableInv, TypeOK, RowInv, Visible
<1>2. ASSUME NEW a \in Relation, NEW v, NEW p
      PROVE  a = [user |-> v, question |-> p] <=> a.user = v /\ a.question = p
  BY DEF Relation
<1>3. AllHistory(u) = UNION {HistoryOfQuestion(u, p) : p \in Question}
  <2>1. ASSUME NEW i \in AllHistory(u)
        PROVE  \E p \in Question : i \in HistoryOfQuestion(u, p)
    <3>1. i \in DOMAIN rows /\ relations[rows[i].rel].user = u
          /\ relations[rows[i].rel].question \in active
      BY DEF AllHistory
    <3>2. relations[rows[i].rel].question \in Question
      BY <1>1, <3>1 DEF Relation
    <3>. QED BY <1>1, <1>2, <3>1, <3>2 DEF HistoryOfQuestion, RowsOf
  <2>2. ASSUME NEW p \in Question, NEW i \in HistoryOfQuestion(u, p) PROVE i \in AllHistory(u)
    BY <1>1, <1>2 DEF HistoryOfQuestion, RowsOf, AllHistory
  <2>. QED BY <2>1, <2>2
<1>4. ASSUME NEW i \in HistoryOfQuestion(u, q)
      PROVE  \E d \in RelationsOf(u, q) : i \in HistoryOfRelation(u, d)
  <2>1. /\ i \in DOMAIN rows /\ relations[rows[i].rel] = [user |-> u, question |-> q]
        /\ q \in active
    BY DEF HistoryOfQuestion, RowsOf
  <2>. QED BY <1>1, <2>1 DEF RelationsOf, HistoryOfRelation
<1>5. ASSUME NEW d \in RelationsOf(u, q), NEW i \in HistoryOfRelation(u, d)
      PROVE  i \in HistoryOfQuestion(u, q)
  BY DEF HistoryOfQuestion, RowsOf, RelationsOf, HistoryOfRelation
<1>. QED BY <1>3, <1>4, <1>5

(* The exported time is that of a row with the exported score.              *)
LEMMA ExportedTime ==
  ASSUME TableInv, NEW u, NEW q, RowsOf(u, q) # {}, Cardinality(RelationsOf(u, q)) = 1
  PROVE  \E i \in RowsOf(u, q) : /\ rows[i].score = ExportedScore(u, q)
                                 /\ rows[i].batch = EarliestBest(u, q)
<1>. DEFINE R == RowsOf(u, q)
            M == BestOf(R)
            own(k) == {j \in R : rows[j].rel = rows[k].rel}
            top == {k \in R : rows[k].score = BestOf(own(k))}
            batches == {rows[i].batch : i \in top}
<1>1. PICK d : RelationsOf(u, q) = {d}
  <2>1. IsFiniteSet(RelationsOf(u, q))
    <3>1. /\ DOMAIN relations = 1 .. Len(relations) /\ Len(relations) \in Nat
          /\ RelationsOf(u, q) \subseteq DOMAIN relations
      BY DEF TableInv, TypeOK, RelationsOf, Visible
    <3>2. IsFiniteSet(1 .. Len(relations))
      BY <3>1, FS_Interval
    <3>. QED BY <3>1, <3>2, FS_Subset
  <2>. QED BY <2>1, FS_Singleton
<1>2. \A k \in R : rows[k].rel = d
  BY <1>1 DEF RowsOf, RelationsOf, TableInv, RowInv
<1>3. ASSUME NEW k \in R PROVE own(k) = R
  BY <1>2
<1>4. /\ \A i \in R : rows[i].batch \in Nat
      /\ \E i \in R : rows[i].score = M
  BY RowsOfFacts DEF TableInv
<1>5. top = {k \in R : rows[k].score = M}
  BY <1>3
<1>6. Min(batches) \in batches
  <2>1. batches \in SUBSET Nat /\ batches # {}
    BY <1>4, <1>5
  <2>. HIDE DEF batches
  <2>. QED BY <2>1, MinFacts
<1>7. EarliestBest(u, q) = Min(batches)
  BY DEF EarliestBest
<1>8. ExportedScore(u, q) = M
  BY DEF ExportedScore
<1>9. PICK i \in top : rows[i].batch = Min(batches)
  BY <1>6
<1>. HIDE DEF M, batches
<1>. QED BY <1>5, <1>7, <1>8, <1>9

(* What a user reads of one question.                                       *)
LEMMA QuestionViews ==
  ASSUME TableInv, NEW u, NEW q
  PROVE  /\ ListedScore(u, q) = IF RowsOf(u, q) = {} THEN {} ELSE {TopScore(u, q)}
         /\ Greatest(ExportedScore(u, q)) = Best(u, q)
         /\ RowsOf(u, q) # {} => Greatest(TopExamScore(u, q)) = TopScore(u, q)
         /\ HistoryOfQuestion(u, q) # {} =>
              \E i \in HistoryOfQuestion(u, q) :
                Greatest(rows[i].score) = Best(u, q) /\ Best(u, q) \in ListedScore(u, q)
<1>. DEFINE R == RowsOf(u, q)
            M == BestOf(R)
<1>1. /\ (R = {} => Best(u, q) = 0)
      /\ (R # {} => /\ Best(u, q) = Greatest(M) /\ TopScore(u, q) = Greatest(M)
                    /\ TopExamScore(u, q) = M)
  BY BestFacts DEF TableInv
<1>2. R # {} => M \in Int /\ \E i \in R : rows[i].score = M
  BY RowsOfFacts, ScoreFacts DEF TableInv
<1>3. ListedScore(u, q) = IF R = {} THEN {} ELSE {Greatest(M)}
  <2>1. CASE R = {}
    <3>1. {rows[i].score : i \in R} = {}
      BY <2>1
    <3>. QED BY <2>1, <3>1 DEF ListedScore
  <2>2. CASE R # {}
    <3>1. {rows[i].score : i \in R} # {} /\ Max({rows[i].score : i \in R}) = M
      BY <2>2 DEF BestOf
    <3>2. (IF M < 0 THEN 0 ELSE M) = Greatest(M)
      BY <1>2, <2>2 DEF Greatest
    <3>. HIDE DEF M
    <3>. QED BY <2>2, <3>1, <3>2 DEF ListedScore
  <2>. QED BY <2>1, <2>2
<1>4. ExportedScore(u, q) = IF R = {} THEN 0 ELSE M
  BY DEF ExportedScore
<1>5. Greatest(0) = 0
  BY DEF Greatest
<1>6. ASSUME HistoryOfQuestion(u, q) # {} PROVE HistoryOfQuestion(u, q) = R /\ R # {}
  BY <1>6 DEF HistoryOfQuestion
<1>. HIDE DEF M
<1>7. ASSUME HistoryOfQuestion(u, q) # {}
      PROVE  \E i \in HistoryOfQuestion(u, q) :
               Greatest(rows[i].score) = Best(u, q) /\ Best(u, q) \in ListedScore(u, q)
  <2>1. PICK i \in R : rows[i].score = M
    BY <1>2, <1>6, <1>7
  <2>2. Greatest(rows[i].score) = Best(u, q) /\ Best(u, q) \in ListedScore(u, q)
    BY <1>1, <1>3, <1>6, <1>7, <2>1
  <2>. QED BY <1>6, <1>7, <2>1, <2>2
<1>. QED BY <1>1, <1>3, <1>4, <1>5, <1>7

(* However a user looks at a question, he finds the same best score.        *)
THEOREM AllViewsAgree == Spec => []ViewsAgree
<1>1. ASSUME TableInv PROVE ViewsAgree
  <2>. SUFFICES ASSUME NEW u \in {relations[d].user : d \in DOMAIN relations}
                PROVE  /\ AllHistory(u) = UNION {HistoryOfQuestion(u, q) : q \in Question}
                       /\ \A b \in Board :
                            Total(u, b) = SumFunction([q \in Tried(u, Shown(b)) |-> TopScore(u, q)])
                       /\ \A q \in Question :
                            /\ ListedScore(u, q) = IF RowsOf(u, q) = {} THEN {} ELSE {TopScore(u, q)}
                            /\ Greatest(ExportedScore(u, q)) = Best(u, q)
                            /\ RowsOf(u, q) # {} =>
                                 /\ Greatest(TopExamScore(u, q)) = TopScore(u, q)
                                 /\ Cardinality(RelationsOf(u, q)) = 1 =>
                                      \E i \in RowsOf(u, q) : /\ rows[i].score = ExportedScore(u, q)
                                                              /\ rows[i].batch = EarliestBest(u, q)
                            /\ HistoryOfQuestion(u, q) =
                                 UNION {HistoryOfRelation(u, d) : d \in RelationsOf(u, q)}
                            /\ HistoryOfQuestion(u, q) # {} => \E i \in HistoryOfQuestion(u, q) :
                                 Greatest(rows[i].score) = Best(u, q) /\ Best(u, q) \in ListedScore(u, q)
    BY DEF ViewsAgree
  <2>1. AllHistory(u) = UNION {HistoryOfQuestion(u, q) : q \in Question}
    <3>1. \E q : q \in Question
      <4>1. relations \in Seq(Relation)
        BY <1>1 DEF TableInv, TypeOK
      <4>2. PICK d \in DOMAIN relations : TRUE
        OBVIOUS
      <4>3. relations[d] \in Relation
        BY <4>1
      <4>. QED BY <4>3 DEF Relation
    <3>. QED BY <1>1, <3>1, HistoriesAgree
  <2>2. ASSUME NEW b \in Board
        PROVE  Total(u, b) = SumFunction([q \in Tried(u, Shown(b)) |-> TopScore(u, q)])
    BY <1>1, SumsAgree DEF TableInv
  <2>3. ASSUME NEW q \in Question
        PROVE  /\ ListedScore(u, q) = IF RowsOf(u, q) = {} THEN {} ELSE {TopScore(u, q)}
               /\ Greatest(ExportedScore(u, q)) = Best(u, q)
               /\ RowsOf(u, q) # {} => Greatest(TopExamScore(u, q)) = TopScore(u, q)
               /\ HistoryOfQuestion(u, q) # {} => \E i \in HistoryOfQuestion(u, q) :
                    Greatest(rows[i].score) = Best(u, q) /\ Best(u, q) \in ListedScore(u, q)
    BY <1>1, QuestionViews
  <2>4. ASSUME NEW q \in Question, RowsOf(u, q) # {}, Cardinality(RelationsOf(u, q)) = 1
        PROVE  \E i \in RowsOf(u, q) : /\ rows[i].score = ExportedScore(u, q)
                                       /\ rows[i].batch = EarliestBest(u, q)
    BY <1>1, <2>4, ExportedTime
  <2>5. ASSUME NEW q \in Question
        PROVE  HistoryOfQuestion(u, q) = UNION {HistoryOfRelation(u, d) : d \in RelationsOf(u, q)}
    BY <1>1, HistoriesAgree
  <2>. QED BY <2>1, <2>2, <2>3, <2>4, <2>5
<1>. QED BY <1>1, Inductive, PTL

-----------------------------------------------------------------------------
(* The leaderboards.                                                        *)

(* While no question was hidden or shown, and no role changed: there are at *)
(* least as many users to rank as were counted, and a total is at most what *)
(* there is to list.                                                        *)
Counted(b) == b = "general" \/ inExam \subseteq active

BoardInv ==
  ~reader.moved =>
    /\ reader.pc = "counted" /\ Counted(reader.board) =>
         reader.count <= Cardinality(Ranked(reader.board))
    /\ reader.pc \in {"ranked", "answered"} /\ Counted(reader.board) =>
         reader.count <= Cardinality(DOMAIN reader.totals)
    /\ reader.pc = "ranked" =>
         \A u \in DOMAIN reader.totals : reader.totals[u] <= BestSum(u, reader.board)
    /\ reader.pc = "answered" =>
         \A u \in DOMAIN reader.totals : reader.totals[u] <= reader.details[u]

(* The sum of a user's best scores is a number.                             *)
SumsTyped == \A u, b : BestSum(u, b) \in Nat

(* This holds whenever the types are right.                                 *)
LEMMA SumTypes == TypeOK => SumsTyped
BY SumsAgree DEF SumsTyped

(* As long as questions and roles stay as they are, a user keeps its place  *)
(* on a leaderboard, and the sum of its best scores does not fall.          *)
LEMMA RanksStay ==
  ASSUME TableInv, [Next]_vars, UNCHANGED <<admins, active, inExam>>, NEW u, NEW b
  PROVE  /\ Ranked(b) \subseteq Ranked(b)'
         /\ BestSum(u, b) \in Nat /\ BestSum(u, b)' \in Nat
         /\ BestSum(u, b) <= BestSum(u, b)'
<1>1. ASSUME NEW v PROVE Tried(v, Shown(b)) \subseteq Tried(v, Shown(b))'
  BY RowsOfStay DEF Tried, Shown, OfBoard
<1>2. Ranked(b) \subseteq Ranked(b)'
  BY <1>1 DEF Ranked
<1>. DEFINE R == Tried(u, Shown(b))
            S == Tried(u, Shown(b))'
            f == [q \in R |-> Best(u, q)]
            h == [q \in S |-> Best(u, q)']
<1>3. \A q : /\ Best(u, q) \in Nat /\ Best(u, q)' \in Nat
             /\ Best(u, q) <= Best(u, q)'
  <2>1. BestIsBest /\ BestIsBest'
    <3>1. TypeOK /\ TypeOK'
      BY TypeNext DEF TableInv
    <3>. QED BY <3>1, BestBounds, PTL
  <2>2. \A q : Best(u, q) \in Nat /\ Best(u, q)' \in Nat
    BY <2>1 DEF BestIsBest
  <2>3. \A q : Best(u, q)' >= Best(u, q)
    BY BestStep
  <2>. QED BY <2>2, <2>3
<1>4. R \in SUBSET S /\ IsFiniteSet(S)
  <2>1. S \subseteq Question
    BY DEF Tried, Shown, OfBoard, TableInv, TypeOK
  <2>2. IsFiniteSet(S)
    BY <2>1, SubmissionsAssumption, FS_Subset
  <2>. QED BY <1>1, <2>2
<1>. HIDE DEF R, S
<1>5. f \in [R -> Nat] /\ h \in [S -> Nat] /\ \A q \in R : f[q] <= h[q]
  BY <1>3, <1>4
<1>6. SumFunction(f) <= SumFunction(h)
  <2>. HIDE DEF f, h
  <2>. QED BY <1>4, <1>5, SumFacts
<1>7. BestSum(u, b) = SumFunction(f)
  BY DEF BestSum, R
<1>8. BestSum(u, b)' = SumFunction(h)
  BY DEF BestSum, S
<1>9. SumsTyped /\ SumsTyped'
  <2>1. TypeOK /\ TypeOK'
    BY TypeNext DEF TableInv
  <2>. QED BY <2>1, SumTypes, PTL
<1>10. BestSum(u, b) \in Nat /\ BestSum(u, b)' \in Nat
  BY <1>9 DEF SumsTyped
<1>. QED BY <1>2, <1>6, <1>7, <1>8, <1>10

(* There are never more users counted than ranked.                          *)
LEMMA CountFacts ==
  ASSUME TypeOK, NEW b \in Board
  PROVE  /\ IsFiniteSet(Ranked(b)) /\ Cardinality(Ranked(b)) \in Nat
         /\ Counted(b) => CountUsers(b) <= Cardinality(Ranked(b))
<1>1. IsFiniteSet(Ranked(b))
  BY SubmissionsAssumption, FS_Subset DEF Ranked
<1>2. Cardinality(Ranked(b)) \in Nat
  BY <1>1, FS_CardinalityType
<1>3. ASSUME Counted(b) PROVE CountUsers(b) = Cardinality(Ranked(b))
  <2>1. (IF b = "exam" THEN OfBoard(b) ELSE Shown(b)) = Shown(b)
    BY <1>3 DEF Counted, Shown, OfBoard, Board
  <2>. QED BY <2>1 DEF CountUsers, Ranked
<1>. QED BY <1>1, <1>2, <1>3

(* Every step keeps that.                                                   *)
LEMMA BoardNext == TableInv /\ BoardInv /\ [Next]_vars => BoardInv'
<1>. SUFFICES ASSUME TableInv, BoardInv, [Next]_vars PROVE BoardInv'
  OBVIOUS
<1>1. /\ TypeOK /\ TypeOK' /\ ReaderInv /\ ReaderInv'
      /\ reader.count \in Nat /\ reader'.count \in Nat
  <2>1. TypeOK /\ TypeOK' /\ ReaderInv /\ ReaderInv'
    BY TypeNext, ReaderNext DEF TableInv
  <2>2. Cardinality(User) \in Nat
    BY SubmissionsAssumption, FS_CardinalityType
  <2>. QED BY <2>1, <2>2 DEF TypeOK
<1>2. CASE UNCHANGED <<admins, active, inExam, reader>>
  <2>. PICK b : b = reader.board
    OBVIOUS
  <2>1. \A u : /\ BestSum(u, b) <= BestSum(u, b)'
               /\ BestSum(u, b) \in Nat /\ BestSum(u, b)' \in Nat
    BY <1>2, RanksStay
  <2>2. Ranked(b) \subseteq Ranked(b)'
    BY <1>2, RanksStay
  <2>3. Cardinality(Ranked(b)) <= Cardinality(Ranked(b)')
    <3>1. IsFiniteSet(Ranked(b)')
      BY SubmissionsAssumption, FS_Subset DEF Ranked
    <3>. QED BY <2>2, <3>1, FS_Subset
  <2>4. Cardinality(Ranked(b)) \in Nat /\ Cardinality(Ranked(b)') \in Nat
    <3>1. IsFiniteSet(Ranked(b)) /\ IsFiniteSet(Ranked(b)')
      BY SubmissionsAssumption, FS_Subset DEF Ranked
    <3>. QED BY <3>1, FS_CardinalityType
  <2>5. \A u \in DOMAIN reader.totals : reader.totals[u] \in Nat
    BY <1>1 DEF TypeOK
  <2>. QED BY <1>1, <1>2, <2>1, <2>2, <2>3, <2>4, <2>5 DEF BoardInv, Counted
<1>3. ASSUME Moves PROVE BoardInv'
  <2>1. reader' = [reader EXCEPT !.moved = TRUE]
    BY <1>3 DEF Moves, PatchQuestion, AddQuestionToExam, RemoveQuestionFromExam, ChangeRole,
                    BoardMoves, relationVars
  <2>2. reader'.moved
    BY <1>1, <2>1 DEF ReaderInv
  <2>. QED BY <2>2 DEF BoardInv
<1>4. CASE reader' = NoAnswer
  BY <1>4 DEF BoardInv, NoAnswer
<1>5. CASE ReadCount
  <2>1. PICK b \in Board : /\ reader' = [NoAnswer EXCEPT !.pc = "counted", !.board = b,
                                                       !.count = CountUsers(b)]
                           /\ UNCHANGED <<relations, rows, admins, active, inExam>>
    BY <1>5 DEF ReadCount, ReaderStep, relationVars
  <2>2. reader'.pc = "counted" /\ reader'.board = b /\ reader'.count = CountUsers(b)
    BY <2>1 DEF NoAnswer
  <2>3. Counted(b) => CountUsers(b) <= Cardinality(Ranked(b))
    BY <1>1, CountFacts
  <2>4. Ranked(b)' = Ranked(b) /\ (Counted(b)' <=> Counted(b))
    BY <2>1 DEF Ranked, Counted, Tried, RowsOf, Shown, OfBoard
  <2>. QED BY <2>2, <2>3, <2>4 DEF BoardInv, Counted
<1>6. CASE ReadTotals
  <2>. PICK b : b = reader.board
    OBVIOUS
  <2>. DEFINE totals == [u \in Ranked(b) |-> Total(u, b)]
  <2>1. /\ reader.pc = "counted"
        /\ reader' = NoAnswer \/ reader' = [reader EXCEPT !.pc = "ranked", !.totals = totals]
        /\ UNCHANGED <<relations, rows, admins, active, inExam>>
    BY <1>6 DEF ReadTotals, ReaderStep, relationVars
  <2>2. ASSUME reader' = [reader EXCEPT !.pc = "ranked", !.totals = totals]
        PROVE  /\ reader'.pc = "ranked" /\ reader'.board = b /\ reader'.count = reader.count
               /\ reader'.totals = totals /\ reader'.moved = reader.moved
    <3>. HIDE DEF totals
    <3>. QED BY <1>1, <2>2 DEF ReaderInv
  <2>3. ASSUME NEW u PROVE /\ BestSum(u, b)' = BestSum(u, b) /\ BestSum(u, b) \in Nat
                           /\ Total(u, b) = BestSum(u, b)
    <3>1. BestSum(u, b)' = BestSum(u, b)
      BY <2>1 DEF BestSum, Best, Tried, RowsOf, Shown, OfBoard
    <3>. QED BY <1>1, <3>1, SumsAgree
  <2>4. DOMAIN totals = Ranked(b) /\ \A u \in Ranked(b) : totals[u] <= BestSum(u, b)'
    BY <2>3
  <2>. HIDE DEF totals
  <2>5. Counted(b)' <=> Counted(b)
    BY <2>1 DEF Counted
  <2>. QED BY <1>4, <2>1, <2>2, <2>4, <2>5 DEF BoardInv, Counted
<1>7. CASE ReadDetails
  <2>. PICK b : b = reader.board
    OBVIOUS
  <2>. DEFINE details == [u \in DOMAIN reader.totals |-> Detail(u, b)]
  <2>1. /\ reader.pc = "ranked"
        /\ reader' = [reader EXCEPT !.pc = "answered", !.details = details]
        /\ UNCHANGED <<relations, rows, admins, active, inExam>>
    BY <1>7 DEF ReadDetails, ReaderStep, relationVars
  <2>2. /\ reader'.pc = "answered" /\ reader'.board = b /\ reader'.count = reader.count
        /\ reader'.totals = reader.totals /\ reader'.moved = reader.moved
        /\ reader'.details = details
    <3>. HIDE DEF details
    <3>. QED BY <1>1, <2>1 DEF ReaderInv
  <2>3. \A u \in DOMAIN reader.totals : details[u] = BestSum(u, b)
    BY <1>1, SumsAgree
  <2>. HIDE DEF details
  <2>. QED BY <2>1, <2>2, <2>3 DEF BoardInv, Counted
<1>8. ASSUME NEW r \in Request, Handle(r) PROVE UNCHANGED <<admins, active, inExam, reader>>
  BY <1>8 DEF Handle, CreateRepositoryLooks, CreateRepositoryInserts, CreateRepositoryCommits,
              PostGiteaHook,
              ReScoreUserQuestion, FindOne, ReScoreQuestion, CreateRows, RequestStep, relationVars
<1>9. ASSUME NEW i, Dispatch(i) \/ Judge(i) PROVE UNCHANGED <<admins, active, inExam, reader>>
  BY <1>9 DEF Dispatch, Judge, TokenFound, TokenFails, JobLost, JudgeStart, JudgeFails,
              JudgeFinish, RowStep, relationVars
<1>10. CASE UNCHANGED vars
  BY <1>2, <1>10 DEF vars, relationVars
<1>11. CASE Answer \/ Restart
  BY <1>4, <1>11 DEF Answer, Restart, ReaderStep
<1>. QED BY <1>2, <1>3, <1>5, <1>6, <1>7, <1>8, <1>9, <1>10, <1>11 DEF Next, Leaderboard

(* As long as no question was hidden or shown and no role changed in        *)
(* between, a leaderboard lists at least as many users as it counts, and    *)
(* their scores per question add up to at least the total they are listed   *)
(* with.                                                                    *)
THEOREM BoardsAgree == Spec => []BoardAgrees
<1>1. Init => BoardInv
  BY DEF Init, NoAnswer, BoardInv
<1>2. TableInv /\ BoardInv /\ [Next]_vars => BoardInv'
  BY BoardNext
<1>3. ASSUME TableInv, BoardInv PROVE BoardAgrees
  <2>. SUFFICES ASSUME reader.pc = "answered", ~reader.moved
                PROVE  /\ reader.board = "general" \/ inExam \subseteq active =>
                            reader.count <= Cardinality(DOMAIN reader.totals)
                       /\ \A u \in DOMAIN reader.totals : reader.details[u] >= reader.totals[u]
    BY DEF BoardAgrees
  <2>. QED BY <1>3 DEF BoardInv, Counted
<1>. QED BY <1>1, <1>2, <1>3, Inductive, PTL DEF Spec
=============================================================================
