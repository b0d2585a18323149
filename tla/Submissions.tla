---------------------------- MODULE Submissions ----------------------------
(***************************************************************************)
(* The rows that submissions leave in the database and the score boards    *)
(* that read them: the relation between a user and a question              *)
(* (handlers/gitea.go), the pushes and rescores that add rows              *)
(* (handlers/webhook.go, handlers/score.go), the goroutines that dispatch  *)
(* them, the judge that writes their scores, the catalog changes that hide *)
(* questions, and the leaderboards (handlers/score.go, handlers/exam.go).  *)
(*                                                                         *)
(* Every database statement is one step; a handler that issues several is  *)
(* interrupted between them, for none uses a transaction.  What creates a  *)
(* relation is a transaction of its own: its INSERT draws the ID, and only *)
(* its COMMIT lets others see the record, so that IDs need not become      *)
(* visible in their order.  Rows are numbered in the order of their        *)
(* COMMITs, for nothing looks for a row by the order of IDs.  A request    *)
(* that is turned away (unknown question, wrong time, an error of Gitea or *)
(* of the database) changes nothing here.  Every question has a repository of its *)
(* own, there is one exam, and a leaderboard has one page.                 *)
(***************************************************************************)
EXTENDS Integers, Sequences, FiniteSets, FiniteSetsExt

CONSTANTS
  User, Question,
  Admin,          \* the users whose is_admin is set at first
  Request,        \* the requests of a run: each is one call of one handler
  Scores,         \* what a judge may compute
  MaxRows, MaxRelations   \* bounds on the two tables

ASSUME SubmissionsAssumption ==
  /\ Admin \subseteq User /\ IsFiniteSet(User) /\ IsFiniteSet(Question)
  /\ Scores \subseteq Nat
  /\ MaxRows \in Nat /\ MaxRelations \in Nat

Board == {"general", "exam"}   \* GetLeaderboard and GetExamLeaderboard

VARIABLES
  relations,   \* UserQuestionRelation, by ID
  hidden,      \* IDs of relations that are not committed: under way, or rolled back
  overtaken,   \* history: user and question of a relation that became visible after
               \* one of theirs with a later ID
  rows,        \* UserQuestionTable
  admins,      \* users whose is_admin is set
  active,      \* questions whose is_active is set
  inExam,      \* questions that belong to the exam
  pc, found,   \* per request: its step, and the relations it has read or inserted
  asked,       \* per request: the relation it is about to create
  reader       \* a leaderboard request

relationVars == <<relations, hidden, overtaken>>
vars == <<relationVars, rows, admins, active, inExam, pc, found, asked, reader>>

Waiting == -3
Failed  == -2
Judging == -1

Relation == [user : User, question : Question]
Nothing  == <<>>

(* What has become of a row's job: its goroutine still needs a Gitea token, *)
(* it is in the pipeline, with a judge, over, or lost.                      *)
Stage == {"token", "queued", "judging", "over", "lost"}

(* "by" is the handler.  "batch" is the first row that was created with it; *)
(* it stands for created_at, which such rows have in common.                *)
Row == [rel : 1 .. MaxRelations, score : {Waiting, Failed, Judging} \cup Scores,
        stage : Stage, by : {"one", "all"}, batch : 1 .. MaxRows]

TypeOK ==
  /\ relations \in Seq(Relation) /\ Len(relations) <= MaxRelations
  /\ hidden \subseteq DOMAIN relations /\ overtaken \subseteq Relation
  /\ rows \in Seq(Row) /\ Len(rows) <= MaxRows
  /\ admins \subseteq User
  /\ active \subseteq Question /\ inExam \subseteq Question
  /\ pc \in [Request -> {"idle", "missing", "inserted", "one", "all", "done"}]
  /\ found \in [Request -> SUBSET (1 .. MaxRelations)]
  /\ asked \in [Request -> Relation \cup {Nothing}]
  /\ reader.pc \in {"idle", "counted", "ranked", "answered"}
  /\ reader.board \in Board /\ reader.count \in 0 .. Cardinality(User)
  /\ \A u \in DOMAIN reader.totals : u \in User /\ reader.totals[u] \in Nat
  /\ \A u \in DOMAIN reader.details : u \in User /\ reader.details[u] \in Nat

NoAnswer == [pc |-> "idle", board |-> "general", count |-> 0, totals |-> <<>>,
             details |-> <<>>, moved |-> FALSE]

Init ==
  /\ relations = <<>> /\ hidden = {} /\ overtaken = {} /\ rows = <<>>
  /\ admins = Admin
  /\ active = Question
  /\ inExam \in SUBSET Question
  /\ pc = [r \in Request |-> "idle"]
  /\ found = [r \in Request |-> {}]
  /\ asked = [r \in Request |-> Nothing]
  /\ reader = NoAnswer

-----------------------------------------------------------------------------
(* What a query sees, and First: the record with the lowest ID.             *)
Visible == DOMAIN relations \ hidden

RelationsOf(u, q) == {d \in Visible : relations[d] = [user |-> u, question |-> q]}

First(ids) == Min(ids)

RequestStep(r, from, to) ==
  /\ pc[r] = from
  /\ pc' = [pc EXCEPT ![r] = to]
  /\ UNCHANGED <<admins, active, inExam, reader>>

(* PostCreateQuestionRepositoryGitea: the relation is looked for ...        *)
CreateRepositoryLooks(r) ==
  \E a \in Relation :
    LET missing == RelationsOf(a.user, a.question) = {}
    IN  /\ a.question \in active
        /\ RequestStep(r, "idle", IF missing THEN "missing" ELSE "done")
        /\ asked' = IF missing THEN [asked EXCEPT ![r] = a] ELSE asked
        /\ UNCHANGED <<relationVars, rows, found>>

(* ... and created.  No constraint of the table forbids a second one.       *)
CreateRepositoryInserts(r) ==
  LET d == Len(relations) + 1
  IN  /\ d <= MaxRelations
      /\ RequestStep(r, "missing", "inserted")
      /\ relations' = Append(relations, asked[r])
      /\ hidden' = hidden \cup {d}
      /\ found' = [found EXCEPT ![r] = {d}]
      /\ asked' = [asked EXCEPT ![r] = Nothing]
      /\ UNCHANGED <<overtaken, rows>>

CreateRepositoryCommits(r) ==
  /\ RequestStep(r, "inserted", "done")
  /\ hidden' = hidden \ found[r]
  /\ overtaken' = overtaken \cup
       {relations[d] : d \in {e \in found[r] :
                               \E f \in Visible : f > e /\ relations[f] = relations[e]}}
  /\ found' = [found EXCEPT ![r] = {}]
  /\ UNCHANGED <<relations, rows, asked>>

(* Mutant: Take instead of First, which returns any record.                 *)
FindOneTakes(r) ==
  \E a \in Relation : \E d \in RelationsOf(a.user, a.question) :
    /\ a.question \in active
    /\ RequestStep(r, "idle", "one")
    /\ found' = [found EXCEPT ![r] = {d}]
    /\ UNCHANGED <<relationVars, rows, asked>>

(* PostGiteaHook finds the relation by its repository, ReScoreUserQuestion  *)
(* by user and question.                                                    *)
FindOne(r) ==
  \E a \in Relation :
    LET ids == RelationsOf(a.user, a.question)
    IN  /\ a.question \in active /\ ids # {}
        /\ RequestStep(r, "idle", "one")
        /\ found' = [found EXCEPT ![r] = {First(ids)}]
        /\ UNCHANGED <<relationVars, rows, asked>>

PostGiteaHook(r)       == FindOne(r)
ReScoreUserQuestion(r) == FindOne(r)

(* Whoever holds a token that names an admin may, and an inactive question  *)
(* as well.  Creating no rows at all is an error.                           *)
ReScoreQuestion(r) ==
  \E q \in Question :
    LET ids == {d \in Visible : relations[d].question = q}
    IN  /\ ids # {}
        /\ RequestStep(r, "idle", "all")
        /\ found' = [found EXCEPT ![r] = ids]
        /\ UNCHANGED <<relationVars, rows, asked>>

NewRow(d, by, batch) ==
  [rel |-> d, score |-> Waiting, stage |-> "token", by |-> by, batch |-> batch]

(* Mutant: an admin's rescore resets the rows there are.                    *)
CreateRowsResets(r) ==
  /\ pc[r] \in {"one", "all"} /\ Len(rows) < MaxRows
  /\ RequestStep(r, pc[r], "done")
  /\ rows' = IF pc[r] = "one"
             THEN Append(rows, NewRow(First(found[r]), "one", Len(rows) + 1))
             ELSE [i \in DOMAIN rows |->
                     IF rows[i].rel \in found[r]
                     THEN [rows[i] EXCEPT !.score = Waiting, !.stage = "token"]
                     ELSE rows[i]]
  /\ found' = [found EXCEPT ![r] = {}]
  /\ UNCHANGED <<relationVars, asked>>

(* One Create for all rows of a request, in the order of their relations,   *)
(* then the goroutine that dispatches them.                                 *)
CreateRows(r) ==
  LET n == Cardinality(found[r])
      nth(k) == CHOOSE d \in found[r] : Cardinality({e \in found[r] : e < d}) = k - 1
  IN  /\ pc[r] \in {"one", "all"}
      /\ Len(rows) + n <= MaxRows
      /\ RequestStep(r, pc[r], "done")
      /\ rows' = rows \o [k \in 1 .. n |-> NewRow(nth(k), pc[r], Len(rows) + 1)]
      /\ found' = [found EXCEPT ![r] = {}]
      /\ UNCHANGED <<relationVars, asked>>

-----------------------------------------------------------------------------
(* From a row to its verdict.                                               *)
RowStep(i, from, to, score) ==
  /\ i \in DOMAIN rows /\ rows[i].stage = from
  /\ rows' = [rows EXCEPT ![i].stage = to, ![i].score = score]
  /\ UNCHANGED <<relationVars, admins, active, inExam, pc, found, asked, reader>>

(* Mutant: the loop is left after a row that failed.                        *)
NextOfBatchStops(i) ==
  /\ i \in DOMAIN rows
  /\ \A k \in 1 .. i - 1 : rows[k].batch = rows[i].batch =>
                              rows[k].stage # "token" /\ rows[k].score # Failed

(* The goroutine reads the tokens of its rows one after the other.          *)
NextOfBatch(i) ==
  /\ i \in DOMAIN rows
  /\ \A k \in 1 .. i - 1 : rows[k].batch = rows[i].batch => rows[k].stage # "token"

(* ReserveJob, which never fails, follows at once.                          *)
TokenFound(i) == NextOfBatch(i) /\ RowStep(i, "token", "queued", rows[i].score)

(* The row says so, and the loop goes on with the next row.                 *)
TokenFails(i) == NextOfBatch(i) /\ RowStep(i, "token", "over", Failed)

(* The API is restarted: goroutines are gone, and what they have not        *)
(* committed; rows and relations are not.                                   *)
Restart ==
  /\ rows' = [i \in DOMAIN rows |->
                IF rows[i].stage = "token" THEN [rows[i] EXCEPT !.stage = "lost"]
                                           ELSE rows[i]]
  /\ pc' = [r \in Request |-> IF pc[r] = "idle" THEN "idle" ELSE "done"]
  /\ found' = [r \in Request |-> {}] /\ asked' = [r \in Request |-> Nothing]
  /\ reader' = NoAnswer
  /\ UNCHANGED <<relationVars, admins, active, inExam>>

(* The pipeline and the sandbox servers lose jobs, see Scheduler and        *)
(* SandboxPool; a lost row keeps its score.                                 *)
JobLost(i) ==
  \E from \in {"queued", "judging"} : RowStep(i, from, "lost", rows[i].score)

JudgeStart(i) == RowStep(i, "queued", "judging", Judging)

JudgeFails(i) ==
  \E from \in {"queued", "judging"} : RowStep(i, from, "over", Failed)

(* Updates with a struct leaves the score alone when the new one is zero.   *)
JudgeFinish(i) ==
  \E score \in Scores :
    RowStep(i, "judging", "over", IF score = 0 THEN rows[i].score ELSE score)

-----------------------------------------------------------------------------
(* The catalog and the roles: what a leaderboard shows, and of whom.        *)
BoardMoves ==
  /\ reader' = [reader EXCEPT !.moved = TRUE]
  /\ UNCHANGED <<relationVars, rows, pc, found, asked>>

PatchQuestion(q) ==
  /\ \E a \in {active \cup {q}, active \ {q}} : a # active /\ active' = a
  /\ BoardMoves /\ UNCHANGED <<admins, inExam>>

AddQuestionToExam(q) ==
  /\ q \notin inExam /\ inExam' = inExam \cup {q}
  /\ BoardMoves /\ UNCHANGED <<admins, active>>

RemoveQuestionFromExam(q) ==
  /\ q \in inExam /\ inExam' = inExam \ {q}
  /\ BoardMoves /\ UNCHANGED <<admins, active>>

(* A login stores the role that Gitea names, and a whole-record save of a   *)
(* record read before may take it back, see Accounts.                       *)
ChangeRole(u) ==
  /\ \E a \in {admins \cup {u}, admins \ {u}} : a # admins /\ admins' = a
  /\ BoardMoves /\ UNCHANGED <<active, inExam>>

-----------------------------------------------------------------------------
(* The leaderboards: a count, the totals and the scores per question, each  *)
(* a query of its own.                                                      *)
RowsOf(u, q) ==
  {i \in DOMAIN rows : relations[rows[i].rel] = [user |-> u, question |-> q]}

OfBoard(b) == IF b = "exam" THEN inExam ELSE Question \ inExam
Shown(b)   == OfBoard(b) \cap active

(* DISTINCT ON (user, question) ... ORDER BY score DESC, created_at ASC.    *)
BestRow(u, q) ==
  CHOOSE i \in RowsOf(u, q) :
    \A k \in RowsOf(u, q) \ {i} :
      \/ rows[k].score < rows[i].score
      \/ rows[k].score = rows[i].score /\ rows[i].batch <= rows[k].batch

(* Mutant: a leaderboard takes codes for scores.                            *)
GreatestForgotten(score) == score

(* GREATEST(score, 0).                                                      *)
Greatest(score) == IF score > 0 THEN score ELSE 0

Tried(u, qs) == {q \in qs : RowsOf(u, q) # {}}

Ranked(b) == {u \in User \ admins : Tried(u, Shown(b)) # {}}

Total(u, b) ==
  SumFunction([q \in Tried(u, Shown(b)) |-> Greatest(rows[BestRow(u, q)].score)])

(* A query of its own for the scores per question.                          *)
Detail(u, b) ==
  SumFunction([q \in Tried(u, Shown(b)) |->
                 Greatest(Max({rows[i].score : i \in RowsOf(u, q)}))])

(* Mutant: the count forgets that admins are not ranked.                    *)
CountUsersAll(b) == Cardinality({u \in User : Tried(u, OfBoard(b) \cap active) # {}})

(* The exam leaderboard counts the users of inactive questions as well.     *)
CountUsers(b) ==
  Cardinality({u \in User \ admins :
                 Tried(u, IF b = "exam" THEN OfBoard(b) ELSE Shown(b)) # {}})

(* The other views of scores.  GetScoreByUQRID, GetScoreByQuestionID,        *)
(* GetScoreByRepo (a copy's name is its user's and its question's) and      *)
(* GetAllScore list rows of active questions; by a relation's ID only its   *)
(* user sees them.                                                          *)
HistoryOfRelation(u, d) ==
  {i \in DOMAIN rows : /\ rows[i].rel = d
                       /\ relations[d].user = u /\ relations[d].question \in active}

HistoryOfQuestion(u, q) == {i \in RowsOf(u, q) : q \in active}

AllHistory(u) ==
  {i \in DOMAIN rows : /\ relations[rows[i].rel].user = u
                       /\ relations[rows[i].rel].question \in active}

(* Mutant: the rows of one relation, for there should be but one.           *)
TopRowsOfFirst(u, q) ==
  LET own == {i \in RowsOf(u, q) : \A k \in RowsOf(u, q) : rows[i].rel <= rows[k].rel}
  IN  {i \in own : \A k \in own : Greatest(rows[k].score) <= Greatest(rows[i].score)}

(* GetTopScore orders by the score it shows, with codes as zero, and by the *)
(* time of the verdict, which is left out; GetTopExamScore by the column.   *)
TopRows(u, q) ==
  {i \in RowsOf(u, q) :
     \A k \in RowsOf(u, q) : Greatest(rows[k].score) <= Greatest(rows[i].score)}

TopExamRows(u, q) ==
  {i \in RowsOf(u, q) : \A k \in RowsOf(u, q) : rows[k].score <= rows[i].score}

TopScore(u, q)     == Greatest(rows[CHOOSE i \in TopRows(u, q) : TRUE].score)
TopExamScore(u, q) == rows[CHOOSE i \in TopExamRows(u, q) : TRUE].score

(* GetQuestionList and GetExamQuestions: no score, zero for a code, or the  *)
(* best of all relations.                                                   *)
ListedScore(u, q) ==
  LET scores == {rows[i].score : i \in RowsOf(u, q)}
  IN  IF scores = {} THEN {} ELSE {IF Max(scores) < 0 THEN 0 ELSE Max(scores)}

(* ExportQuestionScore: per user and repository the best score, and the     *)
(* earliest creation of a row that is the best of its own relation.         *)
BestOf(ids) == Max({rows[i].score : i \in ids})

ExportedScore(u, q) == IF RowsOf(u, q) = {} THEN 0 ELSE BestOf(RowsOf(u, q))

EarliestBest(u, q) ==
  Min({rows[i].batch : i \in
         {k \in RowsOf(u, q) :
            rows[k].score = BestOf({j \in RowsOf(u, q) : rows[j].rel = rows[k].rel})}})

ReaderStep(from, to) ==
  /\ reader.pc = from /\ reader' = to
  /\ UNCHANGED <<relationVars, rows, admins, active, inExam, pc, found, asked>>

ReadCount ==
  \E b \in Board :
    ReaderStep("idle", [NoAnswer EXCEPT !.pc = "counted", !.board = b,
                                        !.count = CountUsers(b)])

(* Without a user to rank the answer is an error.                           *)
ReadTotals ==
  LET b == reader.board
  IN  ReaderStep("counted",
        IF Ranked(b) = {} THEN NoAnswer
        ELSE [reader EXCEPT !.pc = "ranked",
                            !.totals = [u \in Ranked(b) |-> Total(u, b)]])

(* Of the ranked users only, be they shown by then or not.                  *)
ReadDetails ==
  LET b == reader.board
  IN  ReaderStep("ranked",
        [reader EXCEPT !.pc = "answered",
                       !.details = [u \in DOMAIN reader.totals |-> Detail(u, b)]])

Answer == ReaderStep("answered", NoAnswer)

-----------------------------------------------------------------------------
Handle(r) ==
  \/ CreateRepositoryLooks(r) \/ CreateRepositoryInserts(r) \/ CreateRepositoryCommits(r)
  \/ PostGiteaHook(r) \/ ReScoreUserQuestion(r) \/ ReScoreQuestion(r)
  \/ CreateRows(r)

Dispatch(i) == TokenFound(i) \/ TokenFails(i)

Judge(i) == JobLost(i) \/ JudgeStart(i) \/ JudgeFails(i) \/ JudgeFinish(i)

Moves ==
  \/ \E q \in Question : PatchQuestion(q) \/ AddQuestionToExam(q) \/ RemoveQuestionFromExam(q)
  \/ \E u \in User : ChangeRole(u)

Leaderboard == ReadCount \/ ReadTotals \/ ReadDetails \/ Answer

Next ==
  \/ \E r \in Request : Handle(r)
  \/ \E i \in 1 .. MaxRows : Dispatch(i) \/ Judge(i)
  \/ Moves \/ Leaderboard \/ Restart

Spec == Init /\ [][Next]_vars

(* The dispatching goroutines run.                                          *)
FairSpec == Spec /\ \A i \in 1 .. MaxRows : WF_vars(Dispatch(i))

-----------------------------------------------------------------------------
(* The best score of a user at a question never falls: a push or a rescore  *)
(* adds a row, an earlier row keeps its verdict, and a judge that fails     *)
(* costs nothing.                                                           *)
Best(u, q) == Max({0} \cup {rows[i].score : i \in RowsOf(u, q)})

BestNeverFalls ==
  [][\A u \in User, q \in Question : Best(u, q)' >= Best(u, q)]_vars

(* A leaderboard answers with queries taken at different times.  As long as *)
(* no question was hidden or shown and no role changed in between, it lists *)
(* at least as many users as it counts, and the scores it lists per         *)
(* question add up to at least the total they are listed with.  For an exam *)
(* this takes that none of its questions is hidden: users who only tried    *)
(* such are counted too.                                                    *)
BoardAgrees ==
  reader.pc = "answered" /\ ~reader.moved =>
    /\ reader.board = "general" \/ inExam \subseteq active =>
         reader.count <= Cardinality(DOMAIN reader.totals)
    /\ \A u \in DOMAIN reader.totals : reader.details[u] >= reader.totals[u]

(* However a user looks at a question, he finds the same best score: in the *)
(* list of questions, among his top scores, in each of his histories, as    *)
(* what the leaderboard adds up and in an export, with one relation or      *)
(* several, while rows are judged, rescored or lost.  In an exam and an     *)
(* export it is a code as long as there is no verdict.  The exported time   *)
(* is that of a row with the exported score, at least for a user who has    *)
(* one relation.                                                            *)
ViewsAgree ==
  \A u \in {relations[d].user : d \in DOMAIN relations} :
    /\ AllHistory(u) = UNION {HistoryOfQuestion(u, q) : q \in Question}
    /\ \A b \in Board :
         Total(u, b) = SumFunction([q \in Tried(u, Shown(b)) |-> TopScore(u, q)])
    /\ \A q \in Question :
         /\ ListedScore(u, q) = IF RowsOf(u, q) = {} THEN {} ELSE {TopScore(u, q)}
         /\ Greatest(ExportedScore(u, q)) = Best(u, q)
         /\ RowsOf(u, q) # {} =>
              /\ Greatest(TopExamScore(u, q)) = TopScore(u, q)
              /\ Cardinality(RelationsOf(u, q)) = 1 =>
                   \E i \in RowsOf(u, q) : /\ rows[i].score = ExportedScore(u, q)
                                           /\ rows[i].batch = EarliestBest(u, q)
         /\ HistoryOfQuestion(u, q) =
              UNION {HistoryOfRelation(u, d) : d \in RelationsOf(u, q)}
         /\ HistoryOfQuestion(u, q) # {} => \E i \in HistoryOfQuestion(u, q) :
              Greatest(rows[i].score) = Best(u, q) /\ Best(u, q) \in ListedScore(u, q)

(* Two concurrent PostCreateQuestionRepositoryGitea of a user may both      *)
(* create the relation.  Still every push and every rescore by its user     *)
(* goes to the first of them, so that they share one history, unless the    *)
(* two became visible against the order of their IDs: what was pushed in    *)
(* between has a history of its own then.                                   *)
OneHistory ==
  \A i \in DOMAIN rows :
    LET d == rows[i].rel
    IN  rows[i].by = "one" /\ relations[d] \notin overtaken =>
          d = First(RelationsOf(relations[d].user, relations[d].question))

(* A row does not wait for its token for ever: that the token of one row    *)
(* cannot be read does not stop the rows after it.                          *)
Fetching(i) == i \in DOMAIN rows /\ rows[i].stage = "token"

TokensRead == \A i \in 1 .. MaxRows : Fetching(i) ~> ~Fetching(i)

=============================================================================
