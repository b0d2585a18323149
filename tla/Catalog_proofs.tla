--------------------------- MODULE Catalog_proofs ---------------------------
(***************************************************************************)
(* Proofs about Catalog, for every set of repositories and times, every    *)
(* number of requests and every bound on the tables and the clock.         *)
(***************************************************************************)
EXTENDS Catalog, DataLemmas

-----------------------------------------------------------------------------
(* The inductive invariant: the tables refer to what is there, and each     *)
(* request has read what its step needs.                                    *)
Op      == {"none", "add", "script", "cmd", "patch", "patched", "exam", "times", "point",
            "fork", "hooked", "relate"}
Entered == [start : Times, end : Times]
Added   == [repo : Repo, start : Times, end : Times]
Changed == [{"start"} -> Times] \cup [{"end"} -> Times] \cup [{"active"} -> BOOLEAN]
             \cup [{"repo"} -> Repo]

Job == [op : Op, id : Nat, copy : {<<>>} \cup QuestionRow \cup ExamRow,
        edit : {<<>>} \cup Entered \cup Added \cup Changed \cup [exam : Nat]
                  \cup [name : RepoName]]

Making   == {"script", "cmd"}       \* about to make a script
Patching == {"patch", "patched"}
Forking  == {"fork", "hooked", "relate"}   \* of CreateRepository
Hooking  == {"hooked", "relate"}           \* its repository has a hook

JobInv(q) ==
  /\ q.op = "add" => q.edit \in Added
  /\ q.op \in Making \cup Patching \cup Forking => q.id \in DOMAIN questions
  /\ q.op \in Forking => q.edit \in [name : RepoName]
  /\ q.op \in Hooking => hooks[q.edit.name] # NoHook
  /\ q.op = "patch" => q.copy \in QuestionRow /\ q.copy.there /\ q.edit \in Changed
  /\ q.op \in {"exam", "times"} => q.id \in DOMAIN exams /\ q.edit \in Entered
  /\ q.op = "exam" => q.copy \in ExamRow /\ q.copy.there

Jobs == req \in [Request -> Job] /\ \A r \in Request : JobInv(req[r])

Tables ==
  /\ questions \in Seq(QuestionRow) /\ Len(questions) <= MaxQuestions
  /\ exams \in Seq(ExamRow) /\ Len(exams) <= MaxExams
  /\ inExam \subseteq Exams \X Questions
  /\ relations \in Seq([question : Nat, name : RepoName])
  /\ \A d \in DOMAIN relations : relations[d].question \in Questions

Clocks ==
  /\ now \in 1 .. MaxTime /\ since \in 0 .. Period
  /\ hooks \in [RepoName -> Age] /\ begun \in 0 .. MaxRequests

Control == Tables /\ Clocks /\ Jobs /\ open \in [1 .. MaxQuestions -> Nat]

-----------------------------------------------------------------------------
(* The operators of the model.                                              *)

(* The times that are entered and those of the clock are times.             *)
LEMMA TimesFacts ==
  /\ Times \subseteq Nat /\ NoTime \in Times /\ 0 .. MaxTime \subseteq Times
  /\ \A w \in Window : w[1] \in Times /\ w[2] \in Times
  /\ now \in 1 .. MaxTime => \A t \in Times : OrNow(t) \in Times
<1>1. \A w \in Window : w[1] \in Nat /\ w[2] \in Nat /\ w[1] \in Times /\ w[2] \in Times
  BY CatalogAssumption DEF Times
<1>2. 0 .. MaxTime \subseteq Times /\ MaxTime \in Nat
  BY CatalogAssumption DEF Times
<1>3. Times \subseteq Nat
  BY <1>1, <1>2 DEF Times
<1>. QED BY <1>1, <1>2, <1>3 DEF NoTime, OrNow

(* The fields that PatchQuestion and UpdateExam set.                        *)
IsEdit(e) ==
  /\ DOMAIN e \subseteq {"start", "end", "active", "repo"}
  /\ \A f \in DOMAIN e : /\ f \in {"start", "end"} => e[f] \in Times
                         /\ f = "active" => e[f] \in BOOLEAN
                         /\ f = "repo" => e[f] \in Repo

(* A question in which they are set is one.                                 *)
LEMMA OverQuestion ==
  ASSUME NEW u \in QuestionRow, NEW e, IsEdit(e)
  PROVE  /\ Over(e, u) \in QuestionRow
         /\ Over(e, u).there = u.there /\ Over(e, u).scripts = u.scripts
         /\ "repo" \notin DOMAIN e => Over(e, u).repo = u.repo
<1>. DEFINE v == Over(e, u)
<1>1. DOMAIN u = {"there", "repo", "start", "end", "active", "scripts"}
  BY DEF QuestionRow
<1>2. \A f \in DOMAIN u : v[f] = IF f \in DOMAIN e THEN e[f] ELSE u[f]
  BY DEF Over
<1>3. "there" \notin DOMAIN e /\ "scripts" \notin DOMAIN e
  BY DEF IsEdit
<1>4. /\ u["there"] \in BOOLEAN /\ u["scripts"] \in Nat /\ u["repo"] \in Repo
      /\ u["start"] \in Times /\ u["end"] \in Times /\ u["active"] \in BOOLEAN
  BY DEF QuestionRow
<1>5. /\ v["there"] = u["there"] /\ v["scripts"] = u["scripts"]
      /\ "repo" \notin DOMAIN e => v["repo"] = u["repo"]
      /\ v["there"] \in BOOLEAN /\ v["scripts"] \in Nat /\ v["repo"] \in Repo
      /\ v["start"] \in Times /\ v["end"] \in Times /\ v["active"] \in BOOLEAN
  BY <1>1, <1>2, <1>3, <1>4 DEF IsEdit
<1>6. v = [f \in {"there", "repo", "start", "end", "active", "scripts"} |-> v[f]]
  BY <1>1 DEF Over, IsEdit
<1>. HIDE DEF v
<1>7. v \in QuestionRow
  BY <1>5, <1>6 DEF QuestionRow
<1>. QED BY <1>5, <1>7 DEF v

(* So is an exam with other times.                                          *)
LEMMA OverExam ==
  ASSUME NEW u \in ExamRow, NEW e, IsEdit(e), DOMAIN e \subseteq {"start", "end"}
  PROVE  Over(e, u) \in ExamRow /\ Over(e, u).there = u.there
<1>. DEFINE v == Over(e, u)
<1>1. DOMAIN u = {"there", "start", "end"}
  BY DEF ExamRow
<1>2. \A f \in DOMAIN u : v[f] = IF f \in DOMAIN e THEN e[f] ELSE u[f]
  BY DEF Over
<1>3. u["there"] \in BOOLEAN /\ u["start"] \in Times /\ u["end"] \in Times
  BY DEF ExamRow
<1>4. /\ v["there"] = u["there"] /\ v["there"] \in BOOLEAN
      /\ v["start"] \in Times /\ v["end"] \in Times
  BY <1>1, <1>2, <1>3 DEF IsEdit
<1>5. v = [f \in {"there", "start", "end"} |-> v[f]]
  BY <1>1 DEF Over
<1>. HIDE DEF v
<1>6. v \in ExamRow
  BY <1>4, <1>5 DEF ExamRow
<1>. QED BY <1>4, <1>6 DEF v

(* What the requests of PatchQuestion and UpdateExam carry are such fields. *)
LEMMA EditsFit ==
  /\ \A e \in Changed : IsEdit(e)
  /\ \A e \in Entered : IsEdit(e) /\ DOMAIN e = {"start", "end"}
<1>1. ASSUME NEW e \in Entered PROVE IsEdit(e) /\ DOMAIN e = {"start", "end"}
  BY DEF Entered, IsEdit
<1>2. ASSUME NEW e \in Changed PROVE IsEdit(e)
  <2>1. CASE e \in [{"start"} -> Times]
    BY <2>1 DEF IsEdit
  <2>2. CASE e \in [{"end"} -> Times]
    BY <2>2 DEF IsEdit
  <2>3. CASE e \in [{"active"} -> BOOLEAN]
    BY <2>3 DEF IsEdit
  <2>4. CASE e \in [{"repo"} -> Repo]
    BY <2>4 DEF IsEdit
  <2>. QED BY <2>1, <2>2, <2>3, <2>4 DEF Changed
<1>. QED BY <1>1, <1>2

(* How long a question has been open.                                       *)
Opened(q, units) ==
  /\ q \in DOMAIN questions /\ q \in DOMAIN questions' /\ Active(q) /\ Active(q)'
  /\ open'[q] <= open[q] + units /\ open'[q] <= Period + 1

(* A question that is open was so before the step.                          *)
LEMMA OpenFacts ==
  ASSUME open \in [1 .. MaxQuestions -> Nat], NEW units \in {0, 1}, OpenFor(units)
  PROVE  /\ open' \in [1 .. MaxQuestions -> Nat]
         /\ \A q \in 1 .. MaxQuestions : open'[q] > 0 => Opened(q, units)
<1>1. ASSUME NEW q \in 1 .. MaxQuestions
      PROVE  open'[q] \in Nat /\ (open'[q] > 0 => Opened(q, units))
  <2>. DEFINE two == {open[q] + units, Period + 1}
  <2>1. open[q] + units \in Nat /\ Period + 1 \in Nat
    BY CatalogAssumption
  <2>2. /\ Min(two) \in Nat /\ Min(two) <= open[q] + units /\ Min(two) <= Period + 1
    BY <2>1, MinFacts
  <2>. HIDE DEF two
  <2>3. CASE q \in DOMAIN questions /\ q \in DOMAIN questions' /\ Active(q) /\ Active(q)'
    <3>1. open'[q] = Min(two)
      BY <2>3 DEF OpenFor, two
    <3>. QED BY <2>2, <2>3, <3>1 DEF Opened
  <2>4. CASE ~(q \in DOMAIN questions /\ q \in DOMAIN questions' /\ Active(q) /\ Active(q)')
    <3>1. open'[q] = 0
      BY <2>4 DEF OpenFor
    <3>. QED BY <3>1
  <2>. QED BY <2>3, <2>4
<1>2. open' = [q \in 1 .. MaxQuestions |-> open'[q]]
  BY DEF OpenFor
<1>. QED BY <1>1, <1>2

(* A question that has been open for longer than some time and the units of *)
(* a step was open for longer than that time before the step.               *)
LEMMA OpenBefore ==
  ASSUME open \in [1 .. MaxQuestions -> Nat], NEW units \in {0, 1}, OpenFor(units),
         NEW q \in 1 .. MaxQuestions, NEW u \in Nat, open'[q] > u + units
  PROVE  open[q] > u
<1>. /\ open' \in [1 .. MaxQuestions -> Nat]
     /\ \A p \in 1 .. MaxQuestions : open'[p] > 0 => Opened(p, units)
  BY OpenFacts
<1>1. open'[q] \in Nat /\ open[q] \in Nat /\ units \in Nat
  OBVIOUS
<1>2. open'[q] > 0
  BY <1>1
<1>3. open'[q] <= open[q] + units
  BY <1>2 DEF Opened
<1>. QED BY <1>1, <1>3

-----------------------------------------------------------------------------
(* Requests.                                                                *)

(* A request that is over has nothing left.                                 *)
LEMMA IdleFacts == Idle \in Job /\ Idle.op = "none"
BY DEF Idle, Job, Op

Quiet == {"none", "exam", "times", "point"}   \* steps that have nothing to do with a script

(* What a request has read when it starts.                                  *)
LEMMA StartsFacts ==
  ASSUME Control, NEW r \in Request, NEW op, NEW id, NEW copy, NEW edit,
         Starts(r, op, id, copy, edit),
         [op |-> op, id |-> id, copy |-> copy, edit |-> edit] \in Job
  PROVE  /\ req[r] = Idle /\ req' \in [Request -> Job]
         /\ req'[r] = [op |-> op, id |-> id, copy |-> copy, edit |-> edit]
         /\ \A s \in Request \ {r} : req'[s] = req[s]
         /\ begun' \in 0 .. MaxRequests /\ UNCHANGED <<now, since>>
BY CatalogAssumption DEF Control, Clocks, Jobs, Starts, Begins

(* What a request keeps when it goes on.                                    *)
Became(q, p, to) ==
  /\ to = "over" => p = Idle
  /\ to # "over" => p.op = to /\ p.id = q.id /\ p.copy = q.copy /\ p.edit = q.edit

(* Goes does no more.                                                       *)
LEMMA GoesFacts ==
  ASSUME Control, NEW r \in Request, NEW from, NEW to \in Op \cup {"over"}, Goes(r, from, to)
  PROVE  /\ req[r].op = from /\ req' \in [Request -> Job]
         /\ Became(req[r], req'[r], to)
         /\ \A s \in Request \ {r} : req'[s] = req[s]
         /\ UNCHANGED <<now, since, begun>>
<1>1. req \in [Request -> Job] /\ req[r] \in Job
  BY DEF Control, Jobs
<1>2. CASE to = "over"
  <2>1. req' = [req EXCEPT ![r] = Idle]
    BY <1>2 DEF Goes
  <2>. QED BY <1>1, <1>2, <2>1, IdleFacts DEF Goes, Became
<1>3. CASE to # "over"
  <2>1. req' = [req EXCEPT ![r] = [req[r] EXCEPT !.op = to]]
    BY <1>3 DEF Goes
  <2>2. [req[r] EXCEPT !.op = to] \in Job
    BY <1>1, <1>3 DEF Job
  <2>3. Became(req[r], [req[r] EXCEPT !.op = to], to)
    BY <1>1, <1>3 DEF Became, Job
  <2>. QED BY <1>1, <2>1, <2>2, <2>3 DEF Goes
<1>. QED BY <1>2, <1>3

(* No hook goes away.                                                       *)
HooksStay == \A n \in RepoName : hooks[n] # NoHook => hooks'[n] # NoHook

(* What the others have read stays so.                                      *)
LEMMA JobsStay ==
  ASSUME Control, DOMAIN questions \subseteq DOMAIN questions',
         DOMAIN exams \subseteq DOMAIN exams', HooksStay, req' \in [Request -> Job],
         \A s \in Request : req'[s] = req[s] \/ JobInv(req[s])'
  PROVE  Jobs'
<1>1. ASSUME NEW s \in Request, req'[s] = req[s] PROVE JobInv(req[s])'
  <2>1. JobInv(req[s])
    BY DEF Control, Jobs
  <2>2. CASE req[s].op \in Hooking
    <3>1. PICK n \in RepoName : n = req[s].edit.name
      BY <2>1, <2>2 DEF JobInv, Hooking, Forking
    <3>2. hooks'[n] # NoHook
      BY <2>1, <2>2, <3>1 DEF JobInv, HooksStay
    <3>. QED BY <1>1, <2>1, <3>1, <3>2 DEF JobInv
  <2>3. CASE req[s].op \notin Hooking
    BY <1>1, <2>1, <2>3 DEF JobInv
  <2>. QED BY <2>2, <2>3
<1>. QED BY <1>1 DEF Jobs

(* A question that comes, changes or goes leaves the tables in order when   *)
(* those that relations and exams have stay.                                *)
LEMMA QuestionsChange ==
  ASSUME Tables, questions' \in Seq(QuestionRow), Len(questions') <= MaxQuestions,
         \A q \in Questions : q \in DOMAIN questions' /\ questions'[q].there,
         UNCHANGED <<exams, inExam, relations>>
  PROVE  Tables'
<1>1. Questions \subseteq Questions'
  BY DEF Questions
<1>. QED BY <1>1 DEF Tables, Exams

(* The same of exams.                                                       *)
LEMMA ExamsChange ==
  ASSUME Tables, exams' \in Seq(ExamRow), Len(exams') <= MaxExams,
         \A e \in Exams : e \in DOMAIN exams' /\ exams'[e].there,
         UNCHANGED <<questions, inExam, relations>>
  PROVE  Tables'
<1>1. Exams \subseteq Exams' /\ Questions' = Questions
  BY DEF Exams, Questions
<1>. QED BY <1>1 DEF Tables


-----------------------------------------------------------------------------
(* Every step keeps the tables and the requests in order.                   *)
Typed == Tables /\ Clocks /\ Jobs

(* A request starts; nothing else changes.                                  *)
LEMMA StartStep ==
  ASSUME Control, NEW r \in Request, NEW op, NEW id, NEW copy, NEW edit,
         NEW p, p = [op |-> op, id |-> id, copy |-> copy, edit |-> edit],
         Starts(r, op, id, copy, edit), p \in Job, JobInv(p),
         UNCHANGED <<questions, exams, inExam, relations, hooks>>
  PROVE  Typed'
<1>1. /\ req' \in [Request -> Job] /\ req'[r] = p
      /\ \A s \in Request \ {r} : req'[s] = req[s]
      /\ begun' \in 0 .. MaxRequests /\ UNCHANGED <<now, since>>
  BY StartsFacts
<1>2. Tables' /\ Clocks'
  BY <1>1 DEF Control, Tables, Clocks, Questions, Exams
<1>3. JobInv(p)'
  BY DEF JobInv
<1>4. JobInv(req[r])'
  BY <1>1, <1>3 DEF JobInv
<1>5. Jobs'
  BY <1>1, <1>4, JobsStay DEF HooksStay
<1>. QED BY <1>2, <1>5 DEF Typed

(* A request goes on, and the tables stay in order.                         *)
LEMMA GoesStep ==
  ASSUME Control, NEW r \in Request, NEW from, NEW to \in Op \cup {"over"}, Goes(r, from, to),
         Tables', hooks' = hooks,
         DOMAIN questions \subseteq DOMAIN questions', DOMAIN exams \subseteq DOMAIN exams',
         to \in Making \cup Patching => req[r].op \in Making \cup Patching,
         to \in Forking => to \in Hooking /\ req[r].op \in Hooking,
         to # "patch" /\ to # "exam" /\ to # "add",
         to = "times" => req[r].op = "exam"
  PROVE  Typed'
<1>1. /\ req[r].op = from /\ req' \in [Request -> Job] /\ Became(req[r], req'[r], to)
      /\ \A s \in Request \ {r} : req'[s] = req[s]
      /\ UNCHANGED <<now, since, begun>>
  BY GoesFacts
<1>2. JobInv(req[r])
  BY DEF Control, Jobs
<1>3. JobInv(req[r])'
  <2>1. CASE to = "over"
    BY <1>1, <2>1, IdleFacts DEF Became, JobInv, Making, Patching, Forking, Hooking
  <2>2. CASE to # "over"
    BY <1>1, <1>2, <2>2 DEF Became, JobInv, Making, Patching, Forking, Hooking
  <2>. QED BY <2>1, <2>2
<1>4. Jobs'
  BY <1>1, <1>3, JobsStay DEF HooksStay
<1>5. Clocks'
  BY <1>1 DEF Control, Clocks
<1>. QED BY <1>4, <1>5 DEF Typed

(* No request moves; tables and clocks stay in order.                       *)
LEMMA OtherStep ==
  ASSUME Control, Tables', Clocks', req' = req, HooksStay,
         DOMAIN questions \subseteq DOMAIN questions', DOMAIN exams \subseteq DOMAIN exams'
  PROVE  Typed'
<1>1. Jobs'
  BY JobsStay DEF Control, Jobs
<1>. QED BY <1>1 DEF Typed

(* The questions keep what relations and exams need when one of them        *)
(* changes and stays there.                                                 *)
LEMMA QuestionChanges ==
  ASSUME Tables, NEW q \in DOMAIN questions, NEW new \in QuestionRow,
         questions[q].there => new.there, questions' = [questions EXCEPT ![q] = new],
         UNCHANGED <<exams, inExam, relations>>
  PROVE  Tables' /\ DOMAIN questions' = DOMAIN questions
<1>1. /\ questions' \in Seq(QuestionRow) /\ Len(questions') <= MaxQuestions
      /\ DOMAIN questions' = DOMAIN questions
  BY DEF Tables
<1>2. \A k \in Questions : k \in DOMAIN questions' /\ questions'[k].there
  BY <1>1 DEF Questions
<1>. QED BY <1>1, <1>2, QuestionsChange

(* Starts of handlers.                                                      *)
LEMMA StartsTyped ==
  ASSUME Control, NEW r \in Request,
         \/ AddQuestionLooks(r) \/ PostSandboxCmdLooks(r) \/ PatchQuestionReads(r)
         \/ UpdateExamReads(r) \/ UpdateQuestionInExamReads(r) \/ RepositoryLooks(r)
  PROVE  Typed'
<1>1. Tables /\ questions \in Seq(QuestionRow) /\ exams \in Seq(ExamRow)
  BY DEF Control, Tables
<1>2. CASE AddQuestionLooks(r)
  <2>1. PICK repo \in Repo, w \in Window :
          Starts(r, "add", 0, <<>>, [repo |-> repo, start |-> w[1], end |-> w[2]])
    BY <1>2 DEF AddQuestionLooks
  <2>2. [repo |-> repo, start |-> w[1], end |-> w[2]] \in Added
    BY TimesFacts DEF Added
  <2>. DEFINE p == [op |-> "add", id |-> 0, copy |-> <<>>,
                    edit |-> [repo |-> repo, start |-> w[1], end |-> w[2]]]
  <2>3. p \in Job /\ JobInv(p)
    BY <2>2 DEF Job, JobInv, Op, Making, Patching, Forking, Hooking
  <2>4. UNCHANGED <<questions, exams, inExam, relations, hooks>>
    BY <1>2 DEF AddQuestionLooks, tables
  <2>. QED BY <2>1, <2>3, <2>4, StartStep
<1>3. CASE PostSandboxCmdLooks(r)
  <2>1. PICK q \in Questions : Starts(r, "cmd", q, <<>>, <<>>)
    BY <1>3 DEF PostSandboxCmdLooks
  <2>. DEFINE p == [op |-> "cmd", id |-> q, copy |-> <<>>, edit |-> <<>>]
  <2>2. p \in Job /\ JobInv(p)
    BY <1>1 DEF Job, JobInv, Op, Making, Patching, Forking, Hooking, Questions
  <2>3. UNCHANGED <<questions, exams, inExam, relations, hooks>>
    BY <1>3 DEF PostSandboxCmdLooks, tables
  <2>. QED BY <2>1, <2>2, <2>3, StartStep
<1>4. CASE PatchQuestionReads(r)
  <2>1. PICK q \in Scripted :
          \E edit \in {[start |-> w[1]] : w \in Window} \cup {[end |-> w[1]] : w \in Window}
                       \cup {[active |-> ~questions[q].active]}
                       \cup {[repo |-> repo] : repo \in Repo \ {questions[q].repo}} :
            Starts(r, "patch", q, questions[q], edit)
    BY <1>4 DEF PatchQuestionReads
  <2>2. q \in DOMAIN questions /\ questions[q] \in QuestionRow /\ questions[q].there
    BY <1>1 DEF Scripted, Questions
  <2>3. PICK edit \in Changed : Starts(r, "patch", q, questions[q], edit)
    <3>1. {[start |-> w[1]] : w \in Window} \subseteq [{"start"} -> Times]
      BY TimesFacts
    <3>2. {[end |-> w[1]] : w \in Window} \subseteq [{"end"} -> Times]
      BY TimesFacts
    <3>3. [active |-> ~questions[q].active] \in [{"active"} -> BOOLEAN]
      <4>1. questions[q].active \in BOOLEAN
        BY <2>2 DEF QuestionRow
      <4>2. PICK b \in BOOLEAN : b = ~questions[q].active
        BY <4>1
      <4>3. [active |-> b] \in [{"active"} -> BOOLEAN]
        OBVIOUS
      <4>. QED BY <4>2, <4>3, Zenon
    <3>4. {[repo |-> repo] : repo \in Repo \ {questions[q].repo}} \subseteq [{"repo"} -> Repo]
      OBVIOUS
    <3>. QED BY <2>1, <3>1, <3>2, <3>3, <3>4 DEF Changed
  <2>. DEFINE p == [op |-> "patch", id |-> q, copy |-> questions[q], edit |-> edit]
  <2>4. p \in Job /\ JobInv(p)
    BY <1>1, <2>2 DEF Job, JobInv, Op, Making, Patching, Forking, Hooking
  <2>5. UNCHANGED <<questions, exams, inExam, relations, hooks>>
    BY <1>4 DEF PatchQuestionReads, tables
  <2>. QED BY <2>3, <2>4, <2>5, StartStep
<1>5. CASE UpdateExamReads(r)
  <2>1. PICK e \in Exams, w \in Window :
          Starts(r, "exam", e, exams[e], [start |-> w[1], end |-> w[2]])
    BY <1>5 DEF UpdateExamReads
  <2>2. e \in DOMAIN exams /\ exams[e] \in ExamRow /\ exams[e].there
    BY <1>1 DEF Exams
  <2>3. [start |-> w[1], end |-> w[2]] \in Entered
    BY TimesFacts DEF Entered
  <2>. DEFINE p == [op |-> "exam", id |-> e, copy |-> exams[e],
                    edit |-> [start |-> w[1], end |-> w[2]]]
  <2>4. p \in Job /\ JobInv(p)
    BY <1>1, <2>2, <2>3 DEF Job, JobInv, Op, Making, Patching, Forking, Hooking
  <2>5. UNCHANGED <<questions, exams, inExam, relations, hooks>>
    BY <1>5 DEF UpdateExamReads, tables
  <2>. QED BY <2>1, <2>4, <2>5, StartStep
<1>6. CASE UpdateQuestionInExamReads(r)
  <2>1. PICK x \in inExam : Starts(r, "point", x[2], <<>>, [exam |-> x[1]])
    BY <1>6 DEF UpdateQuestionInExamReads
  <2>2. x[1] \in Nat /\ x[2] \in Nat
    BY <1>1 DEF Tables, Questions, Exams
  <2>. DEFINE p == [op |-> "point", id |-> x[2], copy |-> <<>>, edit |-> [exam |-> x[1]]]
  <2>3. p \in Job /\ JobInv(p)
    BY <2>2 DEF Job, JobInv, Op, Making, Patching, Forking, Hooking
  <2>4. UNCHANGED <<questions, exams, inExam, relations, hooks>>
    BY <1>6 DEF UpdateQuestionInExamReads, tables
  <2>. QED BY <2>1, <2>3, <2>4, StartStep
<1>7. CASE RepositoryLooks(r)
  <2>1. PICK q \in Questions :
          Starts(r, "fork", q, <<>>, [name |-> questions[q].repo[2]])
    BY <1>7 DEF RepositoryLooks
  <2>2. PICK n \in RepoName : n = questions[q].repo[2]
    <3>1. questions[q] \in QuestionRow
      BY <1>1 DEF Questions
    <3>2. questions[q].repo \in Repo
      BY <3>1 DEF QuestionRow
    <3>. QED BY <3>2 DEF RepoName
  <2>. DEFINE p == [op |-> "fork", id |-> q, copy |-> <<>>, edit |-> [name |-> n]]
  <2>3. p \in Job /\ JobInv(p)
    BY <1>1 DEF Job, JobInv, Op, Making, Patching, Forking, Hooking, Questions
  <2>4. UNCHANGED <<questions, exams, inExam, relations, hooks>>
    BY <1>7 DEF RepositoryLooks, tables
  <2>. QED BY <2>1, <2>2, <2>3, <2>4, StartStep
<1>. QED BY <1>2, <1>3, <1>4, <1>5, <1>6, <1>7

(* A script is made.                                                        *)
LEMMA ScriptFacts ==
  ASSUME Tables, NEW q \in DOMAIN questions, CreateScript(q)
  PROVE  /\ Tables' /\ DOMAIN questions' = DOMAIN questions /\ UNCHANGED <<exams, relations, hooks>>
         /\ \A k \in DOMAIN questions \ {q} : questions'[k] = questions[k]
         /\ \A k \in DOMAIN questions : /\ questions'[k].there = questions[k].there
                                        /\ questions'[k].repo = questions[k].repo
         /\ questions'[q].scripts = questions[q].scripts + IF questions[q].there THEN 1 ELSE 0
<1>1. questions \in Seq(QuestionRow) /\ questions[q] \in QuestionRow
  BY DEF Tables
<1>2. UNCHANGED <<exams, inExam, relations, hooks>>
  BY DEF CreateScript
<1>3. CASE questions[q].there
  <2>. DEFINE new == [questions[q] EXCEPT !.scripts = @ + 1]
  <2>1. questions' = [questions EXCEPT ![q] = new]
    BY <1>3 DEF CreateScript
  <2>2. /\ new \in QuestionRow /\ new.there = questions[q].there
        /\ new.repo = questions[q].repo /\ new.scripts = questions[q].scripts + 1
    <3>1. PICK u \in QuestionRow, n \in Nat : u = questions[q] /\ n = u.scripts + 1
      BY <1>1 DEF QuestionRow
    <3>2. new = [u EXCEPT !.scripts = n]
      BY <3>1
    <3>. HIDE DEF new
    <3>. QED BY <3>1, <3>2 DEF QuestionRow
  <2>. HIDE DEF new
  <2>3. Tables' /\ DOMAIN questions' = DOMAIN questions
    BY <1>2, <2>1, <2>2, QuestionChanges
  <2>4. questions'[q] = new /\ \A k \in DOMAIN questions \ {q} : questions'[k] = questions[k]
    BY <1>1, <2>1
  <2>. QED BY <1>2, <1>3, <2>2, <2>3, <2>4
<1>4. CASE ~questions[q].there
  <2>1. questions' = questions
    BY <1>4 DEF CreateScript
  <2>2. Tables'
    BY <1>2, <2>1 DEF Tables, Questions, Exams
  <2>3. questions[q].scripts \in Nat
    BY <1>1 DEF QuestionRow
  <2>. QED BY <1>2, <1>4, <2>1, <2>2, <2>3
<1>. QED BY <1>3, <1>4


(* Steps of handlers that go on.                                            *)
LEMMA GoesTyped ==
  ASSUME Control, NEW r \in Request,
         \/ AddQuestionCreates(r) \/ AddQuestionScript(r) \/ PostSandboxCmdCreates(r)
         \/ PatchQuestionSaves(r) \/ PatchQuestionSavesScript(r) \/ UpdateExamSaves(r)
         \/ UpdateExamQuestions(r) \/ UpdateQuestionInExamSaves(r) \/ Fails(r)
         \/ RepositoryHooks(r) \/ RepositoryFinds(r) \/ RepositoryRelates(r)
  PROVE  Typed'
<1>. DEFINE q == req[r].id
<1>1. /\ Tables /\ JobInv(req[r]) /\ questions \in Seq(QuestionRow) /\ exams \in Seq(ExamRow)
      /\ req \in [Request -> Job] /\ req[r] \in Job
  BY DEF Control, Tables, Jobs
<1>2. CASE AddQuestionCreates(r)
  <2>. DEFINE a == req[r].edit
              new == [there |-> TRUE, repo |-> a.repo, start |-> OrNow(a.start),
                      end |-> OrNow(a.end), active |-> TRUE, scripts |-> 0]
  <2>1. /\ req[r].op = "add" /\ Len(questions) < MaxQuestions
        /\ questions' = Append(questions, new)
        /\ req' = [req EXCEPT ![r].op = "script", ![r].id = Len(questions) + 1,
                              ![r].edit = <<>>]
        /\ UNCHANGED <<now, since, begun, exams, inExam, relations, hooks>>
    BY <1>2 DEF AddQuestionCreates
  <2>2. a \in Added
    BY <1>1, <2>1 DEF JobInv
  <2>3. a.repo \in Repo /\ OrNow(a.start) \in Times /\ OrNow(a.end) \in Times
    BY <2>2, TimesFacts DEF Added, Control, Clocks
  <2>4. new \in QuestionRow
    BY <2>3 DEF QuestionRow
  <2>. HIDE DEF new
  <2>5. /\ questions' \in Seq(QuestionRow) /\ Len(questions') = Len(questions) + 1
        /\ DOMAIN questions' = DOMAIN questions \cup {Len(questions) + 1}
        /\ \A k \in DOMAIN questions : questions'[k] = questions[k]
    BY <1>1, <2>1, <2>4
  <2>6. Len(questions) + 1 <= MaxQuestions
    BY <1>1, <2>1, CatalogAssumption
  <2>7. Tables'
    BY <1>1, <2>1, <2>5, <2>6, QuestionsChange DEF Questions
  <2>8. /\ req' \in [Request -> Job] /\ \A s \in Request \ {r} : req'[s] = req[s]
        /\ req'[r].op = "script" /\ req'[r].id = Len(questions) + 1
    <3>. DEFINE p == [req[r] EXCEPT !.op = "script", !.id = Len(questions) + 1, !.edit = <<>>]
    <3>1. req' = [req EXCEPT ![r] = p]
      BY <1>1, <2>1
    <3>2. Len(questions) + 1 \in Nat
      BY <1>1
    <3>3. p \in Job /\ p.op = "script" /\ p.id = Len(questions) + 1
      BY <1>1, <3>2 DEF Job, Op
    <3>. HIDE DEF p
    <3>. QED BY <1>1, <3>1, <3>3
  <2>9. JobInv(req[r])'
    BY <2>5, <2>8 DEF JobInv, Making, Patching, Forking, Hooking
  <2>10. Jobs'
    BY <2>1, <2>5, <2>8, <2>9, JobsStay DEF HooksStay
  <2>. QED BY <2>1, <2>7, <2>10 DEF Typed, Control, Clocks
<1>3. CASE AddQuestionScript(r) \/ PostSandboxCmdCreates(r)
  <2>1. PICK from \in Making : Goes(r, from, "over") /\ CreateScript(q)
    BY <1>3 DEF AddQuestionScript, PostSandboxCmdCreates, Making
  <2>2. q \in DOMAIN questions
    BY <1>1, <2>1, GoesFacts DEF JobInv
  <2>. QED BY <1>1, <2>1, <2>2, ScriptFacts, GoesStep DEF Making, Patching, Forking
<1>4. CASE PatchQuestionSaves(r)
  <2>. DEFINE old == Over(req[r].edit, req[r].copy)
              new == [old EXCEPT !.scripts = questions[q].scripts]
  <2>1. /\ Goes(r, "patch", IF questions[q].there THEN "patched" ELSE "script")
        /\ questions' = [questions EXCEPT ![q] = new]
        /\ UNCHANGED <<exams, inExam, relations, hooks>>
    BY <1>4 DEF PatchQuestionSaves
  <2>2. req[r].op = "patch"
    BY <2>1 DEF Goes
  <2>3. /\ q \in DOMAIN questions /\ questions[q] \in QuestionRow /\ req[r].copy \in QuestionRow
        /\ req[r].copy.there /\ req[r].edit \in Changed
    BY <1>1, <2>2 DEF JobInv, Patching
  <2>4. old \in QuestionRow /\ old.there
    BY <2>3, EditsFit, OverQuestion
  <2>. HIDE DEF old
  <2>5. questions[q].scripts \in Nat
    BY <2>3 DEF QuestionRow
  <2>6. new \in QuestionRow /\ new.there
    BY <2>4, <2>5 DEF QuestionRow
  <2>. HIDE DEF new
  <2>7. Tables' /\ DOMAIN questions' = DOMAIN questions
    BY <1>1, <2>1, <2>3, <2>6, QuestionChanges
  <2>8. PICK to \in Making \cup Patching : to \in Op /\ to # "patch" /\ Goes(r, "patch", to)
    BY <2>1 DEF Making, Patching, Op
  <2>9. req[r].op \in Making \cup Patching
    BY <2>2 DEF Patching
  <2>. QED BY <2>1, <2>7, <2>8, <2>9, GoesStep DEF Making, Patching, Forking
<1>5. CASE PatchQuestionSavesScript(r)
  <2>1. /\ Goes(r, "patched", "over") /\ UNCHANGED <<exams, inExam, relations, hooks>>
        /\ questions' = IF questions[q].there /\ questions[q].scripts = 0
                        THEN [questions EXCEPT ![q].scripts = 1] ELSE questions
    BY <1>5 DEF PatchQuestionSavesScript
  <2>2. q \in DOMAIN questions /\ questions[q] \in QuestionRow
    <3>1. req[r].op = "patched"
      BY <2>1 DEF Goes
    <3>. QED BY <1>1, <3>1 DEF JobInv, Patching
  <2>3. [questions[q] EXCEPT !.scripts = 1] \in QuestionRow
    BY <2>2 DEF QuestionRow
  <2>4. [questions[q] EXCEPT !.scripts = 1].there = questions[q].there
    BY <2>2 DEF QuestionRow
  <2>5. PICK new \in QuestionRow : /\ new.there = questions[q].there
                                   /\ questions' = [questions EXCEPT ![q] = new]
    <3>1. CASE questions[q].there /\ questions[q].scripts = 0
      BY <2>1, <2>3, <2>4, <3>1
    <3>2. CASE ~(questions[q].there /\ questions[q].scripts = 0)
      <4>1. questions' = [questions EXCEPT ![q] = questions[q]]
        BY <1>1, <2>1, <2>2, <3>2
      <4>. QED BY <2>2, <4>1
    <3>. QED BY <3>1, <3>2
  <2>6. Tables' /\ DOMAIN questions' = DOMAIN questions
    BY <1>1, <2>1, <2>2, <2>5, QuestionChanges
  <2>. QED BY <2>1, <2>6, GoesStep DEF Making, Patching, Forking
<1>6. CASE UpdateExamSaves(r)
  <2>. DEFINE given == {f \in {"start", "end"} : req[r].edit[f] # NoTime}
              edit == [f \in given |-> req[r].edit[f]]
              new == Over(edit, req[r].copy)
  <2>1. /\ Goes(r, "exam", IF given = {} THEN "over" ELSE "times")
        /\ exams' = [exams EXCEPT ![q] = new]
        /\ UNCHANGED <<questions, inExam, relations, hooks>>
    BY <1>6 DEF UpdateExamSaves
  <2>2. req[r].op = "exam"
    BY <2>1 DEF Goes
  <2>3. /\ q \in DOMAIN exams /\ req[r].edit \in Entered
        /\ req[r].copy \in ExamRow /\ req[r].copy.there
    BY <1>1, <2>2 DEF JobInv
  <2>4. IsEdit(edit) /\ DOMAIN edit \subseteq {"start", "end"}
    BY <2>3 DEF IsEdit, Entered
  <2>. HIDE DEF edit
  <2>5. new \in ExamRow /\ new.there
    BY <2>3, <2>4, OverExam
  <2>. HIDE DEF new
  <2>6. /\ exams' \in Seq(ExamRow) /\ Len(exams') = Len(exams) /\ DOMAIN exams' = DOMAIN exams
        /\ exams'[q] = new /\ \A k \in DOMAIN exams \ {q} : exams'[k] = exams[k]
    BY <1>1, <2>1, <2>3, <2>5
  <2>7. Tables'
    <3>1. \A e \in Exams : e \in DOMAIN exams' /\ exams'[e].there
      BY <2>5, <2>6 DEF Exams
    <3>2. Len(exams') <= MaxExams
      BY <1>1, <2>6 DEF Tables
    <3>. QED BY <1>1, <2>1, <2>6, <3>1, <3>2, ExamsChange
  <2>8. PICK to \in {"over", "times"} : Goes(r, "exam", to)
    BY <2>1
  <2>. QED BY <2>1, <2>2, <2>6, <2>7, <2>8, GoesStep DEF Making, Patching, Forking, Op
<1>7. CASE UpdateExamQuestions(r)
  <2>1. /\ Goes(r, "times", "over") /\ UNCHANGED <<exams, inExam, relations, hooks>>
        /\ questions' = [k \in DOMAIN questions |->
                           IF k \in QuestionsOf(q) THEN Over(req[r].edit, questions[k])
                                                   ELSE questions[k]]
    BY <1>7 DEF UpdateExamQuestions
  <2>2. req[r].edit \in Entered
    <3>1. req[r].op = "times"
      BY <2>1 DEF Goes
    <3>. QED BY <1>1, <3>1 DEF JobInv
  <2>3. ASSUME NEW k \in DOMAIN questions
        PROVE  questions'[k] \in QuestionRow /\ questions'[k].there = questions[k].there
    BY <1>1, <2>1, <2>2, EditsFit, OverQuestion
  <2>4. /\ questions' \in Seq(QuestionRow) /\ Len(questions') = Len(questions)
        /\ DOMAIN questions' = DOMAIN questions
    BY <1>1, <2>1, <2>3
  <2>5. Tables'
    <3>1. \A k \in Questions : k \in DOMAIN questions' /\ questions'[k].there
      BY <2>3, <2>4 DEF Questions
    <3>2. Len(questions') <= MaxQuestions
      BY <1>1, <2>4 DEF Tables
    <3>. QED BY <1>1, <2>1, <2>4, <3>1, <3>2, QuestionsChange
  <2>. QED BY <2>1, <2>4, <2>5, GoesStep DEF Making, Patching, Forking
<1>8. CASE UpdateQuestionInExamSaves(r)
  <2>. DEFINE p == <<req[r].edit.exam, req[r].id>>
  <2>1. /\ Goes(r, "point", "over") /\ UNCHANGED <<questions, exams, relations, hooks>>
        /\ inExam' = IF p[1] \in Exams /\ p[2] \in Questions THEN inExam \cup {p} ELSE inExam
    BY <1>8 DEF UpdateQuestionInExamSaves
  <2>2. Exams' = Exams /\ Questions' = Questions
    BY <2>1 DEF Exams, Questions
  <2>3. inExam' \subseteq Exams \X Questions
    BY <1>1, <2>1 DEF Tables
  <2>4. Tables'
    BY <1>1, <2>1, <2>2, <2>3 DEF Tables
  <2>. QED BY <2>1, <2>4, GoesStep DEF Making, Patching, Forking
<1>9. CASE Fails(r)
  <2>1. PICK from \in {"script", "patched", "times", "relate"} : Goes(r, from, "over")
    BY <1>9 DEF Fails
  <2>2. UNCHANGED <<questions, exams, inExam, relations, hooks>>
    BY <1>9 DEF Fails, tables
  <2>3. Tables'
    BY <1>1, <2>2 DEF Tables, Exams, Questions
  <2>. QED BY <2>1, <2>2, <2>3, GoesStep DEF Making, Patching, Forking
<1>10. CASE RepositoryHooks(r)
  <2>1. /\ Goes(r, "fork", "hooked") /\ UNCHANGED <<questions, exams, inExam, relations>>
        /\ hooks' = [hooks EXCEPT ![req[r].edit.name] = IF @ = NoHook THEN 0 ELSE @]
    BY <1>10 DEF RepositoryHooks, tables
  <2>2. /\ req[r].op = "fork" /\ req' \in [Request -> Job]
        /\ req'[r].op = "hooked" /\ req'[r].id = q /\ req'[r].edit = req[r].edit
        /\ \A s \in Request \ {r} : req'[s] = req[s]
        /\ UNCHANGED <<now, since, begun>>
    <3>1. "hooked" \in Op
      BY DEF Op
    <3>. QED BY <2>1, <3>1, GoesFacts DEF Became
  <2>3. q \in DOMAIN questions /\ req[r].edit \in [name : RepoName]
    BY <1>1, <2>2 DEF JobInv, Forking
  <2>4. PICK n \in RepoName : n = req[r].edit.name
    BY <2>3
  <2>5. hooks \in [RepoName -> Age] /\ TokenLife \in Nat
    BY CatalogAssumption DEF Control, Clocks
  <2>6. /\ hooks' \in [RepoName -> Age] /\ hooks'[n] # NoHook
        /\ \A m \in RepoName : hooks[m] # NoHook => hooks'[m] = hooks[m]
    BY <2>1, <2>4, <2>5 DEF Age, NoHook
  <2>7. JobInv(req[r])'
    BY <2>1, <2>2, <2>3, <2>4, <2>6 DEF JobInv, Making, Patching, Forking, Hooking
  <2>8. Jobs'
    BY <2>1, <2>2, <2>6, <2>7, JobsStay DEF HooksStay
  <2>9. Tables' /\ Clocks'
    BY <2>1, <2>2, <2>6 DEF Control, Tables, Clocks, Exams, Questions
  <2>. QED BY <2>8, <2>9 DEF Typed
<1>11. CASE RepositoryFinds(r)
  <2>1. PICK to \in {"relate", "over"} : Goes(r, "hooked", to)
    BY <1>11 DEF RepositoryFinds
  <2>2. UNCHANGED <<questions, exams, inExam, relations, hooks>>
    BY <1>11 DEF RepositoryFinds, tables
  <2>3. Tables'
    BY <1>1, <2>2 DEF Tables, Exams, Questions
  <2>4. req[r].op = "hooked"
    BY <2>1 DEF Goes
  <2>. QED BY <2>1, <2>2, <2>3, <2>4, GoesStep DEF Making, Patching, Forking, Hooking, Op
<1>12. CASE RepositoryRelates(r)
  <2>. DEFINE Row == [question : Nat, name : RepoName]
  <2>1. /\ Goes(r, "relate", "over") /\ UNCHANGED <<questions, exams, inExam, hooks>>
        /\ relations' = IF questions[q].there
                        THEN Append(relations, [question |-> q, name |-> req[r].edit.name])
                        ELSE relations
    BY <1>12 DEF RepositoryRelates
  <2>2. q \in DOMAIN questions /\ req[r].edit \in [name : RepoName]
    <3>1. req[r].op = "relate"
      BY <2>1 DEF Goes
    <3>. QED BY <1>1, <3>1 DEF JobInv, Forking
  <2>3. PICK new \in Row : new = [question |-> q, name |-> req[r].edit.name]
    <3>1. q \in Nat /\ req[r].edit.name \in RepoName
      BY <1>1, <2>2
    <3>2. [question |-> q, name |-> req[r].edit.name] \in Row
      BY <3>1
    <3>. QED BY <3>2
  <2>4. relations \in Seq(Row) /\ new.question = q
    BY <1>1, <2>3 DEF Tables
  <2>. HIDE DEF Row
  <2>5. /\ relations' \in Seq(Row)
        /\ \A d \in DOMAIN relations' :
             \/ d \in DOMAIN relations /\ relations'[d] = relations[d]
             \/ questions[q].there /\ relations'[d] = new
    <3>1. CASE questions[q].there
      BY <2>1, <2>3, <2>4, <3>1
    <3>2. CASE ~questions[q].there
      BY <2>1, <2>4, <3>2
    <3>. QED BY <3>1, <3>2
  <2>6. Questions' = Questions /\ Exams' = Exams
    BY <2>1 DEF Questions, Exams
  <2>7. \A d \in DOMAIN relations' : relations'[d].question \in Questions'
    BY <1>1, <2>2, <2>4, <2>5, <2>6 DEF Tables, Questions
  <2>8. Tables'
    BY <1>1, <2>1, <2>5, <2>6, <2>7 DEF Tables, Row
  <2>. QED BY <2>1, <2>8, GoesStep DEF Making, Patching, Forking
<1>. QED BY <1>2, <1>3, <1>4, <1>5, <1>6, <1>7, <1>8, <1>9, <1>10, <1>11, <1>12


(* Steps of handlers that are one statement, of the check and of time.      *)
LEMMA OthersTyped ==
  ASSUME Control,
         \/ \E q \in DOMAIN questions : DeleteQuestion(q)
         \/ \E e \in DOMAIN exams :
              \/ DeleteExam(e)
              \/ \E q \in DOMAIN questions : AddQuestionToExam(e, q) \/ RemoveQuestionFromExam(e, q)
         \/ CreateExam \/ CheckHooks \/ Pass
  PROVE  Typed'
<1>1. /\ Tables /\ Clocks /\ questions \in Seq(QuestionRow) /\ exams \in Seq(ExamRow)
      /\ Period \in Nat /\ TokenLife \in Nat \ {0} /\ MaxTime \in Nat /\ MaxRequests \in Nat
  BY CatalogAssumption DEF Control, Tables
<1>2. ASSUME Begins PROVE begun' \in 0 .. MaxRequests /\ UNCHANGED <<now, since>>
  BY <1>1, <1>2 DEF Begins, Clocks
<1>3. ASSUME NEW q \in DOMAIN questions, DeleteQuestion(q) PROVE Typed'
  <2>1. /\ Begins /\ q \in Questions
        /\ RelationsOf(q) = {} /\ \A e \in Exams : <<e, q>> \notin inExam
        /\ questions' = [questions EXCEPT ![q].there = FALSE, ![q].scripts = 0]
        /\ UNCHANGED <<exams, inExam, relations, hooks, req>>
    BY <1>3 DEF DeleteQuestion
  <2>. DEFINE new == [questions[q] EXCEPT !.there = FALSE, !.scripts = 0]
  <2>2. questions' = [questions EXCEPT ![q] = new]
    BY <1>1, <2>1
  <2>3. new \in QuestionRow
    <3>1. questions[q] \in QuestionRow
      BY <1>1
    <3>. QED BY <3>1 DEF QuestionRow
  <2>. HIDE DEF new
  <2>4. /\ questions' \in Seq(QuestionRow) /\ Len(questions') = Len(questions)
        /\ DOMAIN questions' = DOMAIN questions
        /\ \A k \in DOMAIN questions \ {q} : questions'[k] = questions[k]
    BY <1>1, <2>2, <2>3
  <2>5. Questions \ {q} \subseteq Questions' /\ Exams' = Exams
    BY <2>1, <2>4 DEF Questions, Exams
  <2>6. inExam \subseteq Exams' \X Questions'
    <3>1. ASSUME NEW p \in inExam PROVE p \in Exams \X (Questions \ {q})
      <4>1. p \in Exams \X Questions
        BY <1>1 DEF Tables
      <4>2. p = <<p[1], p[2]>> /\ p[1] \in Exams /\ p[2] \in Questions
        BY <4>1
      <4>3. p[2] # q
        BY <2>1, <4>2
      <4>. QED BY <4>2, <4>3
    <3>. QED BY <2>5, <3>1
  <2>7. \A d \in DOMAIN relations : relations[d].question \in Questions \ {q}
    BY <1>1, <2>1 DEF Tables, RelationsOf
  <2>8. Tables'
    BY <1>1, <2>1, <2>4, <2>5, <2>6, <2>7 DEF Tables
  <2>9. Clocks'
    BY <1>2, <2>1 DEF Clocks, Control
  <2>. QED BY <2>1, <2>4, <2>8, <2>9, OtherStep DEF HooksStay
<1>4. ASSUME NEW e \in DOMAIN exams, DeleteExam(e) PROVE Typed'
  <2>1. /\ Begins /\ e \in Exams /\ QuestionsOf(e) = {}
        /\ exams' = [exams EXCEPT ![e].there = FALSE]
        /\ UNCHANGED <<questions, inExam, relations, hooks, req>>
    BY <1>4 DEF DeleteExam
  <2>. DEFINE new == [exams[e] EXCEPT !.there = FALSE]
  <2>2. exams' = [exams EXCEPT ![e] = new]
    BY <1>1, <2>1
  <2>3. new \in ExamRow
    <3>1. exams[e] \in ExamRow
      BY <1>1
    <3>. QED BY <3>1 DEF ExamRow
  <2>. HIDE DEF new
  <2>4. /\ exams' \in Seq(ExamRow) /\ Len(exams') = Len(exams) /\ DOMAIN exams' = DOMAIN exams
        /\ \A k \in DOMAIN exams \ {e} : exams'[k] = exams[k]
    BY <1>1, <2>2, <2>3
  <2>5. Exams \ {e} \subseteq Exams' /\ Questions' = Questions
    BY <2>1, <2>4 DEF Questions, Exams
  <2>6. inExam \subseteq Exams' \X Questions'
    <3>1. ASSUME NEW p \in inExam PROVE p \in (Exams \ {e}) \X Questions
      <4>1. p \in Exams \X Questions
        BY <1>1 DEF Tables
      <4>2. p = <<p[1], p[2]>> /\ p[1] \in Exams /\ p[2] \in Questions
        BY <4>1
      <4>3. p[1] # e
        BY <2>1, <4>2 DEF QuestionsOf
      <4>. QED BY <4>2, <4>3
    <3>. QED BY <2>5, <3>1
  <2>7. Tables'
    BY <1>1, <2>1, <2>4, <2>5, <2>6 DEF Tables
  <2>8. Clocks'
    BY <1>2, <2>1 DEF Clocks, Control
  <2>. QED BY <2>1, <2>4, <2>7, <2>8, OtherStep DEF HooksStay
<1>5. ASSUME NEW e \in DOMAIN exams, NEW q \in DOMAIN questions,
             AddQuestionToExam(e, q) \/ RemoveQuestionFromExam(e, q)
      PROVE  Typed'
  <2>1. Begins /\ UNCHANGED <<questions, exams, relations, hooks, req>>
    BY <1>5 DEF AddQuestionToExam, RemoveQuestionFromExam
  <2>2. inExam' \subseteq Exams \X Questions
    BY <1>1, <1>5 DEF AddQuestionToExam, RemoveQuestionFromExam, Tables
  <2>3. Exams' = Exams /\ Questions' = Questions
    BY <2>1 DEF Exams, Questions
  <2>4. Tables'
    BY <1>1, <2>1, <2>2, <2>3 DEF Tables
  <2>5. Clocks'
    BY <1>1, <1>2, <2>1 DEF Clocks
  <2>. QED BY <2>1, <2>4, <2>5, OtherStep DEF HooksStay
<1>6. CASE CreateExam
  <2>1. /\ Begins /\ Len(exams) < MaxExams
        /\ UNCHANGED <<questions, inExam, relations, hooks, req>>
    BY <1>6 DEF CreateExam
  <2>2. PICK w \in Window :
          exams' = Append(exams, [there |-> TRUE, start |-> OrNow(w[1]), end |-> OrNow(w[2])])
    BY <1>6 DEF CreateExam
  <2>3. [there |-> TRUE, start |-> OrNow(w[1]), end |-> OrNow(w[2])] \in ExamRow
    BY <1>1, TimesFacts DEF ExamRow, Clocks
  <2>4. /\ exams' \in Seq(ExamRow) /\ Len(exams') = Len(exams) + 1
        /\ DOMAIN exams \subseteq DOMAIN exams'
        /\ \A k \in DOMAIN exams : exams'[k] = exams[k]
    BY <1>1, <2>2, <2>3
  <2>5. Len(exams') <= MaxExams
    BY <1>1, <2>1, <2>4, CatalogAssumption
  <2>6. \A e \in Exams : e \in DOMAIN exams' /\ exams'[e].there
    BY <2>4 DEF Exams
  <2>7. Tables'
    BY <1>1, <2>1, <2>4, <2>5, <2>6, ExamsChange
  <2>8. Clocks'
    BY <1>1, <1>2, <2>1 DEF Clocks
  <2>. QED BY <2>1, <2>4, <2>7, <2>8, OtherStep DEF HooksStay
<1>7. CASE CheckHooks
  <2>1. PICK names, failed : Renews(names, failed)
    BY <1>7 DEF CheckHooks
  <2>2. /\ since' = 0 /\ UNCHANGED <<now, questions, exams, inExam, relations, req, begun>>
        /\ hooks' = [n \in RepoName |-> IF n \in names \ failed THEN 0 ELSE hooks[n]]
    BY <2>1 DEF Renews, tables
  <2>3. hooks' \in [RepoName -> Age] /\ HooksStay
    BY <1>1, <2>2 DEF Clocks, Age, HooksStay, NoHook
  <2>4. Tables' /\ Clocks'
    BY <1>1, <2>2, <2>3 DEF Tables, Clocks, Exams, Questions
  <2>. QED BY <2>2, <2>3, <2>4, OtherStep
<1>8. CASE Pass
  <2>1. /\ now < MaxTime /\ now' = now + 1 /\ since < Period /\ since' = since + 1
        /\ hooks' = [n \in RepoName |->
                       IF hooks[n] \in {NoHook, TokenLife} THEN hooks[n] ELSE hooks[n] + 1]
        /\ UNCHANGED <<questions, exams, inExam, relations, req, begun>>
    BY <1>8 DEF Pass, tables
  <2>2. now' \in 1 .. MaxTime /\ since' \in 0 .. Period
    BY <1>1, <2>1 DEF Clocks
  <2>3. hooks' \in [RepoName -> Age] /\ HooksStay
    <3>1. \A n \in RepoName : hooks[n] \in Age
      BY <1>1 DEF Clocks
    <3>2. \A a \in Age : a \notin {NoHook, TokenLife} => a + 1 \in Age /\ a + 1 # NoHook
      BY <1>1 DEF Age, NoHook
    <3>. QED BY <2>1, <3>1, <3>2 DEF HooksStay
  <2>4. Tables' /\ Clocks'
    BY <1>1, <2>1, <2>2, <2>3 DEF Tables, Clocks, Exams, Questions
  <2>. QED BY <2>1, <2>3, <2>4, OtherStep
<1>. QED BY <1>3, <1>4, <1>5, <1>6, <1>7, <1>8

(* All steps.                                                               *)
LEMMA ControlNext == Control /\ [Next]_vars => Control'
<1>. SUFFICES ASSUME Control, [Next]_vars PROVE Control'
  OBVIOUS
<1>1. CASE Next
  <2>1. PICK units \in {0, 1} : OpenFor(units)
    BY <1>1 DEF Next
  <2>2. open' \in [1 .. MaxQuestions -> Nat]
    BY <2>1, OpenFacts DEF Control
  <2>3. ASSUME Handle PROVE Typed'
    BY <2>3, StartsTyped, GoesTyped, OthersTyped
       DEF Handle, AddQuestion, PatchQuestion, PostSandboxCmd, UpdateExam, UpdateQuestionInExam,
           CreateRepository
  <2>4. ASSUME CheckHooks \/ Pass PROVE Typed'
    BY <2>4, OthersTyped
  <2>5. ASSUME Restart PROVE Typed'
    <3>1. /\ req' = [r \in Request |-> Idle] /\ since' = Period
          /\ UNCHANGED <<now, questions, exams, inExam, relations, hooks, begun>>
      BY <2>5 DEF Restart, tables
    <3>2. Tables' /\ Clocks'
      BY <3>1, CatalogAssumption DEF Control, Tables, Clocks, Exams, Questions
    <3>3. Jobs'
      BY <3>1, IdleFacts DEF Jobs, JobInv, Making, Patching, Forking, Hooking
    <3>. QED BY <3>2, <3>3 DEF Typed
  <2>6. Typed'
    BY <1>1, <2>3, <2>4, <2>5 DEF Next
  <2>. QED BY <2>2, <2>6 DEF Typed, Control
<1>2. CASE UNCHANGED vars
  BY <1>2 DEF vars, tables, watched, Control, Tables, Clocks, Jobs, JobInv, Questions, Exams
<1>. QED BY <1>1, <1>2

(* One question in one exam.                                                *)
LEMMA ControlInit == Init => Control
<1>. SUFFICES ASSUME Init PROVE Control
  OBVIOUS
<1>1. PICK repo \in First, w \in Window :
        /\ questions = <<[there |-> TRUE, repo |-> repo, start |-> w[1], end |-> w[2],
                          active |-> TRUE, scripts |-> 1]>>
        /\ exams = <<[there |-> TRUE, start |-> w[1], end |-> w[2]]>>
  BY DEF Init
<1>2. /\ now = 1 /\ since = Period /\ inExam = {<<1, 1>>} /\ relations = <<>>
      /\ hooks = [n \in RepoName |-> NoHook] /\ req = [r \in Request |-> Idle] /\ begun = 0
      /\ open = [q \in 1 .. MaxQuestions |-> 0]
  BY DEF Init
<1>3. repo \in Repo /\ w[1] \in Times /\ w[2] \in Times
  BY TimesFacts, CatalogAssumption
<1>4. /\ questions[1] \in QuestionRow /\ questions[1].there /\ DOMAIN questions = {1}
      /\ exams[1] \in ExamRow /\ exams[1].there /\ DOMAIN exams = {1}
  BY <1>1, <1>3 DEF QuestionRow, ExamRow
<1>5. /\ questions \in Seq(QuestionRow) /\ Len(questions) = 1
      /\ exams \in Seq(ExamRow) /\ Len(exams) = 1
  BY <1>1, <1>4
<1>6. relations \in Seq([question : Nat, name : RepoName]) /\ DOMAIN relations = {}
  BY <1>2
<1>7. 1 \in Exams /\ 1 \in Questions
  BY <1>4 DEF Exams, Questions
<1>8. Tables
  BY <1>2, <1>5, <1>6, <1>7, CatalogAssumption DEF Tables
<1>9. Clocks
  BY <1>2, CatalogAssumption DEF Clocks, Age
<1>10. Jobs
  BY <1>2, IdleFacts DEF Jobs, JobInv, Making, Patching, Forking, Hooking
<1>. QED BY <1>2, <1>8, <1>9, <1>10 DEF Control

(* The tables refer to what is there, whichever requests overlap and stop   *)
(* in between, and a request has read what its next step needs.             *)
THEOREM Controlled == Spec => []Control
BY ControlInit, ControlNext, PTL DEF Spec

(* All variables keep their types: exams hold questions that are there, and *)
(* relations are about questions that are there.                            *)
THEOREM Typing == Spec => []TypeOK
<1>1. Control => TypeOK
  <2>. SUFFICES ASSUME Control PROVE TypeOK
    OBVIOUS
  <2>1. ASSUME NEW p \in inExam
        PROVE  /\ p[1] \in DOMAIN exams /\ exams[p[1]].there
               /\ p[2] \in DOMAIN questions /\ questions[p[2]].there
    BY DEF Control, Tables, Exams, Questions
  <2>2. ASSUME NEW d \in DOMAIN relations
        PROVE  relations[d].name \in RepoName /\ questions[relations[d].question].there
    <3>1. relations \in Seq([question : Nat, name : RepoName])
      BY DEF Control, Tables
    <3>2. relations[d] \in [question : Nat, name : RepoName]
      <4>. DEFINE Row == [question : Nat, name : RepoName]
      <4>1. relations \in Seq(Row)
        BY <3>1
      <4>. HIDE DEF Row
      <4>2. relations[d] \in Row
        BY <4>1
      <4>. QED BY <4>2 DEF Row
    <3>. QED BY <3>2 DEF Control, Tables, Questions
  <2>3. \A r \in Request : req[r].op \in {"patch", "script", "fork", "relate"} =>
          req[r].id \in DOMAIN questions
    BY DEF Control, Jobs, JobInv, Making, Patching, Forking
  <2>. QED BY <2>1, <2>2, <2>3 DEF Control, Tables, Clocks, TypeOK
<1>. QED BY <1>1, Controlled, PTL


-----------------------------------------------------------------------------
(* What is seen.                                                            *)

(* The five places that compare times agree but for a question without end, *)
(* lists show what can be opened and nothing twice, whatever admins do and  *)
(* in whichever order.                                                      *)
THEOREM AllViewsAgree == Spec => []ViewsAgree
<1>1. Control => ViewsAgree
  <2>. SUFFICES ASSUME Control PROVE ViewsAgree
    OBVIOUS
  <2>1. /\ now \in Nat /\ now > 0 /\ NoTime = 0
        /\ \A q \in Questions : q \in DOMAIN questions /\ questions[q].start \in Nat
                                /\ questions[q].end \in Nat
        /\ \A e \in Exams : exams[e].start \in Nat /\ exams[e].end \in Nat
    <3>1. \A q \in DOMAIN questions : questions[q] \in QuestionRow
      BY DEF Control, Tables
    <3>2. \A q \in DOMAIN questions : questions[q].start \in Times /\ questions[q].end \in Times
      BY <3>1 DEF QuestionRow
    <3>3. \A e \in DOMAIN exams : exams[e] \in ExamRow
      BY DEF Control, Tables
    <3>4. \A e \in DOMAIN exams : exams[e].start \in Times /\ exams[e].end \in Times
      BY <3>3 DEF ExamRow
    <3>5. now \in Nat /\ now > 0 /\ Times \subseteq Nat
      BY CatalogAssumption, TimesFacts DEF Control, Clocks
    <3>6. \A q \in Questions : q \in DOMAIN questions /\ questions[q].start \in Nat
                              /\ questions[q].end \in Nat
      BY <3>2, <3>5 DEF Questions
    <3>7. \A e \in Exams : exams[e].start \in Nat /\ exams[e].end \in Nat
      BY <3>4, <3>5 DEF Exams
    <3>. QED BY <3>5, <3>6, <3>7 DEF NoTime
  <2>2. ASSUME NEW q \in Questions
        PROVE  /\ RescoreInTime(q) = Active(q)
               /\ PushInTime(q) = IF questions[q].end # NoTime THEN Active(q)
                                  ELSE questions[q].start <= now
               /\ q \in Listed(TRUE, "expired") => /\ ~Active(q)
                                                   /\ PushInTime(q) => questions[q].end = NoTime
    <3>1. PICK s \in Nat, t \in Nat : s = questions[q].start /\ t = questions[q].end
      BY <2>1
    <3>2. RescoreInTime(q) = Active(q)
      BY <2>1, <3>1 DEF RescoreInTime, Active
    <3>3. PushInTime(q) = IF t # NoTime THEN Active(q) ELSE s <= now
      <4>1. CASE t # NoTime
        <5>1. PushInTime(q) <=> s <= now /\ now <= t
          BY <2>1, <3>1, <4>1 DEF PushInTime
        <5>2. Active(q) <=> s <= now /\ now <= t
          BY <3>1 DEF Active
        <5>3. PushInTime(q) \in BOOLEAN /\ Active(q) \in BOOLEAN
          BY DEF PushInTime, Active
        <5>. QED BY <4>1, <5>1, <5>2, <5>3
      <4>2. CASE t = NoTime
        <5>1. PushInTime(q) <=> s <= now
          BY <2>1, <3>1, <4>2 DEF PushInTime
        <5>2. PushInTime(q) \in BOOLEAN
          BY DEF PushInTime
        <5>. QED BY <4>2, <5>1, <5>2
      <4>. QED BY <4>1, <4>2
    <3>4. q \in Listed(TRUE, "expired") => ~Active(q) /\ (PushInTime(q) => t = NoTime)
      BY <2>1, <3>1 DEF Listed, Ended, Active, PushInTime
    <3>. QED BY <3>1, <3>2, <3>3, <3>4
  <2>3. Own = OwnShown
    <3>1. ASSUME NEW q \in Questions, RelationsOf(q) # {}
          PROVE  relations[Min(RelationsOf(q))].question = q
      <4>1. RelationsOf(q) \in SUBSET Nat
        BY DEF RelationsOf, Control, Tables
      <4>2. Min(RelationsOf(q)) \in RelationsOf(q)
        BY <3>1, <4>1, MinFacts
      <4>. QED BY <4>2 DEF RelationsOf
    <3>. QED BY <3>1 DEF Own, OwnShown
  <2>4. Own \subseteq Shown(FALSE)
    BY DEF Own, Shown
  <2>5. ASSUME NEW admin \in BOOLEAN
        PROVE  LET inExams == UNION {ExamListed(e, admin) : e \in Exams}
               IN  /\ Shown(admin) = Listed(admin, "all") \cup inExams
                   /\ Listed(admin, "all") \cap inExams = {}
                   /\ ExamsListed(admin) \subseteq ExamsShown(admin)
    <3>. DEFINE inExams == UNION {ExamListed(e, admin) : e \in Exams}
    <3>1. ASSUME NEW q PROVE q \in inExams <=> /\ q \in Shown(admin)
                                               /\ \E e \in Exams : <<e, q>> \in inExam
      <4>1. ASSUME NEW e \in Exams
            PROVE  q \in ExamListed(e, admin) <=> q \in Shown(admin) /\ <<e, q>> \in inExam
        BY DEF ExamListed, QuestionsOf, Shown
      <4>2. q \in inExams <=> \E e \in Exams : q \in ExamListed(e, admin)
        OBVIOUS
      <4>. QED BY <4>1, <4>2
    <3>2. ASSUME NEW q PROVE q \in Listed(admin, "all") <=> /\ q \in Shown(admin)
                                                            /\ \A e \in Exams : <<e, q>> \notin inExam
      BY DEF Listed, Shown
    <3>3. ExamsListed(admin) \subseteq ExamsShown(admin)
      BY <2>1 DEF ExamsListed, ExamsShown
    <3>. HIDE DEF inExams
    <3>4. /\ Shown(admin) = Listed(admin, "all") \cup inExams
          /\ Listed(admin, "all") \cap inExams = {}
      BY <3>1, <3>2
    <3>. QED BY <3>3, <3>4 DEF inExams
  <2>6. \A e \in ExamsShown(FALSE) \ ExamsListed(FALSE) : now \in {exams[e].start, exams[e].end}
    BY <2>1 DEF ExamsListed, ExamsShown
  <2>. QED BY <2>2, <2>3, <2>4, <2>5, <2>6 DEF ViewsAgree
<1>. QED BY <1>1, Controlled, PTL

-----------------------------------------------------------------------------
(* As long as nothing has come to be shared: the names of the repositories  *)
(* tell the questions apart, those about to be added too; relations, made   *)
(* or about to be, have the names of their questions' repositories; and a   *)
(* question has at most one script, there or about to be made.              *)
NamesApart ==
  \A p, q \in Questions : p # q => questions[p].repo[2] # questions[q].repo[2]

Adding(r, repo) == req[r].op = "add" /\ req[r].edit.repo = repo

AddsApart ==
  \A r \in Request : req[r].op = "add" =>
    /\ WithRepo(req[r].edit.repo) = {}
    /\ \A s \in Request \ {r} : ~Adding(s, req[r].edit.repo)

RelationsApart ==
  \A d \in DOMAIN relations : relations[d].name = questions[relations[d].question].repo[2]

Named(r) ==
  questions[req[r].id].there => questions[req[r].id].repo[2] = req[r].edit.name

ForksApart == \A r \in Request : req[r].op \in Forking => Named(r)

Makes(r, q) == req[r].op \in Making /\ req[r].id = q

ScriptsApart ==
  /\ \A q \in DOMAIN questions : questions[q].scripts <= 1
  /\ \A r \in Request : req[r].op \in Making =>
       /\ questions[req[r].id].scripts = 0
       /\ \A s \in Request \ {r} : ~Makes(s, req[r].id)
  /\ \A r \in Request : req[r].op \in Patching /\ questions[req[r].id].there =>
       questions[req[r].id].scripts = 1

Apart ==
  shared = {} => NamesApart /\ AddsApart /\ RelationsApart /\ ForksApart /\ ScriptsApart

(* A question that is open is active now.  A hook that was renewed by the   *)
(* last check, or has been made since, is as old as that at most; so is one *)
(* that waits for its relation, unless the last check has missed it.        *)
OpenNow == \A q \in 1 .. MaxQuestions : open[q] > 0 => q \in DOMAIN questions /\ Active(q)

Orphans ==
  \A n \in RepoName :
    PushFinds(n) = {} /\ hooks[n] # NoHook /\ n \notin missed => hooks[n] \in 0 .. since

Fresh ==
  \A d \in DOMAIN relations :
    open[relations[d].question] > since /\ relations[d].name \notin missed =>
      hooks[relations[d].name] \in 0 .. since

HookInv == OpenNow /\ Orphans /\ (shared = {} => Fresh)


-----------------------------------------------------------------------------
(* What is shared.                                                          *)

(* Two questions whose repositories have other names have other             *)
(* repositories.                                                            *)
LEMMA ApartRepos ==
  ASSUME Control, NamesApart, NEW p \in Questions, NEW q \in Questions,
         questions[p].repo = questions[q].repo
  PROVE  p = q
BY DEF NamesApart

(* What a request may become that has nothing to do with a new repository   *)
(* of a question or a new script.                                           *)
Stems(r) ==
  \/ req'[r] = req[r]
  \/ req'[r].op \in Quiet
  \/ req[r].op = "patch" /\ req'[r].op = "patched" /\ req'[r].id = req[r].id
  \/ req'[r].op \in Forking /\ Named(r)'

(* A fork that goes on as it was keeps its name, if the question does.      *)
LEMMA NamedStays ==
  ASSUME Control, ForksApart, NEW r \in Request, req[r].op \in Forking,
         req'[r].id = req[r].id, req'[r].edit = req[r].edit,
         \A q \in DOMAIN questions :
           questions'[q].there => questions[q].there /\ questions'[q].repo = questions[q].repo
  PROVE  Named(r)'
<1>1. req[r].id \in DOMAIN questions
  BY DEF Control, Jobs, JobInv
<1>2. Named(r)
  BY DEF ForksApart
<1>. QED BY <1>1, <1>2 DEF Named

(* Questions keep their repositories and scripts, and none comes to be      *)
(* there: nothing comes to be shared.                                       *)
LEMMA SameApart ==
  ASSUME Control, Apart, shared = {}, \A r \in Request : Stems(r),
         DOMAIN questions' = DOMAIN questions, relations' = relations \/ RelationsApart',
         \A q \in DOMAIN questions : /\ questions'[q].there = questions[q].there
                                     /\ questions'[q].repo = questions[q].repo
                                     /\ questions'[q].scripts = questions[q].scripts
  PROVE  Apart'
<1>1. NamesApart /\ AddsApart /\ RelationsApart /\ ForksApart /\ ScriptsApart
  BY DEF Apart
<1>2. Questions' = Questions /\ Questions \subseteq DOMAIN questions
  BY DEF Questions
<1>3. \A repo : WithRepo(repo)' = WithRepo(repo)
  BY <1>2 DEF WithRepo
<1>4. \A r \in Request : req'[r].op = "add" => req'[r] = req[r]
  BY DEF Stems, Quiet, Forking
<1>5. \A r \in Request : req'[r].op \in Making => req'[r] = req[r]
  BY DEF Stems, Quiet, Making, Forking
<1>6. \A r \in Request : req'[r].op \in Patching => req[r].op \in Patching /\ req'[r].id = req[r].id
  BY DEF Stems, Quiet, Patching, Forking
<1>7. NamesApart'
  BY <1>1, <1>2 DEF NamesApart
<1>8. AddsApart'
  BY <1>1, <1>3, <1>4 DEF AddsApart, Adding
<1>9. RelationsApart'
  <2>1. \A d \in DOMAIN relations : relations[d].question \in DOMAIN questions
    BY <1>2 DEF Control, Tables
  <2>. QED BY <1>1, <2>1 DEF RelationsApart
<1>10. ForksApart'
  <2>1. ASSUME NEW r \in Request, req'[r].op \in Forking PROVE Named(r)'
    <3>1. req'[r] = req[r] \/ Named(r)'
      BY <2>1 DEF Stems, Quiet, Forking
    <3>. QED BY <1>1, <2>1, <3>1, NamedStays
  <2>. QED BY <2>1 DEF ForksApart
<1>11. ScriptsApart'
  <2>1. \A r \in Request : req[r].op \in Making \cup Patching => req[r].id \in DOMAIN questions
    BY DEF Control, Jobs, JobInv
  <2>2. \A q \in DOMAIN questions' : questions'[q].scripts <= 1
    BY <1>1 DEF ScriptsApart
  <2>3. ASSUME NEW r \in Request, req'[r].op \in Making
        PROVE  /\ questions'[req'[r].id].scripts = 0
               /\ \A s \in Request \ {r} : ~(req'[s].op \in Making /\ req'[s].id = req'[r].id)
    <3>1. req'[r] = req[r] /\ req[r].id \in DOMAIN questions
      BY <1>5, <2>1, <2>3
    <3>2. questions[req[r].id].scripts = 0 /\ \A s \in Request \ {r} : ~Makes(s, req[r].id)
      BY <1>1, <2>3, <3>1 DEF ScriptsApart
    <3>. QED BY <1>5, <3>1, <3>2 DEF Makes
  <2>4. ASSUME NEW r \in Request, req'[r].op \in Patching, questions'[req'[r].id].there
        PROVE  questions'[req'[r].id].scripts = 1
    <3>1. req[r].op \in Patching /\ req'[r].id = req[r].id /\ req[r].id \in DOMAIN questions
      BY <1>6, <2>1, <2>4
    <3>. QED BY <1>1, <2>4, <3>1 DEF ScriptsApart
  <2>. QED BY <2>2, <2>3, <2>4 DEF ScriptsApart, Makes
<1>. QED BY <1>7, <1>8, <1>9, <1>10, <1>11 DEF Apart

(* A request that starts or goes on stems, if it has nothing to add or make. *)
LEMMA StemsFacts ==
  ASSUME Control, NEW r \in Request,
         \/ \E op, id, copy, edit : Starts(r, op, id, copy, edit) /\ op \in Quiet
         \/ \E from, to : Goes(r, from, to) /\ to \in Quiet \cup {"over"}
         \/ Goes(r, "patch", "patched")
  PROVE  \A s \in Request : Stems(s)
<1>1. CASE \E op, id, copy, edit : Starts(r, op, id, copy, edit) /\ op \in Quiet
  BY <1>1 DEF Starts, Stems, Control, Jobs
<1>2. CASE \E from, to : Goes(r, from, to) /\ to \in Quiet \cup {"over"}
  <2>1. PICK from, to : Goes(r, from, to) /\ to \in Quiet \cup {"over"}
    BY <1>2
  <2>2. to \in Op \cup {"over"}
    BY <2>1 DEF Quiet, Op
  <2>. QED BY <2>1, <2>2, GoesFacts, IdleFacts DEF Became, Stems, Quiet
<1>3. CASE Goes(r, "patch", "patched")
  <2>1. "patched" \in Op
    BY DEF Op
  <2>. QED BY <1>3, <2>1, GoesFacts DEF Became, Stems
<1>. QED BY <1>1, <1>2, <1>3


(* The handlers that change neither a repository nor a script.              *)
LEMMA QuietApart ==
  ASSUME Control, Apart, shared' = {}, NEW r \in Request,
         \/ UpdateExamReads(r) \/ UpdateExamSaves(r) \/ UpdateExamQuestions(r)
         \/ UpdateQuestionInExamReads(r) \/ UpdateQuestionInExamSaves(r) \/ Fails(r)
         \/ PatchQuestionSaves(r) \/ PatchQuestionSavesScript(r)
  PROVE  Apart'
<1>. DEFINE q == req[r].id
<1>1. /\ JobInv(req[r]) /\ questions \in Seq(QuestionRow)
  BY DEF Control, Jobs, Tables
<1>2. CASE UpdateExamReads(r) \/ UpdateQuestionInExamReads(r)
  <2>1. \E op, id, copy, edit : Starts(r, op, id, copy, edit) /\ op \in Quiet
    BY <1>2 DEF UpdateExamReads, UpdateQuestionInExamReads, Quiet
  <2>2. UNCHANGED <<questions, relations, shared>>
    BY <1>2 DEF UpdateExamReads, UpdateQuestionInExamReads, tables, watched
  <2>. QED BY <2>1, <2>2, StemsFacts, SameApart
<1>3. CASE UpdateExamSaves(r) \/ UpdateQuestionInExamSaves(r) \/ Fails(r)
  <2>1. \E from, to : Goes(r, from, to) /\ to \in Quiet \cup {"over"}
    BY <1>3 DEF UpdateExamSaves, UpdateQuestionInExamSaves, Fails, Quiet
  <2>2. UNCHANGED <<questions, relations, shared>>
    BY <1>3 DEF UpdateExamSaves, UpdateQuestionInExamSaves, Fails, tables, watched
  <2>. QED BY <2>1, <2>2, StemsFacts, SameApart
<1>4. CASE UpdateExamQuestions(r)
  <2>1. /\ Goes(r, "times", "over") /\ UNCHANGED <<relations, shared>>
        /\ questions' = [k \in DOMAIN questions |->
                           IF k \in QuestionsOf(q) THEN Over(req[r].edit, questions[k])
                                                   ELSE questions[k]]
    BY <1>4 DEF UpdateExamQuestions, watched
  <2>2. req[r].edit \in Entered
    <3>1. req[r].op = "times"
      BY <2>1 DEF Goes
    <3>. QED BY <1>1, <3>1 DEF JobInv
  <2>3. ASSUME NEW k \in DOMAIN questions
        PROVE  /\ questions'[k].there = questions[k].there
               /\ questions'[k].repo = questions[k].repo
               /\ questions'[k].scripts = questions[k].scripts
    BY <1>1, <2>1, <2>2, EditsFit, OverQuestion
  <2>4. DOMAIN questions' = DOMAIN questions
    BY <2>1
  <2>. QED BY <2>1, <2>3, <2>4, StemsFacts, SameApart
<1>5. CASE PatchQuestionSaves(r)
  <2>. DEFINE old == Over(req[r].edit, req[r].copy)
              new == [old EXCEPT !.scripts = questions[q].scripts]
  <2>1. /\ Goes(r, "patch", IF questions[q].there THEN "patched" ELSE "script")
        /\ questions' = [questions EXCEPT ![q] = new]
        /\ shared' = shared \cup
             (IF ~questions[q].there
              THEN {"revived"}
              ELSE IF new.repo = questions[q].repo THEN {} ELSE {"moved"})
        /\ relations' = relations
    BY <1>5 DEF PatchQuestionSaves
  <2>2. req[r].op = "patch"
    BY <2>1 DEF Goes
  <2>3. /\ q \in DOMAIN questions /\ questions[q] \in QuestionRow /\ req[r].copy \in QuestionRow
        /\ req[r].copy.there /\ req[r].edit \in Changed
    BY <1>1, <2>2 DEF JobInv, Patching
  <2>4. old \in QuestionRow /\ old.there
    BY <2>3, EditsFit, OverQuestion
  <2>. HIDE DEF old
  <2>5. questions[q].there
    BY <2>1
  <2>6. shared = {} /\ new.repo = questions[q].repo
    BY <2>1, <2>5
  <2>7. new.there = old.there /\ new.scripts = questions[q].scripts
    BY <2>4 DEF QuestionRow
  <2>. HIDE DEF new
  <2>8. \A k \in DOMAIN questions : /\ questions'[k].there = questions[k].there
                                    /\ questions'[k].repo = questions[k].repo
                                    /\ questions'[k].scripts = questions[k].scripts
    <3>1. old.there = TRUE /\ questions[q].there = TRUE
      BY <2>3, <2>4, <2>5 DEF QuestionRow
    <3>2. /\ questions'[q].there = questions[q].there
          /\ questions'[q].repo = questions[q].repo
          /\ questions'[q].scripts = questions[q].scripts
      BY <2>1, <2>3, <2>6, <2>7, <3>1
    <3>3. \A k \in DOMAIN questions \ {q} : questions'[k] = questions[k]
      BY <2>1
    <3>. QED BY <3>2, <3>3
  <2>9. Goes(r, "patch", "patched") /\ DOMAIN questions' = DOMAIN questions
    BY <2>1, <2>5
  <2>. QED BY <2>1, <2>6, <2>8, <2>9, StemsFacts, SameApart
<1>6. CASE PatchQuestionSavesScript(r)
  <2>1. /\ Goes(r, "patched", "over") /\ UNCHANGED <<relations, shared>>
        /\ questions' = IF questions[q].there /\ questions[q].scripts = 0
                        THEN [questions EXCEPT ![q].scripts = 1] ELSE questions
    BY <1>6 DEF PatchQuestionSavesScript, watched
  <2>2. req[r].op = "patched"
    BY <2>1 DEF Goes
  <2>3. questions[q].there => questions[q].scripts = 1
    BY <2>1, <2>2 DEF Apart, ScriptsApart, Patching
  <2>4. questions' = questions
    BY <2>1, <2>3
  <2>. QED BY <2>1, <2>4, StemsFacts, SameApart
<1>. QED BY <1>2, <1>3, <1>4, <1>5, <1>6

(* AddQuestion looks for the repository, and for another that adds it.      *)
LEMMA LooksApart ==
  ASSUME Control, Apart, shared' = {}, NEW r \in Request, AddQuestionLooks(r)
  PROVE  Apart'
<1>1. PICK repo \in Repo, w \in Window :
        /\ WithRepo(repo) = {}
        /\ Starts(r, "add", 0, <<>>, [repo |-> repo, start |-> w[1], end |-> w[2]])
        /\ shared' = shared \cup
             {"overlap" : s \in {t \in Request : req[t].op = "add" /\ req[t].edit.repo = repo}}
        /\ UNCHANGED <<questions, relations>>
  BY DEF AddQuestionLooks, tables
<1>2. shared = {} /\ \A t \in Request : ~Adding(t, repo)
  BY <1>1 DEF Adding
<1>3. NamesApart /\ AddsApart /\ RelationsApart /\ ForksApart /\ ScriptsApart
  BY <1>2 DEF Apart
<1>4. /\ req'[r].op = "add" /\ req'[r].edit.repo = repo
      /\ \A s \in Request \ {r} : req'[s] = req[s]
  <2>1. req' = [req EXCEPT ![r] = [op |-> "add", id |-> 0, copy |-> <<>>,
                                   edit |-> [repo |-> repo, start |-> w[1], end |-> w[2]]]]
    BY <1>1 DEF Starts
  <2>. QED BY <2>1 DEF Control, Jobs
<1>5. Questions' = Questions /\ \A p : WithRepo(p)' = WithRepo(p)
  BY <1>1 DEF Questions, WithRepo
<1>6. AddsApart'
  <2>1. ASSUME NEW s \in Request, req'[s].op = "add"
        PROVE  /\ WithRepo(req'[s].edit.repo) = {}
               /\ \A t \in Request \ {s} :
                    ~(req'[t].op = "add" /\ req'[t].edit.repo = req'[s].edit.repo)
    <3>1. CASE s = r
      BY <1>1, <1>2, <1>4, <3>1 DEF Adding
    <3>2. CASE s # r
      <4>1. req'[s] = req[s] /\ ~Adding(s, repo)
        BY <1>2, <1>4, <3>2
      <4>. QED BY <1>3, <1>4, <2>1, <4>1 DEF AddsApart, Adding
    <3>. QED BY <3>1, <3>2
  <2>2. ASSUME NEW s \in Request, req'[s].op = "add"
        PROVE  {q \in Questions' : questions'[q].repo = req'[s].edit.repo} = {}
    BY <1>1, <1>5, <2>1, <2>2 DEF WithRepo
  <2>. QED BY <2>1, <2>2 DEF AddsApart, Adding, WithRepo
<1>7. NamesApart' /\ RelationsApart'
  BY <1>1, <1>3, <1>5 DEF NamesApart, RelationsApart
<1>8. ScriptsApart'
  BY <1>1, <1>3, <1>4 DEF ScriptsApart, Makes, Making, Patching
<1>9. ForksApart'
  BY <1>1, <1>3, <1>4 DEF ForksApart, Named, Forking
<1>. QED BY <1>6, <1>7, <1>8, <1>9 DEF Apart

(* The question that is added has a repository of its own.                  *)
LEMMA CreatesApart ==
  ASSUME Control, Apart, shared' = {}, NEW r \in Request, AddQuestionCreates(r)
  PROVE  Apart'
<1>. DEFINE a == req[r].edit
            i == Len(questions) + 1
            new == [there |-> TRUE, repo |-> a.repo, start |-> OrNow(a.start),
                    end |-> OrNow(a.end), active |-> TRUE, scripts |-> 0]
<1>1. /\ req[r].op = "add" /\ questions' = Append(questions, new)
      /\ req' = [req EXCEPT ![r].op = "script", ![r].id = i, ![r].edit = <<>>]
      /\ shared' = shared \cup (Clash(a.repo, "none") \ {"none"})
      /\ relations' = relations
  BY DEF AddQuestionCreates
<1>2. /\ questions \in Seq(QuestionRow) /\ req \in [Request -> Job]
      /\ \A s \in Request : req[s].op \in Making \cup Patching => req[s].id \in DOMAIN questions
      /\ \A d \in DOMAIN relations : relations[d].question \in Questions
  BY DEF Control, Tables, Jobs, JobInv
<1>3. new.there = TRUE /\ new.repo = a.repo /\ new.scripts = 0
  OBVIOUS
<1>. HIDE DEF new
<1>4. /\ DOMAIN questions' = DOMAIN questions \cup {i} /\ i \notin DOMAIN questions
      /\ questions'[i] = new /\ \A k \in DOMAIN questions : questions'[k] = questions[k]
  BY <1>1, <1>2
<1>5. Questions' = Questions \cup {i} /\ i \notin Questions
  BY <1>3, <1>4 DEF Questions
<1>6. shared = {} /\ Clash(a.repo, "none") \subseteq {"none"}
  BY <1>1
<1>7. NamesApart /\ AddsApart /\ RelationsApart /\ ForksApart /\ ScriptsApart
  BY <1>6 DEF Apart
<1>8. \A q \in Questions : questions[q].repo # a.repo /\ questions[q].repo[2] # a.repo[2]
  <2>1. WithRepo(a.repo) = {}
    BY <1>1, <1>7 DEF AddsApart
  <2>2. ASSUME NEW q \in Questions, questions[q].repo # a.repo, questions[q].repo[2] = a.repo[2]
        PROVE  FALSE
    <3>1. "owners" \in Clash(a.repo, "none")
      BY <2>2 DEF Clash
    <3>. QED BY <1>6, <3>1
  <2>. QED BY <2>1, <2>2 DEF WithRepo
<1>9. NamesApart'
  <2>1. ASSUME NEW p \in Questions', NEW q \in Questions', p # q
        PROVE  questions'[p].repo[2] # questions'[q].repo[2]
    <3>1. CASE p \in Questions /\ q \in Questions
      BY <1>4, <1>7, <2>1, <3>1 DEF NamesApart, Questions
    <3>2. CASE p = i /\ q \in Questions
      BY <1>3, <1>4, <1>8, <3>2 DEF Questions
    <3>3. CASE q = i /\ p \in Questions
      BY <1>3, <1>4, <1>8, <3>3 DEF Questions
    <3>. QED BY <1>5, <2>1, <3>1, <3>2, <3>3
  <2>. QED BY <2>1 DEF NamesApart
<1>10. /\ req'[r].op = "script" /\ req'[r].id = i
       /\ \A s \in Request \ {r} : req'[s] = req[s]
  <2>. DEFINE p == [req[r] EXCEPT !.op = "script", !.id = i, !.edit = <<>>]
  <2>1. req' = [req EXCEPT ![r] = p]
    BY <1>1, <1>2
  <2>2. p.op = "script" /\ p.id = i
    BY <1>2 DEF Job
  <2>. HIDE DEF p
  <2>. QED BY <1>2, <2>1, <2>2
<1>11. AddsApart'
  <2>1. ASSUME NEW s \in Request, req'[s].op = "add"
        PROVE  /\ \A q \in Questions' : questions'[q].repo # req'[s].edit.repo
               /\ \A t \in Request \ {s} : ~(req'[t].op = "add" /\ req'[t].edit.repo = req'[s].edit.repo)
    <3>1. s # r /\ req'[s] = req[s]
      BY <1>10, <2>1
    <3>2. /\ WithRepo(req[s].edit.repo) = {}
          /\ \A t \in Request \ {s} : ~Adding(t, req[s].edit.repo)
      BY <1>7, <2>1, <3>1 DEF AddsApart
    <3>3. a.repo # req[s].edit.repo
      BY <1>1, <3>1, <3>2 DEF Adding
    <3>4. PICK repo : repo = req[s].edit.repo
      OBVIOUS
    <3>5. \A q \in Questions' : questions'[q].repo # repo
      BY <1>3, <1>4, <1>5, <3>2, <3>3, <3>4 DEF WithRepo, Questions
    <3>. QED BY <1>10, <3>1, <3>2, <3>4, <3>5 DEF Adding
  <2>2. ASSUME NEW s \in Request, req'[s].op = "add"
        PROVE  {q \in Questions' : questions'[q].repo = req'[s].edit.repo} = {}
    BY <2>1, <2>2
  <2>. QED BY <2>1, <2>2 DEF AddsApart, Adding, WithRepo
<1>12. RelationsApart'
  <2>1. \A d \in DOMAIN relations : questions'[relations[d].question] = questions[relations[d].question]
    BY <1>2, <1>4 DEF Questions
  <2>. QED BY <1>1, <1>7, <2>1 DEF RelationsApart
<1>13. ScriptsApart'
  <2>1. ASSUME NEW q \in DOMAIN questions' PROVE questions'[q].scripts <= 1
    BY <1>3, <1>4, <1>7 DEF ScriptsApart
  <2>2. ASSUME NEW s \in Request, req'[s].op \in Making
        PROVE  /\ questions'[req'[s].id].scripts = 0
               /\ \A t \in Request \ {s} : ~(req'[t].op \in Making /\ req'[t].id = req'[s].id)
    <3>1. CASE s = r
      BY <1>2, <1>3, <1>4, <1>10, <3>1
    <3>2. CASE s # r
      <4>1. req'[s] = req[s] /\ req[s].id \in DOMAIN questions
        BY <1>2, <1>10, <2>2, <3>2
      <4>2. /\ questions[req[s].id].scripts = 0
            /\ \A t \in Request \ {s} : ~Makes(t, req[s].id)
        BY <1>7, <2>2, <4>1 DEF ScriptsApart
      <4>. QED BY <1>4, <1>10, <4>1, <4>2 DEF Makes
    <3>. QED BY <3>1, <3>2
  <2>3. ASSUME NEW s \in Request, req'[s].op \in Patching, questions'[req'[s].id].there
        PROVE  questions'[req'[s].id].scripts = 1
    <3>1. s # r
      BY <1>10, <2>3 DEF Patching
    <3>2. req'[s] = req[s] /\ req[s].id \in DOMAIN questions
      BY <1>2, <1>10, <2>3, <3>1
    <3>. QED BY <1>4, <1>7, <2>3, <3>2 DEF ScriptsApart
  <2>. QED BY <2>1, <2>2, <2>3 DEF ScriptsApart, Makes
<1>14. ForksApart'
  <2>1. ASSUME NEW s \in Request, req'[s].op \in Forking PROVE Named(s)'
    <3>1. s # r
      BY <1>10, <2>1 DEF Forking
    <3>2. req'[s] = req[s]
      BY <1>10, <3>1
    <3>. QED BY <1>4, <1>7, <2>1, <3>2, NamedStays
  <2>. QED BY <2>1 DEF ForksApart
<1>. QED BY <1>9, <1>11, <1>12, <1>13, <1>14 DEF Apart


(* A script is made by the one request that was to make it.                 *)
LEMMA ScriptApart ==
  ASSUME Control, Apart, shared' = {}, NEW r \in Request,
         AddQuestionScript(r) \/ PostSandboxCmdCreates(r)
  PROVE  Apart'
<1>. DEFINE i == req[r].id
<1>1. PICK from \in Making : Goes(r, from, "over") /\ CreateScript(i) /\ shared' = shared
  BY DEF AddQuestionScript, PostSandboxCmdCreates, Making, watched
<1>2. /\ req[r].op \in Making /\ req'[r] = Idle /\ \A s \in Request \ {r} : req'[s] = req[s]
  BY <1>1, GoesFacts DEF Became
<1>3. /\ Tables /\ i \in DOMAIN questions
      /\ \A s \in Request : req[s].op \in Making \cup Patching => req[s].id \in DOMAIN questions
  BY <1>2 DEF Control, Jobs, JobInv
<1>4. /\ DOMAIN questions' = DOMAIN questions /\ relations' = relations
      /\ \A k \in DOMAIN questions \ {i} : questions'[k] = questions[k]
      /\ \A k \in DOMAIN questions : /\ questions'[k].there = questions[k].there
                                     /\ questions'[k].repo = questions[k].repo
      /\ questions'[i].scripts = questions[i].scripts + IF questions[i].there THEN 1 ELSE 0
  BY <1>1, <1>3, ScriptFacts
<1>5. NamesApart /\ AddsApart /\ RelationsApart /\ ForksApart /\ ScriptsApart
  BY <1>1 DEF Apart
<1>6. questions[i].scripts = 0 /\ \A s \in Request \ {r} : ~Makes(s, i)
  BY <1>2, <1>5 DEF ScriptsApart
<1>7. Questions' = Questions /\ \A p : WithRepo(p)' = WithRepo(p)
  BY <1>4 DEF Questions, WithRepo
<1>8. NamesApart'
  BY <1>4, <1>5, <1>7 DEF NamesApart, Questions
<1>9. AddsApart'
  BY <1>2, <1>5, <1>7, IdleFacts DEF AddsApart, Adding
<1>10. RelationsApart'
  BY <1>3, <1>4, <1>5 DEF RelationsApart, Tables, Questions
<1>11. ScriptsApart'
  <2>1. \A q \in DOMAIN questions' : questions'[q].scripts <= 1
    BY <1>4, <1>5, <1>6 DEF ScriptsApart
  <2>2. ASSUME NEW s \in Request, req'[s].op \in Making
        PROVE  /\ questions'[req'[s].id].scripts = 0
               /\ \A t \in Request \ {s} : ~(req'[t].op \in Making /\ req'[t].id = req'[s].id)
    <3>1. s # r
      BY <1>2, <2>2, IdleFacts DEF Making
    <3>2. req'[s] = req[s] /\ req[s].id \in DOMAIN questions /\ req[s].id # i
      BY <1>2, <1>3, <1>6, <2>2, <3>1 DEF Makes
    <3>3. questions[req[s].id].scripts = 0 /\ \A t \in Request \ {s} : ~Makes(t, req[s].id)
      BY <1>5, <2>2, <3>2 DEF ScriptsApart
    <3>4. Idle.op \notin Making
      BY IdleFacts DEF Making
    <3>. QED BY <1>2, <1>4, <3>2, <3>3, <3>4 DEF Makes
  <2>3. ASSUME NEW s \in Request, req'[s].op \in Patching, questions'[req'[s].id].there
        PROVE  questions'[req'[s].id].scripts = 1
    <3>1. s # r
      BY <1>2, <2>3, IdleFacts DEF Patching
    <3>2. req'[s] = req[s] /\ req[s].id \in DOMAIN questions
      BY <1>2, <1>3, <2>3, <3>1
    <3>3. questions[req[s].id].scripts = 1
      BY <1>4, <1>5, <2>3, <3>2 DEF ScriptsApart
    <3>. QED BY <1>4, <1>6, <3>2, <3>3
  <2>. QED BY <2>1, <2>2, <2>3 DEF ScriptsApart, Makes
<1>12. ForksApart'
  <2>1. ASSUME NEW s \in Request, req'[s].op \in Forking PROVE Named(s)'
    <3>1. s # r
      BY <1>2, <2>1, IdleFacts DEF Forking
    <3>2. req'[s] = req[s]
      BY <1>2, <3>1
    <3>. QED BY <1>4, <1>5, <2>1, <3>2, NamedStays
  <2>. QED BY <2>1 DEF ForksApart
<1>. QED BY <1>8, <1>9, <1>10, <1>11, <1>12 DEF Apart

(* PatchQuestion starts with a question that has its script, PostSandboxCmd *)
(* with one that nobody else is about to give one.                          *)
LEMMA ReadsApart ==
  ASSUME Control, Apart, shared' = {}, NEW r \in Request,
         PatchQuestionReads(r) \/ PostSandboxCmdLooks(r)
  PROVE  Apart'
<1>1. UNCHANGED <<questions, relations>> /\ shared = {}
  BY DEF PatchQuestionReads, PostSandboxCmdLooks, tables, watched
<1>2. NamesApart /\ AddsApart /\ RelationsApart /\ ForksApart /\ ScriptsApart
  BY <1>1 DEF Apart
<1>3. PICK q \in Questions, op \in {"patch", "cmd"} :
        /\ \E copy, edit : Starts(r, op, q, copy, edit)
        /\ op = "patch" => q \in Scripted
        /\ op = "cmd" => /\ q \notin Scripted
                         /\ \A t \in Request : ~(req[t].op \in {"script", "cmd"} /\ req[t].id = q)
  <2>1. CASE PatchQuestionReads(r)
    BY <2>1 DEF PatchQuestionReads, Scripted
  <2>2. CASE PostSandboxCmdLooks(r)
    <3>1. PICK q \in Questions \ Scripted :
            /\ Starts(r, "cmd", q, <<>>, <<>>)
            /\ shared' = shared \cup
                 {"scripts" : t \in {x \in Request : req[x].op \in {"script", "cmd"} /\ req[x].id = q}}
      BY <2>2 DEF PostSandboxCmdLooks
    <3>2. \A t \in Request : ~(req[t].op \in {"script", "cmd"} /\ req[t].id = q)
      BY <3>1
    <3>. QED BY <3>1, <3>2
  <2>. QED BY <2>1, <2>2
<1>4. req'[r].op = op /\ req'[r].id = q /\ \A s \in Request \ {r} : req'[s] = req[s]
  BY <1>3 DEF Starts, Control, Jobs
<1>5. Questions' = Questions /\ \A p : WithRepo(p)' = WithRepo(p)
  BY <1>1 DEF Questions, WithRepo
<1>6. NamesApart' /\ RelationsApart'
  BY <1>1, <1>2, <1>5 DEF NamesApart, RelationsApart
<1>7. AddsApart'
  BY <1>2, <1>3, <1>4, <1>5 DEF AddsApart, Adding
<1>8. ScriptsApart'
  <2>1. questions[q].scripts <= 1 /\ questions[q].scripts \in Nat
    <3>1. questions[q] \in QuestionRow
      BY DEF Control, Tables, Questions
    <3>. QED BY <1>2, <3>1 DEF ScriptsApart, QuestionRow, Questions
  <2>2. CASE op = "patch"
    <3>1. questions[q].scripts = 1
      BY <1>3, <2>1, <2>2 DEF Scripted
    <3>. QED BY <1>1, <1>2, <1>4, <2>2, <3>1 DEF ScriptsApart, Makes, Making, Patching
  <2>3. CASE op = "cmd"
    <3>1. questions[q].scripts = 0 /\ questions[q].there
      BY <1>3, <2>3 DEF Scripted, Questions
    <3>2. \A t \in Request : ~Makes(t, q)
      BY <1>3, <2>3 DEF Makes, Making
    <3>. QED BY <1>1, <1>2, <1>4, <2>3, <3>1, <3>2 DEF ScriptsApart, Makes, Making, Patching
  <2>. QED BY <1>3, <2>2, <2>3
<1>9. ForksApart'
  BY <1>1, <1>2, <1>4 DEF ForksApart, Named, Forking
<1>. QED BY <1>6, <1>7, <1>8, <1>9 DEF Apart

(* A question without relation goes, with its scripts.                      *)
LEMMA DeleteApart ==
  ASSUME Control, Apart, shared' = {}, NEW i \in DOMAIN questions, DeleteQuestion(i)
  PROVE  Apart'
<1>1. /\ RelationsOf(i) = {} /\ UNCHANGED <<relations, req, shared>>
      /\ questions' = [questions EXCEPT ![i].there = FALSE, ![i].scripts = 0]
  BY DEF DeleteQuestion, watched
<1>2. /\ questions \in Seq(QuestionRow) /\ \A d \in DOMAIN relations : relations[d].question \in Questions
      /\ \A s \in Request : req[s].op \in Making \cup Patching => req[s].id \in DOMAIN questions
  BY DEF Control, Tables, Jobs, JobInv
<1>3. /\ questions'[i].there = FALSE /\ questions'[i].scripts = 0
      /\ DOMAIN questions' = DOMAIN questions
      /\ \A k \in DOMAIN questions \ {i} : questions'[k] = questions[k]
  <2>. DEFINE new == [questions[i] EXCEPT !.there = FALSE, !.scripts = 0]
  <2>1. questions' = [questions EXCEPT ![i] = new]
    BY <1>1, <1>2
  <2>2. questions[i] \in QuestionRow
    BY <1>2
  <2>3. new.there = FALSE /\ new.scripts = 0
    BY <2>2 DEF QuestionRow
  <2>. HIDE DEF new
  <2>. QED BY <1>2, <2>1, <2>3
<1>4. NamesApart /\ AddsApart /\ RelationsApart /\ ForksApart /\ ScriptsApart
  BY <1>1 DEF Apart
<1>5. Questions' \subseteq Questions \ {i}
  BY <1>3 DEF Questions
<1>6. NamesApart'
  BY <1>3, <1>4, <1>5 DEF NamesApart, Questions
<1>7. AddsApart'
  <2>1. \A p : WithRepo(p)' \subseteq WithRepo(p)
    BY <1>3, <1>5 DEF WithRepo, Questions
  <2>. QED BY <1>1, <1>4, <2>1 DEF AddsApart, Adding
<1>8. RelationsApart'
  <2>1. \A d \in DOMAIN relations : relations[d].question \in DOMAIN questions \ {i}
    BY <1>1, <1>2 DEF RelationsOf, Questions
  <2>. QED BY <1>1, <1>3, <1>4, <2>1 DEF RelationsApart
<1>9. ScriptsApart'
  <2>1. \A q \in DOMAIN questions' : questions'[q].scripts <= 1
    BY <1>3, <1>4 DEF ScriptsApart
  <2>2. ASSUME NEW s \in Request, req[s].op \in Making
        PROVE  questions'[req[s].id].scripts = 0 /\ \A t \in Request \ {s} : ~Makes(t, req[s].id)
    BY <1>2, <1>3, <1>4, <2>2 DEF ScriptsApart
  <2>3. ASSUME NEW s \in Request, req[s].op \in Patching, questions'[req[s].id].there
        PROVE  questions'[req[s].id].scripts = 1
    BY <1>2, <1>3, <1>4, <2>3 DEF ScriptsApart
  <2>. QED BY <1>1, <2>1, <2>2, <2>3 DEF ScriptsApart, Makes
<1>10. ForksApart'
  <2>1. ASSUME NEW s \in Request, req'[s].op \in Forking PROVE Named(s)'
    BY <1>1, <1>3, <1>4, <2>1, NamedStays
  <2>. QED BY <2>1 DEF ForksApart
<1>. QED BY <1>6, <1>7, <1>8, <1>9, <1>10 DEF Apart

(* A user gets a repository: it has the name of the question's, and so does *)
(* the relation, unless the question has gone.                              *)
LEMMA ForkApart ==
  ASSUME Control, Apart, shared' = {}, NEW r \in Request,
         RepositoryLooks(r) \/ RepositoryHooks(r) \/ RepositoryFinds(r) \/ RepositoryRelates(r)
  PROVE  Apart'
<1>1. UNCHANGED <<questions, shared>> /\ shared = {}
  BY DEF RepositoryLooks, RepositoryHooks, RepositoryFinds, RepositoryRelates, tables, watched
<1>2. ForksApart /\ RelationsApart
  BY <1>1 DEF Apart
<1>3. CASE RepositoryLooks(r)
  <2>1. PICK q \in Questions :
          Starts(r, "fork", q, <<>>, [name |-> questions[q].repo[2]]) /\ relations' = relations
    BY <1>3 DEF RepositoryLooks, tables
  <2>2. PICK p : p = [op |-> "fork", id |-> q, copy |-> <<>>,
                      edit |-> [name |-> questions[q].repo[2]]]
    OBVIOUS
  <2>3. req'[r] = p /\ \A s \in Request \ {r} : req'[s] = req[s]
    BY <2>1, <2>2 DEF Starts, Control, Jobs
  <2>4. p.op \in Forking /\ p.id = q /\ p.edit.name = questions[q].repo[2]
    BY <2>2 DEF Forking
  <2>5. Named(r)'
    BY <1>1, <2>3, <2>4 DEF Named
  <2>6. \A s \in Request : Stems(s)
    BY <2>3, <2>4, <2>5 DEF Stems
  <2>. QED BY <1>1, <2>1, <2>6, SameApart
<1>4. CASE RepositoryHooks(r) \/ RepositoryFinds(r)
  <2>1. PICK from \in Forking, to \in Hooking \cup {"over"} :
          Goes(r, from, to) /\ relations' = relations
    BY <1>4 DEF RepositoryHooks, RepositoryFinds, tables, Forking, Hooking
  <2>2. /\ req[r].op = from /\ Became(req[r], req'[r], to)
        /\ \A s \in Request \ {r} : req'[s] = req[s]
    <3>1. to \in Op \cup {"over"}
      BY DEF Hooking, Op
    <3>. QED BY <2>1, <3>1, GoesFacts
  <2>3. Stems(r)
    <3>1. CASE to = "over"
      BY <2>2, <3>1, IdleFacts DEF Became, Stems, Quiet
    <3>2. CASE to # "over"
      <4>1. req'[r].op \in Forking /\ req'[r].id = req[r].id /\ req'[r].edit = req[r].edit
        BY <2>2, <3>2 DEF Became, Hooking, Forking
      <4>2. Named(r)'
        BY <1>1, <1>2, <2>2, <4>1, NamedStays
      <4>. QED BY <4>1, <4>2 DEF Stems
    <3>. QED BY <3>1, <3>2
  <2>4. \A s \in Request : Stems(s)
    BY <2>2, <2>3 DEF Stems
  <2>. QED BY <1>1, <2>1, <2>4, SameApart
<1>5. CASE RepositoryRelates(r)
  <2>. DEFINE i   == req[r].id
              new == [question |-> i, name |-> req[r].edit.name]
              n   == Len(relations) + 1
  <2>1. /\ Goes(r, "relate", "over")
        /\ relations' = IF questions[i].there THEN Append(relations, new) ELSE relations
    BY <1>5 DEF RepositoryRelates
  <2>2. \A s \in Request : Stems(s)
    BY <2>1, StemsFacts
  <2>3. Named(r)
    BY <1>2, <2>1 DEF Goes, ForksApart, Forking
  <2>4. new.question = i /\ new.name = req[r].edit.name
    OBVIOUS
  <2>. HIDE DEF new
  <2>5. RelationsApart'
    <3>1. CASE ~questions[i].there
      BY <1>1, <1>2, <2>1, <3>1 DEF RelationsApart
    <3>2. CASE questions[i].there
      <4>1. relations \in Seq([question : Nat, name : RepoName])
        BY DEF Control, Tables
      <4>2. /\ DOMAIN relations' = DOMAIN relations \cup {n} /\ relations'[n] = new
            /\ \A d \in DOMAIN relations : relations'[d] = relations[d]
        BY <2>1, <3>2, <4>1
      <4>3. new.name = questions[i].repo[2]
        BY <2>3, <2>4, <3>2 DEF Named
      <4>. QED BY <1>1, <1>2, <2>4, <4>2, <4>3 DEF RelationsApart
    <3>. QED BY <3>1, <3>2
  <2>. QED BY <1>1, <2>2, <2>5, SameApart
<1>. QED BY <1>3, <1>4, <1>5

(* Every step keeps apart what is not shared.                               *)
LEMMA ApartNext == Control /\ Apart /\ [Next]_vars => Apart'
<1>. SUFFICES ASSUME Control, Apart, [Next]_vars, shared' = {} PROVE Apart'
  BY DEF Apart
<1>1. ASSUME UNCHANGED <<questions, relations, shared>>, \A r \in Request : Stems(r) PROVE Apart'
  BY <1>1, SameApart
<1>2. ASSUME NEW r \in Request,
             \/ AddQuestion(r) \/ PatchQuestion(r) \/ PostSandboxCmd(r)
             \/ UpdateExam(r) \/ UpdateQuestionInExam(r) \/ CreateRepository(r) \/ Fails(r)
      PROVE  Apart'
  BY <1>2, QuietApart, LooksApart, CreatesApart, ScriptApart, ReadsApart, ForkApart
     DEF AddQuestion, PatchQuestion, PostSandboxCmd, UpdateExam, UpdateQuestionInExam,
         CreateRepository
<1>3. ASSUME NEW q \in DOMAIN questions, DeleteQuestion(q) PROVE Apart'
  BY <1>3, DeleteApart
<1>4. ASSUME NEW e \in DOMAIN exams,
             \/ DeleteExam(e)
             \/ \E q \in DOMAIN questions : AddQuestionToExam(e, q) \/ RemoveQuestionFromExam(e, q)
      PROVE  Apart'
  <2>1. UNCHANGED <<questions, relations, shared, req>>
    BY <1>4 DEF DeleteExam, AddQuestionToExam, RemoveQuestionFromExam, watched
  <2>. QED BY <1>1, <2>1 DEF Stems
<1>5. ASSUME CreateExam \/ CheckHooks \/ Pass PROVE Apart'
  <2>1. UNCHANGED <<questions, relations, shared, req>>
    BY <1>5 DEF CreateExam, CheckHooks, Renews, Pass, watched, tables
  <2>. QED BY <1>1, <2>1 DEF Stems
<1>6. ASSUME Restart PROVE Apart'
  <2>1. UNCHANGED <<questions, relations, shared>> /\ req' = [r \in Request |-> Idle]
    BY <1>6 DEF Restart, watched, tables
  <2>2. \A r \in Request : Stems(r)
    BY <2>1, IdleFacts DEF Stems, Quiet
  <2>. QED BY <1>1, <2>1, <2>2
<1>7. ASSUME UNCHANGED vars PROVE Apart'
  <2>1. UNCHANGED <<questions, relations, shared, req>>
    BY <1>7 DEF vars, tables, watched
  <2>. QED BY <1>1, <2>1 DEF Stems
<1>. QED BY <1>2, <1>3, <1>4, <1>5, <1>6, <1>7 DEF Next, Handle

(* At the start there is one question and no relation.                      *)
LEMMA ApartInit == Init => Apart
<1>. SUFFICES ASSUME Init PROVE Apart
  OBVIOUS
<1>1. PICK repo \in First, w \in Window :
        questions = <<[there |-> TRUE, repo |-> repo, start |-> w[1], end |-> w[2],
                       active |-> TRUE, scripts |-> 1]>>
  BY DEF Init
<1>2. DOMAIN questions = {1} /\ questions[1].scripts = 1
  BY <1>1
<1>3. relations = <<>> /\ req = [r \in Request |-> Idle]
  BY DEF Init
<1>4. NamesApart /\ RelationsApart
  BY <1>2, <1>3 DEF NamesApart, RelationsApart, Questions
<1>5. AddsApart /\ ScriptsApart /\ ForksApart
  BY <1>2, <1>3, IdleFacts DEF AddsApart, ScriptsApart, ForksApart, Making, Patching, Forking
<1>. QED BY <1>4, <1>5 DEF Apart

(* As long as nothing has come to be shared, whichever relation of its      *)
(* repository a push finds is about its own question, and it is judged with *)
(* the one script of that; two requests may have made two relations.        *)
THEOREM PushesReachOwn == Spec => []PushReachesOwn
<1>1. Control /\ Apart => PushReachesOwn
  <2>. SUFFICES ASSUME Control, Apart, shared = {}, NEW d \in DOMAIN relations
                PROVE  /\ \A f \in PushFinds(relations[d].name) :
                            relations[f].question = relations[d].question
                       /\ ScriptsFor(relations[d].question) \subseteq {relations[d].question}
                       /\ questions[relations[d].question].scripts <= 1
    BY DEF PushReachesOwn
  <2>1. NamesApart /\ RelationsApart /\ ScriptsApart
    BY DEF Apart
  <2>2. \A e \in DOMAIN relations : relations[e].question \in Questions
    BY DEF Control, Tables
  <2>3. \A f \in PushFinds(relations[d].name) : relations[f].question = relations[d].question
    BY <2>1, <2>2 DEF PushFinds, NamesApart, RelationsApart
  <2>4. ScriptsFor(relations[d].question) \subseteq {relations[d].question}
    BY <2>1, <2>2, ApartRepos DEF ScriptsFor, Scripted
  <2>. QED BY <2>1, <2>2, <2>3, <2>4 DEF ScriptsApart, Questions
<1>2. Spec => [](Control /\ Apart)
  BY ApartInit, Controlled, ApartNext, PTL DEF Spec
<1>. QED BY <1>1, <1>2, PTL

-----------------------------------------------------------------------------
(* Hooks.                                                                   *)

(* What handlers do to relations and hooks.                                 *)
LEMMA HandleHooks ==
  ASSUME Handle
  PROVE  /\ shared \subseteq shared' /\ UNCHANGED <<since, missed>>
         /\ \/ UNCHANGED <<relations, hooks>>
            \/ \E r \in Request : RepositoryHooks(r) \/ RepositoryRelates(r)
<1>. USE DEF watched, tables
<1>1. ASSUME NEW r \in Request,
             \/ AddQuestion(r) \/ PatchQuestion(r) \/ PostSandboxCmd(r)
      PROVE  shared \subseteq shared' /\ UNCHANGED <<since, missed, relations, hooks>>
  <2>1. CASE AddQuestion(r)
    BY <2>1 DEF AddQuestion, AddQuestionLooks, AddQuestionCreates, AddQuestionScript, CreateScript,
                Starts, Begins, Goes
  <2>2. CASE PatchQuestion(r)
    BY <2>2 DEF PatchQuestion, PatchQuestionReads, PatchQuestionSaves, PatchQuestionSavesScript,
                Starts, Begins, Goes
  <2>3. CASE PostSandboxCmd(r)
    BY <2>3 DEF PostSandboxCmd, PostSandboxCmdLooks, PostSandboxCmdCreates, CreateScript,
                Starts, Begins, Goes
  <2>. QED BY <1>1, <2>1, <2>2, <2>3
<1>2. ASSUME NEW r \in Request, UpdateExam(r) \/ UpdateQuestionInExam(r) \/ Fails(r)
      PROVE  UNCHANGED <<shared, since, missed, relations, hooks>>
  BY <1>2 DEF UpdateExam, UpdateExamReads, UpdateExamSaves, UpdateExamQuestions,
              UpdateQuestionInExam, UpdateQuestionInExamReads, UpdateQuestionInExamSaves, Fails,
              Starts, Begins, Goes
<1>3. ASSUME NEW q \in DOMAIN questions, DeleteQuestion(q)
      PROVE  UNCHANGED <<shared, since, missed, relations, hooks>>
  BY <1>3 DEF DeleteQuestion, Begins
<1>4. ASSUME NEW r \in Request, CreateRepository(r)
      PROVE  /\ UNCHANGED <<shared, since, missed>>
             /\ \/ UNCHANGED <<relations, hooks>>
                \/ RepositoryHooks(r) \/ RepositoryRelates(r)
  BY <1>4 DEF CreateRepository, RepositoryLooks, RepositoryHooks, RepositoryFinds,
              RepositoryRelates, Starts, Begins, Goes
<1>5. ASSUME NEW e \in DOMAIN exams,
             \/ DeleteExam(e)
             \/ \E q \in DOMAIN questions : AddQuestionToExam(e, q) \/ RemoveQuestionFromExam(e, q)
      PROVE  UNCHANGED <<shared, since, missed, relations, hooks>>
  BY <1>5 DEF DeleteExam, AddQuestionToExam, RemoveQuestionFromExam, Begins
<1>6. ASSUME CreateExam PROVE UNCHANGED <<shared, since, missed, relations, hooks>>
  BY <1>6 DEF CreateExam, Begins
<1>. QED BY <1>1, <1>2, <1>3, <1>4, <1>5, <1>6 DEF Handle

(* A hook that is made is new.                                              *)
LEMMA HookMade ==
  ASSUME Control, Orphans, NEW r \in Request, RepositoryHooks(r),
         \A q \in 1 .. MaxQuestions : open'[q] > since => open[q] > since
  PROVE  Orphans' /\ (Fresh => Fresh')
<1>1. /\ Goes(r, "fork", "hooked") /\ UNCHANGED <<since, relations, missed>>
      /\ hooks' = [hooks EXCEPT ![req[r].edit.name] = IF @ = NoHook THEN 0 ELSE @]
  BY DEF RepositoryHooks, Goes, tables, watched
<1>2. PICK name \in RepoName : name = req[r].edit.name
  <2>1. JobInv(req[r]) /\ req[r].op = "fork"
    BY <1>1 DEF Control, Jobs, Goes
  <2>2. req[r].edit \in [name : RepoName]
    BY <2>1 DEF JobInv, Forking
  <2>. QED BY <2>2
<1>3. hooks \in [RepoName -> Age] /\ since \in Nat
  BY CatalogAssumption DEF Control, Clocks
<1>4. \A m \in RepoName : hooks'[m] = hooks[m] \/ (hooks[m] = NoHook /\ hooks'[m] = 0)
  BY <1>1, <1>2, <1>3
<1>5. 0 \in 0 .. since
  BY <1>3
<1>6. Orphans'
  <2>1. \A m \in RepoName : PushFinds(m)' = PushFinds(m)
    BY <1>1 DEF PushFinds
  <2>. QED BY <1>1, <1>4, <1>5, <2>1 DEF Orphans
<1>7. ASSUME Fresh PROVE Fresh'
  <2>1. ASSUME NEW d \in DOMAIN relations,
               open'[relations[d].question] > since, relations[d].name \notin missed
        PROVE  hooks'[relations[d].name] \in 0 .. since
    <3>. DEFINE Row == [question : Nat, name : RepoName]
    <3>1. relations \in Seq(Row) /\ relations[d].question \in Questions
      BY DEF Control, Tables
    <3>. HIDE DEF Row
    <3>2. relations[d] \in Row
      BY <3>1
    <3>3. relations[d].question \in 1 .. MaxQuestions /\ relations[d].name \in RepoName
      BY <3>1, <3>2, CatalogAssumption DEF Row, Questions, Control, Tables
    <3>4. hooks[relations[d].name] \in 0 .. since
      BY <1>7, <2>1, <3>3 DEF Fresh
    <3>. QED BY <1>4, <1>5, <3>3, <3>4
  <2>. QED BY <1>1, <2>1 DEF Fresh
<1>. QED BY <1>6, <1>7

(* A relation that is made has a hook already.  If nobody else has one of   *)
(* its name, that is as young as an orphan; if somebody does, it is the     *)
(* same question's, because the name of a repository tells its question     *)
(* from all others.                                                         *)
LEMMA RelationMade ==
  ASSUME Control, Orphans, NEW r \in Request, RepositoryRelates(r),
         \A q \in 1 .. MaxQuestions : open'[q] > since => open[q] > since
  PROVE  Orphans' /\ (Apart /\ shared = {} /\ Fresh => Fresh')
<1>. DEFINE i   == req[r].id
            new == [question |-> i, name |-> req[r].edit.name]
            n   == Len(relations) + 1
<1>1. /\ Goes(r, "relate", "over") /\ UNCHANGED <<since, hooks, missed, questions>>
      /\ relations' = IF questions[i].there THEN Append(relations, new) ELSE relations
  BY DEF RepositoryRelates, Goes, watched
<1>2. /\ req[r].op = "relate" /\ i \in DOMAIN questions
      /\ req[r].edit \in [name : RepoName] /\ hooks[req[r].edit.name] # NoHook
  <2>1. JobInv(req[r]) /\ req[r].op = "relate"
    BY <1>1 DEF Control, Jobs, Goes
  <2>. QED BY <2>1 DEF JobInv, Forking, Hooking
<1>3. PICK name \in RepoName : name = req[r].edit.name /\ hooks[name] # NoHook
  BY <1>2
<1>4. new.question = i /\ new.name = name
  BY <1>3
<1>. HIDE DEF new
<1>5. relations \in Seq([question : Nat, name : RepoName])
  BY DEF Control, Tables
<1>6. /\ \A d \in DOMAIN relations : d \in DOMAIN relations' /\ relations'[d] = relations[d]
      /\ \A d \in DOMAIN relations' :
           d \in DOMAIN relations \/ (questions[i].there /\ relations'[d] = new)
  <2>1. CASE questions[i].there
    BY <1>1, <1>5, <2>1
  <2>2. CASE ~questions[i].there
    BY <1>1, <2>2
  <2>. QED BY <2>1, <2>2
<1>7. Orphans'
  <2>1. \A m \in RepoName : PushFinds(m) \subseteq PushFinds(m)'
    BY <1>6 DEF PushFinds
  <2>. QED BY <1>1, <2>1 DEF Orphans
<1>8. ASSUME Apart, shared = {}, Fresh PROVE Fresh'
  <2>1. NamesApart /\ RelationsApart /\ Named(r)
    BY <1>2, <1>8 DEF Apart, ForksApart, Forking
  <2>2. \A d \in DOMAIN relations : /\ relations[d].question \in Questions
                                    /\ relations[d].question \in 1 .. MaxQuestions
    BY CatalogAssumption DEF Control, Tables, Questions
  <2>3. ASSUME NEW d \in DOMAIN relations,
               open'[relations[d].question] > since, relations[d].name \notin missed
        PROVE  hooks[relations[d].name] \in 0 .. since
    BY <1>8, <2>2, <2>3 DEF Fresh
  <2>4. ASSUME questions[i].there, open'[i] > since, name \notin missed
        PROVE  hooks[name] \in 0 .. since
    <3>1. CASE PushFinds(name) = {}
      BY <1>3, <2>4, <3>1 DEF Orphans
    <3>2. CASE PushFinds(name) # {}
      <4>1. PICK e \in DOMAIN relations : relations[e].name = name
        BY <3>2 DEF PushFinds
      <4>2. questions[i].repo[2] = name /\ i \in Questions
        BY <1>2, <1>3, <2>1, <2>4 DEF Named, Questions
      <4>3. relations[e].question = i
        BY <2>1, <2>2, <4>1, <4>2 DEF NamesApart, RelationsApart
      <4>. QED BY <2>3, <2>4, <4>1, <4>3
    <3>. QED BY <3>1, <3>2
  <2>5. ASSUME NEW d \in DOMAIN relations',
               open'[relations'[d].question] > since, relations'[d].name \notin missed
        PROVE  hooks[relations'[d].name] \in 0 .. since
    BY <1>4, <1>6, <2>3, <2>4, <2>5
  <2>. QED BY <1>1, <2>5 DEF Fresh
<1>. QED BY <1>7, <1>8

(* Every step keeps the hooks as young as that.                             *)
LEMMA HookNext == Control /\ Apart /\ HookInv /\ [Next]_vars => HookInv'
<1>. SUFFICES ASSUME Control, Apart, HookInv, [Next]_vars PROVE HookInv'
  OBVIOUS
<1>1. /\ since \in 0 .. Period /\ Period \in Nat /\ TokenLife \in Nat /\ Period < TokenLife
      /\ hooks \in [RepoName -> Age] /\ open \in [1 .. MaxQuestions -> Nat]
  BY CatalogAssumption DEF Control, Clocks
<1>2. ASSUME NEW d \in DOMAIN relations
      PROVE  /\ relations[d].question \in 1 .. MaxQuestions
             /\ relations[d].question \in Questions /\ relations[d].name \in RepoName
  <2>. DEFINE Row == [question : Nat, name : RepoName]
  <2>1. relations \in Seq(Row) /\ relations[d].question \in Questions
    BY DEF Control, Tables
  <2>. HIDE DEF Row
  <2>2. relations[d] \in Row
    BY <2>1
  <2>. QED BY <2>1, <2>2, CatalogAssumption DEF Row, Control, Tables, Questions
<1>3. ASSUME UNCHANGED vars PROVE HookInv'
  BY <1>3 DEF vars, tables, watched, HookInv, OpenNow, Orphans, PushFinds, Fresh, Active
<1>4. ASSUME NEW units \in {0, 1}, OpenFor(units) PROVE OpenNow'
  BY <1>1, <1>4, OpenFacts DEF OpenNow, Opened
<1>5. ASSUME OpenFor(0), Handle PROVE Orphans' /\ (shared' = {} => Fresh')
  <2>1. /\ shared' = {} => shared = {}
        /\ UNCHANGED <<since, missed>>
        /\ \/ UNCHANGED <<relations, hooks>>
           \/ \E r \in Request : RepositoryHooks(r) \/ RepositoryRelates(r)
    BY <1>5, HandleHooks
  <2>2. Orphans /\ (shared' = {} => shared = {} /\ Fresh)
    BY <2>1 DEF HookInv
  <2>3. ASSUME NEW q \in 1 .. MaxQuestions, open'[q] > since PROVE open[q] > since
    BY <1>1, <1>5, <2>3, OpenBefore
  <2>4. CASE UNCHANGED <<relations, hooks>>
    <3>1. Orphans'
      BY <2>1, <2>2, <2>4 DEF Orphans, PushFinds
    <3>2. Fresh => Fresh'
      BY <1>2, <2>1, <2>3, <2>4 DEF Fresh
    <3>. QED BY <2>2, <3>1, <3>2
  <2>5. CASE \E r \in Request : RepositoryHooks(r)
    BY <2>2, <2>3, <2>5, HookMade
  <2>6. CASE \E r \in Request : RepositoryRelates(r)
    BY <2>2, <2>3, <2>6, RelationMade
  <2>. QED BY <2>1, <2>4, <2>5, <2>6
<1>6. ASSUME OpenFor(0), CheckHooks PROVE Orphans' /\ Fresh'
  <2>1. PICK failed \in SUBSET Due : Renews(Due, failed)
    BY <1>6 DEF CheckHooks
  <2>2. /\ since' = 0 /\ UNCHANGED relations
        /\ missed' = failed \cup {n \in RepoName : hooks[n] # NoHook /\ PushFinds(n) = {}}
        /\ hooks' = [n \in RepoName |-> IF n \in Due \ failed THEN 0 ELSE hooks[n]]
    BY <2>1 DEF Renews, tables
  <2>3. Orphans'
    <3>1. ASSUME NEW n \in RepoName, PushFinds(n) = {} PROVE hooks'[n] = hooks[n]
      <4>1. n \notin Due
        BY <3>1 DEF Due, PushFinds
      <4>. QED BY <2>2, <4>1
    <3>2. \A n \in RepoName : PushFinds(n)' = PushFinds(n)
      BY <2>2 DEF PushFinds
    <3>3. ASSUME NEW n \in RepoName, PushFinds(n) = {}, hooks'[n] # NoHook PROVE n \in missed'
      BY <2>2, <3>1, <3>3
    <3>. QED BY <3>2, <3>3 DEF Orphans
  <2>4. ASSUME NEW d \in DOMAIN relations, open'[relations[d].question] > 0,
               relations[d].name \notin failed
        PROVE  hooks'[relations[d].name] = 0
    <3>1. Active(relations[d].question)
      BY <1>1, <1>2, <1>6, <2>4, OpenFacts DEF Opened
    <3>2. relations[d].name \in Due
      BY <3>1 DEF Due
    <3>. QED BY <1>2, <2>2, <2>4, <3>2
  <2>. QED BY <2>2, <2>3, <2>4 DEF Fresh
<1>7. ASSUME OpenFor(0), Restart PROVE Orphans' /\ (shared' = {} => Fresh')
  <2>1. since' = Period /\ UNCHANGED <<relations, hooks, shared, missed>>
    BY <1>7 DEF Restart, tables, watched
  <2>2. Orphans'
    <3>1. \A n \in RepoName : PushFinds(n)' = PushFinds(n)
      BY <2>1 DEF PushFinds
    <3>2. 0 .. since \subseteq 0 .. Period
      BY <1>1
    <3>. QED BY <2>1, <3>1, <3>2 DEF HookInv, Orphans
  <2>3. ASSUME Fresh, NEW d \in DOMAIN relations, open'[relations[d].question] > Period,
               relations[d].name \notin missed
        PROVE  hooks[relations[d].name] \in 0 .. Period
    <3>. DEFINE q == relations[d].question
    <3>1. open[q] > Period
      <4>1. q \in 1 .. MaxQuestions /\ open'[q] > Period + 0
        BY <1>1, <1>2, <2>3
      <4>. HIDE DEF q
      <4>. QED BY <1>1, <1>7, <4>1, OpenBefore
    <3>2. open[q] > since
      BY <1>1, <1>2, <3>1
    <3>3. hooks[relations[d].name] \in 0 .. since
      BY <2>3, <3>2 DEF Fresh
    <3>. QED BY <1>1, <3>3
  <2>. QED BY <2>1, <2>2, <2>3 DEF Fresh, HookInv
<1>8. ASSUME OpenFor(1), Pass PROVE Orphans' /\ (shared' = {} => Fresh')
  <2>1. /\ since < Period /\ since' = since + 1 /\ UNCHANGED <<relations, shared, missed>>
        /\ hooks' = [n \in RepoName |->
                       IF hooks[n] \in {NoHook, TokenLife} THEN hooks[n] ELSE hooks[n] + 1]
    BY <1>8 DEF Pass, tables
  <2>2. ASSUME NEW n \in RepoName, hooks[n] \in 0 .. since PROVE hooks'[n] \in 0 .. since + 1
    <3>1. hooks'[n] = hooks[n] + 1
      BY <1>1, <2>1, <2>2 DEF NoHook
    <3>. QED BY <1>1, <2>2, <3>1
  <2>3. Orphans'
    <3>1. \A n \in RepoName : PushFinds(n)' = PushFinds(n)
      BY <2>1 DEF PushFinds
    <3>2. \A n \in RepoName : hooks'[n] # NoHook => hooks[n] # NoHook
      BY <2>1
    <3>. QED BY <2>1, <2>2, <3>1, <3>2 DEF HookInv, Orphans
  <2>4. ASSUME Fresh, NEW d \in DOMAIN relations, open'[relations[d].question] > since + 1,
               relations[d].name \notin missed
        PROVE  hooks'[relations[d].name] \in 0 .. since + 1
    <3>1. open[relations[d].question] > since
      BY <1>1, <1>2, <1>8, <2>4, OpenBefore
    <3>2. hooks[relations[d].name] \in 0 .. since
      BY <2>4, <3>1 DEF Fresh
    <3>. QED BY <1>2, <2>2, <3>2
  <2>. QED BY <2>1, <2>3, <2>4 DEF Fresh, HookInv
<1>. QED BY <1>3, <1>4, <1>5, <1>6, <1>7, <1>8 DEF Next, HookInv

(* Once a question has been active for longer than the checks are apart, a  *)
(* push of its users is let through and in time: the token in its hook is   *)
(* young enough, through restarts, checks that Gitea does not answer for    *)
(* others, and requests that leave hooks without relations.                 *)
THEOREM HooksWork == Spec => []HookWorks
<1>1. Init => Apart /\ HookInv
  <2>. SUFFICES ASSUME Init PROVE Apart /\ HookInv
    OBVIOUS
  <2>1. /\ relations = <<>> /\ hooks = [n \in RepoName |-> NoHook]
        /\ open = [q \in 1 .. MaxQuestions |-> 0]
    BY DEF Init
  <2>2. HookInv
    BY <2>1 DEF HookInv, OpenNow, Orphans, Fresh
  <2>. QED BY <2>2, ApartInit
<1>2. Control /\ Apart /\ HookInv => HookWorks
  <2>. SUFFICES ASSUME Control, HookInv, shared = {}, NEW d \in DOMAIN relations,
                       open[relations[d].question] > Period, relations[d].name \notin missed
                PROVE  TokenValid(relations[d].name) /\ PushInTime(relations[d].question)
    BY DEF HookWorks
  <2>. DEFINE q == relations[d].question
  <2>1. /\ since \in 0 .. Period /\ Period \in Nat /\ TokenLife \in Nat /\ Period < TokenLife
    BY CatalogAssumption DEF Control, Clocks
  <2>2. q \in 1 .. MaxQuestions /\ open[q] \in Nat
    BY CatalogAssumption DEF Control, Tables, Questions
  <2>3. hooks[relations[d].name] \in 0 .. since
    BY <2>1, <2>2 DEF HookInv, Fresh
  <2>4. TokenValid(relations[d].name)
    BY <2>1, <2>3 DEF TokenValid, NoHook
  <2>5. q \in DOMAIN questions /\ Active(q)
    BY <2>1, <2>2 DEF HookInv, OpenNow
  <2>6. now \in Nat /\ questions[q].start \in Nat /\ questions[q].end \in Nat
    <3>1. questions[q] \in QuestionRow
      BY <2>5 DEF Control, Tables
    <3>2. questions[q].start \in Times /\ questions[q].end \in Times
      BY <3>1 DEF QuestionRow
    <3>3. now \in Nat
      BY CatalogAssumption DEF Control, Clocks
    <3>. QED BY <3>2, <3>3, TimesFacts
  <2>7. PushInTime(q)
    <3>1. PICK s \in Nat, t \in Nat : s = questions[q].start /\ t = questions[q].end
      BY <2>6
    <3>. QED BY <2>5, <2>6, <3>1 DEF PushInTime, Active
  <2>. QED BY <2>4, <2>7
<1>3. Spec => [](Control /\ Apart /\ HookInv)
  BY <1>1, Controlled, ApartNext, HookNext, PTL DEF Spec
<1>. QED BY <1>2, <1>3, PTL
=============================================================================
