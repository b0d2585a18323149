------------------------------ MODULE Catalog ------------------------------
(***************************************************************************)
(* Questions and exams: the handlers by which admins change them           *)
(* (handlers/questions.go, handlers/exam.go), the relation that a user     *)
(* gets to a question (handlers/gitea.go), the times that decide who sees  *)
(* a question and whose push is accepted (handlers/webhook.go,             *)
(* handlers/score.go), and the check that keeps the hooks of Gitea alive   *)
(* (services/gitea_check.go).                                              *)
(*                                                                         *)
(* Time is counted in units of 5 minutes.  The times of questions and      *)
(* exams are compared with it; NoTime, the zero time.Time, comes before    *)
(* every other.  No handler uses a transaction.  Those whose statements    *)
(* can be told apart by others take several steps and read records that    *)
(* they save later; gorm's Save inserts a record that is gone.  Titles,    *)
(* limits and points are left out.                                         *)
(***************************************************************************)
EXTENDS Integers, Sequences, FiniteSets, FiniteSetsExt

CONSTANTS
  Repo,          \* <<owner, name>>: repositories of questions
  First,         \* those of the question that is there at first
  Window,        \* <<start, end>>: the times that admins enter
  Request,       \* handlers that may be under way at the same time
  MaxRequests,   \* bound on all requests
  MaxQuestions, MaxExams, MaxTime,   \* bounds on the tables and on the clock
  TokenLife,     \* an access token lives 15 minutes
  Period         \* the hooks are checked every 10 minutes

ASSUME CatalogAssumption ==
  /\ First \subseteq Repo
  /\ Window \subseteq Nat \X Nat
  /\ {MaxRequests, TokenLife, Period} \subseteq Nat
  /\ {MaxQuestions, MaxExams, MaxTime} \subseteq Nat \ {0}
  /\ Period < TokenLife

NoTime == 0
NoHook == -1
Times  == {w[1] : w \in Window} \cup {w[2] : w \in Window} \cup 0 .. MaxTime

VARIABLES
  now,         \* the clock
  questions,   \* Question by ID, with the number of its QuestionTestScripts
  exams,       \* Exam by ID
  inExam,      \* ExamQuestion: pairs of an exam and a question
  relations,   \* UserQuestionRelation of one user, by ID
  hooks,       \* per repository name: the age of the token in its hook
  since,       \* units since the hooks were checked
  req, begun,  \* per request: its step and what it has read; how many began
  shared,      \* history: how questions came to share a repository
  open,        \* history: per question, units for which it has been open
  missed       \* history: names whose hook the last check did not renew, since
               \* Gitea failed or nobody had a relation of the name yet

tables  == <<questions, exams, inExam, relations>>
watched == <<shared, missed>>     \* open is set in Next
vars    == <<now, tables, hooks, since, req, begun, watched, open>>

QuestionRow == [there : BOOLEAN, repo : Repo, start : Times, end : Times,
                active : BOOLEAN, scripts : Nat]
ExamRow     == [there : BOOLEAN, start : Times, end : Times]

RepoName == {repo[2] : repo \in Repo}
Age      == {NoHook} \cup 0 .. TokenLife

Idle == [op |-> "none", id |-> 0, copy |-> <<>>, edit |-> <<>>]

TypeOK ==
  /\ now \in 1 .. MaxTime /\ since \in 0 .. Period
  /\ questions \in Seq(QuestionRow) /\ Len(questions) <= MaxQuestions
  /\ exams \in Seq(ExamRow) /\ Len(exams) <= MaxExams
  /\ \A p \in inExam : /\ p[1] \in DOMAIN exams /\ exams[p[1]].there
                       /\ p[2] \in DOMAIN questions /\ questions[p[2]].there
  /\ \A d \in DOMAIN relations :
       /\ relations[d].name \in RepoName
       /\ questions[relations[d].question].there
  /\ hooks \in [RepoName -> Age]
  /\ begun \in 0 .. MaxRequests
  /\ \A r \in Request :
       req[r].op \in {"patch", "script", "fork", "relate"} => req[r].id \in DOMAIN questions

(* A question in an exam, with the times of the exam.                       *)
Init ==
  /\ now = 1 /\ since = Period
  /\ \E repo \in First, w \in Window :
       /\ w[1] # NoTime /\ w[2] # NoTime
       /\ questions = <<[there |-> TRUE, repo |-> repo, start |-> w[1], end |-> w[2],
                         active |-> TRUE, scripts |-> 1]>>
       /\ exams = <<[there |-> TRUE, start |-> w[1], end |-> w[2]]>>
  /\ inExam = {<<1, 1>>}
  /\ relations = <<>>
  /\ hooks = [n \in RepoName |-> NoHook]
  /\ req = [r \in Request |-> Idle] /\ begun = 0
  /\ shared = {} /\ missed = {}
  /\ open = [q \in 1 .. MaxQuestions |-> 0]

-----------------------------------------------------------------------------
(* What the handlers and the check read.                                    *)
Questions     == {q \in DOMAIN questions : questions[q].there}
Exams         == {e \in DOMAIN exams : exams[e].there}
WithRepo(p)   == {q \in Questions : questions[q].repo = p}
QuestionsOf(e) == {q \in Questions : <<e, q>> \in inExam}
Ended(q)      == questions[q].end < now

(* start_time <= now AND end_time >= now, as in GetQuestionList (its status *)
(* "active") and in giteaCheck.                                             *)
Active(q) == questions[q].start <= now /\ now <= questions[q].end

(* Mutant: the end is excluded.                                             *)
PushInTimeStrict(q) ==
  /\ questions[q].start = NoTime \/ ~(now < questions[q].start)
  /\ questions[q].end = NoTime \/ now < questions[q].end

(* PostGiteaHook: a zero time is no limit.                                  *)
PushInTime(q) ==
  /\ questions[q].start = NoTime \/ ~(now < questions[q].start)
  /\ questions[q].end = NoTime \/ ~(now > questions[q].end)

(* ReScoreUserQuestion: it is a time.                                       *)
RescoreInTime(q) == ~(questions[q].start > now) /\ ~(questions[q].end < now)

(* Who sees a question: GetQuestionList, GetExamQuestions,                  *)
(* GetQuestionByID, GetUsersQuestions and GetUserQuestionByID.              *)
Listed(isAdmin, status) ==
  {q \in Questions :
     /\ \A e \in Exams : <<e, q>> \notin inExam
     /\ isAdmin \/ questions[q].active
     /\ CASE status = "active"  -> Active(q)
          [] status = "expired" -> Ended(q)
          [] status = "all"     -> TRUE}

ExamListed(e, isAdmin) == {q \in QuestionsOf(e) : isAdmin \/ questions[q].active}

Shown(isAdmin) == {q \in Questions : questions[q].active \/ isAdmin}

RelationsOf(q) == {d \in DOMAIN relations : relations[d].question = q}
Own       == {q \in Questions : RelationsOf(q) # {} /\ questions[q].active}
OwnShown  == {q \in Questions : /\ RelationsOf(q) # {}
                                /\ questions[relations[Min(RelationsOf(q))].question].active}

(* Who sees an exam: ListExams and GetExamInfo.                             *)
ExamsListed(isAdmin) ==
  {e \in Exams : isAdmin \/ (exams[e].start < now /\ exams[e].end > now)}
ExamsShown(isAdmin) ==
  {e \in Exams : isAdmin \/ ~(now < exams[e].start \/ now > exams[e].end)}

(* What an admin can see of a question's script: GetQuestionLimitByID and   *)
(* GetQuestionScripts.                                                      *)
Scripted == {q \in Questions : questions[q].scripts # 0}

(* A push finds a relation of its repository (PostGiteaHook): the first of  *)
(* those that are committed.  Its job finds the script of any question with *)
(* the repository of that relation's question (runShellCommandByRepo).      *)
PushFinds(name) == {d \in DOMAIN relations : relations[d].name = name}
ScriptsFor(q)   == {s \in Scripted : questions[s].repo = questions[q].repo}

(* AuthMiddleware lets the push through.                                    *)
TokenValid(name) == hooks[name] # NoHook /\ hooks[name] < TokenLife

-----------------------------------------------------------------------------
Begins ==
  /\ begun < MaxRequests /\ begun' = begun + 1
  /\ UNCHANGED <<now, since>>

Starts(r, op, id, copy, edit) ==
  /\ Begins /\ req[r] = Idle
  /\ req' = [req EXCEPT ![r] = [op |-> op, id |-> id, copy |-> copy, edit |-> edit]]

Goes(r, from, to) ==
  /\ req[r].op = from
  /\ req' = [req EXCEPT ![r] = IF to = "over" THEN Idle ELSE [@ EXCEPT !.op = to]]
  /\ UNCHANGED <<now, since, begun>>

(* The default of the columns, CURRENT_TIMESTAMP, when a record is created. *)
OrNow(t) == IF t = NoTime THEN now ELSE t

(* The fields in edit replace those of the record.                          *)
Over(edit, rec) ==
  [f \in DOMAIN edit \cup DOMAIN rec |-> IF f \in DOMAIN edit THEN edit[f] ELSE rec[f]]

(* History: a question with a repository comes to be there.                 *)
Clash(repo, by) ==
  {by : q \in WithRepo(repo)}
    \cup {"owners" : q \in {p \in Questions : /\ questions[p].repo # repo
                                               /\ questions[p].repo[2] = repo[2]}}

-----------------------------------------------------------------------------
(* Mutant: nobody looks for another question with the repository.          *)
AddQuestionUnchecked(r) ==
  \E repo \in Repo, w \in Window :
    /\ Starts(r, "add", 0, <<>>, [repo |-> repo, start |-> w[1], end |-> w[2]])
    /\ UNCHANGED <<tables, hooks, watched>>

(* AddQuestion: no question has the repository; it exists in Gitea, or is   *)
(* created there.                                                           *)
AddQuestionLooks(r) ==
  \E repo \in Repo, w \in Window :
    /\ WithRepo(repo) = {}
    /\ Starts(r, "add", 0, <<>>, [repo |-> repo, start |-> w[1], end |-> w[2]])
    /\ shared' = shared \cup
         {"overlap" : s \in {t \in Request : req[t].op = "add" /\ req[t].edit.repo = repo}}
    /\ UNCHANGED <<tables, hooks, missed>>

(* IsActive of the request is not used: the default is true.                *)
AddQuestionCreates(r) ==
  LET a == req[r].edit
  IN  /\ req[r].op = "add" /\ Len(questions) < MaxQuestions
      /\ questions' = Append(questions,
           [there |-> TRUE, repo |-> a.repo, start |-> OrNow(a.start),
            end |-> OrNow(a.end), active |-> TRUE, scripts |-> 0])
      /\ req' = [req EXCEPT ![r].op = "script", ![r].id = Len(questions) + 1,
                            ![r].edit = <<>>]
      /\ shared' = shared \cup (Clash(a.repo, "none") \ {"none"})
      /\ UNCHANGED <<now, since, begun, exams, inExam, relations, hooks, missed>>

(* A script more, unless a foreign key forbids one without question.        *)
CreateScript(q) ==
  /\ questions' = IF questions[q].there
                  THEN [questions EXCEPT ![q].scripts = @ + 1] ELSE questions
  /\ UNCHANGED <<exams, inExam, relations, hooks>>

AddQuestionScript(r) ==
  Goes(r, "script", "over") /\ CreateScript(req[r].id) /\ UNCHANGED watched

(* PostSandboxCmd changes the script of the question with the repository,   *)
(* or finds none and makes one.                                             *)
PostSandboxCmdLooks(r) ==
  \E q \in Questions \ Scripted :
    /\ Starts(r, "cmd", q, <<>>, <<>>)
    /\ shared' = shared \cup
         {"scripts" : t \in {x \in Request : req[x].op \in {"script", "cmd"} /\ req[x].id = q}}
    /\ UNCHANGED <<tables, hooks, missed>>

PostSandboxCmdCreates(r) ==
  Goes(r, "cmd", "over") /\ CreateScript(req[r].id) /\ UNCHANGED watched

-----------------------------------------------------------------------------
(* PatchQuestion reads the question and its script, sets the fields that    *)
(* are given, and saves both.                                               *)
PatchQuestionReads(r) ==
  \E q \in Scripted :
    \E edit \in {[start |-> w[1]] : w \in Window} \cup {[end |-> w[1]] : w \in Window}
                 \cup {[active |-> ~questions[q].active]}
                 \cup {[repo |-> repo] : repo \in Repo \ {questions[q].repo}} :
      /\ edit \notin {[start |-> NoTime], [end |-> NoTime], [start |-> questions[q].start],
                      [end |-> questions[q].end]}
      /\ Starts(r, "patch", q, questions[q], edit)
      /\ UNCHANGED <<tables, hooks, watched>>

(* The question comes back if it was deleted, without scripts; then its     *)
(* script, which is saved next, does too.                                   *)
PatchQuestionSaves(r) ==
  LET q == req[r].id
      new == [Over(req[r].edit, req[r].copy) EXCEPT !.scripts = questions[q].scripts]
  IN  /\ Goes(r, "patch", IF questions[q].there THEN "patched" ELSE "script")
      /\ questions' = [questions EXCEPT ![q] = new]
      /\ shared' = shared \cup
           (IF ~questions[q].there
            THEN {"revived"}
            ELSE IF new.repo = questions[q].repo THEN {} ELSE {"moved"})
      /\ UNCHANGED <<exams, inExam, relations, hooks, missed>>

PatchQuestionSavesScript(r) ==
  LET q == req[r].id
  IN  /\ Goes(r, "patched", "over")
      /\ questions' = IF questions[q].there /\ questions[q].scripts = 0
                      THEN [questions EXCEPT ![q].scripts = 1] ELSE questions
      /\ UNCHANGED <<exams, inExam, relations, hooks, watched>>

(* The database refuses when a relation or an exam has the question.  Its   *)
(* script goes with it.                                                     *)
DeleteQuestion(q) ==
  /\ Begins /\ q \in Questions
  /\ RelationsOf(q) = {} /\ \A e \in Exams : <<e, q>> \notin inExam
  /\ questions' = [questions EXCEPT ![q].there = FALSE, ![q].scripts = 0]
  /\ UNCHANGED <<exams, inExam, relations, hooks, req, watched>>

-----------------------------------------------------------------------------
CreateExam ==
  /\ Begins /\ Len(exams) < MaxExams
  /\ \E w \in Window :
       /\ ~(w[1] > w[2])
       /\ exams' = Append(exams, [there |-> TRUE, start |-> OrNow(w[1]),
                                  end |-> OrNow(w[2])])
  /\ UNCHANGED <<questions, inExam, relations, hooks, req, watched>>

(* UpdateExam reads the exam; times that are not given are zero.            *)
UpdateExamReads(r) ==
  \E e \in Exams, w \in Window :
    /\ w[1] = NoTime \/ w[2] = NoTime \/ ~(w[1] > w[2])
    /\ Starts(r, "exam", e, exams[e], [start |-> w[1], end |-> w[2]])
    /\ UNCHANGED <<tables, hooks, watched>>

(* The exam comes back if it was deleted.                                   *)
UpdateExamSaves(r) ==
  LET q == req[r]
      given == {f \in {"start", "end"} : q.edit[f] # NoTime}
  IN  /\ Goes(r, "exam", IF given = {} THEN "over" ELSE "times")
      /\ exams' = [exams EXCEPT ![q.id] = Over([f \in given |-> q.edit[f]], q.copy)]
      /\ UNCHANGED <<questions, inExam, relations, hooks, watched>>

(* One UPDATE of all questions of the exam, with both times of the request. *)
UpdateExamQuestions(r) ==
  LET q == req[r]
  IN  /\ Goes(r, "times", "over")
      /\ questions' = [k \in DOMAIN questions |->
                         IF k \in QuestionsOf(q.id) THEN Over(q.edit, questions[k])
                                                    ELSE questions[k]]
      /\ UNCHANGED <<exams, inExam, relations, hooks, watched>>

(* The database refuses when the exam has questions.                        *)
DeleteExam(e) ==
  /\ Begins /\ e \in Exams /\ QuestionsOf(e) = {}
  /\ exams' = [exams EXCEPT ![e].there = FALSE]
  /\ UNCHANGED <<questions, inExam, relations, hooks, req, watched>>

(* The primary key forbids a second one, foreign keys one without exam or   *)
(* question.  The question keeps its times.                                 *)
AddQuestionToExam(e, q) ==
  /\ Begins /\ e \in Exams /\ q \in Questions
  /\ <<e, q>> \notin inExam
  /\ inExam' = inExam \cup {<<e, q>>}
  /\ UNCHANGED <<questions, exams, relations, hooks, req, watched>>

UpdateQuestionInExamReads(r) ==
  \E p \in inExam :
    /\ Starts(r, "point", p[2], <<>>, [exam |-> p[1]])
    /\ UNCHANGED <<tables, hooks, watched>>

(* Mutant: without the foreign keys.                                        *)
UpdateQuestionInExamUnchecked(r) ==
  /\ Goes(r, "point", "over")
  /\ inExam' = inExam \cup {<<req[r].edit.exam, req[r].id>>}
  /\ UNCHANGED <<questions, exams, relations, hooks, watched>>

(* The question comes back into the exam if it was removed and both are     *)
(* still there.                                                             *)
UpdateQuestionInExamSaves(r) ==
  LET p == <<req[r].edit.exam, req[r].id>>
  IN  /\ req[r].op = "point" /\ Goes(r, "point", "over")
      /\ inExam' = IF p[1] \in Exams /\ p[2] \in Questions
                   THEN inExam \cup {p} ELSE inExam
      /\ UNCHANGED <<questions, exams, relations, hooks, watched>>

RemoveQuestionFromExam(e, q) ==
  /\ Begins /\ <<e, q>> \in inExam
  /\ inExam' = inExam \ {<<e, q>>}
  /\ UNCHANGED <<questions, exams, relations, hooks, req, watched>>

-----------------------------------------------------------------------------
(* PostCreateQuestionRepositoryGitea reads the question, and Gitea copies   *)
(* its repository, whose name stays what it was.                            *)
RepositoryLooks(r) ==
  \E q \in Questions :
    /\ questions[q].active
    /\ Starts(r, "fork", q, <<>>, [name |-> questions[q].repo[2]])
    /\ UNCHANGED <<tables, hooks, watched>>

(* A hook with a new access token, if the repository has none.  (A second   *)
(* one, when two requests list the hooks at the same time, comes after the  *)
(* one that the check renews.)                                              *)
RepositoryHooks(r) ==
  /\ Goes(r, "fork", "hooked")
  /\ hooks' = [hooks EXCEPT ![req[r].edit.name] = IF @ = NoHook THEN 0 ELSE @]
  /\ UNCHANGED <<tables, watched>>

RepositoryFinds(r) ==
  /\ Goes(r, "hooked", IF RelationsOf(req[r].id) = {} THEN "relate" ELSE "over")
  /\ UNCHANGED <<tables, hooks, watched>>

(* A foreign key forbids a relation without question.  No constraint        *)
(* forbids a second one.                                                    *)
RepositoryRelates(r) ==
  LET q == req[r].id
  IN  /\ Goes(r, "relate", "over")
      /\ relations' = IF questions[q].there
                      THEN Append(relations, [question |-> q, name |-> req[r].edit.name])
                      ELSE relations
      /\ UNCHANGED <<questions, exams, inExam, hooks, watched>>

Due == {relations[d].name : d \in {x \in DOMAIN relations : Active(relations[x].question)}}

Renews(names, failed) ==
  /\ since = Period /\ since' = 0
  /\ hooks' = [n \in RepoName |-> IF n \in names \ failed THEN 0 ELSE hooks[n]]
  /\ missed' = failed \cup {n \in RepoName : hooks[n] # NoHook /\ PushFinds(n) = {}}
  /\ UNCHANGED <<now, tables, req, begun, shared>>

(* Mutant: a hook that exists is left as it is.                             *)
CheckHooksCreatesOnly ==
  \E failed \in SUBSET Due : Renews({n \in Due : hooks[n] = NoHook}, failed)

(* giteaCheck: the hooks of all relations whose question is active in time, *)
(* be it hidden or not, get new tokens, unless Gitea fails.  The token is   *)
(* compared without the "Bearer " it was stored with, so that it is always  *)
(* renewed.                                                                 *)
CheckHooks == \E failed \in SUBSET Due : Renews(Due, failed)

-----------------------------------------------------------------------------
(* Five minutes pass.  The ticker of the check fires in time.               *)
Pass ==
  /\ now < MaxTime /\ now' = now + 1
  /\ since < Period /\ since' = since + 1
  /\ hooks' = [n \in RepoName |->
                 IF hooks[n] \in {NoHook, TokenLife} THEN hooks[n] ELSE hooks[n] + 1]
  /\ UNCHANGED <<tables, req, begun, shared, missed>>

(* The database fails between two steps that write.  (A request that fails  *)
(* before it writes is like one that waits.)                                *)
Fails(r) ==
  /\ \E from \in {"script", "patched", "times", "relate"} : Goes(r, from, "over")
  /\ UNCHANGED <<tables, hooks, watched>>

(* The API is restarted, and checks the hooks at once.                      *)
Restart ==
  /\ \E r \in Request : req[r] # Idle
  /\ req' = [r \in Request |-> Idle] /\ since' = Period
  /\ UNCHANGED <<now, tables, hooks, begun, watched>>

-----------------------------------------------------------------------------
AddQuestion(r)   == AddQuestionLooks(r) \/ AddQuestionCreates(r) \/ AddQuestionScript(r)
PatchQuestion(r) == PatchQuestionReads(r) \/ PatchQuestionSaves(r)
                      \/ PatchQuestionSavesScript(r)
PostSandboxCmd(r) == PostSandboxCmdLooks(r) \/ PostSandboxCmdCreates(r)
UpdateExam(r)    == UpdateExamReads(r) \/ UpdateExamSaves(r) \/ UpdateExamQuestions(r)
UpdateQuestionInExam(r) == UpdateQuestionInExamReads(r) \/ UpdateQuestionInExamSaves(r)
CreateRepository(r) == RepositoryLooks(r) \/ RepositoryHooks(r) \/ RepositoryFinds(r)
                         \/ RepositoryRelates(r)

Handle ==
  \/ \E r \in Request : \/ AddQuestion(r) \/ PatchQuestion(r) \/ PostSandboxCmd(r)
                        \/ UpdateExam(r) \/ UpdateQuestionInExam(r)
                        \/ CreateRepository(r) \/ Fails(r)
  \/ \E q \in DOMAIN questions : DeleteQuestion(q)
  \/ \E e \in DOMAIN exams : \/ DeleteExam(e)
                             \/ \E q \in DOMAIN questions : \/ AddQuestionToExam(e, q)
                                                            \/ RemoveQuestionFromExam(e, q)
  \/ CreateExam

(* For how long a question has been active in time without interruption.    *)
OpenFor(units) ==
  open' = [q \in 1 .. MaxQuestions |->
             IF q \in DOMAIN questions /\ q \in DOMAIN questions' /\ Active(q) /\ Active(q)'
             THEN Min({open[q] + units, Period + 1})
             ELSE 0]

Next ==
  \/ (Handle \/ CheckHooks \/ Restart) /\ OpenFor(0)
  \/ Pass /\ OpenFor(1)

Spec == Init /\ [][Next]_vars

-----------------------------------------------------------------------------
(* Five places compare the times of a question with the clock.  They agree, *)
(* except for a question without end: pushes are accepted, but no rescore   *)
(* is, its hook is not renewed, and it is listed as expired.  What is on a  *)
(* list can be opened, and every shown question is on the general list or   *)
(* on an exam's, never on both.  The list of exams leaves out an exam in    *)
(* the first and the last instant in which it can be opened.                *)
ViewsAgree ==
  /\ \A q \in Questions :
       /\ RescoreInTime(q) = Active(q)
       /\ PushInTime(q) = IF questions[q].end # NoTime THEN Active(q)
                          ELSE questions[q].start <= now
       /\ q \in Listed(TRUE, "expired") => /\ ~Active(q)
                                           /\ PushInTime(q) => questions[q].end = NoTime
  /\ Own = OwnShown /\ Own \subseteq Shown(FALSE)
  /\ \A admin \in BOOLEAN :
       LET inExams == UNION {ExamListed(e, admin) : e \in Exams}
       IN  /\ Shown(admin) = Listed(admin, "all") \cup inExams
           /\ Listed(admin, "all") \cap inExams = {}
           /\ ExamsListed(admin) \subseteq ExamsShown(admin)
  /\ \A e \in ExamsShown(FALSE) \ ExamsListed(FALSE) : now \in {exams[e].start, exams[e].end}

(* A push is counted for its own question and judged with the one script of *)
(* that, whichever relation of its repository it finds: two requests for a  *)
(* repository may leave two.  Nothing in the database says so: questions    *)
(* share a repository when two AddQuestion overlap, when PatchQuestion      *)
(* changes it, when a deleted question comes back, and a user's copy when   *)
(* two owners use one name; a question has two scripts when PostSandboxCmd  *)
(* finds none while another request is about to make one.  As long as none  *)
(* of this has happened each has its own.                                   *)
PushReachesOwn ==
  shared = {} =>
    \A d \in DOMAIN relations :
      LET q == relations[d].question
      IN  /\ \A f \in PushFinds(relations[d].name) : relations[f].question = q
          /\ ScriptsFor(q) \subseteq {q}
          /\ questions[q].scripts <= 1

(* A hook carries an access token that lives for 15 minutes.  Yet once a    *)
(* question has been active for more than the 10 minutes between two checks *)
(* every push is let through and is in time, restarts or not, as long as    *)
(* Gitea has answered the last check and the relation was there by then.    *)
(* (A request that fails or waits between its hook and its relation leaves  *)
(* a hook that no check renews; who tries again later is told all is well.) *)
HookWorks ==
  shared = {} =>
    \A d \in DOMAIN relations :
      LET q == relations[d].question
      IN  open[q] > Period /\ relations[d].name \notin missed =>
            TokenValid(relations[d].name) /\ PushInTime(q)

(* "update exam questions's start and end time if exam time is updated"     *)
(* (exam.go:205): a question of an exam has no end only if the exam has     *)
(* none.                                                                    *)
ExamTimesReachQuestions ==
  \A p \in inExam : questions[p[2]].end = NoTime => exams[p[1]].end = NoTime
=============================================================================
