# Verification of OJ-API

OJ-API is an online judge. Students push to Gitea repositories; a webhook turns
each push into a row of the database and a job; a scheduler in the API server
dispatches jobs over gRPC streams to sandbox servers, which compile, run and
score them in `isolate` boxes and write the verdict into the row. Leaderboards
and exports read the rows.

This directory holds TLA+ models of that program, the TLC instances that check
them and TLAPS proofs about them. Every model is written from the Go source;
`PROJECT.json` maps each definition to the lines it stands for.

## 1. The system

```
 browser ──REST──> API server (main.go, routes/, handlers/)  ──> PostgreSQL
 Gitea  ──hook──>  PostGiteaHook ─ ReserveJob ─> scheduler            ^
                                     │ gRPC SandboxStream             │ verdicts
                                     v                                │
                   sandbox server (cmd/sandbox-server) ─ AddJob ─> pool, worker, judges
```

| component | state | operations | hard behaviour | what makes it correct |
|---|---|---|---|---|
| box pool, `sandbox/sandbox.go` | free boxes, waiter channels, `availableCount`, job queue | `Reserve`, `Release`, `ReserveJob`, `ReleaseJob`, `Cleanup` | lock-free queues, a waiter that times out while it is served, a counter that is updated apart from the queue | a box is never shared or lost; the counter means something |
| judge, `sandbox/runHandler.go` | one row per job, box directories | `WorkerLoop`, `assignJob`, one goroutine per job | early returns, cancellation, stale readings | a job runs once, in a clean box, and its verdict is final |
| sandbox server, `cmd/sandbox-server/main.go` | the stream, the global `lastStatus`, the shutdown context | reconnect loop, message handler, status ticker, `AddJob`, shutdown | unlocked sharing, lost messages, two counts read one after the other | the scheduler knows its capacity; shutdown loses nothing it calls done |
| scheduler, `services/sandbox_scheduler.go` | instance map, per-instance channel and status, global queue | `SandboxStream`, `ReserveJob`, `processJobQueue`, `assignJobToSandbox`, `sendJobsToSandbox`, cleanup, `Close` | a mutex that does not cover channel operations, reconnects, silent sandboxes | a job is in one place; channels are closed once; the queue drains |
| submission intake, `handlers/webhook.go`; rescoring, `handlers/score.go` | rows, relations | `PostGiteaHook`, `ReScoreUserQuestion`, `ReScoreQuestion` | row committed before it is dispatched; batches in which one job fails | every row is dispatched or says why not; scores are never lost |
| question repositories, `handlers/gitea.go` | relations | `PostCreateQuestionRepositoryGitea` | check, then create, with remote calls before | one history per user and question |
| leaderboards and export, `handlers/score.go`, `exam.go`, `admin.go` | none | several queries per answer | rows and questions change between queries | the parts of an answer agree |
| questions and exams, `handlers/questions.go`, `exam.go`, `sandbox.go` | questions, scripts, exam membership, times | create, patch, delete, add to exam, and who sees what | several statements without a transaction, saves of records read earlier, a zero time that means different things | a push is counted for and judged as its own question; the times mean the same everywhere |
| user accounts, `handlers/user.go`, `auth.go`, `admin.go`, `gitea.go` | user records, tokens | login, logout, roles, passwords, e-mail, bulk creation | whole-record saves around remote calls, `Updates` that skips zero values | logins agree on a record; a retired token stays retired |
| tokens, `utils/token.go`, `jwt.go`, `services/gitea_check.go` | Gitea tokens, reset nonces, the header of each hook | issue, renew, validate | lifetimes against renewal periods, one-shot nonces | a mailed link works until it is used; a hook stays authorised |
| scoring, `sandbox/runHandler.go`, `result.go`, `grp_parser/` | `score.txt` and `message.txt` of a box | compile, execute, score, `Parse`, `writeScore`, `MergeJudgeResults` | two files, written one after the other by a parser that runs once per target and may be stopped | the score is that of the best run, and the message is of the same run |
| the rest | settings, cloning, mail, logging, routes, configuration | | I/O and formatting | |

Interaction: handlers call `ReserveJob`, which never fails, from goroutines; the
scheduler and a sandbox server exchange messages on one bidirectional stream per
connection; a sandbox server writes verdicts straight into the database the
handlers read; nothing tells the scheduler that a job is over other than the
next status. Handlers call Gitea between their statements, and Gitea calls
`PostGiteaHook` with the access token that the last check has put in the hook.

The hazards that follow from this, each at its line, are the `hazards` of
`PROJECT.json`; the properties below are aimed at them.

## 2. Modules

| module | models | composition |
|---|---|---|
| `JobLifecycle` | abstract: a job enters once and leaves at most once, completed or lost | refined by the next two |
| `SandboxPool` | pool, worker, judges, `AddJob` and the shutdown of one sandbox server | implements `JobLifecycle` |
| `Scheduler` | the scheduler, with sandbox servers and network as its environment | implements `JobLifecycle` |
| `SandboxLink` | the sandbox server's end of the stream, against the scheduler's estimate | between the two: what the pool counts is what the scheduler assigns by |
| `JudgeScoring` | the jobs of one box from the copy of the code to the row: statuses, the score parser, its two files, the merge | what `SandboxPool` takes as one choice among `Scores` |
| `Submissions` | relations, rows, dispatch, judges, catalog changes, leaderboards, histories, top scores, export | takes from the pipeline only that a job is judged, fails or is lost |
| `Catalog` | questions, scripts, exams and their times, relations, hooks and their renewal | takes from accounts that a token is made; says for `Submissions` whose relation a push finds, and when it is let through |
| `Accounts` | user records, their tokens, nonces and mailed links, and Gitea's side of them | independent of the others |
| `DataLemmas` | facts about queues, finite sets, least elements and sums | cited by the proofs |
| `SandboxPool_proofs`, `Scheduler_proofs`, `SandboxLink_proofs`, `Submissions_proofs`, `Catalog_proofs`, `Accounts_proofs`, `JudgeScoring_proofs` | the proofs | each extends its module |
| `MC...` | instances for TLC: symmetry, times, score maps, reports | |

### SandboxPool

One step is one operation on a lock-free queue, on a channel or on
`availableCount`, or one database statement that others can see. `AvailableBoxIDs`, `waitingQueue`,
`jobQueue` and `availableCount` are the fields of the `Sandbox` struct;
`waitChan` holds what each waiter's channel buffers; `workerPC`, `job`, `boxID`
are `assignJob`'s control point and locals; `adder[j]` and `judge[j]` are the
AddJob and judge goroutines of a job; `row[j]` is the Score column (-3 waiting,
-2 failed, -1 judging); `boxDir[b]` says whether the box's files are those of an
earlier job; `main` is the shutdown sequence. `handed` is a history variable: it
counts the boxes `Release` has given to a waiter, and lets two properties say
exactly what a hand-off costs.

### Scheduler

A connection (`Conn`) is one `SandboxInstance`, made by one call of
`SandboxStream`; `instances` is the map that files one connection per sandbox;
`closed` and `jobChan` are the instance's channel; `assigner`, `job`, `target`
are `processJobQueue` and `assignJobToSandbox`, the only critical section that
needs two steps. A sandbox may reconnect while the handler of its old stream has
not noticed yet, may fall silent, and may report any `AvailableCount` of
`Reports` at any moment. `credit` is a history variable: the last report less the
jobs put on the channel since. A close of a closed channel, or a send on one,
ends the process (`api = "panicked"`).

### SandboxLink

`last` and `due` are `lastStatus` (the value, and whether it is 15 seconds old);
`pc[s]` and `seen[s]` are the two goroutines that run `sendCurrentStatus`, the
message handler and the 300 ms ticker; `lingering` holds what senders of ended
connections have read and may still store into `lastStatus`; `wire` is the
transport, on which `Send` blocks once it is full; `estimate` is the scheduler's
`Status.AvailableCount`. `Choose` finds it positive, `Reserve` lowers it and
`RollBack` raises it again; a status message is not held off by the scheduler's
mutex and may replace it between any two of them, so it may be -1. A status is
represented by its AvailableCount; that one of the other counts has
changed is a free choice in `Check`.

### Submissions

Every database statement is one step, and a handler is interrupted between its
statements, for no transaction spans two of them. `relations` and `rows` are the two
tables in the order of their IDs. gorm's `Create` is a transaction of its own: a
relation gets its ID by the INSERT and is seen by others after the COMMIT, and
`hidden` holds the IDs in between (or rolled back for good), so a later relation may be
seen first; `overtaken` remembers of whom that was. `admins` are the users with
`is_admin`, which logins write: `ChangeRole`. Rows are not looked for by their order.
`stage` says what has become of a row's job. A row's `batch` stands for its
`created_at`: rows of one `Create` share it. A request is one call of a handler,
with its user and question chosen at the start. `reader` is one leaderboard
request at a time; readers change nothing, so several add nothing. Requests that
are turned away have no effect and are left out, with the guards that turn them
away (questions that are hidden; only admins rescore all). The time window of a
question is such a guard and belongs to `Catalog`. The other views of scores
(`HistoryOf...`, `AllHistory`, `TopRows`, `TopExamRows`, `ListedScore`,
`ExportedScore`, `EarliestBest`) are one query each, hence operators.

### Catalog

The clock `now` counts units of 5 minutes; `NoTime` is the zero `time.Time`. A
record of the tables is a record of the sequence `questions` or `exams`, with
`there` for whether it is in the table; a question has the number of its scripts.
`relations` are those of one user; a user's copy of a repository has the name of
the original, whoever owns that, so `hooks` is per name: the age of the token in
the hook, or none. A call of `PostCreateQuestionRepositoryGitea` looks at the
question, makes the hook, looks for the relation and creates it in four steps, and may
fail between them; two calls may leave two relations of one name, so `PushFinds` is the
set of those that a push may find. `since` is the ticker of `giteaCheck`. `req` holds, for each
handler that takes several steps, the record it has read and what it will change:
`PatchQuestion`, `UpdateExam`, `UpdateQuestionInExam` save what they have read,
and gorm's `Save` inserts a record that was deleted since, unless a foreign key
forbids it. Handlers with one writing statement are one step. `shared` (how
questions came to share a repository), `open` (for how long a question has been
open) and `missed` (hooks that the last check failed to renew) are history.

### Accounts

`users` is the table, in the order of IDs; two records of one name are possible,
since nothing but a lookup forbids them. `hidden` and `overtaken` are as in
`Submissions`: a record is inserted in one step and seen by others from another on. A record has the three secrets
(`token`, `refresh`, `nonce`), which are numbers given once, and the columns that
some step reads. `gitea[n]` is what Gitea knows of a name: that it exists, its
role and address, and the token `OJ-API`. `req` is a handler or the goroutine it
leaves, with the record it has read (`copy`) and the fields it will set (`edit`).
A step is one statement or one call of Gitea or of the mail server. `links` are
mails that are less than 5 minutes old. Two tokens are always different here;
access and refresh tokens have no part that is random, so two logins of a user
within one second get the same one, which no property depends on.
History: `retired`, `undone` (secrets that a whole-record save has set back),
`latest` (the newest nonce that should work), `alone` (logins that no other
request disturbed).

### JudgeScoring

`compiled`, `executed` and `scored` are the results per target; `box` is what the
two files hold. What a script does to a target is a choice; a score script ends
with a run of the parser, which `ParserLeaves` describes, with the four points at
which it may be stopped. A job begins in a box that is empty or as the last job
left it, to which the files of the submission are copied; these may hold a `score.txt`
and a `message.txt`, and while targets are compiled and run the student's program may
write or remove them (`Written`, `Touches`). `left` is what the box held when scoring
began. From then on only the parser writes the two files: score scripts are the
teachers' and end with it. Scores are counted in units of 1/600 point, so that thirds and the two
decimals of `score.txt` are whole numbers. The message of a row is a record: the
suites of `message.txt` and the set of the targets `MergeJudgeResults` adds because
they failed and no suite has their name; that the code lists a target twice when it
is in the task list twice is left out.

## 3. What is checked

All runs use the specifications as they stand; the `.cfg` files give the
constants. The largest runs (`pool_safety`, `sched_safety`, `submissions`, `catalog`,
`accounts`) visit between 540 thousand and 1.5 million states.

| run | instance | shows |
|---|---|---|
| `pool_safety` | 3 jobs, 2 boxes, 2 waits, scores 0 and 5 | `BoxExclusive`, `BoxConserved`: no box shared or lost. `CountAccounting`: the counter is boxes less launched jobs, running AddJobs and hand-offs. `JobOnce`: a Reserve that times out neither loses nor doubles its job. `WaiterHeard`: a waiter is queued or answered. `CleanUnlessHanded`: only a hand-off puts a job among old files. `VerdictStable`: verdicts are final. `CleanExitIdle`: a clean exit leaves no judge running. `ImplementsLifecycle` |
| `pool_liveness` | 2 jobs, 1 box, 2 waits | `JudgedUnlessWaiting`: without waits every accepted job is judged or dropped. `ReserveReturns`. `ShutdownEnds` |
| `sched_safety` | 1 sandbox, 2 connections, 2 jobs, channel of 1 | `JobInOnePlace`: no submission is duplicated. `RegisteredOpen`: the map holds open connections of their sandbox only. `ImplementsLifecycle` |
| `sched_liveness` | 1 sandbox, 1 connection, reports 0 to 2 | `EstimateWithinOne`: unlocked status updates between reservation and roll-back cost one job at most. `QueueDrains`: the queue empties while a sandbox can be chosen |
| `link` | 1 box, transport of 1, 1 status request on the way | `EstimateCatchesUp`: after the last change the estimate becomes right for good. `HeardAgainAndAgain`: a healthy connection is never silent for ever. `Reconnects` |
| `submissions` | 2 users (one admin), 1 question, 3 requests | `BestNeverFalls`: no push, rescore or failed judge lowers a best score. `BoardAgrees`: count, totals and details of a leaderboard agree unless the catalog or a role moved. `OneHistory`: duplicate relations do not split a user's history, unless the later became visible first. `ViewsAgree`: lists, histories, top scores, leaderboard and export show one best score. `TokensRead`: one failed token does not stop a batch |
| `scoring` | 3 jobs in a box, 2 targets or one listed twice, 4 reports, 2 foreign scores and a foreign message | `ScoreIsBestRun`: the row has the best run of the parser or what `score.txt` held when scoring began, whichever is greater. `MessageExplains`: every failed target is in the message and no other as failed; in a box that held nothing, or if the score has risen since, the suites are those of the run that made the score |
| `catalog` | 2 questions, 1 exam, 3 repositories with 2 names, 3 requests, 15 minutes | `ViewsAgree`: the five comparisons of a question's times with the clock, and the seven lists, agree. `PushReachesOwn`: unless one of six things has happened, a push is counted for its own question, whichever relation it finds, and judged with its one script. `HookWorks`: an open question's hook is let through, restarts or not, if its relation was there at the last check |
| `accounts` | 1 user, 2 records, 2 requests at a time and 3 in all, 3 secrets | `SecretsStayRetired`: only a whole-record save brings a retired token back. `SessionOfFirst`: logins agree on the first of two records, unless the second became visible first. `LoginSettles`: an undisturbed login leaves a valid token, and roles are only ever gained. `LinkWorks`: the newest mailed link works until it is used |

Why the bounds are enough for what they are meant to show:

- Pool: a hand-off needs a waiter and a judge, a missed hand-off a third goroutine
  between the two queue operations; two boxes are needed for a box to be confused
  with another, three jobs for one to wait while two run. `MaxWaits = 2` allows a
  stale waiter in front of a fresh one. Liveness has the smallest instance in
  which a Reserve waits behind a judge.
- Scheduler: the two connections are a sandbox that reconnects before its old
  handler returns, which is what the double close and the stale deregistration
  need. `sched_panic` has two sandboxes as well; the proofs are for any number. A
  channel of one is full with one job, so the roll-back happens.
- Link: two senders and one place on the wire make one sender block while the
  other overtakes it. With counts 0 and 1 a status differs from the last one or
  does not.
- Submissions: three requests allow two concurrent creators and one that uses
  their relations, or a relation and two rows of it. `MaxRows = 2` allows two
  verdicts, in one relation or in two.
- Scoring: three jobs let a score pass from one job to the next but one. The
  reports have a fraction of a point, suites without points or tests, and a suite
  with the name of a target. A foreign score is no hundredth of a point, or negative;
  a foreign suite is named like a target. One target listed twice makes the later result count.
- Catalog: two requests overlap, and a third changes what one of them has read. Two
  repositories share a name. Times are given both or one only; the clock passes
  the end of a check's period and comes back to it. Three units make 15 minutes,
  the life of a token, two the period of the check.
- Accounts: two records of a name need two requests that overlap, and the third
  uses them. One login makes two secrets, and three allow a later one to retire
  an earlier one.

Jobs, sandboxes and requests are symmetric in the runs without liveness;
symmetry is not used where liveness is checked. Deadlock is not checked anywhere:
all the environments may stop (no more jobs, a process that has ended).

### Fairness

- `SandboxPool`: weak fairness for the worker, for each AddJob once begun, for each
  judge and for `main`'s polling: they are goroutines, and the Go scheduler runs
  them. Strong fairness for the shutdown timeout: the polling loop meets its timer
  again and again, with other steps in between. Nothing makes a job arrive or a
  shutdown begin.
- `Scheduler`: weak fairness for `processJobQueue` and for each stream handler and
  sender. Sandboxes and links owe nothing.
- `SandboxLink`: weak fairness for the reconnect loop, both senders, the passing of
  15 seconds, and the delivery of what a live transport holds. No fairness for the
  pool, breaks, assignments or shutdown.
- `Submissions`: weak fairness for the dispatching goroutines.
- `Catalog`, `Accounts` and `JudgeScoring` are checked for safety only and assume no
  fairness. That the ticker of `giteaCheck` fires in time is part of `Pass`, which
  does not let time run past it.

### Disagreements between code and documentation

Three runs check one property each and end in a violation.

| run | the code | what says otherwise |
|---|---|---|
| `pool_verdict` | a score of zero is skipped by `Updates` with a struct, the row stays at -1 | "Done for judge!", `runHandler.go:220` |
| `sched_panic` | a sandbox that was removed as silent has its channel closed again when its stream ends: the API process panics | `SANDBOX_GRPC_README.md:123` |
| `catalog_exam_times` | `UpdateExam` writes both times of its request to the questions, the one that was not given as zero | "update exam questions's start and end time if exam time is updated", `exam.go:205` |

What else the models show of the code:

- A hand-off lowers `availableCount` for ever, so fewer jobs run than there are boxes
  ("How many sandbox can use", `sandbox/sandbox.go:19`), and none at all after as
  many hand-offs as there are boxes (`HandOffsWearOut`); the processing count never
  returns to zero: every later shutdown waits for its timeout.
- The shutdown loop reports "All jobs completed" (`cmd/sandbox-server/main.go:133`)
  though a job may be in the worker's hand, or enqueued between its two readings.
- A hand-off skips `isolate --init`, so a job may start among the files of another:
  it gets the other's score if that is higher.
- A Reserve that misses the window between the counter and the free queue waits
  though a box is free; the box of an abandoned channel is lost to the pool.
- Jobs that are queued when a process ends, sent on a link that breaks, or left on
  the channel of an ended sender, stay at -3; nothing dispatches them again.
- A job that cannot be assigned goes to the tail: jobs are not judged in order.
- `Active` is set by a connect only: after one late heartbeat a healthy sandbox stays
  unusable (`GRPC_ARCHITECTURE.md:178-180`), and the deferred function of an old
  stream removes the new connection from the map.
- After a reconnect within 15 seconds an unchanged status is suppressed; the new
  instance has no Status, and gets no jobs, until the 15 seconds are over.
- The count of the exam leaderboard includes users of hidden questions.
- A rescore cannot lower a score: the old row still counts.
- With two relations of one user and question the export pairs the best score of one
  with the time of a worse row of the other ("earliest submit time for highest
  score", `admin.go:385`).
- The score of a submission is that of its best target, not a sum. Points of a suite
  that are a fraction are read into an `int` (`sandbox/interface.go:75`) and shown as
  zero. A job whose code could not be copied to its box goes on.
- A question without end accepts pushes for ever, but no rescore, and its hook is
  not renewed. A question that opens between two checks of the hooks, more than 15
  minutes after a user took it, refuses pushes until the next check.
- `giteaCheck` compares the stored "Bearer ..." with the bare token, so every hook is
  rewritten every time; that is also why hooks stay valid.
- Questions of two owners' repositories of one name share a user's copy, and his
  pushes count for the first. A question that an overlapping `PatchQuestion` saves
  comes back after it was deleted, and a question may come to have two scripts, of
  which a judge takes any. `PatchQuestion` reads `*ScoreMap` when an
  `execute_script` is given (`questions.go:907`), and panics if there is none.
- `gorm`'s `Create` draws an ID before others see the record. Two overlapping calls
  may leave two relations, or two users of one name, the later of which is seen
  first: pushes and logins in between go to that one, later ones to the other.
- A leaderboard whose queries a login comes between may count a user it does not rank.
- The score of a submission may come from its own files or its own program: the
  parser takes a `score.txt` that it finds for its own, and keeps it if it is higher.
- A hook whose relation could not be created, or was not there yet at a check, is not
  renewed; a later call finds the hook and leaves it as it is.
- The scheduler may reserve a slot that a status has just taken away: the estimate
  is -1 until the next status.
- A handler that saves a whole record sets back a login's tokens; a user who is no
  longer an admin of Gitea keeps `is_admin`; a login whose token another one has
  replaced fails or leaves the older token; a reset with an old link clears the
  nonce of a newer one.

## 4. What is proved

Every type invariant, safety invariant and action property of the passing runs is
also a theorem, for every value of the constants that the module's named assumption
allows:

| proofs of | theorems | assumption |
|---|---|---|
| `SandboxPool` | `Typing`, `BoxesAreExclusive`, `BoxesAreConserved`, `JobsAreInOnePlace`, `CountIsExact`, `WaitersAreHeard`, `BoxesAreClean`, `VerdictsAreStable`, `CleanExitsAreIdle`, `PoolImplementsLifecycle`; `RestingPoolsAreWhole`, `HandOffsWearOut` | `PoolAssumption`: the jobs are finitely many, the bounds and scores naturals |
| `Scheduler` | `Typing`, `JobsAreInOnePlace`, `RegisteredAreOpen`, `EstimatesAreClose`, `SchedulerImplementsLifecycle` | `SchedulerAssumption`: a channel holds at least one job, reports are naturals |
| `SandboxLink` | `Typing` | `LinkAssumption`: counts are naturals and 0 is one, the transport holds at least one message |
| `Submissions` | `Typing`, `PushesShareHistory`, `BestScoresNeverFall`, `AllViewsAgree`, `BoardsAgree` | `SubmissionsAssumption`: finitely many users and questions, scores are naturals, admins at first are users |
| `Catalog` | `Typing`, `AllViewsAgree`, `PushesReachOwn`, `HooksWork` | `CatalogAssumption`: times are naturals; hooks are checked more often than tokens expire (`Period < TokenLife`; 10 and 15 minutes in the code) |
| `Accounts` | `Typing`, `LoginsAgree`, `RetiredSecrets`, `NewestLinkWorks`, `LoginsSettle` | `AccountsAssumption`: finitely many names, a spare address is nobody's own, at least one record and one secret |
| `JudgeScoring` | `ScoresAreBestRuns`, `MessagesExplain` | `ScoringAssumption`: points and counts of tests are naturals, a task list is a finite sequence, a report and a foreign message have finitely many suites, foreign scores are integers |

`CleanExitsAreIdle` is for at least one box: with `SANDBOX_COUNT = 0` the shutdown
test is true whatever AddJob is doing; the theorem names that assumption.
Besides, `Inductive` and `Controlled` state the inductive invariants themselves.

The argument is the same everywhere: an inductive invariant, one lemma for the
initial states and one per conjunct for the steps, in that one step per action.

Pool: `ControlInv` ties the worker's and the judges' locals to their control
points; without it a box "in the worker's hand" could be one that was already
given to a judge. `ChannelInv` says that queued channels are distinct and empty:
otherwise a hand-off could overwrite a box, and boxes would be lost. With these,
`BoxExclusive` is inductive, since every box moves from one place to the next in
a single step. `CountAccounting` needs `ControlInv` and the cardinality lemmas of
the library: each action moves one job into or out of `Holding` or `Cloning`.
`RowInv` fixes what a row says before its verdict, and gives `VerdictStable`.
`CleanExitIdle` follows from `CountAccounting` alone: the processing count is
zero only if the counter is at least `SandboxCount`, which is when nobody holds
or clones. `BoxConserved`, `WaiterHeard` and `CleanUnlessHanded` are each
inductive relative to `IndInv`. `RestingPoolsAreWhole` puts them together: as long
as nothing was handed over, a pool in which nothing is under way has each box once
in its free queue, and the counter is the length of that queue. `HandOffsWearOut` is
the other side: when as many boxes have been handed over as there are, the counter
is zero at most, and the worker never starts a job again. Both are stated in
`SandboxPool_proofs` only.

Scheduler: `RegisteredOpen` needs from `ControlInv` that a stream's channel is
open before the stream is. `EstimateWithinOne` needs that the chosen instance had
a free slot when it was chosen, which the mutex keeps true until the reservation.
`JobInOnePlace` rests on the lemmas of `DataLemmas` about what `Append` and
`Tail` do to the range of a sequence without duplicates.

Refinement: the fate of a job is a function of the pool's control points, and is a
variable of the scheduler; each step is shown to be one `Submit`, `Complete` or
`Lose` of one job, or a stutter.

Link: the types are inductive only with `Chosen` and `Reserved`: a job that was chosen
or holds a slot keeps the estimate there, so that there is a number to lower or to
raise; and what replaces the estimate of a chosen sandbox is a report, which is not
negative, so it never falls below -1.

Submissions: `TableInv` adds to the types that a row's relation is there
(`RowInv`) and that a request that continues has read a relation that is there, a
push the first visible one of its user and question unless that was overtaken
(`RequestInv`); this gives `OneHistory`.
The lemma that tables are append-only, keep their keys and replace no score by a
lower one (`Kept`) covers every action, and `BestNeverFalls` follows from it. `BoardInv` says
what a leaderboard has read between its queries is no more than what the next query
will find, as long as nothing has moved; its totals need that sums over finite sets are monotone. `ViewsAgree`
holds in every state in which `TableInv` does, since every view is a query of the
same two tables.

Accounts: `Control` says for each step of each handler which record it is about,
that the record is there, and that the copy it saves has that record's name.
`SecretsStayRetired` needs `Apart`: no two fields of the table, of the copies that
requests hold and of the tokens about to be stored share a secret, and `Pending`: a
token about to be stored was never current. `LinkWorks` needs that a nonce which a
reset is about to spend no longer counts as the newest, `LoginSettles` that an
undisturbed login holds the token that Gitea has.

Catalog: `Control` keeps the references between the tables, though records are
deleted and saved again while requests hold copies of them, and ties each handler's
step to what it has read. `ViewsAgree` follows from it. `PushReachesOwn` needs
`Apart`: while nothing is shared, names of repositories tell questions apart, also
from those that are being added and in relations that are being made, and no two requests make the script of one question.
`HookWorks` needs `HookInv`: the hook of a question that has been open since before
the last check is no older than that check, or the check missed it.

Scoring: `JudgeInv` speaks of what the box held when scoring began (`left`) and of the
runs since, so it does not matter who wrote what was there before. It relates the stages (`Stages`), the files and the runs so far
(`Files`), the row (`Verdict`), and the message and the suites (`Suites`). That the
suites of `message.txt` add up to the score, once a run has raised it and while no
parser was stopped, is what makes the message that of the best run.

`DataLemmas` holds what these need of data. The induction theorems of the library take
operators, which the provers cannot instantiate; here the hypothesis is a set (a
family of subsets, a set of numbers), which is enough for sums over finite sets,
least and greatest elements and ranks.

Only model-checked: all liveness properties (`JudgedUnlessWaiting`, `ReserveReturns`,
`ShutdownEnds`, `QueueDrains`, `EstimateCatchesUp`, `HeardAgainAndAgain`, `Reconnects`,
`TokensRead`), for fairness and ENABLED are beyond the prover, and the violations.

## 5. What is not modelled

- Cloning, mail, logging, client locations, export formats, configuration, the route
  table, migrations, TLS and the HTTP server: I/O and formatting. The generated
  `docs/` and `proto/` have no behaviour of their own.
- `RefreshToken`, the profile and the public key handlers: they read one record, or
  pass one request on to Gitea, and write nothing.
- The scheduler facade, `WaitingCount` in a status and the read-only status handlers:
  nothing decides by them.
- Titles, texts, limits, points of exam questions, `IsPublic`: columns that no
  other handler's course depends on. Announcements and tags have no handlers.
- Pages of lists: one page has everything.
- Signatures and encryption: a token is a number that is made once, and a link is
  good when its nonce is the current one.
- A `score.txt` that is not a number but parses (NaN, infinity), and a score script
  that lets the student's program run after the parser.
- The transactions of tables whose records are not looked for by the order of their
  IDs: rows, questions, exams, scripts. Their `Create` is one step.
- Data races as such: `Status`, `LastSeen` and `lastStatus` are written without a
  lock. The models interleave whole reads and writes of them; a torn read of
  `lastStatus` would be a status to send, which `Check` allows.
- A concurrent `Send` of a job response and a status on one stream, which gRPC
  forbids: what it does is not determined by this code.
- The whole pipeline as one composition. `Scheduler` and `SandboxPool` implement the
  same `JobLifecycle`, one after the other, and `SandboxLink` shows that what one
  counts is what the other assigns by; a product of all three has too many
  states to say more.

## 6. Plan

Done, in this order: the pool and its proofs, the scheduler and its proofs, the
link between them, submissions; then accounts, the catalog, scoring, and the other
views of scores.

The proofs followed in the order pool, scheduler, submissions, accounts, link, catalog,
scoring.

To do next:

1. `SandboxLink`: what the estimate is while nothing overtakes. The estimate may be
   wrong with nothing on its way until the 15 seconds are over, so the invariant has
   to speak of the order in which the two senders stored and sent.
2. `Scheduler`: bounds on what is lost with an instance, from `JobInOnePlace`.
3. `Catalog` and `Submissions`: that the relation which `PushFinds` in the one is the
   first of its user and question in the other.

Runs are few by intention: one per question.

## 7. Running

```
tlc -workers 2 -config PoolSafety.cfg MCSandboxPool.tla
tlapm SandboxPool_proofs.tla
```

and likewise for the others; `PROJECT.json` names the module and configuration of
each run, and for each property a mutant: a variant of one definition, written
above it, under which the property fails.
