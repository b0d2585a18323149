---------------------------- MODULE SandboxPool ----------------------------
(***************************************************************************)
(* One sandbox-server process: the pool of isolate boxes and the job queue *)
(* of sandbox/sandbox.go, the WorkerLoop and the judge goroutines of       *)
(* sandbox/runHandler.go, AddJob and the shutdown loop of                  *)
(* cmd/sandbox-server/main.go.                                             *)
(*                                                                         *)
(* Goroutines: one worker (WorkerLoop), one AddJob per dispatched job, one *)
(* judge per started job, and main.  Each operation on a lockfree queue, a *)
(* channel or availableCount is one atomic step; what a goroutine does     *)
(* between two such operations is part of one of them.                     *)
(***************************************************************************)
EXTENDS Integers, Sequences, FiniteSets, Functions

CONSTANTS
  Job,           \* the submissions the scheduler dispatches to this process
  SandboxCount,  \* SANDBOX_COUNT: how many boxes NewSandbox creates
  Scores,        \* the total scores a judge run can end with
  MaxWaits,      \* bound: how many times Reserve may find no free box
  NoJob          \* the worker holds no job

ASSUME PoolAssumption ==
  /\ IsFiniteSet(Job) /\ NoJob \notin Job
  /\ SandboxCount \in Nat
  /\ MaxWaits \in Nat
  /\ Scores \subseteq Nat

Boxes == 0 .. SandboxCount - 1
NoBox == -1
Chan  == 1 .. MaxWaits       \* the waitChan of the n-th Reserve that waited

VARIABLES
  AvailableBoxIDs,  \* free boxes, oldest first
  waitingQueue,     \* channels of Reserve calls, oldest first
  waitChan,         \* what each channel buffers (capacity 1)
  waits,            \* how many channels Reserve has made
  jobQueue,         \* accepted jobs, oldest first
  availableCount,   \* the counter, which may go below zero
  workerPC, job, boxID,   \* assignJob: control point and locals
  adder,            \* per job, the AddJob goroutine
  judge,            \* per job, the judge goroutine
  heldBox,          \* per job, the box its judge holds
  row,              \* per job, the Score column of its row
  boxDir,           \* per box, what its directory holds
  main,             \* main's shutdown sequence
  handed            \* history: boxes Release has handed to a channel

poolVars   == <<AvailableBoxIDs, waitingQueue, waitChan, waits>>
workerVars == <<workerPC, job, boxID>>
judgeVars  == <<judge, heldBox, row, boxDir>>
vars == <<poolVars, jobQueue, availableCount, workerVars, adder, judgeVars,
          main, handed>>

-----------------------------------------------------------------------------
(* Score codes of a row: handlers write Waiting before a job is dispatched. *)
Waiting == -3
Failed  == -2
Judging == -1

(* The judge phases in which a launched job has not yet given its unit of   *)
(* availableCount back.                                                     *)
BeforeCount == {"lookup", "ready", "running", "releasing", "initing"}

TypeOK ==
  /\ AvailableBoxIDs \in Seq(Boxes)
  /\ waitingQueue \in Seq(Chan)
  /\ waits \in 0 .. MaxWaits
  /\ waitChan \in [Chan -> Boxes \cup {NoBox}]
  /\ jobQueue \in Seq(Job)
  /\ availableCount \in Int
  /\ workerPC \in {"idle", "loop", "checkJobs", "reserve", "missed", "waiting",
                   "reserved", "stopped"}
  /\ job \in Job \cup {NoJob}
  /\ boxID \in Boxes \cup {NoBox}
  /\ adder \in [Job -> {"idle", "cloning", "queued", "returned", "dropped"}]
  /\ judge \in [Job -> BeforeCount \cup {"none", "counted", "done"}]
  /\ heldBox \in [Job -> Boxes \cup {NoBox}]
  /\ row \in [Job -> {Waiting, Failed, Judging} \cup Scores]
  /\ boxDir \in [Boxes -> {"clean", "used", "initFailed"}]
  /\ main \in {"serving", "stopping", "sawNoJobs", "cleanExit", "timedOutExit",
               "down"}
  /\ handed \in Nat

(* NewSandbox initialises every box and queues it; every row is Waiting.    *)
Init ==
  /\ AvailableBoxIDs = [i \in 1 .. SandboxCount |-> i - 1]
  /\ waitingQueue = <<>>
  /\ waitChan = [c \in Chan |-> NoBox]
  /\ waits = 0
  /\ jobQueue = <<>>
  /\ availableCount = SandboxCount
  /\ workerPC = "idle" /\ job = NoJob /\ boxID = NoBox
  /\ adder = [j \in Job |-> "idle"]
  /\ judge = [j \in Job |-> "none"]
  /\ heldBox = [j \in Job |-> NoBox]
  /\ row = [j \in Job |-> Waiting]
  /\ boxDir = [b \in Boxes |-> "clean"]
  /\ main = "serving"
  /\ handed = 0

-----------------------------------------------------------------------------
(* The readings the code takes of the pool.                                 *)
Running         == main # "down"                \* the process has not ended
Cancelled       == main # "serving"             \* ctx, cancelled by main
AvailableCount  == IF availableCount > 0 THEN availableCount ELSE 0
ProcessingCount == SandboxCount - AvailableCount
WaitingCount    == Len(jobQueue)

(* GORM's Updates(struct) leaves a column alone when its new value is zero. *)
Updates(old, new) == IF new = 0 THEN old ELSE new

-----------------------------------------------------------------------------
(* AddJob: the counter is lowered while the repository is cloned; the       *)
(* deferred AddAvailableCount runs on every return.                         *)
AddJobStep(j, from, to) ==
  /\ Running
  /\ adder[j] = from
  /\ adder' = [adder EXCEPT ![j] = to]
  /\ UNCHANGED <<poolVars, workerVars, judgeVars, main, handed>>

AddJobBegin(j) ==
  /\ AddJobStep(j, "idle", "cloning")
  /\ availableCount' = availableCount - 1
  /\ UNCHANGED jobQueue

AddJobEnqueue(j) ==
  /\ AddJobStep(j, "cloning", "queued")
  /\ jobQueue' = Append(jobQueue, j)
  /\ UNCHANGED availableCount

AddJobReturn(j) ==
  /\ AddJobStep(j, "queued", "returned")
  /\ availableCount' = availableCount + 1
  /\ UNCHANGED jobQueue

(* Mutant: the error return forgets the counter.                            *)
AddJobFailLeaky(j) ==
  /\ AddJobStep(j, "cloning", "dropped")
  /\ UNCHANGED <<availableCount, jobQueue>>

(* The row cannot be read or the clone fails: the error is only logged.     *)
AddJobFail(j) ==
  /\ AddJobStep(j, "cloning", "dropped")
  /\ availableCount' = availableCount + 1
  /\ UNCHANGED jobQueue

-----------------------------------------------------------------------------
(* WorkerLoop and assignJob.                                                *)
WorkerStep(from, to) ==
  /\ Running
  /\ workerPC = from
  /\ workerPC' = to
  /\ UNCHANGED <<adder, row, boxDir, main, handed>>

WorkerTick ==
  /\ ~Cancelled
  /\ WorkerStep("idle", "loop")
  /\ UNCHANGED <<poolVars, jobQueue, availableCount, job, boxID, judge, heldBox>>

WorkerStop ==
  /\ Cancelled
  /\ WorkerStep("idle", "stopped")
  /\ UNCHANGED <<poolVars, jobQueue, availableCount, job, boxID, judge, heldBox>>

(* The loop condition reads the counter first, the job queue second.        *)
CheckAvailable ==
  /\ WorkerStep("loop", IF AvailableCount > 0 THEN "checkJobs" ELSE "idle")
  /\ UNCHANGED <<poolVars, jobQueue, availableCount, job, boxID, judge, heldBox>>

LeaveLoop ==
  /\ jobQueue = <<>> \/ Cancelled
  /\ WorkerStep("checkJobs", "idle")
  /\ UNCHANGED <<poolVars, jobQueue, availableCount, job, boxID, judge, heldBox>>

TakeJob ==
  /\ jobQueue # <<>> /\ ~Cancelled
  /\ WorkerStep("checkJobs", "reserve")
  /\ job' = Head(jobQueue)
  /\ jobQueue' = Tail(jobQueue)
  /\ UNCHANGED <<poolVars, availableCount, boxID, judge, heldBox>>

(* Reserve: the box is dequeued here, the counter is lowered in Launch.     *)
ReserveBox ==
  /\ AvailableBoxIDs # <<>>
  /\ WorkerStep("reserve", "reserved")
  /\ boxID' = Head(AvailableBoxIDs)
  /\ AvailableBoxIDs' = Tail(AvailableBoxIDs)
  /\ UNCHANGED <<waitingQueue, waitChan, waits, jobQueue, availableCount, job,
                 judge, heldBox>>

ReserveMiss ==
  /\ AvailableBoxIDs = <<>>
  /\ WorkerStep("reserve", "missed")
  /\ UNCHANGED <<poolVars, jobQueue, availableCount, job, boxID, judge, heldBox>>

(* A box released since ReserveMiss is not looked at again.                 *)
ReserveWait ==
  /\ waits < MaxWaits
  /\ WorkerStep("missed", "waiting")
  /\ waits' = waits + 1
  /\ waitingQueue' = Append(waitingQueue, waits + 1)
  /\ UNCHANGED <<AvailableBoxIDs, waitChan, jobQueue, availableCount, job,
                 boxID, judge, heldBox>>

ReserveReceive ==
  /\ WorkerStep("waiting", "reserved")
  /\ waitChan[waits] # NoBox
  /\ boxID' = waitChan[waits]
  /\ waitChan' = [waitChan EXCEPT ![waits] = NoBox]
  /\ UNCHANGED <<AvailableBoxIDs, waitingQueue, waits, jobQueue,
                 availableCount, job, judge, heldBox>>

(* Mutant: `continue` is missing, and the job is launched as well.          *)
ReserveTimeoutNoContinue ==
  /\ WorkerStep("waiting", "reserved")
  /\ jobQueue' = Append(jobQueue, job)
  /\ UNCHANGED <<poolVars, availableCount, job, boxID, judge, heldBox>>

(* Mutant: Reserve has no timeout.                                          *)
ReserveTimeoutNever == FALSE /\ UNCHANGED vars

(* After a second (or when both are ready): the channel stays in            *)
(* waitingQueue, and the job goes back to the tail of the job queue.        *)
ReserveTimeout ==
  /\ WorkerStep("waiting", "loop")
  /\ jobQueue' = Append(jobQueue, job)
  /\ job' = NoJob
  /\ UNCHANGED <<poolVars, availableCount, boxID, judge, heldBox>>

(* The end of Reserve (SubtractAvailableCount) and the go statement.        *)
Launch ==
  /\ WorkerStep("reserved", "loop")
  /\ availableCount' = availableCount - 1
  /\ judge' = [judge EXCEPT ![job] = "lookup"]
  /\ heldBox' = [heldBox EXCEPT ![job] = boxID]
  /\ job' = NoJob /\ boxID' = NoBox
  /\ UNCHANGED <<poolVars, jobQueue>>

-----------------------------------------------------------------------------
(* The judge goroutine: runShellCommandByRepo, then runShellCommand.        *)
JudgeStep(j, from, to) ==
  /\ Running
  /\ judge[j] = from
  /\ judge' = [judge EXCEPT ![j] = to]
  /\ UNCHANGED <<poolVars, jobQueue, availableCount, workerVars, adder,
                 heldBox, main, handed>>

(* The judge script cannot be found, or the test repository cannot be       *)
(* cloned.                                                                  *)
LookupFail(j) ==
  /\ JudgeStep(j, "lookup", "releasing")
  /\ row' = [row EXCEPT ![j] = Failed]
  /\ UNCHANGED boxDir

LookupDone(j) ==
  /\ JudgeStep(j, "lookup", "ready")
  /\ UNCHANGED <<row, boxDir>>

(* The server is shutting down: the job is not started.                     *)
JudgeCancelled(j) ==
  /\ Cancelled
  /\ JudgeStep(j, "ready", "releasing")
  /\ row' = [row EXCEPT ![j] = Failed]
  /\ UNCHANGED boxDir

(* The code and the tests are copied into the box.                          *)
JudgeStart(j) ==
  /\ ~Cancelled
  /\ JudgeStep(j, "ready", "running")
  /\ row' = [row EXCEPT ![j] = Judging]
  /\ boxDir' = [boxDir EXCEPT ![heldBox[j]] = "used"]

(* Mutant: the return after a system failure is missing.                    *)
JudgeFailGoesOn(j) ==
  /\ JudgeStep(j, "running", "running")
  /\ row' = [row EXCEPT ![j] = Failed]
  /\ UNCHANGED boxDir

(* A script or the score parser cannot be written, or the final update      *)
(* fails.                                                                   *)
JudgeFail(j) ==
  /\ JudgeStep(j, "running", "releasing")
  /\ row' = [row EXCEPT ![j] = Failed]
  /\ UNCHANGED boxDir

JudgeFinish(j) ==
  /\ JudgeStep(j, "running", "releasing")
  /\ \E score \in Scores : row' = [row EXCEPT ![j] = Updates(row[j], score)]
  /\ UNCHANGED boxDir

-----------------------------------------------------------------------------
(* Release.                                                                 *)

(* Mutant: after the hand-off Release falls through to the ordinary path.   *)
ReleaseHandOffNoReturn(j) ==
  /\ Running /\ judge[j] = "releasing" /\ waitingQueue # <<>>
  /\ waitChan' = [waitChan EXCEPT ![Head(waitingQueue)] = heldBox[j]]
  /\ waitingQueue' = Tail(waitingQueue)
  /\ judge' = [judge EXCEPT ![j] = "initing"]
  /\ handed' = handed + 1
  /\ UNCHANGED <<AvailableBoxIDs, waits, jobQueue, availableCount, workerVars,
                 adder, heldBox, row, boxDir, main>>

(* Mutant: the waiter is dequeued, but the box goes to the free queue.      *)
ReleaseHandOffForgotten(j) ==
  /\ Running /\ judge[j] = "releasing" /\ waitingQueue # <<>>
  /\ AvailableBoxIDs' = Append(AvailableBoxIDs, heldBox[j])
  /\ waitingQueue' = Tail(waitingQueue)
  /\ judge' = [judge EXCEPT ![j] = "done"]
  /\ heldBox' = [heldBox EXCEPT ![j] = NoBox]
  /\ handed' = handed + 1
  /\ UNCHANGED <<waitChan, waits, jobQueue, availableCount, workerVars, adder,
                 row, boxDir, main>>

(* Mutant: the channel is unbuffered, the send falls to an empty default.   *)
ReleaseHandOffDrops(j) ==
  /\ Running /\ judge[j] = "releasing" /\ waitingQueue # <<>>
  /\ waitingQueue' = Tail(waitingQueue)
  /\ judge' = [judge EXCEPT ![j] = "done"]
  /\ heldBox' = [heldBox EXCEPT ![j] = NoBox]
  /\ handed' = handed + 1
  /\ UNCHANGED <<AvailableBoxIDs, waitChan, waits, jobQueue, availableCount,
                 workerVars, adder, row, boxDir, main>>

(* A waiter is dequeued and the box sent to its channel.  The channel is    *)
(* buffered, so the send succeeds even when the waiter has timed out; the   *)
(* counter is not raised and the box is not initialised again.              *)
ReleaseHandOff(j) ==
  /\ Running /\ judge[j] = "releasing" /\ waitingQueue # <<>>
  /\ waitChan' = [waitChan EXCEPT ![Head(waitingQueue)] = heldBox[j]]
  /\ waitingQueue' = Tail(waitingQueue)
  /\ judge' = [judge EXCEPT ![j] = "done"]
  /\ heldBox' = [heldBox EXCEPT ![j] = NoBox]
  /\ handed' = handed + 1
  /\ UNCHANGED <<AvailableBoxIDs, waits, jobQueue, availableCount, workerVars,
                 adder, row, boxDir, main>>

ReleaseNoWaiter(j) ==
  /\ waitingQueue = <<>>
  /\ JudgeStep(j, "releasing", "initing")
  /\ UNCHANGED <<row, boxDir>>

(* Mutant: isolate --init is not run.                                       *)
ReleaseCountNoInit(j) ==
  /\ Running /\ judge[j] = "initing"
  /\ availableCount' = availableCount + 1
  /\ judge' = [judge EXCEPT ![j] = "counted"]
  /\ UNCHANGED <<poolVars, jobQueue, workerVars, adder, heldBox, row, boxDir,
                 main, handed>>

(* isolate --init, whose error is ignored, then AddAvailableCount.          *)
ReleaseCount(j) ==
  /\ Running /\ judge[j] = "initing"
  /\ \E d \in {"clean", "initFailed"} : boxDir' = [boxDir EXCEPT ![heldBox[j]] = d]
  /\ availableCount' = availableCount + 1
  /\ judge' = [judge EXCEPT ![j] = "counted"]
  /\ UNCHANGED <<poolVars, jobQueue, workerVars, adder, heldBox, row, main,
                 handed>>

ReleaseEnqueue(j) ==
  /\ Running /\ judge[j] = "counted"
  /\ AvailableBoxIDs' = Append(AvailableBoxIDs, heldBox[j])
  /\ heldBox' = [heldBox EXCEPT ![j] = NoBox]
  /\ judge' = [judge EXCEPT ![j] = "done"]
  /\ UNCHANGED <<waitingQueue, waitChan, waits, jobQueue, availableCount,
                 workerVars, adder, row, boxDir, main, handed>>

-----------------------------------------------------------------------------
(* main after SIGINT or SIGTERM.                                            *)
MainStep(from, to) ==
  /\ main = from
  /\ main' = to
  /\ UNCHANGED <<jobQueue, availableCount, workerVars, adder, judgeVars,
                 waitChan, waits, handed>>

Shutdown ==
  MainStep("serving", "stopping") /\ UNCHANGED <<AvailableBoxIDs, waitingQueue>>

(* The polling loop reads WaitingCount, then ProcessingCount.               *)
ReadWaiting ==
  /\ WaitingCount = 0
  /\ MainStep("stopping", "sawNoJobs")
  /\ UNCHANGED <<AvailableBoxIDs, waitingQueue>>

(* Mutant: the loop leaves as soon as one box is free again.                *)
ReadProcessingAnyFree ==
  /\ MainStep("sawNoJobs",
              IF AvailableCount > 0 THEN "cleanExit" ELSE "stopping")
  /\ UNCHANGED <<AvailableBoxIDs, waitingQueue>>

ReadProcessing ==
  /\ MainStep("sawNoJobs",
              IF ProcessingCount = 0 THEN "cleanExit" ELSE "stopping")
  /\ UNCHANGED <<AvailableBoxIDs, waitingQueue>>

(* Mutant: the loop has no timeout.                                         *)
ShutdownTimeoutNever == FALSE /\ UNCHANGED vars

ShutdownTimeout ==
  MainStep("stopping", "timedOutExit")
  /\ UNCHANGED <<AvailableBoxIDs, waitingQueue>>

(* The deferred Cleanup empties the box and waiter queues and the process   *)
(* ends.                                                                    *)
Cleanup ==
  \E from \in {"cleanExit", "timedOutExit"} :
    /\ MainStep(from, "down")
    /\ AvailableBoxIDs' = <<>> /\ waitingQueue' = <<>>

-----------------------------------------------------------------------------
AddJob(j) == AddJobBegin(j) \/ AddJobEnqueue(j) \/ AddJobReturn(j) \/ AddJobFail(j)

Reserve == ReserveBox \/ ReserveMiss \/ ReserveWait \/ ReserveReceive
             \/ ReserveTimeout

Worker == WorkerTick \/ WorkerStop \/ CheckAvailable \/ LeaveLoop \/ TakeJob
            \/ Reserve \/ Launch

Release(j) == ReleaseHandOff(j) \/ ReleaseNoWaiter(j) \/ ReleaseCount(j)
                \/ ReleaseEnqueue(j)

Judge(j) == LookupFail(j) \/ LookupDone(j) \/ JudgeCancelled(j) \/ JudgeStart(j)
              \/ JudgeFail(j) \/ JudgeFinish(j) \/ Release(j)

Main == Shutdown \/ ReadWaiting \/ ReadProcessing \/ ShutdownTimeout \/ Cleanup

Next == Worker \/ (\E j \in Job : AddJob(j) \/ Judge(j)) \/ Main

Spec == Init /\ [][Next]_vars

(* Every goroutine keeps running and timers fire.  The shutdown loop polls  *)
(* for ever until its timeout, so the timeout is met again and again: strong *)
(* fairness.  Nothing forces an AddJob to begin (dispatching is the          *)
(* scheduler's) or a shutdown.                                               *)
Fairness ==
  /\ WF_vars(Worker)
  /\ \A j \in Job :
       WF_vars(AddJobEnqueue(j) \/ AddJobReturn(j) \/ AddJobFail(j))
  /\ \A j \in Job : WF_vars(Judge(j))
  /\ WF_vars(ReadProcessing \/ Cleanup)
  /\ SF_vars(ShutdownTimeout)

FairSpec == Spec /\ Fairness

-----------------------------------------------------------------------------
(* Where boxes and jobs are.                                                *)
FreeBoxes  == Range(AvailableBoxIDs)
BufferedIn == {c \in Chan : waitChan[c] # NoBox}
Holders    == {j \in Job : heldBox[j] # NoBox}
Holding    == {j \in Job : judge[j] \in BeforeCount}
Cloning    == {j \in Job : adder[j] \in {"cloning", "queued"}}

(* A box is in at most one place: once in the free queue, in one channel's  *)
(* buffer, in the worker's hand or with one judge (Reserve, Release).  Two  *)
(* programs never run in one box.                                           *)
BoxExclusive ==
  /\ IsInjective(AvailableBoxIDs)
  /\ \A c, d \in BufferedIn : waitChan[c] = waitChan[d] => c = d
  /\ \A j, k \in Holders : heldBox[j] = heldBox[k] => j = k
  /\ \A c \in BufferedIn : waitChan[c] \notin FreeBoxes
  /\ \A j \in Holders : /\ heldBox[j] \notin FreeBoxes
                        /\ \A c \in BufferedIn : waitChan[c] # heldBox[j]
  /\ boxID # NoBox => /\ boxID \notin FreeBoxes
                      /\ \A c \in BufferedIn : waitChan[c] # boxID
                      /\ \A j \in Holders : heldBox[j] # boxID

(* Release and Reserve lose no box between them: until Cleanup drains the   *)
(* queues every box is in one of those places, be it a channel that nobody  *)
(* reads any more.                                                          *)
BoxConserved ==
  main # "down" =>
    \A b \in Boxes : \/ b \in FreeBoxes \/ b = boxID
                     \/ \E c \in Chan : waitChan[c] = b
                     \/ \E j \in Job : heldBox[j] = b

(* The exact meaning of availableCount: each launched job that has not been *)
(* counted back, each running AddJob and each hand-off ever made cost one   *)
(* unit.  The hand-offs are never given back, so the counter drifts down.   *)
CountAccounting ==
  availableCount = SandboxCount - Cardinality(Holding) - Cardinality(Cloning)
                     - handed

(* A job accepted by AddJob is in exactly one place - once in the job       *)
(* queue, in the worker's hand or with its judge - and a job not accepted   *)
(* is nowhere: a Reserve that times out neither loses nor duplicates it.    *)
JobOnce ==
  /\ IsInjective(jobQueue)
  /\ \A j \in Range(jobQueue) : j # job /\ judge[j] = "none"
  /\ job # NoJob => judge[job] = "none"
  /\ \A j \in Job :
       adder[j] \in {"queued", "returned"} <=>
         j \in Range(jobQueue) \/ j = job \/ judge[j] # "none"

(* A Reserve that waits can still be served: its channel is queued for the  *)
(* next Release or already holds a box.                                     *)
WaiterHeard ==
  main # "down" /\ workerPC = "waiting" =>
    waits \in Range(waitingQueue) \/ waitChan[waits] # NoBox

(* isolate --init runs between two jobs of a box, unless it failed or a     *)
(* hand-off skipped it: as long as no box was handed over, no job starts    *)
(* among the files of the previous one.                                     *)
CleanUnlessHanded ==
  handed = 0 =>
    \A j \in Job : judge[j] \in {"lookup", "ready"} => boxDir[heldBox[j]] # "used"

(* A verdict, once written, is never overwritten by the same job: not by    *)
(* "Judging...", not by another verdict, not by the shutdown path.          *)
VerdictStable ==
  [][\A j \in Job : row[j] \in {Failed} \cup Scores => row'[j] = row[j]]_vars

(* When main's polling loop ends because it saw no waiting and no processing *)
(* job, no judge is at work and no AddJob is running, although the two      *)
(* readings are taken one after the other.                                  *)
CleanExitIdle ==
  [][main' = "cleanExit" /\ main # "cleanExit" =>
       Holding = {} /\ Cloning = {}]_vars

(* What the pool has done with a job, in the terms of JobLifecycle: a job   *)
(* is completed when its judge has written the last status of its row.      *)
Fate(j) ==
  CASE adder[j] = "idle"    -> "new"
    [] adder[j] = "dropped" -> "lost"
    [] adder[j] \notin {"idle", "dropped"} ->
         IF judge[j] \in {"none", "lookup", "ready", "running"}
           THEN "pending" ELSE "completed"

JobFate   == [j \in Job |-> Fate(j)]
Lifecycle == INSTANCE JobLifecycle WITH fate <- JobFate

(* The pool implements the life cycle of a job: one that AddJob dropped is  *)
(* never judged, one that was judged is never judged again.                 *)
ImplementsLifecycle == Lifecycle!Spec

(* If no Reserve ever has to wait, every job whose AddJob begins is judged  *)
(* or dropped, as long as the server is not shut down.                      *)
JudgedUnlessWaiting ==
  [](waits = 0 /\ ~Cancelled) =>
    \A j \in Job : adder[j] = "cloning" ~>
                     (judge[j] = "done" \/ adder[j] = "dropped")

(* A Reserve that waits returns, with a box or without.                     *)
ReserveReturns == workerPC = "waiting" ~> (workerPC # "waiting" \/ main = "down")

(* A shutdown ends, jobs left or not.                                       *)
ShutdownEnds == main = "stopping" ~> main = "down"

-----------------------------------------------------------------------------
(* What the proofs add to the properties above to make them inductive.      *)

(* Which goroutine holds what at which control point.                       *)
ControlInv ==
  /\ job # NoJob <=> workerPC \in {"reserve", "missed", "waiting", "reserved"}
  /\ boxID # NoBox <=> workerPC = "reserved"
  /\ workerPC = "waiting" => waits > 0
  /\ \A j \in Job :
       heldBox[j] # NoBox <=> judge[j] \in BeforeCount \cup {"counted"}

(* The queued channels are distinct, already made and still empty; so are   *)
(* the channels not made yet.                                               *)
ChannelInv ==
  /\ IsInjective(waitingQueue)
  /\ \A c \in Range(waitingQueue) : c <= waits /\ waitChan[c] = NoBox
  /\ \A c \in Chan : c > waits => waitChan[c] = NoBox

(* A row says how far the judge of its job has come.                        *)
RowInv ==
  \A j \in Job :
    /\ judge[j] \in {"none", "lookup", "ready"} => row[j] = Waiting
    /\ judge[j] = "running" => row[j] = Judging

IndInv ==
  /\ TypeOK /\ ControlInv /\ ChannelInv /\ RowInv
  /\ JobOnce /\ BoxExclusive /\ CountAccounting

-----------------------------------------------------------------------------
(* What comments of the code say, and the code does not do.                 *)

(* runHandler.go:220 logs "Done for judge!": the row would no longer say    *)
(* JUDGING (interface.go:17).                                               *)
VerdictWritten == \A j \in Job : judge[j] = "done" => row[j] # Judging
=============================================================================
