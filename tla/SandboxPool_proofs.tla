------------------------- MODULE SandboxPool_proofs -------------------------
(***************************************************************************)
(* Theorems about SandboxPool, for every number of boxes and every finite  *)
(* set of jobs.                                                            *)
(***************************************************************************)
EXTENDS SandboxPool, DataLemmas

-----------------------------------------------------------------------------
(* Type correctness and control points.  Neither is inductive alone: that   *)
(* Release enqueues a box and that a timed-out Reserve requeues a job       *)
(* depends on what the goroutine holds there.                               *)

(* The initial state has the right types and locals.                        *)
LEMMA TypeInit == Init => TypeOK /\ ControlInv
  BY PoolAssumption DEF Init, TypeOK, ControlInv, Boxes, NoBox, Chan, Waiting,
       BeforeCount

(* Every step keeps the types: the queues only ever hold boxes, channels    *)
(* and jobs.                                                                *)
LEMMA TypeNext == TypeOK /\ ControlInv /\ [Next]_vars => TypeOK'
<1>. SUFFICES ASSUME TypeOK, ControlInv, [Next]_vars PROVE TypeOK'
  OBVIOUS
<1>. USE PoolAssumption DEF TypeOK, ControlInv, Boxes, NoBox, Chan, Waiting,
     Failed, Judging,
       BeforeCount, poolVars, workerVars, judgeVars
<1>1. CASE Worker
  <2>1. CASE WorkerTick
    BY <2>1 DEF WorkerTick, WorkerStep
  <2>2. CASE WorkerStop
    BY <2>2 DEF WorkerStop, WorkerStep
  <2>3. CASE CheckAvailable
    BY <2>3 DEF CheckAvailable, WorkerStep
  <2>4. CASE LeaveLoop
    BY <2>4 DEF LeaveLoop, WorkerStep
  <2>5. CASE TakeJob
    BY <2>5, DequeueFacts DEF TakeJob, WorkerStep
  <2>6. CASE ReserveBox
    BY <2>6, DequeueFacts DEF ReserveBox, WorkerStep
  <2>7. CASE ReserveMiss
    BY <2>7 DEF ReserveMiss, WorkerStep
  <2>8. CASE ReserveWait
    BY <2>8, AppendFacts DEF ReserveWait, WorkerStep
  <2>9. CASE ReserveReceive
    BY <2>9 DEF ReserveReceive, WorkerStep
  <2>10. CASE ReserveTimeout
    BY <2>10, AppendFacts DEF ReserveTimeout, WorkerStep
  <2>11. CASE Launch
    BY <2>11 DEF Launch, WorkerStep
  <2>. QED BY <1>1, <2>1, <2>2, <2>3, <2>4, <2>5, <2>6, <2>7, <2>8, <2>9,
       <2>10, <2>11 DEF Worker, Reserve
<1>2. ASSUME NEW j \in Job, AddJob(j) PROVE TypeOK'
  <2>1. CASE AddJobBegin(j)
    BY <2>1 DEF AddJobBegin, AddJobStep
  <2>2. CASE AddJobEnqueue(j)
    BY <2>2, AppendFacts DEF AddJobEnqueue, AddJobStep
  <2>3. CASE AddJobReturn(j)
    BY <2>3 DEF AddJobReturn, AddJobStep
  <2>4. CASE AddJobFail(j)
    BY <2>4 DEF AddJobFail, AddJobStep
  <2>. QED BY <1>2, <2>1, <2>2, <2>3, <2>4 DEF AddJob
<1>3. ASSUME NEW j \in Job, Judge(j) PROVE TypeOK'
  <2>1. CASE LookupFail(j)
    BY <2>1 DEF LookupFail, JudgeStep
  <2>2. CASE LookupDone(j)
    BY <2>2 DEF LookupDone, JudgeStep
  <2>3. CASE JudgeCancelled(j)
    BY <2>3 DEF JudgeCancelled, JudgeStep
  <2>4. CASE JudgeStart(j)
    BY <2>4 DEF JudgeStart, JudgeStep
  <2>5. CASE JudgeFail(j)
    BY <2>5 DEF JudgeFail, JudgeStep
  <2>6. CASE JudgeFinish(j)
    BY <2>6 DEF JudgeFinish, JudgeStep, Updates
  <2>7. CASE ReleaseHandOff(j)
    <3>1. Head(waitingQueue) \in Chan /\ Tail(waitingQueue) \in Seq(Chan)
      BY <2>7, DequeueFacts DEF ReleaseHandOff
    <3>2. /\ waitChan' = [waitChan EXCEPT ![Head(waitingQueue)] = heldBox[j]]
          /\ waitingQueue' = Tail(waitingQueue)
          /\ judge' = [judge EXCEPT ![j] = "done"]
          /\ heldBox' = [heldBox EXCEPT ![j] = NoBox]
          /\ handed' = handed + 1
          /\ UNCHANGED <<AvailableBoxIDs, waits, jobQueue, availableCount,
                         workerVars, adder, row, boxDir, main>>
      BY <2>7 DEF ReleaseHandOff
    <3>3. heldBox[j] \in Boxes \cup {NoBox}
      OBVIOUS
    <3>4. waitChan' \in [Chan -> Boxes \cup {NoBox}]
      BY <3>1, <3>2, <3>3
    <3>5. /\ judge' \in [Job -> BeforeCount \cup {"none", "counted", "done"}]
          /\ heldBox' \in [Job -> Boxes \cup {NoBox}]
      BY <3>2
    <3>. QED BY <3>1, <3>2, <3>4, <3>5
  <2>8. CASE ReleaseNoWaiter(j)
    BY <2>8 DEF ReleaseNoWaiter, JudgeStep
  <2>9. CASE ReleaseCount(j)
    BY <2>9 DEF ReleaseCount
  <2>10. CASE ReleaseEnqueue(j)
    BY <2>10, AppendFacts DEF ReleaseEnqueue
  <2>. QED BY <1>3, <2>1, <2>2, <2>3, <2>4, <2>5, <2>6, <2>7, <2>8, <2>9,
       <2>10 DEF Judge, Release
<1>4. CASE Main
  <2>1. CASE Shutdown
    BY <2>1 DEF Shutdown, MainStep
  <2>2. CASE ReadWaiting
    BY <2>2 DEF ReadWaiting, MainStep
  <2>3. CASE ReadProcessing
    BY <2>3 DEF ReadProcessing, MainStep
  <2>4. CASE ShutdownTimeout
    BY <2>4 DEF ShutdownTimeout, MainStep
  <2>5. CASE Cleanup
    BY <2>5 DEF Cleanup, MainStep
  <2>. QED BY <1>4, <2>1, <2>2, <2>3, <2>4, <2>5 DEF Main
<1>5. CASE UNCHANGED vars
  BY <1>5 DEF vars
<1>. QED BY <1>1, <1>2, <1>3, <1>4, <1>5 DEF Next

(* Every step keeps what each goroutine holds in accord with its control    *)
(* point.                                                                   *)
LEMMA ControlNext == TypeOK /\ ControlInv /\ [Next]_vars => ControlInv'
<1>. SUFFICES ASSUME TypeOK, ControlInv, [Next]_vars PROVE ControlInv'
  OBVIOUS
<1>. USE PoolAssumption DEF TypeOK, ControlInv, Boxes, NoBox, Chan, 
       BeforeCount, poolVars, workerVars, judgeVars
<1>1. CASE Worker
  <2>1. CASE WorkerTick
    BY <2>1 DEF WorkerTick, WorkerStep
  <2>2. CASE WorkerStop
    BY <2>2 DEF WorkerStop, WorkerStep
  <2>3. CASE CheckAvailable
    BY <2>3 DEF CheckAvailable, WorkerStep
  <2>4. CASE LeaveLoop
    BY <2>4 DEF LeaveLoop, WorkerStep
  <2>5. CASE TakeJob
    BY <2>5 DEF TakeJob, WorkerStep
  <2>6. CASE ReserveBox
    BY <2>6 DEF ReserveBox, WorkerStep
  <2>7. CASE ReserveMiss
    BY <2>7 DEF ReserveMiss, WorkerStep
  <2>8. CASE ReserveWait
    BY <2>8 DEF ReserveWait, WorkerStep
  <2>9. CASE ReserveReceive
    BY <2>9 DEF ReserveReceive, WorkerStep
  <2>10. CASE ReserveTimeout
    BY <2>10 DEF ReserveTimeout, WorkerStep
  <2>11. CASE Launch
    BY <2>11 DEF Launch, WorkerStep
  <2>. QED BY <1>1, <2>1, <2>2, <2>3, <2>4, <2>5, <2>6, <2>7, <2>8, <2>9,
       <2>10, <2>11 DEF Worker, Reserve
<1>2. ASSUME NEW j \in Job, AddJob(j) PROVE ControlInv'
  <2>1. CASE AddJobBegin(j)
    BY <2>1 DEF AddJobBegin, AddJobStep
  <2>2. CASE AddJobEnqueue(j)
    BY <2>2 DEF AddJobEnqueue, AddJobStep
  <2>3. CASE AddJobReturn(j)
    BY <2>3 DEF AddJobReturn, AddJobStep
  <2>4. CASE AddJobFail(j)
    BY <2>4 DEF AddJobFail, AddJobStep
  <2>. QED BY <1>2, <2>1, <2>2, <2>3, <2>4 DEF AddJob
<1>3. ASSUME NEW j \in Job, Judge(j) PROVE ControlInv'
  <2>1. CASE LookupFail(j)
    BY <2>1 DEF LookupFail, JudgeStep
  <2>2. CASE LookupDone(j)
    BY <2>2 DEF LookupDone, JudgeStep
  <2>3. CASE JudgeCancelled(j)
    BY <2>3 DEF JudgeCancelled, JudgeStep
  <2>4. CASE JudgeStart(j)
    BY <2>4 DEF JudgeStart, JudgeStep
  <2>5. CASE JudgeFail(j)
    BY <2>5 DEF JudgeFail, JudgeStep
  <2>6. CASE JudgeFinish(j)
    BY <2>6 DEF JudgeFinish, JudgeStep
  <2>7. CASE ReleaseHandOff(j)
    BY <2>7 DEF ReleaseHandOff
  <2>8. CASE ReleaseNoWaiter(j)
    BY <2>8 DEF ReleaseNoWaiter, JudgeStep
  <2>9. CASE ReleaseCount(j)
    BY <2>9 DEF ReleaseCount
  <2>10. CASE ReleaseEnqueue(j)
    BY <2>10 DEF ReleaseEnqueue
  <2>. QED BY <1>3, <2>1, <2>2, <2>3, <2>4, <2>5, <2>6, <2>7, <2>8, <2>9,
       <2>10 DEF Judge, Release
<1>4. CASE Main
  <2>1. CASE Shutdown
    BY <2>1 DEF Shutdown, MainStep
  <2>2. CASE ReadWaiting
    BY <2>2 DEF ReadWaiting, MainStep
  <2>3. CASE ReadProcessing
    BY <2>3 DEF ReadProcessing, MainStep
  <2>4. CASE ShutdownTimeout
    BY <2>4 DEF ShutdownTimeout, MainStep
  <2>5. CASE Cleanup
    BY <2>5 DEF Cleanup, MainStep
  <2>. QED BY <1>4, <2>1, <2>2, <2>3, <2>4, <2>5 DEF Main
<1>5. CASE UNCHANGED vars
  BY <1>5 DEF vars
<1>. QED BY <1>1, <1>2, <1>3, <1>4, <1>5 DEF Next

-----------------------------------------------------------------------------
(* Jobs: no job is lost or duplicated between AddJob, the job queue, the    *)
(* worker and its judge.                                                    *)

(* At the start no job has been accepted and none is anywhere.              *)
LEMMA JobInit == Init => JobOnce
<1>. SUFFICES ASSUME Init PROVE JobOnce
  OBVIOUS
<1>1. Range(jobQueue) = {} /\ IsInjective(jobQueue)
  BY DEF Init, Range, IsInjective
<1>. QED BY <1>1, PoolAssumption DEF Init, JobOnce

(* Every step, a timed-out Reserve included, keeps each accepted job in     *)
(* exactly one place.                                                       *)
LEMMA JobNext == TypeOK /\ ControlInv /\ JobOnce /\ [Next]_vars => JobOnce'
<1>. SUFFICES ASSUME TypeOK, ControlInv, JobOnce, [Next]_vars PROVE JobOnce'
  OBVIOUS
<1>. USE PoolAssumption DEF TypeOK, ControlInv, JobOnce,
       BeforeCount, poolVars, workerVars, judgeVars
<1>1. CASE Worker
  <2>1. CASE WorkerTick
    BY <2>1 DEF WorkerTick, WorkerStep
  <2>2. CASE WorkerStop
    BY <2>2 DEF WorkerStop, WorkerStep
  <2>3. CASE CheckAvailable
    BY <2>3 DEF CheckAvailable, WorkerStep
  <2>4. CASE LeaveLoop
    BY <2>4 DEF LeaveLoop, WorkerStep
  <2>5. CASE TakeJob
    <3>1. /\ jobQueue \in Seq(Job) /\ jobQueue # <<>> /\ job = NoJob
          /\ job' = Head(jobQueue) /\ jobQueue' = Tail(jobQueue)
          /\ UNCHANGED <<judge, adder>>
      BY <2>5 DEF TakeJob, WorkerStep
    <3>2. /\ Head(jobQueue) \in Job
          /\ Range(jobQueue) = Range(jobQueue') \cup {Head(jobQueue)}
          /\ IsInjective(jobQueue') /\ Head(jobQueue) \notin Range(jobQueue')
      BY <3>1, DequeueFacts
    <3>. QED BY <3>1, <3>2
  <2>6. CASE ReserveBox
    BY <2>6 DEF ReserveBox, WorkerStep
  <2>7. CASE ReserveMiss
    BY <2>7 DEF ReserveMiss, WorkerStep
  <2>8. CASE ReserveWait
    BY <2>8 DEF ReserveWait, WorkerStep
  <2>9. CASE ReserveReceive
    BY <2>9 DEF ReserveReceive, WorkerStep
  <2>10. CASE ReserveTimeout
    <3>1. /\ jobQueue \in Seq(Job) /\ job \in Job /\ job' = NoJob
          /\ jobQueue' = Append(jobQueue, job)
          /\ UNCHANGED <<judge, adder>>
      BY <2>10 DEF ReserveTimeout, WorkerStep
    <3>2. /\ Range(jobQueue') = Range(jobQueue) \cup {job}
          /\ IsInjective(jobQueue')
      BY <3>1, AppendFacts
    <3>3. \A k \in Job : k # NoJob
      OBVIOUS
    <3>4. \A k \in Range(jobQueue) : k \in Job
      BY <3>1, RangeType
    <3>. QED BY <3>1, <3>2, <3>3, <3>4
  <2>11. CASE Launch
    <3>1. /\ job \in Job /\ job \notin Range(jobQueue)
          /\ judge' = [judge EXCEPT ![job] = "lookup"] /\ job' = NoJob
          /\ UNCHANGED <<jobQueue, adder>>
      BY <2>11 DEF Launch, WorkerStep
    <3>2. \A k \in Range(jobQueue) : k \in Job
      BY RangeType
    <3>3. /\ judge'[job] = "lookup"
          /\ \A k \in Job : k # job => judge'[k] = judge[k]
      BY <3>1
    <3>. QED BY <3>1, <3>2, <3>3
  <2>. QED BY <1>1, <2>1, <2>2, <2>3, <2>4, <2>5, <2>6, <2>7, <2>8, <2>9,
       <2>10, <2>11 DEF Worker, Reserve
<1>2. ASSUME NEW j \in Job, AddJob(j) PROVE JobOnce'
  <2>1. CASE AddJobBegin(j)
    BY <2>1 DEF AddJobBegin, AddJobStep
  <2>2. CASE AddJobEnqueue(j)
    <3>1. /\ jobQueue \in Seq(Job) /\ adder[j] = "cloning"
          /\ jobQueue' = Append(jobQueue, j)
          /\ adder' = [adder EXCEPT ![j] = "queued"]
          /\ UNCHANGED <<judge, job>>
      BY <2>2 DEF AddJobEnqueue, AddJobStep
    <3>2. j \notin Range(jobQueue) /\ j # job /\ judge[j] = "none"
      BY <3>1
    <3>3. /\ Range(jobQueue') = Range(jobQueue) \cup {j}
          /\ IsInjective(jobQueue')
      BY <3>1, <3>2, AppendFacts
    <3>. QED BY <3>1, <3>2, <3>3
  <2>3. CASE AddJobReturn(j)
    BY <2>3 DEF AddJobReturn, AddJobStep
  <2>4. CASE AddJobFail(j)
    BY <2>4 DEF AddJobFail, AddJobStep
  <2>. QED BY <1>2, <2>1, <2>2, <2>3, <2>4 DEF AddJob
<1>3. ASSUME NEW j \in Job, Judge(j) PROVE JobOnce'
  <2>1. CASE LookupFail(j)
    BY <2>1 DEF LookupFail, JudgeStep
  <2>2. CASE LookupDone(j)
    BY <2>2 DEF LookupDone, JudgeStep
  <2>3. CASE JudgeCancelled(j)
    BY <2>3 DEF JudgeCancelled, JudgeStep
  <2>4. CASE JudgeStart(j)
    BY <2>4 DEF JudgeStart, JudgeStep
  <2>5. CASE JudgeFail(j)
    BY <2>5 DEF JudgeFail, JudgeStep
  <2>6. CASE JudgeFinish(j)
    BY <2>6 DEF JudgeFinish, JudgeStep
  <2>7. CASE ReleaseHandOff(j)
    BY <2>7 DEF ReleaseHandOff
  <2>8. CASE ReleaseNoWaiter(j)
    BY <2>8 DEF ReleaseNoWaiter, JudgeStep
  <2>9. CASE ReleaseCount(j)
    BY <2>9 DEF ReleaseCount
  <2>10. CASE ReleaseEnqueue(j)
    BY <2>10 DEF ReleaseEnqueue
  <2>. QED BY <1>3, <2>1, <2>2, <2>3, <2>4, <2>5, <2>6, <2>7, <2>8, <2>9,
       <2>10 DEF Judge, Release
<1>4. CASE Main
  <2>1. CASE Shutdown
    BY <2>1 DEF Shutdown, MainStep
  <2>2. CASE ReadWaiting
    BY <2>2 DEF ReadWaiting, MainStep
  <2>3. CASE ReadProcessing
    BY <2>3 DEF ReadProcessing, MainStep
  <2>4. CASE ShutdownTimeout
    BY <2>4 DEF ShutdownTimeout, MainStep
  <2>5. CASE Cleanup
    BY <2>5 DEF Cleanup, MainStep
  <2>. QED BY <1>4, <2>1, <2>2, <2>3, <2>4, <2>5 DEF Main
<1>5. CASE UNCHANGED vars
  BY <1>5 DEF vars
<1>. QED BY <1>1, <1>2, <1>3, <1>4, <1>5 DEF Next

-----------------------------------------------------------------------------
(* The counter: each step changes availableCount by what it adds to or      *)
(* removes from the launched jobs, the running AddJobs and the hand-offs.   *)

(* The sets that are counted are finite.                                    *)
LEMMA HoldingFinite ==
  /\ IsFiniteSet(Holding) /\ IsFiniteSet(Cloning)
  /\ Cardinality(Holding) \in Nat /\ Cardinality(Cloning) \in Nat
<1>1. Holding \in SUBSET Job /\ Cloning \in SUBSET Job
  BY DEF Holding, Cloning
<1>. QED BY <1>1, FS_Subset, FS_CardinalityType, PoolAssumption

(* NewSandbox starts the counter at the number of boxes.                    *)
LEMMA CountInit == Init => CountAccounting
<1>. SUFFICES ASSUME Init PROVE CountAccounting
  OBVIOUS
<1>1. Holding = {} /\ Cloning = {}
  BY DEF Init, Holding, Cloning, BeforeCount
<1>. QED BY <1>1, FS_EmptySet, PoolAssumption DEF Init, CountAccounting

(* Every step keeps the equation.  Launch needs JobOnce: the job it         *)
(* launches is not already counted.                                         *)
LEMMA CountNext ==
  TypeOK /\ ControlInv /\ JobOnce /\ CountAccounting /\ [Next]_vars => CountAccounting'
<1>. SUFFICES ASSUME TypeOK, ControlInv, JobOnce, CountAccounting, [Next]_vars
              PROVE  CountAccounting'
  OBVIOUS
<1>. USE PoolAssumption, HoldingFinite
     DEF TypeOK, CountAccounting, BeforeCount, poolVars, workerVars, judgeVars
<1>1. CASE Worker
  <2>1. CASE WorkerTick
    <3>1. Holding' = Holding /\ Cloning' = Cloning
      BY <2>1 DEF WorkerTick, WorkerStep, Holding, Cloning
    <3>. QED BY <2>1, <3>1 DEF WorkerTick, WorkerStep
  <2>2. CASE WorkerStop
    <3>1. Holding' = Holding /\ Cloning' = Cloning
      BY <2>2 DEF WorkerStop, WorkerStep, Holding, Cloning
    <3>. QED BY <2>2, <3>1 DEF WorkerStop, WorkerStep
  <2>3. CASE CheckAvailable
    <3>1. Holding' = Holding /\ Cloning' = Cloning
      BY <2>3 DEF CheckAvailable, WorkerStep, Holding, Cloning
    <3>. QED BY <2>3, <3>1 DEF CheckAvailable, WorkerStep
  <2>4. CASE LeaveLoop
    <3>1. Holding' = Holding /\ Cloning' = Cloning
      BY <2>4 DEF LeaveLoop, WorkerStep, Holding, Cloning
    <3>. QED BY <2>4, <3>1 DEF LeaveLoop, WorkerStep
  <2>5. CASE TakeJob
    <3>1. Holding' = Holding /\ Cloning' = Cloning
      BY <2>5 DEF TakeJob, WorkerStep, Holding, Cloning
    <3>. QED BY <2>5, <3>1 DEF TakeJob, WorkerStep
  <2>6. CASE ReserveBox
    <3>1. Holding' = Holding /\ Cloning' = Cloning
      BY <2>6 DEF ReserveBox, WorkerStep, Holding, Cloning
    <3>. QED BY <2>6, <3>1 DEF ReserveBox, WorkerStep
  <2>7. CASE ReserveMiss
    <3>1. Holding' = Holding /\ Cloning' = Cloning
      BY <2>7 DEF ReserveMiss, WorkerStep, Holding, Cloning
    <3>. QED BY <2>7, <3>1 DEF ReserveMiss, WorkerStep
  <2>8. CASE ReserveWait
    <3>1. Holding' = Holding /\ Cloning' = Cloning
      BY <2>8 DEF ReserveWait, WorkerStep, Holding, Cloning
    <3>. QED BY <2>8, <3>1 DEF ReserveWait, WorkerStep
  <2>9. CASE ReserveReceive
    <3>1. Holding' = Holding /\ Cloning' = Cloning
      BY <2>9 DEF ReserveReceive, WorkerStep, Holding, Cloning
    <3>. QED BY <2>9, <3>1 DEF ReserveReceive, WorkerStep
  <2>10. CASE ReserveTimeout
    <3>1. Holding' = Holding /\ Cloning' = Cloning
      BY <2>10 DEF ReserveTimeout, WorkerStep, Holding, Cloning
    <3>. QED BY <2>10, <3>1 DEF ReserveTimeout, WorkerStep
  <2>11. CASE Launch
    <3>1. /\ job \in Job /\ job \notin Holding
          /\ Holding' = Holding \cup {job} /\ Cloning' = Cloning
      BY <2>11 DEF Launch, WorkerStep, Holding, Cloning, ControlInv, JobOnce
    <3>2. Cardinality(Holding') = Cardinality(Holding) + 1
      BY <3>1, FS_AddElement
    <3>. QED BY <2>11, <3>1, <3>2 DEF Launch, WorkerStep
  <2>. QED BY <1>1, <2>1, <2>2, <2>3, <2>4, <2>5, <2>6, <2>7, <2>8, <2>9,
       <2>10, <2>11 DEF Worker, Reserve
<1>2. ASSUME NEW j \in Job, AddJob(j) PROVE CountAccounting'
  <2>1. CASE AddJobBegin(j)
    <3>1. /\ j \notin Cloning
          /\ Holding' = Holding /\ Cloning' = Cloning \cup {j}
      BY <2>1 DEF AddJobBegin, AddJobStep, Holding, Cloning
    <3>2. Cardinality(Cloning') = Cardinality(Cloning) + 1
      BY <3>1, FS_AddElement
    <3>. QED BY <2>1, <3>1, <3>2 DEF AddJobBegin, AddJobStep
  <2>2. CASE AddJobEnqueue(j)
    <3>1. Holding' = Holding /\ Cloning' = Cloning
      BY <2>2 DEF AddJobEnqueue, AddJobStep, Holding, Cloning
    <3>. QED BY <2>2, <3>1 DEF AddJobEnqueue, AddJobStep
  <2>3. CASE AddJobReturn(j)
    <3>1. /\ j \in Cloning
          /\ Holding' = Holding /\ Cloning' = Cloning \ {j}
      BY <2>3 DEF AddJobReturn, AddJobStep, Holding, Cloning
    <3>2. Cardinality(Cloning') = Cardinality(Cloning) - 1
      BY <3>1, FS_RemoveElement
    <3>. QED BY <2>3, <3>1, <3>2 DEF AddJobReturn, AddJobStep
  <2>4. CASE AddJobFail(j)
    <3>1. /\ j \in Cloning
          /\ Holding' = Holding /\ Cloning' = Cloning \ {j}
      BY <2>4 DEF AddJobFail, AddJobStep, Holding, Cloning
    <3>2. Cardinality(Cloning') = Cardinality(Cloning) - 1
      BY <3>1, FS_RemoveElement
    <3>. QED BY <2>4, <3>1, <3>2 DEF AddJobFail, AddJobStep
  <2>. QED BY <1>2, <2>1, <2>2, <2>3, <2>4 DEF AddJob
<1>3. ASSUME NEW j \in Job, Judge(j) PROVE CountAccounting'
  <2>1. CASE LookupFail(j)
    <3>1. Holding' = Holding /\ Cloning' = Cloning
      BY <2>1 DEF LookupFail, JudgeStep, Holding, Cloning
    <3>. QED BY <2>1, <3>1 DEF LookupFail, JudgeStep
  <2>2. CASE LookupDone(j)
    <3>1. Holding' = Holding /\ Cloning' = Cloning
      BY <2>2 DEF LookupDone, JudgeStep, Holding, Cloning
    <3>. QED BY <2>2, <3>1 DEF LookupDone, JudgeStep
  <2>3. CASE JudgeCancelled(j)
    <3>1. Holding' = Holding /\ Cloning' = Cloning
      BY <2>3 DEF JudgeCancelled, JudgeStep, Holding, Cloning
    <3>. QED BY <2>3, <3>1 DEF JudgeCancelled, JudgeStep
  <2>4. CASE JudgeStart(j)
    <3>1. Holding' = Holding /\ Cloning' = Cloning
      BY <2>4 DEF JudgeStart, JudgeStep, Holding, Cloning
    <3>. QED BY <2>4, <3>1 DEF JudgeStart, JudgeStep
  <2>5. CASE JudgeFail(j)
    <3>1. Holding' = Holding /\ Cloning' = Cloning
      BY <2>5 DEF JudgeFail, JudgeStep, Holding, Cloning
    <3>. QED BY <2>5, <3>1 DEF JudgeFail, JudgeStep
  <2>6. CASE JudgeFinish(j)
    <3>1. Holding' = Holding /\ Cloning' = Cloning
      BY <2>6 DEF JudgeFinish, JudgeStep, Holding, Cloning
    <3>. QED BY <2>6, <3>1 DEF JudgeFinish, JudgeStep
  <2>7. CASE ReleaseHandOff(j)
    <3>1. /\ j \in Holding
          /\ Holding' = Holding \ {j} /\ Cloning' = Cloning
      BY <2>7 DEF ReleaseHandOff, Holding, Cloning
    <3>2. Cardinality(Holding') = Cardinality(Holding) - 1
      BY <3>1, FS_RemoveElement
    <3>3. availableCount' = availableCount /\ handed' = handed + 1
      BY <2>7 DEF ReleaseHandOff
    <3>. QED BY <3>1, <3>2, <3>3
  <2>8. CASE ReleaseNoWaiter(j)
    <3>1. Holding' = Holding /\ Cloning' = Cloning
      BY <2>8 DEF ReleaseNoWaiter, JudgeStep, Holding, Cloning
    <3>. QED BY <2>8, <3>1 DEF ReleaseNoWaiter, JudgeStep
  <2>9. CASE ReleaseCount(j)
    <3>1. /\ j \in Holding
          /\ Holding' = Holding \ {j} /\ Cloning' = Cloning
      BY <2>9 DEF ReleaseCount, Holding, Cloning
    <3>2. Cardinality(Holding') = Cardinality(Holding) - 1
      BY <3>1, FS_RemoveElement
    <3>. QED BY <2>9, <3>1, <3>2 DEF ReleaseCount
  <2>10. CASE ReleaseEnqueue(j)
    <3>1. Holding' = Holding /\ Cloning' = Cloning
      BY <2>10 DEF ReleaseEnqueue, Holding, Cloning
    <3>. QED BY <2>10, <3>1 DEF ReleaseEnqueue
  <2>. QED BY <1>3, <2>1, <2>2, <2>3, <2>4, <2>5, <2>6, <2>7, <2>8, <2>9,
       <2>10 DEF Judge, Release
<1>4. CASE Main
  <2>1. CASE Shutdown
    <3>1. Holding' = Holding /\ Cloning' = Cloning
      BY <2>1 DEF Shutdown, MainStep, Holding, Cloning
    <3>. QED BY <2>1, <3>1 DEF Shutdown, MainStep
  <2>2. CASE ReadWaiting
    <3>1. Holding' = Holding /\ Cloning' = Cloning
      BY <2>2 DEF ReadWaiting, MainStep, Holding, Cloning
    <3>. QED BY <2>2, <3>1 DEF ReadWaiting, MainStep
  <2>3. CASE ReadProcessing
    <3>1. Holding' = Holding /\ Cloning' = Cloning
      BY <2>3 DEF ReadProcessing, MainStep, Holding, Cloning
    <3>. QED BY <2>3, <3>1 DEF ReadProcessing, MainStep
  <2>4. CASE ShutdownTimeout
    <3>1. Holding' = Holding /\ Cloning' = Cloning
      BY <2>4 DEF ShutdownTimeout, MainStep, Holding, Cloning
    <3>. QED BY <2>4, <3>1 DEF ShutdownTimeout, MainStep
  <2>5. CASE Cleanup
    <3>1. Holding' = Holding /\ Cloning' = Cloning
      BY <2>5 DEF Cleanup, MainStep, Holding, Cloning
    <3>. QED BY <2>5, <3>1 DEF Cleanup, MainStep
  <2>. QED BY <1>4, <2>1, <2>2, <2>3, <2>4, <2>5 DEF Main
<1>5. CASE UNCHANGED vars
  BY <1>5 DEF vars, Holding, Cloning
<1>. QED BY <1>1, <1>2, <1>3, <1>4, <1>5 DEF Next

-----------------------------------------------------------------------------
(* Channels and boxes.                                                      *)

(* No channel exists at the start.                                          *)
LEMMA ChannelInit == Init => ChannelInv
  BY EmptyQueue, PoolAssumption DEF Init, ChannelInv, Chan

(* A queued channel stays empty until Release dequeues it, so a hand-off    *)
(* never overwrites a box.                                                  *)
LEMMA ChannelNext == TypeOK /\ ControlInv /\ ChannelInv /\ [Next]_vars => ChannelInv'
<1>. SUFFICES ASSUME TypeOK, ControlInv, ChannelInv, [Next]_vars
              PROVE  ChannelInv'
  OBVIOUS
<1>. USE PoolAssumption
     DEF TypeOK, ChannelInv, Chan, poolVars, workerVars, judgeVars
<1>1. CASE Worker
  <2>1. CASE WorkerTick
    BY <2>1 DEF WorkerTick, WorkerStep
  <2>2. CASE WorkerStop
    BY <2>2 DEF WorkerStop, WorkerStep
  <2>3. CASE CheckAvailable
    BY <2>3 DEF CheckAvailable, WorkerStep
  <2>4. CASE LeaveLoop
    BY <2>4 DEF LeaveLoop, WorkerStep
  <2>5. CASE TakeJob
    BY <2>5 DEF TakeJob, WorkerStep
  <2>6. CASE ReserveBox
    BY <2>6 DEF ReserveBox, WorkerStep
  <2>7. CASE ReserveMiss
    BY <2>7 DEF ReserveMiss, WorkerStep
  <2>8. CASE ReserveWait
    <3>1. /\ waitingQueue \in Seq(Chan) /\ waits + 1 \in Chan
          /\ waits' = waits + 1 /\ waitingQueue' = Append(waitingQueue, waits
               + 1)
          /\ waitChan' = waitChan
      BY <2>8 DEF ReserveWait, WorkerStep
    <3>2. \A c \in Range(waitingQueue) : c \in Chan /\ c <= waits
      BY <3>1, RangeType
    <3>3. /\ Range(waitingQueue') = Range(waitingQueue) \cup {waits + 1}
          /\ IsInjective(waitingQueue')
      BY <3>1, <3>2, AppendFacts
    <3>4. waitChan[waits + 1] = NoBox
      BY <3>1
    <3>. QED BY <3>1, <3>2, <3>3, <3>4
  <2>9. CASE ReserveReceive
    <3>1. /\ UNCHANGED <<waitingQueue, waits>>
          /\ waitChan' = [waitChan EXCEPT ![waits] = NoBox]
      BY <2>9 DEF ReserveReceive, WorkerStep
    <3>2. \A c \in Range(waitingQueue) : c \in Chan
      BY RangeType
    <3>. QED BY <3>1, <3>2
  <2>10. CASE ReserveTimeout
    BY <2>10 DEF ReserveTimeout, WorkerStep
  <2>11. CASE Launch
    BY <2>11 DEF Launch, WorkerStep
  <2>. QED BY <1>1, <2>1, <2>2, <2>3, <2>4, <2>5, <2>6, <2>7, <2>8, <2>9,
       <2>10, <2>11 DEF Worker, Reserve
<1>2. ASSUME NEW j \in Job, AddJob(j) PROVE ChannelInv'
  <2>1. CASE AddJobBegin(j)
    BY <2>1 DEF AddJobBegin, AddJobStep
  <2>2. CASE AddJobEnqueue(j)
    BY <2>2 DEF AddJobEnqueue, AddJobStep
  <2>3. CASE AddJobReturn(j)
    BY <2>3 DEF AddJobReturn, AddJobStep
  <2>4. CASE AddJobFail(j)
    BY <2>4 DEF AddJobFail, AddJobStep
  <2>. QED BY <1>2, <2>1, <2>2, <2>3, <2>4 DEF AddJob
<1>3. ASSUME NEW j \in Job, Judge(j) PROVE ChannelInv'
  <2>1. CASE LookupFail(j)
    BY <2>1 DEF LookupFail, JudgeStep
  <2>2. CASE LookupDone(j)
    BY <2>2 DEF LookupDone, JudgeStep
  <2>3. CASE JudgeCancelled(j)
    BY <2>3 DEF JudgeCancelled, JudgeStep
  <2>4. CASE JudgeStart(j)
    BY <2>4 DEF JudgeStart, JudgeStep
  <2>5. CASE JudgeFail(j)
    BY <2>5 DEF JudgeFail, JudgeStep
  <2>6. CASE JudgeFinish(j)
    BY <2>6 DEF JudgeFinish, JudgeStep
  <2>7. CASE ReleaseHandOff(j)
    <3>1. /\ waitingQueue \in Seq(Chan) /\ waitingQueue # <<>>
          /\ waitingQueue' = Tail(waitingQueue) /\ waits' = waits
          /\ waitChan' = [waitChan EXCEPT ![Head(waitingQueue)] = heldBox[j]]
      BY <2>7 DEF ReleaseHandOff
    <3>2. /\ Head(waitingQueue) \in Chan
          /\ Range(waitingQueue) = Range(waitingQueue') \cup {Head(waitingQueue)}
          /\ IsInjective(waitingQueue')
          /\ Head(waitingQueue) \notin Range(waitingQueue')
      BY <3>1, DequeueFacts
    <3>3. \A c \in Range(waitingQueue) : c \in Chan
      BY <3>1, RangeType
    <3>. QED BY <3>1, <3>2, <3>3
  <2>8. CASE ReleaseNoWaiter(j)
    BY <2>8 DEF ReleaseNoWaiter, JudgeStep
  <2>9. CASE ReleaseCount(j)
    BY <2>9 DEF ReleaseCount
  <2>10. CASE ReleaseEnqueue(j)
    BY <2>10 DEF ReleaseEnqueue
  <2>. QED BY <1>3, <2>1, <2>2, <2>3, <2>4, <2>5, <2>6, <2>7, <2>8, <2>9,
       <2>10 DEF Judge, Release
<1>4. CASE Main
  <2>1. CASE Shutdown
    BY <2>1 DEF Shutdown, MainStep
  <2>2. CASE ReadWaiting
    BY <2>2 DEF ReadWaiting, MainStep
  <2>3. CASE ReadProcessing
    BY <2>3 DEF ReadProcessing, MainStep
  <2>4. CASE ShutdownTimeout
    BY <2>4 DEF ShutdownTimeout, MainStep
  <2>5. CASE Cleanup
    <3>1. /\ waitingQueue' = <<>>
          /\ UNCHANGED <<waits, waitChan>>
      BY <2>5 DEF Cleanup, MainStep
    <3>. QED BY <3>1, EmptyQueue
  <2>. QED BY <1>4, <2>1, <2>2, <2>3, <2>4, <2>5 DEF Main
<1>5. CASE UNCHANGED vars
  BY <1>5 DEF vars
<1>. QED BY <1>1, <1>2, <1>3, <1>4, <1>5 DEF Next

(* At the start every box is in the free queue, once.                       *)
LEMMA BoxInit == Init => BoxExclusive
<1>. SUFFICES ASSUME Init PROVE BoxExclusive
  OBVIOUS
<1>1. IsInjective(AvailableBoxIDs)
  BY PoolAssumption DEF Init, IsInjective
<1>2. BufferedIn = {} /\ Holders = {} /\ boxID = NoBox
  BY DEF Init, BufferedIn, Holders
<1>. QED BY <1>1, <1>2 DEF BoxExclusive

(* Every step moves a box from one place to one other place.                *)
LEMMA BoxNext ==
  TypeOK /\ ControlInv /\ JobOnce /\ BoxExclusive /\ [Next]_vars => BoxExclusive'
<1>. SUFFICES ASSUME TypeOK, ControlInv, JobOnce, BoxExclusive, [Next]_vars
              PROVE  BoxExclusive'
  OBVIOUS
<1>. USE PoolAssumption
     DEF TypeOK, BoxExclusive, BufferedIn, Holders, poolVars, workerVars,
          judgeVars
<1>1. CASE Worker
  <2>1. CASE WorkerTick
    BY <2>1 DEF WorkerTick, WorkerStep, FreeBoxes
  <2>2. CASE WorkerStop
    BY <2>2 DEF WorkerStop, WorkerStep, FreeBoxes
  <2>3. CASE CheckAvailable
    BY <2>3 DEF CheckAvailable, WorkerStep, FreeBoxes
  <2>4. CASE LeaveLoop
    BY <2>4 DEF LeaveLoop, WorkerStep, FreeBoxes
  <2>5. CASE TakeJob
    BY <2>5 DEF TakeJob, WorkerStep, FreeBoxes
  <2>6. CASE ReserveBox
    <3>1. /\ AvailableBoxIDs # <<>> /\ boxID = NoBox
          /\ boxID' = Head(AvailableBoxIDs)
          /\ AvailableBoxIDs' = Tail(AvailableBoxIDs)
          /\ UNCHANGED <<waitChan, heldBox>>
      BY <2>6 DEF ReserveBox, WorkerStep, ControlInv
    <3>2. /\ FreeBoxes = FreeBoxes' \cup {boxID'} /\ boxID' \notin FreeBoxes'
          /\ IsInjective(AvailableBoxIDs')
      BY <3>1, DequeueFacts DEF FreeBoxes
    <3>. QED BY <3>1, <3>2
  <2>7. CASE ReserveMiss
    BY <2>7 DEF ReserveMiss, WorkerStep, FreeBoxes
  <2>8. CASE ReserveWait
    BY <2>8 DEF ReserveWait, WorkerStep, FreeBoxes
  <2>9. CASE ReserveReceive
    <3>1. /\ waits \in Chan /\ waitChan[waits] # NoBox /\ boxID = NoBox
          /\ boxID' = waitChan[waits]
          /\ waitChan' = [waitChan EXCEPT ![waits] = NoBox]
          /\ UNCHANGED <<AvailableBoxIDs, heldBox>>
      BY <2>9 DEF ReserveReceive, WorkerStep, ControlInv, Chan
    <3>2. FreeBoxes' = FreeBoxes
      BY <3>1 DEF FreeBoxes
    <3>. QED BY <3>1, <3>2
  <2>10. CASE ReserveTimeout
    BY <2>10 DEF ReserveTimeout, WorkerStep, FreeBoxes
  <2>11. CASE Launch
    <3>1. /\ job \in Job /\ heldBox[job] = NoBox /\ boxID # NoBox
          /\ heldBox' = [heldBox EXCEPT ![job] = boxID] /\ boxID' = NoBox
          /\ UNCHANGED <<AvailableBoxIDs, waitChan>>
      BY <2>11 DEF Launch, WorkerStep, ControlInv, JobOnce, BeforeCount
    <3>2. FreeBoxes' = FreeBoxes
      BY <3>1 DEF FreeBoxes
    <3>. QED BY <3>1, <3>2
  <2>. QED BY <1>1, <2>1, <2>2, <2>3, <2>4, <2>5, <2>6, <2>7, <2>8, <2>9,
       <2>10, <2>11 DEF Worker, Reserve
<1>2. ASSUME NEW j \in Job, AddJob(j) PROVE BoxExclusive'
  <2>1. CASE AddJobBegin(j)
    BY <2>1 DEF AddJobBegin, AddJobStep, FreeBoxes
  <2>2. CASE AddJobEnqueue(j)
    BY <2>2 DEF AddJobEnqueue, AddJobStep, FreeBoxes
  <2>3. CASE AddJobReturn(j)
    BY <2>3 DEF AddJobReturn, AddJobStep, FreeBoxes
  <2>4. CASE AddJobFail(j)
    BY <2>4 DEF AddJobFail, AddJobStep, FreeBoxes
  <2>. QED BY <1>2, <2>1, <2>2, <2>3, <2>4 DEF AddJob
<1>3. ASSUME NEW j \in Job, Judge(j) PROVE BoxExclusive'
  <2>1. CASE LookupFail(j)
    BY <2>1 DEF LookupFail, JudgeStep, FreeBoxes
  <2>2. CASE LookupDone(j)
    BY <2>2 DEF LookupDone, JudgeStep, FreeBoxes
  <2>3. CASE JudgeCancelled(j)
    BY <2>3 DEF JudgeCancelled, JudgeStep, FreeBoxes
  <2>4. CASE JudgeStart(j)
    BY <2>4 DEF JudgeStart, JudgeStep, FreeBoxes
  <2>5. CASE JudgeFail(j)
    BY <2>5 DEF JudgeFail, JudgeStep, FreeBoxes
  <2>6. CASE JudgeFinish(j)
    BY <2>6 DEF JudgeFinish, JudgeStep, FreeBoxes
  <2>7. CASE ReleaseHandOff(j)
    <3>1. /\ waitingQueue # <<>> /\ heldBox[j] # NoBox
          /\ waitChan' = [waitChan EXCEPT ![Head(waitingQueue)] = heldBox[j]]
          /\ heldBox' = [heldBox EXCEPT ![j] = NoBox]
          /\ UNCHANGED <<AvailableBoxIDs, boxID>>
      BY <2>7 DEF ReleaseHandOff, ControlInv, BeforeCount
    <3>2. /\ FreeBoxes' = FreeBoxes
          /\ Head(waitingQueue) \in Chan
      BY <3>1, DequeueFacts DEF FreeBoxes
    <3>. QED BY <3>1, <3>2
  <2>8. CASE ReleaseNoWaiter(j)
    BY <2>8 DEF ReleaseNoWaiter, JudgeStep, FreeBoxes
  <2>9. CASE ReleaseCount(j)
    BY <2>9 DEF ReleaseCount, FreeBoxes
  <2>10. CASE ReleaseEnqueue(j)
    <3>1. /\ heldBox[j] \in Boxes /\ heldBox[j] # NoBox
          /\ AvailableBoxIDs' = Append(AvailableBoxIDs, heldBox[j])
          /\ heldBox' = [heldBox EXCEPT ![j] = NoBox]
          /\ UNCHANGED <<waitChan, boxID>>
      BY <2>10 DEF ReleaseEnqueue, ControlInv
    <3>2. /\ FreeBoxes' = FreeBoxes \cup {heldBox[j]}
          /\ IsInjective(AvailableBoxIDs')
      BY <3>1, AppendFacts DEF FreeBoxes
    <3>. QED BY <3>1, <3>2
  <2>. QED BY <1>3, <2>1, <2>2, <2>3, <2>4, <2>5, <2>6, <2>7, <2>8, <2>9,
       <2>10 DEF Judge, Release
<1>4. CASE Main
  <2>1. CASE Shutdown
    BY <2>1 DEF Shutdown, MainStep, FreeBoxes
  <2>2. CASE ReadWaiting
    BY <2>2 DEF ReadWaiting, MainStep, FreeBoxes
  <2>3. CASE ReadProcessing
    BY <2>3 DEF ReadProcessing, MainStep, FreeBoxes
  <2>4. CASE ShutdownTimeout
    BY <2>4 DEF ShutdownTimeout, MainStep, FreeBoxes
  <2>5. CASE Cleanup
    <3>1. AvailableBoxIDs' = <<>> /\ UNCHANGED <<waitChan, boxID, heldBox>>
      BY <2>5 DEF Cleanup, MainStep
    <3>. QED BY <3>1, EmptyQueue DEF FreeBoxes
  <2>. QED BY <1>4, <2>1, <2>2, <2>3, <2>4, <2>5 DEF Main
<1>5. CASE UNCHANGED vars
  BY <1>5 DEF vars, FreeBoxes
<1>. QED BY <1>1, <1>2, <1>3, <1>4, <1>5 DEF Next

(* At the start no box is missing.                                          *)
LEMMA ConservedInit == Init => BoxConserved
<1>. SUFFICES ASSUME Init, NEW b \in Boxes PROVE b \in FreeBoxes
  BY DEF BoxConserved
<1>1. /\ b + 1 \in 1 .. SandboxCount /\ b \in Int
      /\ AvailableBoxIDs = [i \in 1 .. SandboxCount |-> i - 1]
  BY PoolAssumption DEF Init, Boxes
<1>2. /\ b + 1 \in DOMAIN AvailableBoxIDs
      /\ AvailableBoxIDs[b + 1] = b
  BY <1>1
<1>. QED BY <1>2 DEF FreeBoxes, Range

(* No step before the final Cleanup drops a box.                            *)
LEMMA ConservedNext ==
  /\ TypeOK /\ ControlInv /\ ChannelInv /\ JobOnce /\ BoxConserved
  /\ [Next]_vars
  => BoxConserved'
<1>. SUFFICES ASSUME TypeOK, ControlInv, ChannelInv, JobOnce, BoxConserved,
     [Next]_vars
              PROVE  BoxConserved'
  OBVIOUS
<1>. USE PoolAssumption
     DEF TypeOK, BoxConserved, poolVars, workerVars, judgeVars
<1>1. CASE Worker
  <2>1. CASE WorkerTick
    BY <2>1 DEF WorkerTick, WorkerStep, FreeBoxes
  <2>2. CASE WorkerStop
    BY <2>2 DEF WorkerStop, WorkerStep, FreeBoxes
  <2>3. CASE CheckAvailable
    BY <2>3 DEF CheckAvailable, WorkerStep, FreeBoxes
  <2>4. CASE LeaveLoop
    BY <2>4 DEF LeaveLoop, WorkerStep, FreeBoxes
  <2>5. CASE TakeJob
    BY <2>5 DEF TakeJob, WorkerStep, FreeBoxes
  <2>6. CASE ReserveBox
    <3>1. /\ AvailableBoxIDs # <<>> /\ boxID = NoBox
          /\ boxID' = Head(AvailableBoxIDs)
          /\ AvailableBoxIDs' = Tail(AvailableBoxIDs)
          /\ UNCHANGED <<waitChan, heldBox, main>>
      BY <2>6 DEF ReserveBox, WorkerStep, ControlInv
    <3>2. FreeBoxes = FreeBoxes' \cup {boxID'}
      BY <3>1, DequeueFacts DEF FreeBoxes
    <3>3. \A b \in Boxes : b # NoBox
      BY DEF Boxes, NoBox
    <3>. QED BY <3>1, <3>2, <3>3
  <2>7. CASE ReserveMiss
    BY <2>7 DEF ReserveMiss, WorkerStep, FreeBoxes
  <2>8. CASE ReserveWait
    BY <2>8 DEF ReserveWait, WorkerStep, FreeBoxes
  <2>9. CASE ReserveReceive
    <3>1. /\ waits \in Chan /\ waitChan[waits] # NoBox /\ boxID = NoBox
          /\ boxID' = waitChan[waits]
          /\ waitChan' = [waitChan EXCEPT ![waits] = NoBox]
          /\ UNCHANGED <<AvailableBoxIDs, heldBox, main>>
      BY <2>9 DEF ReserveReceive, WorkerStep, ControlInv, Chan
    <3>2. FreeBoxes' = FreeBoxes
      BY <3>1 DEF FreeBoxes
    <3>3. \A c \in Chan : c # waits => waitChan'[c] = waitChan[c]
      BY <3>1
    <3>. QED BY <3>1, <3>2, <3>3
  <2>10. CASE ReserveTimeout
    BY <2>10 DEF ReserveTimeout, WorkerStep, FreeBoxes
  <2>11. CASE Launch
    <3>1. /\ job \in Job /\ heldBox[job] = NoBox /\ boxID # NoBox
          /\ heldBox' = [heldBox EXCEPT ![job] = boxID] /\ boxID' = NoBox
          /\ UNCHANGED <<AvailableBoxIDs, waitChan, main>>
      BY <2>11 DEF Launch, WorkerStep, ControlInv, JobOnce, BeforeCount
    <3>2. FreeBoxes' = FreeBoxes
      BY <3>1 DEF FreeBoxes
    <3>3. heldBox'[job] = boxID /\ \A k \in Job : k # job => heldBox'[k] = heldBox[k]
      BY <3>1
    <3>. QED BY <3>1, <3>2, <3>3
  <2>. QED BY <1>1, <2>1, <2>2, <2>3, <2>4, <2>5, <2>6, <2>7, <2>8, <2>9,
       <2>10, <2>11 DEF Worker, Reserve
<1>2. ASSUME NEW j \in Job, AddJob(j) PROVE BoxConserved'
  <2>1. CASE AddJobBegin(j)
    BY <2>1 DEF AddJobBegin, AddJobStep, FreeBoxes
  <2>2. CASE AddJobEnqueue(j)
    BY <2>2 DEF AddJobEnqueue, AddJobStep, FreeBoxes
  <2>3. CASE AddJobReturn(j)
    BY <2>3 DEF AddJobReturn, AddJobStep, FreeBoxes
  <2>4. CASE AddJobFail(j)
    BY <2>4 DEF AddJobFail, AddJobStep, FreeBoxes
  <2>. QED BY <1>2, <2>1, <2>2, <2>3, <2>4 DEF AddJob
<1>3. ASSUME NEW j \in Job, Judge(j) PROVE BoxConserved'
  <2>1. CASE LookupFail(j)
    BY <2>1 DEF LookupFail, JudgeStep, FreeBoxes
  <2>2. CASE LookupDone(j)
    BY <2>2 DEF LookupDone, JudgeStep, FreeBoxes
  <2>3. CASE JudgeCancelled(j)
    BY <2>3 DEF JudgeCancelled, JudgeStep, FreeBoxes
  <2>4. CASE JudgeStart(j)
    BY <2>4 DEF JudgeStart, JudgeStep, FreeBoxes
  <2>5. CASE JudgeFail(j)
    BY <2>5 DEF JudgeFail, JudgeStep, FreeBoxes
  <2>6. CASE JudgeFinish(j)
    BY <2>6 DEF JudgeFinish, JudgeStep, FreeBoxes
  <2>7. CASE ReleaseHandOff(j)
    <3>1. /\ waitingQueue # <<>> /\ heldBox[j] # NoBox
          /\ waitChan' = [waitChan EXCEPT ![Head(waitingQueue)] = heldBox[j]]
          /\ heldBox' = [heldBox EXCEPT ![j] = NoBox]
          /\ UNCHANGED <<AvailableBoxIDs, boxID, main>>
      BY <2>7 DEF ReleaseHandOff, ControlInv, BeforeCount
    <3>2. /\ FreeBoxes' = FreeBoxes
          /\ Head(waitingQueue) \in Chan /\ waitChan[Head(waitingQueue)] = NoBox
      BY <3>1, DequeueFacts DEF FreeBoxes, ChannelInv
    <3>3. /\ waitChan'[Head(waitingQueue)] = heldBox[j]
          /\ \A c \in Chan : c # Head(waitingQueue) => waitChan'[c] = waitChan[c]
          /\ \A k \in Job : k # j => heldBox'[k] = heldBox[k]
      BY <3>1, <3>2
    <3>. QED BY <3>1, <3>2, <3>3
  <2>8. CASE ReleaseNoWaiter(j)
    BY <2>8 DEF ReleaseNoWaiter, JudgeStep, FreeBoxes
  <2>9. CASE ReleaseCount(j)
    BY <2>9 DEF ReleaseCount, FreeBoxes
  <2>10. CASE ReleaseEnqueue(j)
    <3>1. /\ heldBox[j] \in Boxes /\ heldBox[j] # NoBox
          /\ AvailableBoxIDs' = Append(AvailableBoxIDs, heldBox[j])
          /\ heldBox' = [heldBox EXCEPT ![j] = NoBox]
          /\ UNCHANGED <<waitChan, boxID, main>>
      BY <2>10 DEF ReleaseEnqueue, ControlInv
    <3>2. FreeBoxes' = FreeBoxes \cup {heldBox[j]}
      BY <3>1, AppendFacts DEF FreeBoxes
    <3>3. \A k \in Job : k # j => heldBox'[k] = heldBox[k]
      BY <3>1
    <3>. QED BY <3>1, <3>2, <3>3
  <2>. QED BY <1>3, <2>1, <2>2, <2>3, <2>4, <2>5, <2>6, <2>7, <2>8, <2>9,
       <2>10 DEF Judge, Release
<1>4. CASE Main
  <2>1. CASE Shutdown
    BY <2>1 DEF Shutdown, MainStep, FreeBoxes
  <2>2. CASE ReadWaiting
    BY <2>2 DEF ReadWaiting, MainStep, FreeBoxes
  <2>3. CASE ReadProcessing
    BY <2>3 DEF ReadProcessing, MainStep, FreeBoxes
  <2>4. CASE ShutdownTimeout
    BY <2>4 DEF ShutdownTimeout, MainStep, FreeBoxes
  <2>5. CASE Cleanup
    BY <2>5 DEF Cleanup, MainStep, FreeBoxes
  <2>. QED BY <1>4, <2>1, <2>2, <2>3, <2>4, <2>5 DEF Main
<1>5. CASE UNCHANGED vars
  BY <1>5 DEF vars, FreeBoxes
<1>. QED BY <1>1, <1>2, <1>3, <1>4, <1>5 DEF Next

(* A waiting Reserve keeps its place in waitingQueue until a box is in its  *)
(* channel.                                                                 *)
LEMMA HeardNext ==
  TypeOK /\ ControlInv /\ ChannelInv /\ WaiterHeard /\ [Next]_vars => WaiterHeard'
<1>. SUFFICES ASSUME TypeOK, ControlInv, ChannelInv, WaiterHeard, [Next]_vars
     PROVE WaiterHeard'
  OBVIOUS
<1>. USE PoolAssumption
     DEF TypeOK, WaiterHeard, Chan, poolVars, workerVars, judgeVars
<1>1. CASE Worker
  <2>1. CASE WorkerTick
    BY <2>1 DEF WorkerTick, WorkerStep
  <2>2. CASE WorkerStop
    BY <2>2 DEF WorkerStop, WorkerStep
  <2>3. CASE CheckAvailable
    BY <2>3 DEF CheckAvailable, WorkerStep
  <2>4. CASE LeaveLoop
    BY <2>4 DEF LeaveLoop, WorkerStep
  <2>5. CASE TakeJob
    BY <2>5 DEF TakeJob, WorkerStep
  <2>6. CASE ReserveBox
    BY <2>6 DEF ReserveBox, WorkerStep
  <2>7. CASE ReserveMiss
    BY <2>7 DEF ReserveMiss, WorkerStep
  <2>8. CASE ReserveWait
    <3>1. /\ waits + 1 \in Chan
          /\ waits' = waits + 1 /\ waitingQueue' = Append(waitingQueue, waits
               + 1)
      BY <2>8 DEF ReserveWait, WorkerStep
    <3>. QED BY <3>1, AppendFacts
  <2>9. CASE ReserveReceive
    BY <2>9 DEF ReserveReceive, WorkerStep
  <2>10. CASE ReserveTimeout
    BY <2>10 DEF ReserveTimeout, WorkerStep
  <2>11. CASE Launch
    BY <2>11 DEF Launch, WorkerStep
  <2>. QED BY <1>1, <2>1, <2>2, <2>3, <2>4, <2>5, <2>6, <2>7, <2>8, <2>9,
       <2>10, <2>11 DEF Worker, Reserve
<1>2. ASSUME NEW j \in Job, AddJob(j) PROVE WaiterHeard'
  <2>1. CASE AddJobBegin(j)
    BY <2>1 DEF AddJobBegin, AddJobStep
  <2>2. CASE AddJobEnqueue(j)
    BY <2>2 DEF AddJobEnqueue, AddJobStep
  <2>3. CASE AddJobReturn(j)
    BY <2>3 DEF AddJobReturn, AddJobStep
  <2>4. CASE AddJobFail(j)
    BY <2>4 DEF AddJobFail, AddJobStep
  <2>. QED BY <1>2, <2>1, <2>2, <2>3, <2>4 DEF AddJob
<1>3. ASSUME NEW j \in Job, Judge(j) PROVE WaiterHeard'
  <2>1. CASE LookupFail(j)
    BY <2>1 DEF LookupFail, JudgeStep
  <2>2. CASE LookupDone(j)
    BY <2>2 DEF LookupDone, JudgeStep
  <2>3. CASE JudgeCancelled(j)
    BY <2>3 DEF JudgeCancelled, JudgeStep
  <2>4. CASE JudgeStart(j)
    BY <2>4 DEF JudgeStart, JudgeStep
  <2>5. CASE JudgeFail(j)
    BY <2>5 DEF JudgeFail, JudgeStep
  <2>6. CASE JudgeFinish(j)
    BY <2>6 DEF JudgeFinish, JudgeStep
  <2>7. CASE ReleaseHandOff(j)
    <3>1. /\ waitingQueue # <<>> /\ heldBox[j] # NoBox
          /\ waitChan' = [waitChan EXCEPT ![Head(waitingQueue)] = heldBox[j]]
          /\ waitingQueue' = Tail(waitingQueue)
          /\ UNCHANGED <<waits, workerPC, main>>
      BY <2>7 DEF ReleaseHandOff, ControlInv, BeforeCount
    <3>2. /\ Head(waitingQueue) \in Chan
          /\ Range(waitingQueue) = Range(waitingQueue') \cup {Head(waitingQueue)}
      BY <3>1, DequeueFacts
    <3>3. workerPC = "waiting" => waits \in Chan
      BY DEF ControlInv
    <3>. QED BY <3>1, <3>2, <3>3
  <2>8. CASE ReleaseNoWaiter(j)
    BY <2>8 DEF ReleaseNoWaiter, JudgeStep
  <2>9. CASE ReleaseCount(j)
    BY <2>9 DEF ReleaseCount
  <2>10. CASE ReleaseEnqueue(j)
    BY <2>10 DEF ReleaseEnqueue
  <2>. QED BY <1>3, <2>1, <2>2, <2>3, <2>4, <2>5, <2>6, <2>7, <2>8, <2>9,
       <2>10 DEF Judge, Release
<1>4. CASE Main
  <2>1. CASE Shutdown
    BY <2>1 DEF Shutdown, MainStep
  <2>2. CASE ReadWaiting
    BY <2>2 DEF ReadWaiting, MainStep
  <2>3. CASE ReadProcessing
    BY <2>3 DEF ReadProcessing, MainStep
  <2>4. CASE ShutdownTimeout
    BY <2>4 DEF ShutdownTimeout, MainStep
  <2>5. CASE Cleanup
    BY <2>5 DEF Cleanup, MainStep
  <2>. QED BY <1>4, <2>1, <2>2, <2>3, <2>4, <2>5 DEF Main
<1>5. CASE UNCHANGED vars
  BY <1>5 DEF vars
<1>. QED BY <1>1, <1>2, <1>3, <1>4, <1>5 DEF Next

-----------------------------------------------------------------------------
(* Rows and box directories.                                                *)

(* Every step keeps the row of a job in accord with its judge.              *)
LEMMA RowNext ==
  TypeOK /\ ControlInv /\ JobOnce /\ RowInv /\ [Next]_vars => RowInv'
<1>. SUFFICES ASSUME TypeOK, ControlInv, JobOnce, RowInv, [Next]_vars PROVE
     RowInv'
  OBVIOUS
<1>. USE PoolAssumption
     DEF TypeOK, RowInv, BeforeCount, Waiting, Judging, Failed, poolVars,
          workerVars, judgeVars
<1>1. CASE Worker
  <2>1. CASE WorkerTick
    BY <2>1 DEF WorkerTick, WorkerStep
  <2>2. CASE WorkerStop
    BY <2>2 DEF WorkerStop, WorkerStep
  <2>3. CASE CheckAvailable
    BY <2>3 DEF CheckAvailable, WorkerStep
  <2>4. CASE LeaveLoop
    BY <2>4 DEF LeaveLoop, WorkerStep
  <2>5. CASE TakeJob
    BY <2>5 DEF TakeJob, WorkerStep
  <2>6. CASE ReserveBox
    BY <2>6 DEF ReserveBox, WorkerStep
  <2>7. CASE ReserveMiss
    BY <2>7 DEF ReserveMiss, WorkerStep
  <2>8. CASE ReserveWait
    BY <2>8 DEF ReserveWait, WorkerStep
  <2>9. CASE ReserveReceive
    BY <2>9 DEF ReserveReceive, WorkerStep
  <2>10. CASE ReserveTimeout
    BY <2>10 DEF ReserveTimeout, WorkerStep
  <2>11. CASE Launch
    BY <2>11 DEF Launch, WorkerStep, ControlInv, JobOnce
  <2>. QED BY <1>1, <2>1, <2>2, <2>3, <2>4, <2>5, <2>6, <2>7, <2>8, <2>9,
       <2>10, <2>11 DEF Worker, Reserve
<1>2. ASSUME NEW j \in Job, AddJob(j) PROVE RowInv'
  <2>1. CASE AddJobBegin(j)
    BY <2>1 DEF AddJobBegin, AddJobStep
  <2>2. CASE AddJobEnqueue(j)
    BY <2>2 DEF AddJobEnqueue, AddJobStep
  <2>3. CASE AddJobReturn(j)
    BY <2>3 DEF AddJobReturn, AddJobStep
  <2>4. CASE AddJobFail(j)
    BY <2>4 DEF AddJobFail, AddJobStep
  <2>. QED BY <1>2, <2>1, <2>2, <2>3, <2>4 DEF AddJob
<1>3. ASSUME NEW j \in Job, Judge(j) PROVE RowInv'
  <2>1. CASE LookupFail(j)
    BY <2>1 DEF LookupFail, JudgeStep
  <2>2. CASE LookupDone(j)
    BY <2>2 DEF LookupDone, JudgeStep
  <2>3. CASE JudgeCancelled(j)
    BY <2>3 DEF JudgeCancelled, JudgeStep
  <2>4. CASE JudgeStart(j)
    BY <2>4 DEF JudgeStart, JudgeStep
  <2>5. CASE JudgeFail(j)
    BY <2>5 DEF JudgeFail, JudgeStep
  <2>6. CASE JudgeFinish(j)
    BY <2>6 DEF JudgeFinish, JudgeStep, Updates
  <2>7. CASE ReleaseHandOff(j)
    BY <2>7 DEF ReleaseHandOff
  <2>8. CASE ReleaseNoWaiter(j)
    BY <2>8 DEF ReleaseNoWaiter, JudgeStep
  <2>9. CASE ReleaseCount(j)
    BY <2>9 DEF ReleaseCount
  <2>10. CASE ReleaseEnqueue(j)
    BY <2>10 DEF ReleaseEnqueue
  <2>. QED BY <1>3, <2>1, <2>2, <2>3, <2>4, <2>5, <2>6, <2>7, <2>8, <2>9,
       <2>10 DEF Judge, Release
<1>4. CASE Main
  <2>1. CASE Shutdown
    BY <2>1 DEF Shutdown, MainStep
  <2>2. CASE ReadWaiting
    BY <2>2 DEF ReadWaiting, MainStep
  <2>3. CASE ReadProcessing
    BY <2>3 DEF ReadProcessing, MainStep
  <2>4. CASE ShutdownTimeout
    BY <2>4 DEF ShutdownTimeout, MainStep
  <2>5. CASE Cleanup
    BY <2>5 DEF Cleanup, MainStep
  <2>. QED BY <1>4, <2>1, <2>2, <2>3, <2>4, <2>5 DEF Main
<1>5. CASE UNCHANGED vars
  BY <1>5 DEF vars
<1>. QED BY <1>1, <1>2, <1>3, <1>4, <1>5 DEF Next

(* Without a hand-off, no box that is free, in the worker's hand or with a  *)
(* judge that has not started holds the files of a job.                     *)
CleanInv ==
  handed = 0 =>
    /\ \A c \in Chan : waitChan[c] = NoBox
    /\ \A b \in FreeBoxes : boxDir[b] # "used"
    /\ boxID # NoBox => boxDir[boxID] # "used"
    /\ \A j \in Job : judge[j] \in {"lookup", "ready", "counted"}
                        => boxDir[heldBox[j]] # "used"

(* NewSandbox initialises every box.                                        *)
LEMMA CleanInit == Init => CleanInv
<1>. SUFFICES ASSUME Init PROVE CleanInv
  OBVIOUS
<1>1. \A b \in FreeBoxes : b \in Boxes
  BY PoolAssumption DEF Init, FreeBoxes, Range, Boxes
<1>. QED BY <1>1 DEF Init, CleanInv

(* Release initialises a box before it counts and enqueues it; only a       *)
(* started judge dirties its box, which BoxExclusive makes nobody else's.   *)
LEMMA CleanNext ==
  TypeOK /\ ControlInv /\ JobOnce /\ BoxExclusive /\ CleanInv /\ [Next]_vars
    => CleanInv'
<1>. SUFFICES ASSUME TypeOK, ControlInv, JobOnce, BoxExclusive, CleanInv,
     [Next]_vars
              PROVE  CleanInv'
  OBVIOUS
<1>. USE PoolAssumption
     DEF TypeOK, CleanInv, poolVars, workerVars, judgeVars
<1>1. CASE Worker
  <2>1. CASE WorkerTick
    BY <2>1 DEF WorkerTick, WorkerStep, FreeBoxes
  <2>2. CASE WorkerStop
    BY <2>2 DEF WorkerStop, WorkerStep, FreeBoxes
  <2>3. CASE CheckAvailable
    BY <2>3 DEF CheckAvailable, WorkerStep, FreeBoxes
  <2>4. CASE LeaveLoop
    BY <2>4 DEF LeaveLoop, WorkerStep, FreeBoxes
  <2>5. CASE TakeJob
    BY <2>5 DEF TakeJob, WorkerStep, FreeBoxes
  <2>6. CASE ReserveBox
    <3>1. /\ AvailableBoxIDs # <<>> /\ boxID' = Head(AvailableBoxIDs)
          /\ AvailableBoxIDs' = Tail(AvailableBoxIDs)
          /\ UNCHANGED <<waitChan, heldBox, judge, boxDir, handed>>
      BY <2>6 DEF ReserveBox, WorkerStep
    <3>2. FreeBoxes = FreeBoxes' \cup {boxID'}
      BY <3>1, DequeueFacts DEF FreeBoxes
    <3>. QED BY <3>1, <3>2
  <2>7. CASE ReserveMiss
    BY <2>7 DEF ReserveMiss, WorkerStep, FreeBoxes
  <2>8. CASE ReserveWait
    BY <2>8 DEF ReserveWait, WorkerStep, FreeBoxes
  <2>9. CASE ReserveReceive
    BY <2>9 DEF ReserveReceive, WorkerStep, FreeBoxes, ControlInv, Chan
  <2>10. CASE ReserveTimeout
    BY <2>10 DEF ReserveTimeout, WorkerStep, FreeBoxes
  <2>11. CASE Launch
    <3>1. /\ job \in Job /\ boxID # NoBox
          /\ heldBox' = [heldBox EXCEPT ![job] = boxID] /\ boxID' = NoBox
          /\ judge' = [judge EXCEPT ![job] = "lookup"]
          /\ UNCHANGED <<AvailableBoxIDs, waitChan, boxDir, handed>>
      BY <2>11 DEF Launch, WorkerStep, ControlInv
    <3>2. FreeBoxes' = FreeBoxes
      BY <3>1 DEF FreeBoxes
    <3>. QED BY <3>1, <3>2
  <2>. QED BY <1>1, <2>1, <2>2, <2>3, <2>4, <2>5, <2>6, <2>7, <2>8, <2>9,
       <2>10, <2>11 DEF Worker, Reserve
<1>2. ASSUME NEW j \in Job, AddJob(j) PROVE CleanInv'
  <2>1. CASE AddJobBegin(j)
    BY <2>1 DEF AddJobBegin, AddJobStep, FreeBoxes
  <2>2. CASE AddJobEnqueue(j)
    BY <2>2 DEF AddJobEnqueue, AddJobStep, FreeBoxes
  <2>3. CASE AddJobReturn(j)
    BY <2>3 DEF AddJobReturn, AddJobStep, FreeBoxes
  <2>4. CASE AddJobFail(j)
    BY <2>4 DEF AddJobFail, AddJobStep, FreeBoxes
  <2>. QED BY <1>2, <2>1, <2>2, <2>3, <2>4 DEF AddJob
<1>3. ASSUME NEW j \in Job, Judge(j) PROVE CleanInv'
  <2>1. CASE LookupFail(j)
    BY <2>1 DEF LookupFail, JudgeStep, FreeBoxes
  <2>2. CASE LookupDone(j)
    BY <2>2 DEF LookupDone, JudgeStep, FreeBoxes
  <2>3. CASE JudgeCancelled(j)
    BY <2>3 DEF JudgeCancelled, JudgeStep, FreeBoxes
  <2>4. CASE JudgeStart(j)
    <3>1. /\ heldBox[j] # NoBox
          /\ judge' = [judge EXCEPT ![j] = "running"]
          /\ boxDir' = [boxDir EXCEPT ![heldBox[j]] = "used"]
          /\ UNCHANGED <<AvailableBoxIDs, waitChan, heldBox, boxID, handed>>
      BY <2>4 DEF JudgeStart, JudgeStep, ControlInv, BeforeCount
    <3>2. /\ FreeBoxes' = FreeBoxes
          /\ \A b : b # heldBox[j] => boxDir'[b] = boxDir[b]
      BY <3>1 DEF FreeBoxes
    <3>3. /\ heldBox[j] \notin FreeBoxes
          /\ boxID # NoBox => boxID # heldBox[j]
          /\ \A k \in Job : k # j => heldBox[k] # heldBox[j]
      BY <3>1 DEF BoxExclusive, Holders
    <3>4. \A k \in Job : k # j => judge'[k] = judge[k]
      BY <3>1
    <3>. QED BY <3>1, <3>2, <3>3, <3>4
  <2>5. CASE JudgeFail(j)
    BY <2>5 DEF JudgeFail, JudgeStep, FreeBoxes
  <2>6. CASE JudgeFinish(j)
    BY <2>6 DEF JudgeFinish, JudgeStep, FreeBoxes
  <2>7. CASE ReleaseHandOff(j)
    BY <2>7 DEF ReleaseHandOff, FreeBoxes
  <2>8. CASE ReleaseNoWaiter(j)
    BY <2>8 DEF ReleaseNoWaiter, JudgeStep, FreeBoxes
  <2>9. CASE ReleaseCount(j)
    <3>1. /\ heldBox[j] # NoBox
          /\ judge' = [judge EXCEPT ![j] = "counted"]
          /\ \E d \in {"clean", "initFailed"} : boxDir' = [boxDir EXCEPT
               ![heldBox[j]] = d]
          /\ UNCHANGED <<AvailableBoxIDs, waitChan, heldBox, boxID, handed>>
      BY <2>9 DEF ReleaseCount, ControlInv, BeforeCount
    <3>2. /\ FreeBoxes' = FreeBoxes
          /\ \A b : b # heldBox[j] => boxDir'[b] = boxDir[b]
          /\ boxDir'[heldBox[j]] # "used"
      BY <3>1 DEF FreeBoxes
    <3>3. \A k \in Job : k # j => judge'[k] = judge[k]
      BY <3>1
    <3>. QED BY <3>1, <3>2, <3>3
  <2>10. CASE ReleaseEnqueue(j)
    <3>1. /\ heldBox[j] \in Boxes /\ judge[j] = "counted"
          /\ AvailableBoxIDs' = Append(AvailableBoxIDs, heldBox[j])
          /\ heldBox' = [heldBox EXCEPT ![j] = NoBox]
          /\ judge' = [judge EXCEPT ![j] = "done"]
          /\ UNCHANGED <<waitChan, boxID, boxDir, handed>>
      BY <2>10 DEF ReleaseEnqueue, ControlInv
    <3>2. FreeBoxes' = FreeBoxes \cup {heldBox[j]}
      BY <3>1, AppendFacts DEF FreeBoxes
    <3>. QED BY <3>1, <3>2
  <2>. QED BY <1>3, <2>1, <2>2, <2>3, <2>4, <2>5, <2>6, <2>7, <2>8, <2>9,
       <2>10 DEF Judge, Release
<1>4. CASE Main
  <2>1. CASE Shutdown
    BY <2>1 DEF Shutdown, MainStep, FreeBoxes
  <2>2. CASE ReadWaiting
    BY <2>2 DEF ReadWaiting, MainStep, FreeBoxes
  <2>3. CASE ReadProcessing
    BY <2>3 DEF ReadProcessing, MainStep, FreeBoxes
  <2>4. CASE ShutdownTimeout
    BY <2>4 DEF ShutdownTimeout, MainStep, FreeBoxes
  <2>5. CASE Cleanup
    <3>1. /\ AvailableBoxIDs' = <<>>
          /\ UNCHANGED <<waitChan, boxID, heldBox, judge, boxDir, handed>>
      BY <2>5 DEF Cleanup, MainStep
    <3>. QED BY <3>1, EmptyQueue DEF FreeBoxes
  <2>. QED BY <1>4, <2>1, <2>2, <2>3, <2>4, <2>5 DEF Main
<1>5. CASE UNCHANGED vars
  BY <1>5 DEF vars, FreeBoxes
<1>. QED BY <1>1, <1>2, <1>3, <1>4, <1>5 DEF Next

(* A step never changes a row that carries a verdict.                       *)
LEMMA VerdictStep ==
  TypeOK /\ RowInv /\ [Next]_vars =>
    \A j \in Job : row[j] \in {Failed} \cup Scores => row'[j] = row[j]
<1>. SUFFICES ASSUME TypeOK, RowInv, [Next]_vars,
                     NEW k \in Job, row[k] \in {Failed} \cup Scores
              PROVE  row'[k] = row[k]
  OBVIOUS
<1>. USE DEF poolVars, workerVars, judgeVars
<1>1. judge[k] \notin {"none", "lookup", "ready", "running"}
  BY PoolAssumption DEF RowInv, Waiting, Judging, Failed
<1>2. CASE Worker
  BY <1>2 DEF Worker, Reserve, WorkerTick, WorkerStop, CheckAvailable,
       LeaveLoop, TakeJob, ReserveBox, ReserveMiss, ReserveWait,
       ReserveReceive, ReserveTimeout, Launch, WorkerStep
<1>3. ASSUME NEW j \in Job, AddJob(j) PROVE row'[k] = row[k]
  BY <1>3 DEF AddJob, AddJobBegin, AddJobEnqueue, AddJobReturn, AddJobFail,
       AddJobStep
<1>4. ASSUME NEW j \in Job, Judge(j) PROVE row'[k] = row[k]
  BY <1>1, <1>4 DEF TypeOK, Judge, Release, LookupFail, LookupDone,
       JudgeCancelled, JudgeStart, JudgeFail, JudgeFinish, JudgeStep,
       ReleaseHandOff, ReleaseNoWaiter, ReleaseCount, ReleaseEnqueue
<1>5. CASE Main
  BY <1>5 DEF Main, Shutdown, ReadWaiting, ReadProcessing, ShutdownTimeout,
       Cleanup, MainStep
<1>6. CASE UNCHANGED vars
  BY <1>6 DEF vars
<1>. QED BY <1>2, <1>3, <1>4, <1>5, <1>6 DEF Next

(* main leaves its polling loop without a timeout only when the counter is  *)
(* back at the number of boxes; the accounting then leaves no room for a    *)
(* launched job or a running AddJob.                                        *)
LEMMA CleanExitStep ==
  SandboxCount > 0 /\ TypeOK /\ CountAccounting /\ [Next]_vars =>
    (main' = "cleanExit" /\ main # "cleanExit" => Holding = {} /\ Cloning = {})
<1>. SUFFICES ASSUME SandboxCount > 0, TypeOK, CountAccounting, [Next]_vars,
                     main' = "cleanExit", main # "cleanExit"
              PROVE  Holding = {} /\ Cloning = {}
  OBVIOUS
<1>1. ReadProcessing /\ ProcessingCount = 0
  BY DEF Next, vars, Worker, Reserve, WorkerTick, WorkerStop, CheckAvailable,
       LeaveLoop, TakeJob, ReserveBox, ReserveMiss, ReserveWait,
       ReserveReceive, ReserveTimeout, Launch, WorkerStep,
   AddJob, AddJobBegin, AddJobEnqueue, AddJobReturn, AddJobFail, AddJobStep,
   Judge, Release, LookupFail, LookupDone, JudgeCancelled, JudgeStart,
        JudgeFail, JudgeFinish, JudgeStep, ReleaseHandOff, ReleaseNoWaiter,
        ReleaseCount, ReleaseEnqueue,
   Main, Shutdown, ReadWaiting, ReadProcessing, ShutdownTimeout, Cleanup,
        MainStep
<1>2. /\ IsFiniteSet(Holding) /\ IsFiniteSet(Cloning)
      /\ Cardinality(Holding) \in Nat /\ Cardinality(Cloning) \in Nat
  BY HoldingFinite
<1>3. availableCount >= SandboxCount
  BY <1>1, PoolAssumption DEF ProcessingCount, AvailableCount, TypeOK
<1>4. Cardinality(Holding) = 0 /\ Cardinality(Cloning) = 0
  BY <1>2, <1>3, PoolAssumption DEF CountAccounting, TypeOK
<1>. QED BY <1>2, <1>4, FS_EmptySet

(* A pool at rest is whole, as long as Release has handed no box over:      *)
(* when the worker and the judges hold no box and no AddJob is running,     *)
(* every box is queued once, and availableCount is the length of the queue. *)
WholeAtRest ==
  main # "down" /\ handed = 0 /\ boxID = NoBox /\ Holders = {} /\ Cloning = {} =>
    /\ FreeBoxes = Boxes
    /\ Len(AvailableBoxIDs) = SandboxCount
    /\ availableCount = Len(AvailableBoxIDs)

(* No box can be anywhere but in the queue, which has each of them once.    *)
LEMMA RestStep == IndInv /\ BoxConserved /\ CleanInv => WholeAtRest
<1>. SUFFICES ASSUME IndInv, BoxConserved, CleanInv, main # "down", handed = 0,
                     boxID = NoBox, Holders = {}, Cloning = {}
              PROVE  /\ FreeBoxes = Boxes
                     /\ Len(AvailableBoxIDs) = SandboxCount
                     /\ availableCount = Len(AvailableBoxIDs)
  BY DEF WholeAtRest
<1>0. /\ AvailableBoxIDs \in Seq(Boxes) /\ IsInjective(AvailableBoxIDs)
      /\ availableCount = SandboxCount - Cardinality(Holding) - Cardinality(Cloning)
                            - handed
  BY DEF IndInv, TypeOK, BoxExclusive, CountAccounting
<1>1. \A b \in Boxes : b # NoBox
  BY PoolAssumption DEF Boxes, NoBox
<1>2. \A c \in Chan : waitChan[c] = NoBox
  BY DEF CleanInv
<1>3. \A j \in Job : heldBox[j] = NoBox
  BY DEF Holders
<1>4. FreeBoxes = Boxes
  <2>1. FreeBoxes \subseteq Boxes
    BY <1>0, RangeType DEF FreeBoxes
  <2>2. Boxes \subseteq FreeBoxes
    BY <1>1, <1>2, <1>3 DEF BoxConserved
  <2>. QED BY <2>1, <2>2
<1>5. Len(AvailableBoxIDs) = SandboxCount
  <2>1. Cardinality(Boxes) = Len(AvailableBoxIDs)
    BY <1>0, <1>4, InjectiveLength DEF FreeBoxes
  <2>2. Cardinality(Boxes) = SandboxCount
    <3>1. SandboxCount \in Nat
      BY PoolAssumption
    <3>2. Cardinality(0 .. SandboxCount - 1) = IF 0 > SandboxCount - 1 THEN 0
            ELSE SandboxCount - 1 - 0 + 1
      BY <3>1, FS_Interval
    <3>. QED BY <3>1, <3>2 DEF Boxes
  <2>. QED BY <2>1, <2>2
<1>6. Holding = {}
  BY <1>3 DEF IndInv, ControlInv, Holding
<1>. QED BY <1>0, <1>4, <1>5, <1>6, FS_EmptySet, PoolAssumption

(* Hand-offs wear the pool out: once Release has handed over as many boxes  *)
(* as there are, a worker that is between two jobs takes no other, for ever *)
(* and however many boxes are free.                                         *)
BetweenJobs == {"idle", "loop", "stopped"}
WornOut     == handed >= SandboxCount /\ workerPC \in BetweenJobs

WornOutForGood == [][WornOut => WornOut']_vars

(* The counter is then zero at most, and the loop of the worker wants more. *)
LEMMA WornOutStep == TypeOK /\ CountAccounting /\ [Next]_vars => (WornOut => WornOut')
<1>. SUFFICES ASSUME TypeOK, CountAccounting, [Next]_vars, WornOut PROVE WornOut'
  OBVIOUS
<1>. USE DEF WornOut, BetweenJobs
<1>1. availableCount \in Int /\ handed \in Nat /\ SandboxCount \in Nat
  BY PoolAssumption DEF TypeOK
<1>2. ~(AvailableCount > 0)
  BY <1>1, HoldingFinite DEF CountAccounting, AvailableCount
<1>3. CASE Worker
  BY <1>2, <1>3 DEF Worker, Reserve, WorkerTick, WorkerStop, CheckAvailable,
       LeaveLoop, TakeJob, ReserveBox, ReserveMiss, ReserveWait,
       ReserveReceive, ReserveTimeout, Launch, WorkerStep
<1>4. ASSUME NEW j \in Job, AddJob(j) PROVE WornOut'
  BY <1>4 DEF AddJob, AddJobBegin, AddJobEnqueue, AddJobReturn, AddJobFail,
       AddJobStep, workerVars
<1>5. ASSUME NEW j \in Job, Judge(j) PROVE WornOut'
  <2>1. UNCHANGED workerPC /\ (handed' = handed \/ handed' = handed + 1)
    BY <1>5 DEF Judge, Release, LookupFail, LookupDone,
         JudgeCancelled, JudgeStart, JudgeFail, JudgeFinish, JudgeStep,
         ReleaseHandOff, ReleaseNoWaiter, ReleaseCount, ReleaseEnqueue, workerVars
  <2>. QED BY <1>1, <2>1
<1>6. CASE Main
  BY <1>6 DEF Main, Shutdown, ReadWaiting, ReadProcessing, ShutdownTimeout,
       Cleanup, MainStep, workerVars
<1>7. CASE UNCHANGED vars
  BY <1>7 DEF vars, workerVars
<1>. QED BY <1>3, <1>4, <1>5, <1>6, <1>7 DEF Next

-----------------------------------------------------------------------------
(* The theorems.                                                            *)

(* The initial states satisfy the inductive invariant.                      *)
LEMMA IndInit == Init => IndInv
<1>. SUFFICES ASSUME Init PROVE IndInv
  OBVIOUS
<1>1. RowInv
  BY DEF Init, RowInv
<1>. QED BY <1>1, TypeInit, ChannelInit, JobInit, BoxInit, CountInit DEF IndInv

(* Every step preserves it, conjunct by conjunct.                           *)
LEMMA IndNext == IndInv /\ [Next]_vars => IndInv'
  BY TypeNext, ControlNext, ChannelNext, RowNext, JobNext, BoxNext, CountNext
  DEF IndInv

(* The inductive invariant holds in every reachable state of the pool.      *)
THEOREM Inductive == Spec => []IndInv
  BY IndInit, IndNext, PTL DEF Spec

(* Every variable of the pool keeps its type: the queues hold only boxes,   *)
(* channels and jobs, and a row only a score code (sandbox.go).             *)
THEOREM Typing == Spec => []TypeOK
<1>1. IndInv => TypeOK
  BY DEF IndInv
<1>. QED BY <1>1, Inductive, PTL

(* Reserve and Release never give one box to two jobs.                      *)
THEOREM BoxesAreExclusive == Spec => []BoxExclusive
<1>1. IndInv => BoxExclusive
  BY DEF IndInv
<1>. QED BY <1>1, Inductive, PTL

(* The job queue, the worker and the judges neither lose nor duplicate an   *)
(* accepted job, whatever Reserves time out (assignJob).                    *)
THEOREM JobsAreInOnePlace == Spec => []JobOnce
<1>1. IndInv => JobOnce
  BY DEF IndInv
<1>. QED BY <1>1, Inductive, PTL

(* availableCount is the number of boxes less the launched jobs, the        *)
(* running AddJobs and every hand-off ever made.                            *)
THEOREM CountIsExact == Spec => []CountAccounting
<1>1. IndInv => CountAccounting
  BY DEF IndInv
<1>. QED BY <1>1, Inductive, PTL

(* Until Cleanup, Reserve and Release drop no box.                          *)
THEOREM BoxesAreConserved == Spec => []BoxConserved
<1>1. Init => BoxConserved
  BY ConservedInit
<1>2. IndInv /\ BoxConserved /\ [Next]_vars => BoxConserved'
  BY ConservedNext DEF IndInv
<1>. QED BY <1>1, <1>2, Inductive, PTL DEF Spec

(* Release cannot forget a Reserve that waits.                              *)
THEOREM WaitersAreHeard == Spec => []WaiterHeard
<1>1. Init => WaiterHeard
  BY DEF Init, WaiterHeard
<1>2. IndInv /\ WaiterHeard /\ [Next]_vars => WaiterHeard'
  BY HeardNext DEF IndInv
<1>. QED BY <1>1, <1>2, Inductive, PTL DEF Spec

(* As long as Release hands no box over, isolate --init runs between two    *)
(* jobs of a box.                                                           *)
THEOREM BoxesAreClean == Spec => []CleanUnlessHanded
<1>1. Init => CleanInv
  BY CleanInit
<1>2. IndInv /\ CleanInv /\ [Next]_vars => CleanInv'
  BY CleanNext DEF IndInv
<1>3. CleanInv => CleanUnlessHanded
  BY DEF CleanInv, CleanUnlessHanded
<1>. QED BY <1>1, <1>2, <1>3, Inductive, PTL DEF Spec

(* Without hand-offs a pool that has come to rest has all its boxes in the  *)
(* free queue, and a counter that says so: what Reserve took and lowered,   *)
(* Release has given back and raised (sandbox.go).                          *)
THEOREM RestingPoolsAreWhole == Spec => []WholeAtRest
<1>1. Init => BoxConserved /\ CleanInv
  BY ConservedInit, CleanInit
<1>2. IndInv /\ BoxConserved /\ CleanInv /\ [Next]_vars
        => (BoxConserved /\ CleanInv)'
  BY ConservedNext, CleanNext DEF IndInv
<1>. QED BY <1>1, <1>2, RestStep, Inductive, PTL DEF Spec

(* A box that Release hands over lowers availableCount for ever: after as   *)
(* many as there are boxes, the WorkerLoop never starts a job again.        *)
THEOREM HandOffsWearOut == Spec => WornOutForGood
<1>1. IndInv /\ [Next]_vars => [WornOut => WornOut']_vars
  BY WornOutStep DEF IndInv
<1>. QED BY <1>1, Inductive, PTL DEF Spec, WornOutForGood

(* No step of a judge, of the worker or of main overwrites a verdict.       *)
THEOREM VerdictsAreStable == Spec => VerdictStable
<1>1. IndInv /\ [Next]_vars =>
        [\A j \in Job : row[j] \in {Failed} \cup Scores => row'[j] = row[j]]_vars
  BY VerdictStep DEF IndInv
<1>. QED BY <1>1, Inductive, PTL DEF Spec, VerdictStable

(* When main's polling loop ends without a timeout, no judge is at work and *)
(* no AddJob is running.  A pool without boxes would satisfy the loop's     *)
(* test at once, so the pool has one.                                       *)
THEOREM CleanExitsAreIdle ==
  ASSUME SandboxCount > 0
  PROVE  Spec => CleanExitIdle
<1>1. IndInv /\ [Next]_vars =>
        [main' = "cleanExit" /\ main # "cleanExit" =>
           Holding = {} /\ Cloning = {}]_vars
  BY CleanExitStep DEF IndInv
<1>. QED BY <1>1, Inductive, PTL DEF Spec, CleanExitIdle
-----------------------------------------------------------------------------
(* The pool implements JobLifecycle.                                        *)

(* A step that changes the fate of one job in a legal way, or of none, is a *)
(* step of the life cycle.                                                  *)
LEMMA OneFate ==
  ASSUME NEW j \in Job, \A k \in Job : k # j => Fate(k)' = Fate(k),
         \/ Fate(j)' = Fate(j)
         \/ Fate(j) = "new" /\ Fate(j)' = "pending"
         \/ Fate(j) = "pending" /\ Fate(j)' \in {"completed", "lost"}
  PROVE  [Lifecycle!Next]_JobFate
<1>1. JobFate' = [JobFate EXCEPT ![j] = Fate(j)']
  BY DEF JobFate
<1>2. JobFate[j] = Fate(j)
  BY DEF JobFate
<1>3. CASE Fate(j)' = Fate(j)
  BY <1>1, <1>2, <1>3 DEF JobFate
<1>4. CASE Fate(j) = "new" /\ Fate(j)' = "pending"
  BY <1>1, <1>2, <1>4 DEF Lifecycle!Next, Lifecycle!Submit
<1>5. CASE Fate(j) = "pending" /\ Fate(j)' = "completed"
  BY <1>1, <1>2, <1>5 DEF Lifecycle!Next, Lifecycle!Complete
<1>6. CASE Fate(j) = "pending" /\ Fate(j)' = "lost"
  BY <1>1, <1>2, <1>6 DEF Lifecycle!Next, Lifecycle!Lose
<1>. QED BY <1>3, <1>4, <1>5, <1>6

(* A step that leaves every AddJob and every judge alone is a stutter.      *)
LEMMA SameFate == UNCHANGED <<adder, judge>> => UNCHANGED JobFate
  BY DEF JobFate, Fate

(* Every step of the pool is a step of the life cycle, or a stutter.  That  *)
(* only an accepted job has a judge (JobOnce) and that the worker holds an  *)
(* accepted job without one are needed for AddJobFail and Launch.           *)
LEMMA LifecycleStep == IndInv /\ [Next]_vars => [Lifecycle!Next]_JobFate
<1>. SUFFICES ASSUME TypeOK, ControlInv, JobOnce, [Next]_vars
              PROVE  [Lifecycle!Next]_JobFate
  BY DEF IndInv
<1>. USE DEF TypeOK
<1>1. CASE Worker /\ ~Launch
  BY <1>1, SameFate DEF Worker, WorkerTick, WorkerStop, CheckAvailable,
     LeaveLoop, TakeJob, Reserve, ReserveBox, ReserveMiss, ReserveWait,
     ReserveReceive, ReserveTimeout, WorkerStep
<1>2. CASE Launch
  <2>1. /\ job \in Job /\ judge[job] = "none" /\ adder' = adder
        /\ judge' = [judge EXCEPT ![job] = "lookup"]
    BY <1>2 DEF Launch, WorkerStep, ControlInv, JobOnce
  <2>2. \A k \in Job : Fate(k)' = Fate(k)
    BY <2>1 DEF Fate
  <2>. QED BY <2>2 DEF JobFate
<1>3. ASSUME NEW j \in Job, AddJob(j) PROVE [Lifecycle!Next]_JobFate
  <2>1. /\ judge' = judge
        /\ \A k \in Job : k # j => adder'[k] = adder[k]
        /\ \/ adder[j] = "idle" /\ adder'[j] = "cloning"
           \/ adder[j] = "cloning" /\ adder'[j] \in {"queued", "dropped"}
           \/ adder[j] = "queued" /\ adder'[j] = "returned"
    BY <1>3 DEF AddJob, AddJobBegin, AddJobEnqueue, AddJobReturn, AddJobFail,
       AddJobStep, judgeVars
  <2>2. adder[j] \in {"idle", "cloning"} => judge[j] = "none"
    BY DEF JobOnce
  <2>3. \A k \in Job : k # j => Fate(k)' = Fate(k)
    BY <2>1 DEF Fate
  <2>4. \/ Fate(j)' = Fate(j)
        \/ Fate(j) = "new" /\ Fate(j)' = "pending"
        \/ Fate(j) = "pending" /\ Fate(j)' \in {"completed", "lost"}
    BY <2>1, <2>2 DEF Fate
  <2>. QED BY <2>3, <2>4, OneFate
<1>4. ASSUME NEW j \in Job, Judge(j) PROVE [Lifecycle!Next]_JobFate
  <2>1. /\ adder' = adder
        /\ \A k \in Job : k # j => judge'[k] = judge[k]
        /\ \/ /\ judge[j] \in {"lookup", "ready", "running"}
              /\ judge'[j] \in {"ready", "running", "releasing"}
           \/ /\ judge[j] \in {"releasing", "initing", "counted"}
              /\ judge'[j] \in {"initing", "counted", "done"}
    BY <1>4 DEF Judge, LookupFail, LookupDone, JudgeCancelled, JudgeStart,
       JudgeFail, JudgeFinish, Release, ReleaseHandOff, ReleaseNoWaiter,
       ReleaseCount, ReleaseEnqueue, JudgeStep, workerVars
  <2>2. adder[j] \in {"queued", "returned"}
    BY <2>1 DEF JobOnce
  <2>3. \A k \in Job : k # j => Fate(k)' = Fate(k)
    BY <2>1 DEF Fate
  <2>4. \/ Fate(j)' = Fate(j)
        \/ Fate(j) = "pending" /\ Fate(j)' = "completed"
    BY <2>1, <2>2 DEF Fate
  <2>. QED BY <2>3, <2>4, OneFate
<1>5. CASE Main
  BY <1>5, SameFate DEF Main, Shutdown, ReadWaiting, ReadProcessing,
     ShutdownTimeout, Cleanup, MainStep, judgeVars
<1>6. CASE UNCHANGED vars
  BY <1>6, SameFate DEF vars, judgeVars
<1>. QED BY <1>1, <1>2, <1>3, <1>4, <1>5, <1>6 DEF Next

(* ImplementsLifecycle: a dropped job is never judged, a judged one never   *)
(* again.                                                                   *)
THEOREM PoolImplementsLifecycle == Spec => ImplementsLifecycle
<1>1. Init => Lifecycle!Init
  BY DEF Init, Lifecycle!Init, JobFate, Fate
<1>2. IndInv /\ [Next]_vars => [Lifecycle!Next]_JobFate
  BY LifecycleStep
<1>. QED BY <1>1, <1>2, Inductive, PTL DEF Spec, ImplementsLifecycle,
         Lifecycle!Spec
=============================================================================
