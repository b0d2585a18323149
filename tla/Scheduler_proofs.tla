-------------------------- MODULE Scheduler_proofs --------------------------
(***************************************************************************)
(* Theorems about Scheduler, for every set of sandboxes and jobs, every    *)
(* number of connections and every capacity of JobChan.                    *)
(***************************************************************************)
EXTENDS Scheduler, DataLemmas

-----------------------------------------------------------------------------
(* Type correctness and control points.                                     *)

(* The initial state has the right types and locals.                        *)
LEMMA TypeInit == Init => TypeOK /\ ControlInv
  BY SchedulerAssumption DEF Init, TypeOK, ControlInv, Conn, NoConn

(* Every step keeps the types: only jobs are queued, only opened            *)
(* connections registered.                                                  *)
LEMMA TypeNext == TypeOK /\ ControlInv /\ [Next]_vars => TypeOK'
<1>. SUFFICES ASSUME TypeOK, ControlInv, [Next]_vars PROVE TypeOK'
  OBVIOUS
<1>. USE SchedulerAssumption DEF TypeOK, ControlInv, Conn, NoConn, netVars, instVars, chanVars, assignVars
<1>1. ASSUME NEW j \in Job, ReserveJob(j) PROVE TypeOK'
  BY <1>1, AppendFacts DEF ReserveJob
<1>2. ASSUME NEW s \in Sandbox, ClientNotices(s) PROVE TypeOK'
  BY <1>2 DEF ClientNotices
<1>3. ASSUME NEW s \in Sandbox, NEW c \in Conn, Connect(s, c) PROVE TypeOK'
  BY <1>3 DEF Connect
<1>4. ASSUME NEW c \in Conn, LinkBreak(c) PROVE TypeOK'
  BY <1>4 DEF LinkBreak
<1>5. ASSUME NEW c \in Conn, NEW r \in Reports, StatusMessage(c, r) PROVE TypeOK'
  BY <1>5 DEF StatusMessage
<1>6. ASSUME NEW c \in Conn, Stream(c) PROVE TypeOK'
  <2>1. CASE Greet(c)
    BY <2>1 DEF Greet
  <2>2. CASE StreamFails(c)
    BY <2>2 DEF StreamFails
  <2>3. CASE Deregister(c)
    BY <2>3 DEF Deregister, CloseChans, Panic
  <2>. QED BY <1>6, <2>1, <2>2, <2>3 DEF Stream
<1>7. ASSUME NEW c \in Conn, SendJobs(c) PROVE TypeOK'
  <2>1. CASE TakeFromChan(c)
    <3>1. /\ jobChan[c] \in Seq(Job) /\ jobChan[c] # <<>>
          /\ Head(jobChan[c]) \in Job /\ Tail(jobChan[c]) \in Seq(Job)
      BY <2>1, DequeueFacts DEF TakeFromChan
    <3>. QED BY <2>1, <3>1 DEF TakeFromChan
  <2>2. CASE SendDelivers(c)
    BY <2>2 DEF SendDelivers, SendEnds
  <2>3. CASE SendIsLost(c)
    BY <2>3 DEF SendIsLost, SendEnds
  <2>4. CASE SendFails(c)
    BY <2>4 DEF SendFails, SendEnds
  <2>5. CASE SenderReturns(c)
    BY <2>5 DEF SenderReturns
  <2>. QED BY <1>7, <2>1, <2>2, <2>3, <2>4, <2>5 DEF SendJobs
<1>8. CASE CleanupInactive
  BY <1>8 DEF CleanupInactive, CloseChans, Panic
<1>9. CASE AssignJob
  <2>1. CASE Dequeue
    BY <2>1, DequeueFacts DEF Dequeue
  <2>2. CASE NoCandidate
    BY <2>2, AppendFacts DEF NoCandidate, Requeue
  <2>3. CASE Pick
    <3>1. \A c \in GetBestSandbox : c \in Conn
      BY DEF GetBestSandbox, Candidates, Registered
    <3>. QED BY <2>3, <3>1 DEF Pick
  <2>4. CASE ReserveSlot
    <3>1. target \in Conn
      BY <2>4 DEF ReserveSlot
    <3>2. [available EXCEPT ![target] = @ - 1] \in [Conn -> Int]
      BY <3>1
    <3>. QED BY <2>4, <3>2 DEF ReserveSlot
  <2>5. CASE PutOnChan
    <3>1. job \in Job /\ target \in Conn
      BY <2>5 DEF PutOnChan
    <3>2. Append(jobChan[target], job) \in Seq(Job)
      BY <3>1, AppendFacts
    <3>3. [jobChan EXCEPT ![target] = Append(@, job)] \in [Conn -> Seq(Job)]
      BY <3>1, <3>2
    <3>4. [credit EXCEPT ![target] = @ - 1] \in [Conn -> Int]
      BY <3>1
    <3>. QED BY <2>5, <3>3, <3>4 DEF PutOnChan
  <2>6. CASE PutPanics
    BY <2>6 DEF PutPanics, Panic
  <2>7. CASE RollBack
    <3>1. Append(jobQueue, job) \in Seq(Job)
      BY <2>7, AppendFacts DEF RollBack
    <3>2. target \in Conn
      BY <2>7 DEF RollBack
    <3>3. [available EXCEPT ![target] = @ + 1] \in [Conn -> Int]
      BY <3>2
    <3>. QED BY <2>7, <3>1, <3>3 DEF RollBack, Requeue
  <2>. QED BY <1>9, <2>1, <2>2, <2>3, <2>4, <2>5, <2>6, <2>7 DEF AssignJob
<1>10. CASE Close
  BY <1>10 DEF Close, CloseChans, Panic
<1>11. CASE Exit
  BY <1>11 DEF Exit
<1>12. CASE UNCHANGED vars
  BY <1>12 DEF vars
<1>. QED BY <1>1, <1>2, <1>3, <1>4, <1>5, <1>6, <1>7, <1>8, <1>9, <1>10, <1>11, <1>12 DEF Next

(* What is registered is open and in use.                                   *)
LEMMA RegisteredFacts ==
  RegisteredOpen => \A c \in Registered : stream[c] # "unused" /\ ~closed[c]
  BY DEF Registered, RegisteredOpen

(* Every step keeps what each goroutine holds in accord with its control    *)
(* point.                                                                   *)
LEMMA ControlNext == TypeOK /\ ControlInv /\ RegisteredOpen /\ [Next]_vars => ControlInv'
<1>. SUFFICES ASSUME TypeOK, ControlInv, RegisteredOpen, [Next]_vars PROVE ControlInv'
  OBVIOUS
<1>. USE SchedulerAssumption DEF TypeOK, ControlInv, Conn, NoConn, netVars, instVars, chanVars, assignVars
<1>1. ASSUME NEW j \in Job, ReserveJob(j) PROVE ControlInv'
  BY <1>1 DEF ReserveJob
<1>2. ASSUME NEW s \in Sandbox, ClientNotices(s) PROVE ControlInv'
  BY <1>2 DEF ClientNotices
<1>3. ASSUME NEW s \in Sandbox, NEW c \in Conn, Connect(s, c) PROVE ControlInv'
  BY <1>3 DEF Connect
<1>4. ASSUME NEW c \in Conn, LinkBreak(c) PROVE ControlInv'
  BY <1>4 DEF LinkBreak
<1>5. ASSUME NEW c \in Conn, NEW r \in Reports, StatusMessage(c, r) PROVE ControlInv'
  BY <1>5 DEF StatusMessage
<1>6. ASSUME NEW c \in Conn, Stream(c) PROVE ControlInv'
  <2>1. CASE Greet(c)
    BY <2>1 DEF Greet
  <2>2. CASE StreamFails(c)
    BY <2>2 DEF StreamFails
  <2>3. CASE Deregister(c)
    BY <2>3 DEF Deregister, CloseChans, Panic
  <2>. QED BY <1>6, <2>1, <2>2, <2>3 DEF Stream
<1>7. ASSUME NEW c \in Conn, SendJobs(c) PROVE ControlInv'
  <2>1. CASE TakeFromChan(c)
    <3>1. Head(jobChan[c]) \in Job
      BY <2>1, DequeueFacts DEF TakeFromChan
    <3>. QED BY <2>1, <3>1 DEF TakeFromChan
  <2>2. CASE SendDelivers(c)
    BY <2>2 DEF SendDelivers, SendEnds
  <2>3. CASE SendIsLost(c)
    BY <2>3 DEF SendIsLost, SendEnds
  <2>4. CASE SendFails(c)
    BY <2>4 DEF SendFails, SendEnds
  <2>5. CASE SenderReturns(c)
    BY <2>5 DEF SenderReturns
  <2>. QED BY <1>7, <2>1, <2>2, <2>3, <2>4, <2>5 DEF SendJobs
<1>8. CASE CleanupInactive
  <2>1. \A c \in Registered : stream[c] # "unused"
    BY RegisteredFacts
  <2>2. UNCHANGED <<stream, sender, sending, assignVars, available>>
    BY <1>8 DEF CleanupInactive, CloseChans
  <2>3. \E removed \in SUBSET Registered :
          closed' = [c \in Conn |-> closed[c] \/ c \in removed]
    <3>. HIDE DEF TypeOK, ControlInv, netVars, instVars, chanVars, assignVars
    <3>1. PICK removed \in SUBSET {c \in Registered : lastSeen[c] = "silent"} :
            closed' = [c \in Conn |-> closed[c] \/ c \in removed]
      BY <1>8 DEF CleanupInactive, CloseChans
    <3>. QED BY <3>1
  <2>4. \A c \in Conn : stream[c] = "unused" => ~closed'[c]
    BY <2>1, <2>3
  <2>. QED BY <2>2, <2>4
<1>9. CASE AssignJob
  <2>1. CASE Dequeue
    BY <2>1, DequeueFacts DEF Dequeue
  <2>2. CASE NoCandidate
    BY <2>2 DEF NoCandidate, Requeue
  <2>3. CASE Pick
    <3>1. \A c \in GetBestSandbox : c \in Conn /\ available[c] > 0
      BY DEF GetBestSandbox, Candidates, Registered
    <3>. QED BY <2>3, <3>1 DEF Pick
  <2>4. CASE ReserveSlot
    BY <2>4 DEF ReserveSlot
  <2>5. CASE PutOnChan
    BY <2>5 DEF PutOnChan
  <2>6. CASE PutPanics
    BY <2>6 DEF PutPanics, Panic
  <2>7. CASE RollBack
    <3>1. /\ assigner' = "idle" /\ job' = NoJob /\ target' = NoConn
          /\ UNCHANGED <<stream, closed, sender, sending>>
      BY <2>7 DEF RollBack, Requeue
    <3>. QED BY <3>1
  <2>. QED BY <1>9, <2>1, <2>2, <2>3, <2>4, <2>5, <2>6, <2>7 DEF AssignJob
<1>10. CASE Close
  <2>1. \A c \in Registered : stream[c] # "unused"
    BY RegisteredFacts
  <2>. QED BY <1>10, <2>1 DEF Close, CloseChans
<1>11. CASE Exit
  BY <1>11 DEF Exit
<1>12. CASE UNCHANGED vars
  BY <1>12 DEF vars
<1>. QED BY <1>1, <1>2, <1>3, <1>4, <1>5, <1>6, <1>7, <1>8, <1>9, <1>10, <1>11, <1>12 DEF Next

-----------------------------------------------------------------------------
(* The registry.                                                            *)

(* Nothing is registered at the start.                                      *)
LEMMA RegisteredInit == Init => RegisteredOpen
  BY SchedulerAssumption DEF Init, RegisteredOpen, Conn, NoConn

(* A new connection has an open channel; whoever closes a channel deletes   *)
(* its entry in the same critical section.                                  *)
LEMMA RegisteredNext == TypeOK /\ ControlInv /\ RegisteredOpen /\ [Next]_vars => RegisteredOpen'
<1>. SUFFICES ASSUME TypeOK, ControlInv, RegisteredOpen, [Next]_vars PROVE RegisteredOpen'
  OBVIOUS
<1>. USE SchedulerAssumption DEF TypeOK, ControlInv, RegisteredOpen, Conn, NoConn, netVars, instVars, chanVars, assignVars
<1>1. ASSUME NEW j \in Job, ReserveJob(j) PROVE RegisteredOpen'
  BY <1>1 DEF ReserveJob
<1>2. ASSUME NEW s \in Sandbox, ClientNotices(s) PROVE RegisteredOpen'
  BY <1>2 DEF ClientNotices
<1>3. ASSUME NEW s \in Sandbox, NEW c \in Conn, Connect(s, c) PROVE RegisteredOpen'
  <2>1. /\ stream[c] = "unused" /\ closed' = closed
        /\ owner' = [owner EXCEPT ![c] = s]
        /\ stream' = [stream EXCEPT ![c] = "greeting"]
        /\ instances' = [instances EXCEPT ![s] = c]
    BY <1>3 DEF Connect
  <2>2. \A r \in Sandbox : instances[r] # NoConn => instances[r] # c
    BY <2>1
  <2>. QED BY <2>1, <2>2
<1>4. ASSUME NEW c \in Conn, LinkBreak(c) PROVE RegisteredOpen'
  BY <1>4 DEF LinkBreak
<1>5. ASSUME NEW c \in Conn, NEW r \in Reports, StatusMessage(c, r) PROVE RegisteredOpen'
  BY <1>5 DEF StatusMessage
<1>6. ASSUME NEW c \in Conn, Stream(c) PROVE RegisteredOpen'
  <2>1. CASE Greet(c)
    BY <2>1 DEF Greet
  <2>2. CASE StreamFails(c)
    BY <2>2 DEF StreamFails
  <2>3. CASE Deregister(c)
    <3>1. /\ stream' = [stream EXCEPT ![c] = "returned"] /\ owner' = owner
          /\ closed' = [d \in Conn |-> closed[d] \/ d = c]
          /\ \/ closed[c] /\ instances' = instances
             \/ instances' = [instances EXCEPT ![owner[c]] = NoConn]
      BY <2>3 DEF Deregister, CloseChans, ClosePanics
    <3>2. \A s \in Sandbox : instances'[s] # NoConn => instances'[s] = instances[s]
      BY <3>1
    <3>3. \A s \in Sandbox : instances'[s] # NoConn => instances'[s] # c
      BY <3>1
    <3>4. ASSUME NEW s \in Sandbox, instances'[s] # NoConn
          PROVE  /\ owner[instances[s]] = s
                 /\ stream'[instances[s]] \in {"greeting", "open", "ended"}
                 /\ ~closed'[instances[s]]
      <4>1. /\ owner[instances[s]] = s /\ ~closed[instances[s]]
            /\ stream[instances[s]] \in {"greeting", "open", "ended"}
        BY <3>2, <3>4
      <4>2. instances[s] \in Conn /\ instances[s] # c
        BY <3>2, <3>3, <3>4
      <4>3. /\ stream'[instances[s]] = stream[instances[s]]
            /\ closed'[instances[s]] = closed[instances[s]]
        BY <3>1, <4>2
      <4>. QED BY <4>1, <4>3
    <3>5. ASSUME NEW s \in Sandbox, instances'[s] # NoConn
          PROVE  /\ owner'[instances'[s]] = s
                 /\ stream'[instances'[s]] \in {"greeting", "open", "ended"}
                 /\ ~closed'[instances'[s]]
      BY <3>1, <3>2, <3>4, <3>5
    <3>. QED BY <3>5
  <2>. QED BY <1>6, <2>1, <2>2, <2>3 DEF Stream
<1>7. ASSUME NEW c \in Conn, SendJobs(c) PROVE RegisteredOpen'
  <2>1. CASE TakeFromChan(c)
    BY <2>1 DEF TakeFromChan
  <2>2. CASE SendDelivers(c)
    BY <2>2 DEF SendDelivers, SendEnds
  <2>3. CASE SendIsLost(c)
    BY <2>3 DEF SendIsLost, SendEnds
  <2>4. CASE SendFails(c)
    BY <2>4 DEF SendFails, SendEnds
  <2>5. CASE SenderReturns(c)
    BY <2>5 DEF SenderReturns
  <2>. QED BY <1>7, <2>1, <2>2, <2>3, <2>4, <2>5 DEF SendJobs
<1>8. CASE CleanupInactive
  BY <1>8 DEF CleanupInactive, CloseChans, Panic
<1>9. CASE AssignJob
  <2>1. CASE Dequeue
    BY <2>1 DEF Dequeue
  <2>2. CASE NoCandidate
    BY <2>2 DEF NoCandidate, Requeue
  <2>3. CASE Pick
    BY <2>3 DEF Pick, GetBestSandbox, Candidates, Registered
  <2>4. CASE ReserveSlot
    BY <2>4 DEF ReserveSlot
  <2>5. CASE PutOnChan
    BY <2>5 DEF PutOnChan
  <2>6. CASE PutPanics
    BY <2>6 DEF PutPanics, Panic
  <2>7. CASE RollBack
    BY <2>7 DEF RollBack, Requeue
  <2>. QED BY <1>9, <2>1, <2>2, <2>3, <2>4, <2>5, <2>6, <2>7 DEF AssignJob
<1>10. CASE Close
  BY <1>10 DEF Close, CloseChans, Panic
<1>11. CASE Exit
  BY <1>11 DEF Exit
<1>12. CASE UNCHANGED vars
  BY <1>12 DEF vars
<1>. QED BY <1>1, <1>2, <1>3, <1>4, <1>5, <1>6, <1>7, <1>8, <1>9, <1>10, <1>11, <1>12 DEF Next

-----------------------------------------------------------------------------
(* The estimate of the free slots.                                          *)

(* Nothing is reported or reserved at the start.                            *)
LEMMA EstimateInit == Init => EstimateWithinOne
  BY SchedulerAssumption DEF Init, EstimateWithinOne, Drift, Conn, NoConn

(* A reservation and its roll-back or send cancel out, up to one status that *)
(* arrives in between.                                                      *)
LEMMA EstimateNext == TypeOK /\ ControlInv /\ EstimateWithinOne /\ [Next]_vars => EstimateWithinOne'
<1>. SUFFICES ASSUME TypeOK, ControlInv, EstimateWithinOne, [Next]_vars PROVE EstimateWithinOne'
  OBVIOUS
<1>. USE SchedulerAssumption DEF TypeOK, ControlInv, EstimateWithinOne, Drift, Conn, NoConn, netVars, instVars, chanVars, assignVars
<1>1. ASSUME NEW j \in Job, ReserveJob(j) PROVE EstimateWithinOne'
  BY <1>1 DEF ReserveJob
<1>2. ASSUME NEW s \in Sandbox, ClientNotices(s) PROVE EstimateWithinOne'
  BY <1>2 DEF ClientNotices
<1>3. ASSUME NEW s \in Sandbox, NEW c \in Conn, Connect(s, c) PROVE EstimateWithinOne'
  BY <1>3 DEF Connect
<1>4. ASSUME NEW c \in Conn, LinkBreak(c) PROVE EstimateWithinOne'
  BY <1>4 DEF LinkBreak
<1>5. ASSUME NEW c \in Conn, NEW r \in Reports, StatusMessage(c, r) PROVE EstimateWithinOne'
  <2>1. /\ available' = [available EXCEPT ![c] = r]
        /\ credit' = [credit EXCEPT ![c] = r]
        /\ UNCHANGED <<assigner, target>>
    BY <1>5 DEF StatusMessage
  <2>2. r \in Nat /\ available'[c] = r /\ credit'[c] = r
    BY <2>1
  <2>3. \A d \in Conn : d # c => available'[d] = available[d] /\ credit'[d] = credit[d]
    BY <2>1
  <2>. HIDE DEF TypeOK, ControlInv
  <2>. QED BY <2>1, <2>2, <2>3
<1>6. ASSUME NEW c \in Conn, Stream(c) PROVE EstimateWithinOne'
  <2>1. CASE Greet(c)
    BY <2>1 DEF Greet
  <2>2. CASE StreamFails(c)
    BY <2>2 DEF StreamFails
  <2>3. CASE Deregister(c)
    BY <2>3 DEF Deregister, CloseChans, Panic
  <2>. QED BY <1>6, <2>1, <2>2, <2>3 DEF Stream
<1>7. ASSUME NEW c \in Conn, SendJobs(c) PROVE EstimateWithinOne'
  <2>1. CASE TakeFromChan(c)
    BY <2>1 DEF TakeFromChan
  <2>2. CASE SendDelivers(c)
    BY <2>2 DEF SendDelivers, SendEnds
  <2>3. CASE SendIsLost(c)
    BY <2>3 DEF SendIsLost, SendEnds
  <2>4. CASE SendFails(c)
    BY <2>4 DEF SendFails, SendEnds
  <2>5. CASE SenderReturns(c)
    BY <2>5 DEF SenderReturns
  <2>. QED BY <1>7, <2>1, <2>2, <2>3, <2>4, <2>5 DEF SendJobs
<1>8. CASE CleanupInactive
  BY <1>8 DEF CleanupInactive, CloseChans, Panic
<1>9. CASE AssignJob
  <2>1. CASE Dequeue
    BY <2>1 DEF Dequeue
  <2>2. CASE NoCandidate
    BY <2>2 DEF NoCandidate, Requeue
  <2>3. CASE Pick
    BY <2>3 DEF Pick, GetBestSandbox, Candidates, Registered
  <2>4. CASE ReserveSlot
    <3>1. /\ assigner = "picked" /\ assigner' = "reserved" /\ target' = target
          /\ target \in Conn /\ available[target] >= 0
          /\ available' = [available EXCEPT ![target] = @ - 1] /\ credit' = credit
      BY <2>4 DEF ReserveSlot
    <3>2. \A c \in Conn : available[c] \in Int /\ credit[c] \in Int
      OBVIOUS
    <3>3. \A c \in Conn : available[c] - credit[c] \in {0, 1}
      BY <3>1
    <3>4. ASSUME NEW c \in Conn, c # target
          PROVE  /\ available'[c] >= -1
                 /\ available'[c] - credit'[c] \in {0, 1}
      BY <3>1, <3>3, <3>4
    <3>5. /\ available'[target] = available[target] - 1
          /\ credit'[target] = credit[target]
      BY <3>1
    <3>6. /\ available'[target] >= -1
          /\ available'[target] - credit'[target] \in {-1, 0}
      <4>1. available[target] \in Int /\ credit[target] \in Int
        BY <3>1, <3>2
      <4>2. available[target] - credit[target] \in {0, 1} /\ available[target] >= 0
        BY <3>1, <3>3
      <4>. HIDE DEF TypeOK, ControlInv, EstimateWithinOne
      <4>. QED BY <3>5, <4>1, <4>2
    <3>. QED BY <3>1, <3>4, <3>6
  <2>5. CASE PutOnChan
    <3>1. /\ assigner = "reserved" /\ assigner' = "idle"
          /\ target \in Conn
          /\ credit' = [credit EXCEPT ![target] = @ - 1] /\ available' = available
      BY <2>5 DEF PutOnChan
    <3>2. \A c \in Conn : available[c] \in Int /\ credit[c] \in Int
      OBVIOUS
    <3>3. /\ available[target] - credit[target] \in {-1, 0}
          /\ \A c \in Conn : c # target => available[c] - credit[c] \in {0, 1}
      BY <3>1
    <3>4. /\ available'[target] = available[target]
          /\ credit'[target] = credit[target] - 1
          /\ \A c \in Conn : c # target => credit'[c] = credit[c]
      BY <3>1
    <3>5. \A c \in Conn : available[c] >= -1
      OBVIOUS
    <3>. HIDE DEF TypeOK, ControlInv
    <3>6. available'[target] - credit'[target] \in {0, 1}
      BY <3>1, <3>2, <3>3, <3>4
    <3>. QED BY <3>1, <3>3, <3>4, <3>5, <3>6
  <2>6. CASE PutPanics
    BY <2>6 DEF PutPanics, Panic
  <2>7. CASE RollBack
    <3>1. /\ assigner = "reserved" /\ assigner' = "idle"
          /\ target \in Conn
          /\ available' = [available EXCEPT ![target] = @ + 1] /\ credit' = credit
      BY <2>7 DEF RollBack, Requeue
    <3>2. \A c \in Conn : available[c] \in Int /\ credit[c] \in Int
      OBVIOUS
    <3>3. /\ available[target] - credit[target] \in {-1, 0}
          /\ \A c \in Conn : c # target => available[c] - credit[c] \in {0, 1}
      BY <3>1
    <3>4. /\ available'[target] = available[target] + 1
          /\ credit'[target] = credit[target]
          /\ \A c \in Conn : c # target => available'[c] = available[c]
      BY <3>1
    <3>5. \A c \in Conn : available[c] >= -1
      OBVIOUS
    <3>. HIDE DEF TypeOK, ControlInv
    <3>6. /\ available'[target] - credit'[target] \in {0, 1}
          /\ available'[target] >= -1
      BY <3>1, <3>2, <3>3, <3>4, <3>5
    <3>. QED BY <3>1, <3>3, <3>4, <3>5, <3>6
  <2>. QED BY <1>9, <2>1, <2>2, <2>3, <2>4, <2>5, <2>6, <2>7 DEF AssignJob
<1>10. CASE Close
  BY <1>10 DEF Close, CloseChans, Panic
<1>11. CASE Exit
  BY <1>11 DEF Exit
<1>12. CASE UNCHANGED vars
  BY <1>12 DEF vars
<1>. QED BY <1>1, <1>2, <1>3, <1>4, <1>5, <1>6, <1>7, <1>8, <1>9, <1>10, <1>11, <1>12 DEF Next

-----------------------------------------------------------------------------
(* Jobs: where a pending job is.                                            *)

(* At the start no job is anywhere.                                         *)
LEMMA JobInit == Init => JobInOnePlace
  BY EmptyQueue, SchedulerAssumption DEF Init, JobInOnePlace, Somewhere, Queued,
     OnChan

(* Most steps move no job.                                                  *)
LEMMA PlacesSame ==
  JobInOnePlace /\ UNCHANGED <<fate, jobQueue, job, jobChan, sending>>
    => JobInOnePlace'
  BY DEF JobInOnePlace, Somewhere, Queued, OnChan

(* assignJobToSandbox gives its job back to the queue.                      *)
LEMMA RequeuePlaces ==
  ASSUME TypeOK, JobInOnePlace, job # NoJob, Requeue,
         UNCHANGED <<fate, jobChan, sending>>
  PROVE  JobInOnePlace'
<1>. USE SchedulerAssumption
<1>1. /\ job \in Job /\ job' = NoJob /\ jobQueue \in Seq(Job)
      /\ jobQueue' = Append(jobQueue, job)
  BY DEF TypeOK, Requeue
<1>2. job \notin Queued /\ \A c \in Conn : job \notin OnChan(c) /\ job # sending[c]
  BY <1>1 DEF JobInOnePlace
<1>3. Range(jobQueue') = Range(jobQueue) \cup {job} /\ IsInjective(jobQueue')
  BY <1>1, <1>2, AppendFacts DEF JobInOnePlace, Queued
<1>4. \A k \in Job : Somewhere(k)' <=> Somewhere(k)
  BY <1>1, <1>3 DEF Somewhere, Queued, OnChan
<1>5. \A c \in Conn : NoJob \notin Range(jobChan[c])
  BY RangeType DEF TypeOK
<1>6. \A c \in Conn :
        /\ IsInjective(jobChan[c])
        /\ Range(jobChan[c]) \cap (Range(jobQueue') \cup {NoJob}) = {}
        /\ sending[c] # NoJob =>
             sending[c] \notin Range(jobQueue') \cup Range(jobChan[c]) \cup {NoJob}
  BY <1>1, <1>2, <1>3, <1>5 DEF JobInOnePlace, Queued, OnChan
<1>7. /\ \A k \in Job : fate'[k] = "pending" <=> Somewhere(k)'
      /\ \A c, d \in Conn :
           c # d => /\ Range(jobChan[c]) \cap Range(jobChan[d]) = {}
                    /\ sending[c] # NoJob =>
                         sending[c] \notin Range(jobChan[d]) \cup {sending[d]}
  BY <1>4 DEF JobInOnePlace, OnChan
<1>. QED BY <1>1, <1>3, <1>6, <1>7 DEF JobInOnePlace, Queued, OnChan

(* A Send that returns, delivered or not, ends the job's stay.              *)
LEMMA SendEndsPlaces ==
  ASSUME TypeOK, ControlInv, JobInOnePlace, NEW c \in Conn,
         NEW result \in {"completed", "lost"}, NEW next, SendEnds(c, result, next)
  PROVE  JobInOnePlace'
<1>. USE SchedulerAssumption
<1>1. /\ sending[c] \in Job
      /\ fate' = [fate EXCEPT ![sending[c]] = result]
      /\ sending' = [sending EXCEPT ![c] = NoJob]
      /\ UNCHANGED <<jobQueue, job, jobChan>>
  BY DEF TypeOK, ControlInv, SendEnds, assignVars
<1>2. /\ sending[c] \notin Queued /\ sending[c] # job
      /\ \A d \in Conn : /\ sending[c] \notin OnChan(d)
                         /\ d # c => sending[c] # sending[d]
  BY <1>1 DEF JobInOnePlace
<1>3. /\ sending'[c] = NoJob
      /\ \A d \in Conn : d # c => sending'[d] = sending[d]
  BY <1>1 DEF TypeOK
<1>4. \A k \in Job : Somewhere(k)' <=> Somewhere(k) /\ k # sending[c]
  BY <1>1, <1>2, <1>3 DEF Somewhere, Queued, OnChan
<1>5. \A k \in Job : fate'[k] = "pending" <=> fate[k] = "pending" /\ k # sending[c]
  BY <1>1 DEF TypeOK
<1>6. \A d \in Conn : OnChan(d)' = OnChan(d)
  BY <1>1 DEF OnChan
<1>. QED BY <1>1, <1>3, <1>4, <1>5, <1>6 DEF JobInOnePlace, Queued

(* Every step moves at most one job, from one place to another.             *)
LEMMA JobNext == TypeOK /\ ControlInv /\ JobInOnePlace /\ [Next]_vars => JobInOnePlace'
<1>. SUFFICES ASSUME TypeOK, ControlInv, JobInOnePlace, [Next]_vars PROVE JobInOnePlace'
  OBVIOUS
<1>. USE SchedulerAssumption DEF TypeOK, ControlInv, Conn, NoConn, netVars, instVars, chanVars, assignVars
<1>1. ASSUME NEW j \in Job, ReserveJob(j) PROVE JobInOnePlace'
  <2>1. /\ fate[j] = "new" /\ fate' = [fate EXCEPT ![j] = "pending"]
        /\ jobQueue' = Append(jobQueue, j)
        /\ UNCHANGED <<job, jobChan, sending>>
    BY <1>1 DEF ReserveJob
  <2>2. ~Somewhere(j)
    BY <2>1 DEF JobInOnePlace
  <2>3. Range(jobQueue') = Range(jobQueue) \cup {j} /\ IsInjective(jobQueue')
    BY <2>1, <2>2, AppendFacts DEF Somewhere, Queued, JobInOnePlace
  <2>4. \A k \in Job : Somewhere(k)' <=> Somewhere(k) \/ k = j
    BY <2>1, <2>3 DEF Somewhere, Queued, OnChan
  <2>5. /\ j # job /\ \A c \in Conn : j \notin OnChan(c) /\ j # sending[c]
    BY <2>2 DEF Somewhere
  <2>6. Queued' = Queued \cup {j} /\ \A c \in Conn : OnChan(c)' = OnChan(c)
    BY <2>1, <2>3 DEF Queued, OnChan
  <2>7. \A k \in Job : fate'[k] = "pending" <=> Somewhere(k)'
    BY <2>1, <2>4 DEF JobInOnePlace
  <2>. QED BY <2>1, <2>3, <2>5, <2>6, <2>7 DEF JobInOnePlace
<1>2. ASSUME NEW s \in Sandbox, ClientNotices(s) PROVE JobInOnePlace'
  BY <1>2, PlacesSame DEF ClientNotices
<1>3. ASSUME NEW s \in Sandbox, NEW c \in Conn, Connect(s, c) PROVE JobInOnePlace'
  BY <1>3, PlacesSame DEF Connect
<1>4. ASSUME NEW c \in Conn, LinkBreak(c) PROVE JobInOnePlace'
  BY <1>4, PlacesSame DEF LinkBreak
<1>5. ASSUME NEW c \in Conn, NEW r \in Reports, StatusMessage(c, r) PROVE JobInOnePlace'
  BY <1>5, PlacesSame DEF StatusMessage
<1>6. ASSUME NEW c \in Conn, Stream(c) PROVE JobInOnePlace'
  <2>1. CASE Greet(c)
    BY <2>1, PlacesSame DEF Greet
  <2>2. CASE StreamFails(c)
    BY <2>2, PlacesSame DEF StreamFails
  <2>3. CASE Deregister(c)
    BY <2>3, PlacesSame DEF Deregister, CloseChans
  <2>. QED BY <1>6, <2>1, <2>2, <2>3 DEF Stream
<1>7. ASSUME NEW c \in Conn, SendJobs(c) PROVE JobInOnePlace'
  <2>1. CASE TakeFromChan(c)
    <3>1. /\ jobChan[c] # <<>> /\ sending[c] = NoJob
          /\ sending' = [sending EXCEPT ![c] = Head(jobChan[c])]
          /\ jobChan' = [jobChan EXCEPT ![c] = Tail(@)]
          /\ UNCHANGED <<fate, jobQueue, job>>
      BY <2>1 DEF TakeFromChan
    <3>2. PICK j : j = Head(jobChan[c])
      OBVIOUS
    <3>3. /\ j \in Job /\ Range(jobChan[c]) = Range(jobChan'[c]) \cup {j}
          /\ j \notin Range(jobChan'[c]) /\ IsInjective(jobChan'[c])
          /\ sending'[c] = j
          /\ \A d \in Conn : d # c => jobChan'[d] = jobChan[d] /\ sending'[d] = sending[d]
      BY <3>1, <3>2, DequeueFacts DEF JobInOnePlace
    <3>4. \A d \in Conn : \A k :
            k \in Range(jobChan[d]) <=>
              k \in Range(jobChan'[d]) \/ (d = c /\ k = j)
      BY <3>3
    <3>5. \A k \in Job : Somewhere(k)' <=> Somewhere(k)
      <4>1. ASSUME NEW k \in Job, Somewhere(k) PROVE Somewhere(k)'
        BY <3>1, <3>3, <3>4, <4>1 DEF Somewhere, Queued, OnChan
      <4>2. ASSUME NEW k \in Job, Somewhere(k)' PROVE Somewhere(k)
        BY <3>1, <3>3, <3>4, <4>2 DEF Somewhere, Queued, OnChan
      <4>. QED BY <4>1, <4>2
    <3>6. /\ j \notin Queued /\ j # job
          /\ \A d \in Conn : d # c => j \notin Range(jobChan[d]) /\ j # sending[d]
      BY <3>3, <3>4 DEF JobInOnePlace, OnChan
    <3>7. \A d \in Conn :
            /\ IsInjective(jobChan'[d])
            /\ Range(jobChan'[d]) \cap (Queued \cup {job}) = {}
            /\ sending'[d] # NoJob =>
                 sending'[d] \notin Queued \cup Range(jobChan'[d]) \cup {job}
      <4>1. ASSUME NEW d \in Conn, d # c
            PROVE  /\ IsInjective(jobChan[d])
                   /\ Range(jobChan[d]) \cap (Queued \cup {job}) = {}
                   /\ sending[d] # NoJob =>
                        sending[d] \notin Queued \cup Range(jobChan[d]) \cup {job}
        BY DEF JobInOnePlace, OnChan
      <4>2. Range(jobChan[c]) \cap (Queued \cup {job}) = {}
        BY DEF JobInOnePlace, OnChan
      <4>. HIDE DEF TypeOK, ControlInv
      <4>3. ASSUME NEW d \in Conn, d # c
            PROVE  /\ IsInjective(jobChan'[d])
                   /\ Range(jobChan'[d]) \cap (Queued \cup {job}) = {}
                   /\ sending'[d] # NoJob =>
                        sending'[d] \notin Queued \cup Range(jobChan'[d]) \cup {job}
        BY <3>3, <4>1, <4>3
      <4>4. /\ IsInjective(jobChan'[c])
            /\ Range(jobChan'[c]) \cap (Queued \cup {job}) = {}
            /\ sending'[c] \notin Queued \cup Range(jobChan'[c]) \cup {job}
        BY <3>3, <3>6, <4>2
      <4>. QED BY <4>3, <4>4
    <3>8. \A d, k \in Conn :
            d # k => /\ Range(jobChan'[d]) \cap Range(jobChan'[k]) = {}
                     /\ sending'[d] # NoJob =>
                          sending'[d] \notin Range(jobChan'[k]) \cup {sending'[k]}
      <4>1. ASSUME NEW d \in Conn, NEW k \in Conn, d # k
            PROVE  /\ Range(jobChan[d]) \cap Range(jobChan[k]) = {}
                   /\ sending[d] # NoJob =>
                        sending[d] \notin Range(jobChan[k]) \cup {sending[k]}
        BY <4>1 DEF JobInOnePlace, OnChan
      <4>. HIDE DEF TypeOK, ControlInv
      <4>2. ASSUME NEW d \in Conn, NEW k \in Conn, d # k
            PROVE  Range(jobChan'[d]) \cap Range(jobChan'[k]) = {}
        BY <3>4, <4>1, <4>2
      <4>3. ASSUME NEW d \in Conn, NEW k \in Conn, d # k, sending'[d] # NoJob
            PROVE  sending'[d] \notin Range(jobChan'[k]) \cup {sending'[k]}
        BY <3>3, <3>4, <3>6, <4>1, <4>3
      <4>. QED BY <4>2, <4>3
    <3>. QED BY <3>1, <3>5, <3>7, <3>8 DEF JobInOnePlace, Queued, OnChan
  <2>2. CASE SendDelivers(c)
    BY <2>2, SendEndsPlaces DEF SendDelivers
  <2>3. CASE SendIsLost(c)
    BY <2>3, SendEndsPlaces DEF SendIsLost
  <2>4. CASE SendFails(c)
    BY <2>4, SendEndsPlaces DEF SendFails
  <2>5. CASE SenderReturns(c)
    BY <2>5, PlacesSame DEF SenderReturns
  <2>. QED BY <1>7, <2>1, <2>2, <2>3, <2>4, <2>5 DEF SendJobs
<1>8. CASE CleanupInactive
  BY <1>8, PlacesSame DEF CleanupInactive, CloseChans
<1>9. CASE AssignJob
  <2>1. CASE Dequeue
    <3>1. /\ jobQueue # <<>> /\ job = NoJob
          /\ job' = Head(jobQueue) /\ jobQueue' = Tail(jobQueue)
          /\ UNCHANGED <<fate, jobChan, sending>>
      BY <2>1 DEF Dequeue
    <3>2. /\ Range(jobQueue) = Range(jobQueue') \cup {job'} /\ job' \in Job
          /\ IsInjective(jobQueue') /\ job' \notin Range(jobQueue')
      BY <3>1, DequeueFacts DEF JobInOnePlace
    <3>3. \A k \in Job : Somewhere(k)' <=> Somewhere(k)
      BY <3>1, <3>2 DEF Somewhere, Queued, OnChan
    <3>4. \A c \in Conn : sending[c] # job' /\ job' \notin OnChan(c)
      BY <3>1, <3>2 DEF JobInOnePlace, Queued
    <3>. QED BY <3>1, <3>2, <3>3, <3>4 DEF JobInOnePlace, Queued, OnChan
  <2>2. CASE NoCandidate
    BY <2>2, RequeuePlaces DEF NoCandidate, Requeue
  <2>3. CASE Pick
    BY <2>3, PlacesSame DEF Pick
  <2>4. CASE ReserveSlot
    BY <2>4, PlacesSame DEF ReserveSlot
  <2>5. CASE PutOnChan
    <3>1. /\ job \in Job /\ job' = NoJob /\ target \in Conn
          /\ jobChan' = [jobChan EXCEPT ![target] = Append(@, job)]
          /\ UNCHANGED <<fate, jobQueue, sending>>
      BY <2>5 DEF PutOnChan
    <3>2. job \notin Queued /\ \A c \in Conn : job \notin OnChan(c) /\ job # sending[c]
      BY <3>1 DEF JobInOnePlace
    <3>3. /\ Range(jobChan'[target]) = Range(jobChan[target]) \cup {job}
          /\ IsInjective(jobChan'[target])
          /\ \A c \in Conn : c # target => jobChan'[c] = jobChan[c]
      BY <3>1, <3>2, AppendFacts DEF JobInOnePlace, OnChan
    <3>4. \A c \in Conn : \A k :
            k \in Range(jobChan'[c]) <=>
              k \in Range(jobChan[c]) \/ (c = target /\ k = job)
      BY <3>1, <3>3
    <3>5. \A k \in Job : Somewhere(k)' <=> Somewhere(k)
      <4>1. ASSUME NEW k \in Job, Somewhere(k) PROVE Somewhere(k)'
        BY <3>1, <3>4, <4>1 DEF Somewhere, Queued, OnChan
      <4>2. ASSUME NEW k \in Job, Somewhere(k)' PROVE Somewhere(k)
        BY <3>1, <3>4, <4>2 DEF Somewhere, Queued, OnChan
      <4>. QED BY <4>1, <4>2
    <3>6. \A c \in Conn : NoJob \notin Range(jobChan'[c])
      BY <3>1, <3>4, RangeType
    <3>7. \A c \in Conn :
            /\ IsInjective(jobChan'[c])
            /\ Range(jobChan'[c]) \cap (Range(jobQueue') \cup {NoJob}) = {}
            /\ sending'[c] # NoJob =>
                 sending'[c] \notin Range(jobQueue') \cup Range(jobChan'[c]) \cup {NoJob}
      <4>1. ASSUME NEW c \in Conn
            PROVE  /\ IsInjective(jobChan[c])
                   /\ Range(jobChan[c]) \cap Range(jobQueue) = {}
                   /\ sending[c] # NoJob =>
                        sending[c] \notin Range(jobQueue) \cup Range(jobChan[c])
        BY <4>1 DEF JobInOnePlace, Queued, OnChan
      <4>2. job \notin Range(jobQueue) /\ \A c \in Conn : job # sending[c]
        BY <3>2 DEF Queued
      <4>. HIDE DEF TypeOK, ControlInv
      <4>. QED BY <3>1, <3>3, <3>4, <3>6, <4>1, <4>2
    <3>8. \A c, d \in Conn :
            c # d => /\ Range(jobChan'[c]) \cap Range(jobChan'[d]) = {}
                     /\ sending'[c] # NoJob =>
                          sending'[c] \notin Range(jobChan'[d]) \cup {sending'[d]}
      <4>1. ASSUME NEW c \in Conn, NEW d \in Conn, c # d
            PROVE  Range(jobChan'[c]) \cap Range(jobChan'[d]) = {}
        <5>1. Range(jobChan[c]) \cap Range(jobChan[d]) = {}
          BY <4>1 DEF JobInOnePlace, OnChan
        <5>2. job \notin Range(jobChan[c]) /\ job \notin Range(jobChan[d])
          BY <3>2 DEF OnChan
        <5>. HIDE DEF TypeOK, ControlInv
        <5>. QED BY <3>4, <4>1, <5>1, <5>2
      <4>2. ASSUME NEW c \in Conn, NEW d \in Conn, c # d, sending[c] # NoJob
            PROVE  sending[c] \notin Range(jobChan'[d]) \cup {sending[d]}
        <5>1. sending[c] \notin Range(jobChan[d]) \cup {sending[d]}
          BY <4>2 DEF JobInOnePlace, OnChan
        <5>. QED BY <3>2, <3>4, <5>1
      <4>. QED BY <3>1, <4>1, <4>2
    <3>. QED BY <3>1, <3>5, <3>7, <3>8 DEF JobInOnePlace, Queued, OnChan
  <2>6. CASE PutPanics
    BY <2>6, PlacesSame DEF PutPanics
  <2>7. CASE RollBack
    BY <2>7, RequeuePlaces DEF RollBack, Requeue
  <2>. QED BY <1>9, <2>1, <2>2, <2>3, <2>4, <2>5, <2>6, <2>7 DEF AssignJob
<1>10. CASE Close
  BY <1>10, PlacesSame DEF Close, CloseChans
<1>11. CASE Exit
  BY <1>11, PlacesSame DEF Exit
<1>12. CASE UNCHANGED vars
  BY <1>12, PlacesSame DEF vars
<1>. QED BY <1>1, <1>2, <1>3, <1>4, <1>5, <1>6, <1>7, <1>8, <1>9, <1>10, <1>11, <1>12 DEF Next

-----------------------------------------------------------------------------
(* The theorems.                                                            *)

(* The strengthened invariant holds initially ...                           *)
LEMMA IndInit == Init => IndInv
  BY TypeInit, RegisteredInit, EstimateInit, JobInit DEF IndInv

(* ... and every step keeps it.                                             *)
LEMMA IndNext == IndInv /\ [Next]_vars => IndInv'
  BY TypeNext, ControlNext, RegisteredNext, EstimateNext, JobNext DEF IndInv

(* The strengthened invariant holds of every reachable state.               *)
THEOREM Inductive == Spec => []IndInv
  BY IndInit, IndNext, PTL DEF Spec

(* TypeOK: the variables keep their types.                                  *)
THEOREM Typing == Spec => []TypeOK
<1>1. IndInv => TypeOK
  BY DEF IndInv
<1>. QED BY <1>1, Inductive, PTL

(* JobInOnePlace: a pending job is in one place, any other job nowhere.     *)
THEOREM JobsAreInOnePlace == Spec => []JobInOnePlace
<1>1. IndInv => JobInOnePlace
  BY DEF IndInv
<1>. QED BY <1>1, Inductive, PTL

(* RegisteredOpen: only open connections are registered, so that neither    *)
(* the cleanup nor Close closes a channel twice.                            *)
THEOREM RegisteredAreOpen == Spec => []RegisteredOpen
<1>1. IndInv => RegisteredOpen
  BY DEF IndInv
<1>. QED BY <1>1, Inductive, PTL

(* EstimateWithinOne: a sandbox is over-assigned by one job at most.        *)
THEOREM EstimatesAreClose == Spec => []EstimateWithinOne
<1>1. IndInv => EstimateWithinOne
  BY DEF IndInv
<1>. QED BY <1>1, Inductive, PTL

(* A step that changes the fate of no job, or of one in a legal way, is a   *)
(* step of the life cycle.                                                  *)
LEMMA OneFate ==
  ASSUME TypeOK, NEW j \in Job, NEW f, fate' = [fate EXCEPT ![j] = f],
         \/ fate[j] = "new" /\ f = "pending"
         \/ fate[j] = "pending" /\ f \in {"completed", "lost"}
  PROVE  Lifecycle!Next
  BY DEF Lifecycle!Next, Lifecycle!Submit, Lifecycle!Complete, Lifecycle!Lose

(* Every step of the scheduler is a step of the life cycle, or a stutter:   *)
(* the job in a sender's hand is still pending.                             *)
LEMMA LifecycleStep == IndInv /\ [Next]_vars => [Lifecycle!Next]_fate
<1>. SUFFICES ASSUME TypeOK, ControlInv, JobInOnePlace, [Next]_vars
              PROVE  [Lifecycle!Next]_fate
  BY DEF IndInv
<1>1. ASSUME NEW j \in Job, ReserveJob(j) PROVE Lifecycle!Next
  BY <1>1, OneFate DEF ReserveJob
<1>2. ASSUME NEW c \in Conn, NEW next, NEW result \in {"completed", "lost"},
             SendEnds(c, result, next)
      PROVE  Lifecycle!Next
  <2>1. sending[c] \in Job /\ fate' = [fate EXCEPT ![sending[c]] = result]
    BY <1>2 DEF SendEnds, TypeOK, ControlInv
  <2>2. fate[sending[c]] = "pending"
    BY <2>1 DEF JobInOnePlace, Somewhere
  <2>. QED BY <2>1, <2>2, OneFate
<1>3. ASSUME NEW c \in Conn, SendJobs(c) PROVE [Lifecycle!Next]_fate
  BY <1>2, <1>3 DEF SendJobs, SendDelivers, SendIsLost, SendFails, TakeFromChan,
     SenderReturns
<1>4. ASSUME NEW s \in Sandbox,
             ClientNotices(s) \/ \E c \in Conn : Connect(s, c)
      PROVE  UNCHANGED fate
  BY <1>4 DEF ClientNotices, Connect
<1>5. ASSUME NEW c \in Conn, LinkBreak(c) \/ Stream(c) PROVE UNCHANGED fate
  BY <1>5 DEF LinkBreak, Stream, Greet, StreamFails, Deregister
<1>6. ASSUME NEW c \in Conn, NEW r \in Reports, StatusMessage(c, r)
      PROVE  UNCHANGED fate
  BY <1>6 DEF StatusMessage
<1>7. CASE CleanupInactive \/ AssignJob \/ Close \/ Exit
  BY <1>7 DEF CleanupInactive, AssignJob, Dequeue, NoCandidate, Pick,
     ReserveSlot, PutOnChan, PutPanics, RollBack, Close, Exit
<1>8. CASE UNCHANGED vars
  BY <1>8 DEF vars
<1>. QED BY <1>1, <1>3, <1>4, <1>5, <1>6, <1>7, <1>8 DEF Next

(* ImplementsLifecycle: no submission is delivered or dropped twice.        *)
THEOREM SchedulerImplementsLifecycle == Spec => ImplementsLifecycle
<1>1. Init => Lifecycle!Init
  BY DEF Init, Lifecycle!Init
<1>. QED BY <1>1, LifecycleStep, Inductive, PTL DEF Spec, ImplementsLifecycle,
         Lifecycle!Spec
=============================================================================
