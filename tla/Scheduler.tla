----------------------------- MODULE Scheduler -----------------------------
(***************************************************************************)
(* The sandbox scheduler of the API server (services/sandbox_scheduler.go): *)
(* the registry of connected sandboxes, one SandboxStream handler and one  *)
(* sendJobsToSandbox goroutine per connection, the processJobQueue and the *)
(* cleanupInactiveInstances goroutines, and Close.  The sandbox servers    *)
(* and the network are the environment: a connection may break at any      *)
(* moment, and each end notices on its own.                                *)
(*                                                                         *)
(* The scheduler's mutex is held across two steps in assignJobToSandbox    *)
(* only; every other critical section is one step.  Status and LastSeen    *)
(* are written without the mutex, as in the code.                          *)
(***************************************************************************)
EXTENDS Integers, Sequences, FiniteSets, Functions

CONSTANTS
  Sandbox,     \* sandbox servers, by the UUID each makes at start-up
  Job,         \* AddJobRequests the handlers reserve
  MaxConns,    \* bound: how many streams are opened altogether
  ChanCap,     \* capacity of an instance's JobChan (100 in the code)
  Reports,     \* the AvailableCounts a sandbox may report
  NoJob, NoSandbox

NoConn == 0
Conn   == 1 .. MaxConns      \* one SandboxInstance per opened stream

ASSUME SchedulerAssumption ==
  /\ NoJob \notin Job /\ NoSandbox \notin Sandbox
  /\ MaxConns \in Nat
  /\ ChanCap \in Nat \ {0}
  /\ Reports \subseteq Nat

VARIABLES
  instances,   \* the map: per sandbox, its registered connection
  owner,       \* per connection, the sandbox that opened it
  stream,      \* per connection, the SandboxStream handler
  link,        \* per connection, the network: "up" or "down"
  client,      \* per sandbox, the connection it believes in
  active, hasStatus, available, lastSeen,   \* fields of the instance
  jobChan, closed,   \* its JobChan: content, and whether it is closed
  sender, sending,   \* sendJobsToSandbox: control point, job in hand
  jobQueue,    \* the global queue
  assigner, job, target,   \* processJobQueue: control point and locals
  fate,        \* per job, as in JobLifecycle
  api,         \* the API process
  credit       \* history: last report less the jobs put on JobChan since

instVars   == <<active, hasStatus, available, lastSeen>>
netVars    == <<owner, stream, link, client>>
chanVars   == <<jobChan, closed, sender, sending>>
assignVars == <<assigner, job, target>>
vars == <<instances, netVars, instVars, chanVars, jobQueue, assignVars, fate,
          api, credit>>

TypeOK ==
  /\ instances \in [Sandbox -> Conn \cup {NoConn}]
  /\ owner \in [Conn -> Sandbox \cup {NoSandbox}]
  /\ stream \in [Conn -> {"unused", "greeting", "open", "ended", "returned"}]
  /\ link \in [Conn -> {"up", "down"}]
  /\ client \in [Sandbox -> Conn \cup {NoConn}]
  /\ active \in [Conn -> BOOLEAN]
  /\ hasStatus \in [Conn -> BOOLEAN]
  /\ available \in [Conn -> Int]
  /\ lastSeen \in [Conn -> {"recent", "silent"}]
  /\ jobChan \in [Conn -> Seq(Job)]
  /\ closed \in [Conn -> BOOLEAN]
  /\ sender \in [Conn -> {"none", "ranging", "sending", "stopped"}]
  /\ sending \in [Conn -> Job \cup {NoJob}]
  /\ jobQueue \in Seq(Job)
  /\ assigner \in {"idle", "dequeued", "picked", "reserved"}
  /\ job \in Job \cup {NoJob}
  /\ target \in Conn \cup {NoConn}
  /\ fate \in [Job -> {"new", "pending", "completed", "lost"}]
  /\ api \in {"up", "closed", "exited", "panicked"}
  /\ credit \in [Conn -> Int]

Init ==
  /\ instances = [s \in Sandbox |-> NoConn]
  /\ owner = [c \in Conn |-> NoSandbox]
  /\ stream = [c \in Conn |-> "unused"]
  /\ link = [c \in Conn |-> "down"]
  /\ client = [s \in Sandbox |-> NoConn]
  /\ active = [c \in Conn |-> FALSE]
  /\ hasStatus = [c \in Conn |-> FALSE]
  /\ available = [c \in Conn |-> 0]
  /\ lastSeen = [c \in Conn |-> "recent"]
  /\ jobChan = [c \in Conn |-> <<>>]
  /\ closed = [c \in Conn |-> FALSE]
  /\ sender = [c \in Conn |-> "none"]
  /\ sending = [c \in Conn |-> NoJob]
  /\ jobQueue = <<>>
  /\ assigner = "idle" /\ job = NoJob /\ target = NoConn
  /\ fate = [j \in Job |-> "new"]
  /\ api = "up"
  /\ credit = [c \in Conn |-> 0]

Running    == api \in {"up", "closed"}
MutexFree  == assigner # "picked"
Registered == {instances[s] : s \in Sandbox} \ {NoConn}

-----------------------------------------------------------------------------
(* ReserveJob, called by the webhook and the rescore handlers.              *)
ReserveJob(j) ==
  /\ Running
  /\ fate[j] = "new"
  /\ fate' = [fate EXCEPT ![j] = "pending"]
  /\ jobQueue' = Append(jobQueue, j)
  /\ UNCHANGED <<instances, netVars, instVars, chanVars, assignVars, api,
                 credit>>

-----------------------------------------------------------------------------
(* The network and the reconnect loop of a sandbox server.                  *)
LinkBreak(c) ==
  /\ Running
  /\ link[c] = "up"
  /\ link' = [link EXCEPT ![c] = "down"]
  /\ UNCHANGED <<instances, owner, stream, client, instVars, chanVars,
                 jobQueue, assignVars, fate, api, credit>>

ClientNotices(s) ==
  /\ Running
  /\ client[s] # NoConn
  /\ link[client[s]] = "down"
  /\ client' = [client EXCEPT ![s] = NoConn]
  /\ UNCHANGED <<instances, owner, stream, link, instVars, chanVars, jobQueue,
                 assignVars, fate, api, credit>>

-----------------------------------------------------------------------------
(* SandboxStream.                                                           *)

(* A Connect message: a new instance replaces whatever the map holds for    *)
(* the sandbox.                                                             *)
Connect(s, c) ==
  /\ Running /\ MutexFree
  /\ client[s] = NoConn
  /\ stream[c] = "unused" /\ \A d \in Conn : d < c => stream[d] # "unused"
  /\ client' = [client EXCEPT ![s] = c]
  /\ owner' = [owner EXCEPT ![c] = s]
  /\ link' = [link EXCEPT ![c] = "up"]
  /\ stream' = [stream EXCEPT ![c] = "greeting"]
  /\ active' = [active EXCEPT ![c] = TRUE]
  /\ instances' = [instances EXCEPT ![s] = c]
  /\ UNCHANGED <<hasStatus, available, lastSeen, chanVars, jobQueue,
                 assignVars, fate, api, credit>>

(* The connect response and the status request are sent, then the sender    *)
(* goroutine is started.  On a broken link Send may still succeed.          *)
Greet(c) ==
  /\ Running
  /\ stream[c] = "greeting"
  /\ stream' = [stream EXCEPT ![c] = "open"]
  /\ sender' = [sender EXCEPT ![c] = "ranging"]
  /\ UNCHANGED <<instances, owner, link, client, instVars, jobChan, closed,
                 sending, jobQueue, assignVars, fate, api, credit>>

(* Recv fails, or the connect response cannot be sent.                      *)
StreamFails(c) ==
  /\ Running
  /\ stream[c] \in {"greeting", "open"} /\ link[c] = "down"
  /\ stream' = [stream EXCEPT ![c] = "ended"]
  /\ UNCHANGED <<instances, owner, link, client, instVars, chanVars, jobQueue,
                 assignVars, fate, api, credit>>

(* A status message replaces Status and LastSeen, without the mutex; Active *)
(* is left alone.  Messages read before a break are still delivered.        *)
StatusMessage(c, r) ==
  /\ Running
  /\ stream[c] = "open"
  /\ hasStatus' = [hasStatus EXCEPT ![c] = TRUE]
  /\ available' = [available EXCEPT ![c] = r]
  /\ lastSeen' = [lastSeen EXCEPT ![c] = "recent"]
  /\ credit' = [credit EXCEPT ![c] = r]
  /\ UNCHANGED <<instances, netVars, active, chanVars, jobQueue, assignVars,
                 fate, api>>

(* close(JobChan): closing a channel twice panics, and a panic in any       *)
(* goroutine ends the process.                                              *)
CloseChans(cs) ==
  /\ closed' = [c \in Conn |-> closed[c] \/ c \in cs]
  /\ UNCHANGED <<jobChan, sender, sending>>

ClosePanics(cs) == \E c \in cs : closed[c]

(* A panic ends the process; after Close it was about to exit anyway.       *)
Panic == IF api = "up" THEN "panicked" ELSE "exited"

(* Mutant: the deferred function leaves the map alone.                      *)
DeregisterKeepsEntry(c) ==
  /\ Running /\ MutexFree
  /\ stream[c] = "ended"
  /\ stream' = [stream EXCEPT ![c] = "returned"]
  /\ active' = [active EXCEPT ![c] = FALSE]
  /\ CloseChans({c})
  /\ api' = IF ClosePanics({c}) THEN Panic ELSE api
  /\ UNCHANGED <<instances, owner, link, client, hasStatus, available,
                 lastSeen, jobQueue, assignVars, fate, credit>>

(* The deferred function: it deletes the map entry of its sandbox, be it    *)
(* its own or that of a newer connection.                                   *)
Deregister(c) ==
  /\ Running /\ MutexFree
  /\ stream[c] = "ended"
  /\ stream' = [stream EXCEPT ![c] = "returned"]
  /\ active' = [active EXCEPT ![c] = FALSE]
  /\ CloseChans({c})
  /\ IF ClosePanics({c})
       THEN api' = Panic /\ UNCHANGED instances
       ELSE instances' = [instances EXCEPT ![owner[c]] = NoConn] /\ UNCHANGED api
  /\ UNCHANGED <<owner, link, client, hasStatus, available, lastSeen,
                 jobQueue, assignVars, fate, credit>>

-----------------------------------------------------------------------------
(* cleanupInactiveInstances, every 30 seconds.  A tick may find any          *)
(* registered instance silent for a minute, and finds those silent that an  *)
(* earlier tick found so and that have not reported since; of the latter,   *)
(* any may have been silent for five minutes.                               *)
CleanupInactive ==
  LET before == {c \in Registered : lastSeen[c] = "silent"}
  IN  \E silent \in SUBSET Registered : \E removed \in SUBSET before :
        /\ Running /\ MutexFree
        /\ before \subseteq silent
        /\ lastSeen' = [c \in Conn |->
                          IF c \in silent THEN "silent" ELSE lastSeen[c]]
        /\ active' = [c \in Conn |-> active[c] /\ c \notin silent]
        /\ CloseChans(removed)
        /\ instances' = [s \in Sandbox |->
                           IF instances[s] \in removed THEN NoConn ELSE instances[s]]
        /\ api' = IF ClosePanics(removed) THEN Panic ELSE api
        /\ UNCHANGED <<netVars, hasStatus, available, jobQueue, assignVars, fate,
                       credit>>

(* Close, then os.Exit in main.                                             *)
Close ==
  /\ api = "up" /\ MutexFree
  /\ CloseChans(Registered)
  /\ instances' = [s \in Sandbox |-> NoConn]
  /\ api' = IF ClosePanics(Registered) THEN Panic ELSE "closed"
  /\ UNCHANGED <<netVars, instVars, jobQueue, assignVars, fate, credit>>

Exit ==
  /\ api = "closed"
  /\ api' = "exited"
  /\ UNCHANGED <<instances, netVars, instVars, chanVars, jobQueue, assignVars,
                 fate, credit>>

-----------------------------------------------------------------------------
(* processJobQueue and assignJobToSandbox.                                  *)
Candidates ==
  {c \in Registered : active[c] /\ hasStatus[c] /\ available[c] > 0}

GetBestSandbox ==
  {c \in Candidates : \A d \in Candidates : available[d] <= available[c]}

Dequeue ==
  /\ Running
  /\ assigner = "idle" /\ jobQueue # <<>>
  /\ job' = Head(jobQueue)
  /\ jobQueue' = Tail(jobQueue)
  /\ assigner' = "dequeued"
  /\ UNCHANGED <<instances, netVars, instVars, chanVars, target, fate, api,
                 credit>>

(* The job goes back to the tail of the queue.                              *)
Requeue ==
  /\ jobQueue' = Append(jobQueue, job)
  /\ assigner' = "idle" /\ job' = NoJob /\ target' = NoConn

(* Mutant: `break` leaves both loops, and the goroutine ends.               *)
NoCandidateEndsLoop ==
  /\ Running
  /\ assigner = "dequeued" /\ Candidates = {}
  /\ jobQueue' = Append(jobQueue, job)
  /\ assigner' = "gone" /\ job' = NoJob /\ target' = NoConn
  /\ UNCHANGED <<instances, netVars, instVars, chanVars, fate, api, credit>>

NoCandidate ==
  /\ Running
  /\ assigner = "dequeued" /\ Candidates = {}
  /\ Requeue
  /\ UNCHANGED <<instances, netVars, instVars, chanVars, fate, api, credit>>

(* Under the mutex the best instance is chosen ...                          *)
Pick ==
  /\ Running
  /\ assigner = "dequeued"
  /\ \E c \in GetBestSandbox : target' = c
  /\ assigner' = "picked"
  /\ UNCHANGED <<instances, netVars, instVars, chanVars, jobQueue, job, fate,
                 api, credit>>

(* Mutant: the chosen instance's AvailableCount is not lowered.             *)
ReserveSlotForgotten ==
  /\ Running
  /\ assigner = "picked"
  /\ assigner' = "reserved"
  /\ UNCHANGED <<instances, netVars, instVars, chanVars, jobQueue, job,
                 target, fate, api, credit>>

(* ... and its AvailableCount lowered, whichever Status it has by now.      *)
ReserveSlot ==
  /\ Running
  /\ assigner = "picked"
  /\ available' = [available EXCEPT ![target] = @ - 1]
  /\ assigner' = "reserved"
  /\ UNCHANGED <<instances, netVars, active, hasStatus, lastSeen, chanVars,
                 jobQueue, job, target, fate, api, credit>>

(* Outside the mutex the job is put on the channel; on a closed channel     *)
(* this panics.                                                             *)
PutOnChan ==
  /\ Running
  /\ assigner = "reserved"
  /\ ~closed[target] /\ Len(jobChan[target]) < ChanCap
  /\ jobChan' = [jobChan EXCEPT ![target] = Append(@, job)]
  /\ credit' = [credit EXCEPT ![target] = @ - 1]
  /\ assigner' = "idle" /\ job' = NoJob /\ target' = NoConn
  /\ UNCHANGED <<instances, netVars, instVars, closed, sender, sending,
                 jobQueue, fate, api>>

PutPanics ==
  /\ Running
  /\ assigner = "reserved" /\ closed[target]
  /\ api' = Panic
  /\ UNCHANGED <<instances, netVars, instVars, chanVars, jobQueue, assignVars,
                 fate, credit>>

(* Mutant: a full channel is reported, but the job went in all the same.    *)
RollBackKeepsJob ==
  /\ Running
  /\ assigner = "reserved"
  /\ ~closed[target] /\ Len(jobChan[target]) >= ChanCap
  /\ available' = [available EXCEPT ![target] = @ + 1]
  /\ jobChan' = [jobChan EXCEPT ![target] = Append(@, job)]
  /\ Requeue
  /\ UNCHANGED <<instances, netVars, active, hasStatus, lastSeen, closed,
                 sender, sending, fate, api, credit>>

(* The channel is full: AvailableCount is raised again, in whichever Status *)
(* the instance has by now.                                                 *)
RollBack ==
  /\ Running
  /\ assigner = "reserved"
  /\ ~closed[target] /\ Len(jobChan[target]) >= ChanCap
  /\ available' = [available EXCEPT ![target] = @ + 1]
  /\ Requeue
  /\ UNCHANGED <<instances, netVars, active, hasStatus, lastSeen, chanVars,
                 fate, api, credit>>

-----------------------------------------------------------------------------
(* sendJobsToSandbox.                                                       *)
TakeFromChan(c) ==
  /\ Running
  /\ sender[c] = "ranging" /\ jobChan[c] # <<>>
  /\ sending' = [sending EXCEPT ![c] = Head(jobChan[c])]
  /\ jobChan' = [jobChan EXCEPT ![c] = Tail(@)]
  /\ sender' = [sender EXCEPT ![c] = "sending"]
  /\ UNCHANGED <<instances, netVars, instVars, closed, jobQueue, assignVars,
                 fate, api, credit>>

SendEnds(c, result, next) ==
  /\ Running
  /\ sender[c] = "sending"
  /\ fate' = [fate EXCEPT ![sending[c]] = result]
  /\ sending' = [sending EXCEPT ![c] = NoJob]
  /\ sender' = [sender EXCEPT ![c] = next]
  /\ UNCHANGED <<instances, netVars, instVars, jobChan, closed, jobQueue,
                 assignVars, api, credit>>

SendDelivers(c) == link[c] = "up" /\ SendEnds(c, "completed", "ranging")

(* Send succeeds, but the link is gone before the sandbox reads the message. *)
SendIsLost(c) ==
  link[c] = "down" /\ stream[c] = "open" /\ SendEnds(c, "lost", "ranging")

(* Mutant: the loop goes on with the same job after a failed Send.          *)
SendFailsRetries(c) ==
  /\ Running
  /\ sender[c] = "sending" /\ link[c] = "down"
  /\ fate' = [fate EXCEPT ![sending[c]] = "lost"]
  /\ UNCHANGED <<instances, netVars, instVars, chanVars, jobQueue, assignVars,
                 api, credit>>

(* Send fails: the loop is left, and neither this job nor those still on    *)
(* the channel go back to the queue.                                        *)
SendFails(c) == link[c] = "down" /\ SendEnds(c, "lost", "stopped")

SenderReturns(c) ==
  /\ Running
  /\ sender[c] = "ranging" /\ jobChan[c] = <<>> /\ closed[c]
  /\ sender' = [sender EXCEPT ![c] = "stopped"]
  /\ UNCHANGED <<instances, netVars, instVars, jobChan, closed, sending,
                 jobQueue, assignVars, fate, api, credit>>

-----------------------------------------------------------------------------
AssignJob == Dequeue \/ NoCandidate \/ Pick \/ ReserveSlot \/ PutOnChan
               \/ PutPanics \/ RollBack

Stream(c) == Greet(c) \/ StreamFails(c) \/ Deregister(c)

SendJobs(c) == TakeFromChan(c) \/ SendDelivers(c) \/ SendIsLost(c)
                 \/ SendFails(c) \/ SenderReturns(c)

Next ==
  \/ \E j \in Job : ReserveJob(j)
  \/ \E s \in Sandbox : ClientNotices(s) \/ \E c \in Conn : Connect(s, c)
  \/ \E c \in Conn : \/ LinkBreak(c)
                     \/ \E r \in Reports : StatusMessage(c, r)
                     \/ Stream(c) \/ SendJobs(c)
  \/ CleanupInactive \/ AssignJob \/ Close \/ Exit

Spec == Init /\ [][Next]_vars

(* The goroutines of the API run; a broken connection is noticed in the     *)
(* end.  The sandboxes owe nothing.                                         *)
Fairness ==
  /\ WF_vars(AssignJob)
  /\ \A c \in Conn : WF_vars(Stream(c)) /\ WF_vars(SendJobs(c))

FairSpec == Spec /\ Fairness

-----------------------------------------------------------------------------
(* Where jobs are.                                                          *)
Queued     == Range(jobQueue)
OnChan(c)  == Range(jobChan[c])
Somewhere(j) ==
  \/ j \in Queued \/ j = job
  \/ \E c \in Conn : j \in OnChan(c) \/ j = sending[c]

(* A job is pending exactly as long as it is in one place: once in the      *)
(* global queue, in the hand of processJobQueue, on one JobChan or in the   *)
(* hand of one sender.  Neither the re-queueing of assignJobToSandbox nor   *)
(* its race with a closing connection duplicates a submission, and one that *)
(* was delivered or dropped never comes back.                               *)
JobInOnePlace ==
  /\ \A j \in Job : fate[j] = "pending" <=> Somewhere(j)
  /\ IsInjective(jobQueue)
  /\ job # NoJob => job \notin Queued
  /\ \A c \in Conn :
       /\ IsInjective(jobChan[c])
       /\ OnChan(c) \cap (Queued \cup {job}) = {}
       /\ sending[c] # NoJob =>
            sending[c] \notin Queued \cup OnChan(c) \cup {job}
  /\ \A c, d \in Conn :
       c # d => /\ OnChan(c) \cap OnChan(d) = {}
                /\ sending[c] # NoJob =>
                     sending[c] \notin OnChan(d) \cup {sending[d]}

(* The map only holds connections of the sandbox they are filed under whose *)
(* handler has not returned and whose JobChan is still open: so neither     *)
(* cleanupInactiveInstances nor Close ever closes a channel twice, although *)
(* the deferred function and the cleanup both close and delete.             *)
RegisteredOpen ==
  \A s \in Sandbox : instances[s] # NoConn =>
    /\ owner[instances[s]] = s
    /\ stream[instances[s]] \in {"greeting", "open", "ended"}
    /\ ~closed[instances[s]]

(* How far AvailableCount is from the last report less the jobs put on      *)
(* JobChan since.                                                           *)
Drift(c) == available[c] - credit[c]

(* Although a status may arrive between the reservation, its roll-back and  *)
(* the send, the scheduler's estimate of a sandbox is never off by more     *)
(* than the one job in flight, and never below -1.                          *)
EstimateWithinOne ==
  \A c \in Conn :
    /\ available[c] >= -1
    /\ Drift(c) \in IF assigner = "reserved" /\ target = c THEN {-1, 0} ELSE {0, 1}

(* The scheduler implements the life cycle of a job: nothing is delivered   *)
(* or dropped twice, and nothing that never entered.                        *)
Lifecycle == INSTANCE JobLifecycle
ImplementsLifecycle == Lifecycle!Spec

(* As long as some sandbox can be chosen, the queue drains: re-queueing to  *)
(* the tail and the ticker never leave a submission behind for ever.        *)
QueueDrains ==
  <>[](Running /\ Candidates # {}) => <>[](jobQueue = <<>> /\ assigner = "idle")

-----------------------------------------------------------------------------
(* What the proofs add to the properties above to make them inductive: what *)
(* a goroutine holds at which control point, that a JobChan is open before  *)
(* its stream is, and that the chosen instance was not full when chosen.    *)
ControlInv ==
  /\ job # NoJob <=> assigner # "idle"
  /\ target # NoConn <=> assigner \in {"picked", "reserved"}
  /\ assigner = "picked" => available[target] >= 0
  /\ \A c \in Conn : /\ sending[c] # NoJob <=> sender[c] = "sending"
                     /\ stream[c] = "unused" => ~closed[c]
                     /\ stream[c] \in {"unused", "greeting"} => sender[c] = "none"

IndInv ==
  /\ TypeOK /\ ControlInv
  /\ RegisteredOpen /\ EstimateWithinOne /\ JobInOnePlace

-----------------------------------------------------------------------------
(* What the documentation says, and the code does not do.                   *)

(* SANDBOX_GRPC_README.md:123 promises that a crash of a sandbox service    *)
(* does not affect the API: no panic of a scheduler goroutine would end it. *)
NeverPanics == api # "panicked"
=============================================================================
