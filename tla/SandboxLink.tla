---------------------------- MODULE SandboxLink ----------------------------
(***************************************************************************)
(* How the scheduler learns what a sandbox server can take: the client end *)
(* of SandboxStream in cmd/sandbox-server/main.go (the reconnect loop, the *)
(* message handler, the status ticker and the lastStatus they share), the  *)
(* stream between the processes, and the Status field of the scheduler's   *)
(* instance.  SandboxPool says where the counts come from and Scheduler    *)
(* what is done with the reports; here is what happens in between.         *)
(*                                                                         *)
(* lastStatus is a global that two goroutines read and write without a     *)
(* lock, and that outlives the connection it was sent on.                  *)
(***************************************************************************)
EXTENDS Integers, Sequences, FiniteSets

CONSTANTS
  Counts,    \* the AvailableCounts the pool may show
  Window,    \* statuses that fit in the transport; Send blocks beyond them
  MaxAsks,   \* messages of a new connection that ask for the status: the code has
             \* a connect response and a status request
  NoStatus   \* the instance has no Status yet

ASSUME LinkAssumption ==
  /\ 0 \in Counts /\ Counts \subseteq Nat
  /\ Window \in Nat \ {0} /\ MaxAsks \in Nat
  /\ NoStatus \notin Int

Sender == {"handler", "ticker"}   \* the goroutines that send statuses

VARIABLES
  available,   \* what AvailableCount returns
  last, due,   \* lastStatus, and whether it is 15 seconds old
  client,      \* the reconnect loop
  cancelled,   \* ctx
  pc, seen,    \* per sender: its step in sendCurrentStatus, what it has read
  lingering,   \* what senders of ended connections have read, not yet stored
  asks,        \* connect response and status request not yet handled
  link, wire,  \* the stream, and the statuses under way on it
  estimate,    \* Status.AvailableCount in the scheduler's instance
  job          \* the job in assignJobToSandbox: none, one for which this sandbox is
               \* chosen, or one that holds a slot of the estimate

schedulerVars == <<estimate, job>>
senderVars == <<pc, seen, lingering, asks>>
vars == <<available, last, due, client, cancelled, senderVars, link, wire,
          schedulerVars>>

TypeOK ==
  /\ available \in Counts /\ last \in Counts
  /\ due \in BOOLEAN /\ cancelled \in BOOLEAN
  /\ client \in {"idle", "connected", "stopped"}
  /\ pc \in [Sender -> {"idle", "check", "write", "send"}]
  /\ seen \in [Sender -> Counts]
  /\ lingering \subseteq Counts
  /\ asks \in 0 .. MaxAsks
  /\ link \in {"up", "down"}
  /\ wire \in Seq(Counts) /\ Len(wire) <= Window
  /\ estimate = NoStatus \/ (estimate \in Int /\ estimate >= -1)
  /\ job \in {"none", "chosen", "reserved"}

(* lastStatus starts with zeros, at the zero time.                          *)
Init ==
  /\ available \in Counts
  /\ last = 0 /\ due = TRUE
  /\ client = "idle" /\ cancelled = FALSE
  /\ pc = [s \in Sender |-> "idle"] /\ seen = [s \in Sender |-> 0]
  /\ lingering = {} /\ asks = 0
  /\ link = "down" /\ wire = <<>>
  /\ estimate = NoStatus /\ job = "none"

-----------------------------------------------------------------------------
(* The reconnect loop and handleConnection.                                 *)

(* The Connect message is sent and registered; the scheduler answers with   *)
(* the connect response and a status request, and has a new instance.       *)
(* lastStatus is left alone.                                                *)
Connect ==
  /\ client = "idle" /\ ~cancelled
  /\ client' = "connected"
  /\ link' = "up" /\ wire' = <<>>
  /\ asks' = MaxAsks
  /\ estimate' = NoStatus /\ job' = "none"
  /\ UNCHANGED <<available, last, due, cancelled, pc, seen, lingering>>

(* Mutant: an error of handleConnection leaves the loop.                    *)
ReturnEndsLoop ==
  /\ client = "connected" /\ (link = "down" \/ cancelled)
  /\ client' = "stopped"
  /\ link' = "down" /\ asks' = 0
  /\ lingering' = lingering \cup {seen[s] : s \in {t \in Sender : pc[t] \in {"check", "write"}}}
  /\ pc' = [s \in Sender |-> "idle"] /\ seen' = [s \in Sender |-> 0]
  /\ UNCHANGED <<available, last, due, cancelled, wire, schedulerVars>>

(* Recv or Send has failed, or the server shuts down: the stream is closed, *)
(* while its senders may still be inside sendCurrentStatus.                 *)
Return ==
  /\ client = "connected" /\ (link = "down" \/ cancelled)
  /\ client' = "idle"
  /\ link' = "down" /\ asks' = 0
  /\ lingering' = lingering \cup {seen[s] : s \in {t \in Sender : pc[t] \in {"check", "write"}}}
  /\ pc' = [s \in Sender |-> "idle"] /\ seen' = [s \in Sender |-> 0]
  /\ UNCHANGED <<available, last, due, cancelled, wire, schedulerVars>>

StopLoop ==
  /\ client = "idle" /\ cancelled
  /\ client' = "stopped"
  /\ UNCHANGED <<available, last, due, cancelled, senderVars, link, wire,
                 schedulerVars>>

-----------------------------------------------------------------------------
(* handleSchedulerMessages, sendStatusUpdates and sendCurrentStatus.        *)
SenderStep(s, from, to) ==
  /\ client = "connected"
  /\ pc[s] = from
  /\ pc' = [pc EXCEPT ![s] = to]
  /\ UNCHANGED <<available, client, cancelled, lingering, link, schedulerVars>>

(* The handler has received the connect response or the status request.     *)
Asked ==
  /\ asks > 0
  /\ SenderStep("handler", "idle", "check")
  /\ asks' = asks - 1
  /\ seen' = [seen EXCEPT !["handler"] = available]
  /\ UNCHANGED <<last, due, wire>>

(* Every 300 ms.                                                            *)
Tick ==
  /\ SenderStep("ticker", "idle", "check")
  /\ seen' = [seen EXCEPT !["ticker"] = available]
  /\ UNCHANGED <<last, due, asks, wire>>

(* Mutant: only a changed status is sent.                                   *)
CheckChangedOnly(s) ==
  /\ \E to \in {"idle", "write"} :
       /\ seen[s] # last => to = "write"
       /\ SenderStep(s, "check", to)
       /\ seen' = IF to = "write" THEN seen ELSE [seen EXCEPT ![s] = 0]
  /\ UNCHANGED <<last, due, asks, wire>>

(* An unchanged status is not sent again for 15 seconds.  It may have       *)
(* changed in the number of waiting or processing jobs only.                *)
Check(s) ==
  /\ \E to \in {"idle", "write"} :
       /\ seen[s] # last \/ due => to = "write"
       /\ SenderStep(s, "check", to)
       /\ seen' = IF to = "write" THEN seen ELSE [seen EXCEPT ![s] = 0]
  /\ UNCHANGED <<last, due, asks, wire>>

(* lastStatus is updated before the status is sent.                         *)
Write(s) ==
  /\ SenderStep(s, "write", "send")
  /\ last' = seen[s] /\ due' = FALSE
  /\ UNCHANGED <<seen, asks, wire>>

Send(s) ==
  /\ link = "up" /\ Len(wire) < Window
  /\ SenderStep(s, "send", "idle")
  /\ wire' = Append(wire, seen[s])
  /\ seen' = [seen EXCEPT ![s] = 0]
  /\ UNCHANGED <<last, due, asks>>

(* An error, which the handler only logs, or a message that never arrives.  *)
SendLost(s) ==
  /\ link = "down"
  /\ SenderStep(s, "send", "idle")
  /\ seen' = [seen EXCEPT ![s] = 0]
  /\ UNCHANGED <<last, due, asks, wire>>

(* A sender of an ended connection stores its status; its Send fails.       *)
LingeringWrite ==
  \E n \in lingering :
    /\ lingering' = lingering \ {n}
    /\ IF n = last /\ ~due THEN UNCHANGED <<last, due>>
                           ELSE last' = n /\ due' = FALSE
    /\ UNCHANGED <<available, client, cancelled, pc, seen, asks, link, wire,
                   schedulerVars>>

-----------------------------------------------------------------------------
(* The environment: the pool, the clock, the network and the scheduler.     *)

(* Jobs begin and end in the pool.                                          *)
PoolChanges ==
  /\ \E n \in Counts \ {available} : available' = n
  /\ UNCHANGED <<last, due, client, cancelled, senderVars, link, wire, schedulerVars>>

FifteenSeconds ==
  /\ ~due /\ due' = TRUE
  /\ UNCHANGED <<available, last, client, cancelled, senderVars, link, wire,
                 schedulerVars>>

(* What was sent but not yet received may be lost.                          *)
LinkBreak ==
  /\ link = "up" /\ link' = "down"
  /\ \E n \in 0 .. Len(wire) : wire' = SubSeq(wire, 1, n)
  /\ \E n \in 0 .. asks : asks' = n
  /\ UNCHANGED <<available, last, due, client, cancelled, pc, seen, lingering,
                 schedulerVars>>

Shutdown ==
  /\ ~cancelled /\ cancelled' = TRUE
  /\ UNCHANGED <<available, last, due, client, senderVars, link, wire, schedulerVars>>

SchedulerStep ==
  UNCHANGED <<available, last, due, client, cancelled, senderVars, link>>

(* SandboxStream receives a status message and puts it in the place of the *)
(* instance's Status, without the mutex of the scheduler.                   *)
Receive ==
  /\ wire # <<>>
  /\ estimate' = Head(wire) /\ wire' = Tail(wire)
  /\ SchedulerStep /\ UNCHANGED job

(* Mutant: a sandbox without a free box may be chosen.                      *)
ChooseAlways ==
  /\ job = "none" /\ job' = "chosen"
  /\ estimate # NoStatus
  /\ SchedulerStep /\ UNCHANGED <<wire, estimate>>

(* GetBestSandbox finds a free slot in the Status ...                       *)
Choose ==
  /\ job = "none" /\ job' = "chosen"
  /\ estimate # NoStatus /\ estimate > 0
  /\ SchedulerStep /\ UNCHANGED <<wire, estimate>>

(* ... and assignJobToSandbox takes it from the Status it finds by then,    *)
(* which may be another one with no slot left, until JobChan takes the job  *)
(* or is full.                                                              *)
Reserve ==
  /\ job = "chosen" /\ job' = "reserved"
  /\ estimate' = estimate - 1
  /\ SchedulerStep /\ UNCHANGED wire

Assigned ==
  /\ job = "reserved" /\ job' = "none"
  /\ SchedulerStep /\ UNCHANGED <<wire, estimate>>

RollBack ==
  /\ job = "reserved" /\ job' = "none"
  /\ estimate' = estimate + 1
  /\ SchedulerStep /\ UNCHANGED wire

-----------------------------------------------------------------------------
StatusStep(s) == Check(s) \/ Write(s) \/ Send(s) \/ SendLost(s)
Handler       == Asked \/ StatusStep("handler")
Ticker        == Tick \/ StatusStep("ticker")
ReconnectLoop == Connect \/ Return \/ StopLoop

Next == ReconnectLoop \/ Handler \/ Ticker \/ LingeringWrite \/ PoolChanges
          \/ FifteenSeconds \/ LinkBreak \/ Shutdown
          \/ Receive \/ Choose \/ Reserve \/ Assigned \/ RollBack

Spec == Init /\ [][Next]_vars

(* The goroutines run, time passes and what the transport holds arrives.    *)
(* Nobody owes a broken link, a job or a shutdown.                          *)
Fairness ==
  /\ WF_vars(ReconnectLoop) /\ WF_vars(Handler) /\ WF_vars(Ticker)
  /\ WF_vars(LingeringWrite) /\ WF_vars(FifteenSeconds) /\ WF_vars(Receive)

FairSpec == Spec /\ Fairness

-----------------------------------------------------------------------------
(* Once the link stays up, the pool stays as it is and no job is assigned,  *)
(* the scheduler's estimate becomes the sandbox's AvailableCount for good:  *)
(* although a status may be suppressed as unchanged when the scheduler has  *)
(* since lowered its estimate, when it went down with the previous          *)
(* connection, or when two senders overtook each other.                     *)
EstimateCatchesUp ==
  <>[](link = "up") /\ <>[][available' = available /\ ~Reserve /\ ~RollBack]_vars
    => <>[](estimate = available)

(* A sandbox whose link stays up is heard of again and again, even when     *)
(* nothing changes: the cleanup of the scheduler rests on this.             *)
HeardAgainAndAgain ==
  <>[](link = "up") => []<><<Receive>>_vars

(* A broken connection is replaced by a new one unless the server shuts     *)
(* down.                                                                    *)
Reconnects ==
  client = "connected" /\ link = "down" ~> link = "up" \/ cancelled
=============================================================================
