------------------------- MODULE SandboxLink_proofs -------------------------
(***************************************************************************)
(* Proofs about SandboxLink, for every set of counts and every transport.  *)
(***************************************************************************)
EXTENDS SandboxLink, TLAPS

(* A job holds a slot of an estimate that is there: a rollback has a number *)
(* to raise, because only a new connection takes the Status away.           *)
Reserved == job = "reserved" => estimate # NoStatus

(* The Status of a chosen sandbox may have been replaced by one that has no *)
(* free slot, but not by one that owes one: reports are not negative.       *)
Chosen == job = "chosen" => estimate # NoStatus /\ estimate >= 0

LinkInv == TypeOK /\ Reserved /\ Chosen

(* A status of an ended connection that is still to be stored is a count.   *)
LEMMA Lingers ==
  ASSUME TypeOK
  PROVE  lingering \cup {seen[s] : s \in {t \in Sender : pc[t] \in {"check", "write"}}}
           \subseteq Counts
BY DEF TypeOK

(* What a step of a sender does to its own variables.                       *)
LEMMA SenderSteps ==
  ASSUME TypeOK, NEW s \in Sender, NEW from, NEW to \in {"idle", "check", "write", "send"},
         SenderStep(s, from, to)
  PROVE  /\ pc' \in [Sender -> {"idle", "check", "write", "send"}]
         /\ UNCHANGED <<available, client, cancelled, lingering, link, estimate, job>>
BY DEF TypeOK, SenderStep, schedulerVars

(* Every step keeps the invariant.                                          *)
LEMMA LinkNext == LinkInv /\ [Next]_vars => LinkInv'
<1>. SUFFICES ASSUME LinkInv, [Next]_vars PROVE LinkInv'
  OBVIOUS
<1>. USE LinkAssumption
<1>1. TypeOK /\ Reserved /\ Chosen
  BY DEF LinkInv
<1>2. CASE Connect
  <2>1. UNCHANGED <<available, last, due, cancelled, pc, seen, lingering>>
    BY <1>2 DEF Connect
  <2>2. /\ client' = "connected" /\ link' = "up" /\ wire' = <<>> /\ asks' = MaxAsks
        /\ estimate' = NoStatus /\ job' = "none"
    BY <1>2 DEF Connect
  <2>3. wire' \in Seq(Counts) /\ Len(wire') <= Window /\ asks' \in 0 .. MaxAsks
    BY <2>2
  <2>. QED BY <1>1, <2>1, <2>2, <2>3 DEF LinkInv, TypeOK, Reserved, Chosen
<1>3. CASE Return
  <2>1. lingering' \subseteq Counts
    BY <1>1, <1>3, Lingers DEF Return
  <2>2. UNCHANGED <<available, last, due, cancelled, wire, estimate, job>>
    BY <1>3 DEF Return, schedulerVars
  <2>3. /\ client' = "idle" /\ link' = "down" /\ asks' = 0
        /\ pc' = [s \in Sender |-> "idle"] /\ seen' = [s \in Sender |-> 0]
    BY <1>3 DEF Return
  <2>. QED BY <1>1, <2>1, <2>2, <2>3 DEF LinkInv, TypeOK, Reserved, Chosen
<1>4. CASE StopLoop
  BY <1>1, <1>4 DEF StopLoop, senderVars, schedulerVars, LinkInv, TypeOK, Reserved, Chosen
<1>5. CASE Asked \/ Tick
  <2>1. PICK s \in Sender : SenderStep(s, "idle", "check") /\ seen' = [seen EXCEPT ![s] = available]
    BY <1>5 DEF Asked, Tick, Sender
  <2>2. asks' = asks \/ (asks > 0 /\ asks' = asks - 1)
    BY <1>5 DEF Asked, Tick
  <2>3. UNCHANGED <<last, due, wire>>
    BY <1>5 DEF Asked, Tick
  <2>4. asks' \in 0 .. MaxAsks
    BY <1>1, <2>2 DEF TypeOK
  <2>5. seen' \in [Sender -> Counts]
    BY <1>1, <2>1 DEF TypeOK
  <2>. QED BY <1>1, <2>1, <2>3, <2>4, <2>5, SenderSteps DEF LinkInv, TypeOK, Reserved, Chosen
<1>6. ASSUME NEW s \in Sender, StatusStep(s) PROVE LinkInv'
  <2>1. CASE Check(s)
    <3>1. PICK to \in {"idle", "write"} :
            /\ SenderStep(s, "check", to)
            /\ seen' = IF to = "write" THEN seen ELSE [seen EXCEPT ![s] = 0]
      BY <2>1 DEF Check
    <3>2. UNCHANGED <<last, due, asks, wire>>
      BY <2>1 DEF Check
    <3>3. seen' \in [Sender -> Counts]
      BY <1>1, <3>1 DEF TypeOK
    <3>4. /\ pc' \in [Sender -> {"idle", "check", "write", "send"}]
          /\ UNCHANGED <<available, client, cancelled, lingering, link, estimate, job>>
      BY <1>1, <3>1, SenderSteps
    <3>. QED BY <1>1, <3>2, <3>3, <3>4 DEF LinkInv, TypeOK, Reserved, Chosen
  <2>2. CASE Write(s)
    <3>1. /\ SenderStep(s, "write", "send") /\ last' = seen[s] /\ due' = FALSE
          /\ UNCHANGED <<seen, asks, wire>>
      BY <2>2 DEF Write
    <3>. QED BY <1>1, <3>1, SenderSteps DEF LinkInv, TypeOK, Reserved, Chosen
  <2>3. CASE Send(s)
    <3>1. /\ SenderStep(s, "send", "idle") /\ Len(wire) < Window
          /\ wire' = Append(wire, seen[s]) /\ seen' = [seen EXCEPT ![s] = 0]
          /\ UNCHANGED <<last, due, asks>>
      BY <2>3 DEF Send
    <3>2. wire' \in Seq(Counts) /\ Len(wire') <= Window
      BY <1>1, <3>1 DEF TypeOK
    <3>3. seen' \in [Sender -> Counts]
      BY <1>1, <3>1 DEF TypeOK
    <3>. QED BY <1>1, <3>1, <3>2, <3>3, SenderSteps DEF LinkInv, TypeOK, Reserved, Chosen
  <2>4. CASE SendLost(s)
    <3>1. /\ SenderStep(s, "send", "idle") /\ seen' = [seen EXCEPT ![s] = 0]
          /\ UNCHANGED <<last, due, asks, wire>>
      BY <2>4 DEF SendLost
    <3>2. seen' \in [Sender -> Counts]
      BY <1>1, <3>1 DEF TypeOK
    <3>. QED BY <1>1, <3>1, <3>2, SenderSteps DEF LinkInv, TypeOK, Reserved, Chosen
  <2>. QED BY <1>6, <2>1, <2>2, <2>3, <2>4 DEF StatusStep
<1>7. CASE LingeringWrite
  <2>1. PICK n \in lingering :
          /\ lingering' = lingering \ {n}
          /\ last' = n \/ last' = last
          /\ due' = due \/ due' = FALSE
    BY <1>7 DEF LingeringWrite
  <2>2. UNCHANGED <<available, client, cancelled, pc, seen, asks, link, wire, estimate, job>>
    BY <1>7 DEF LingeringWrite, schedulerVars
  <2>3. last' \in Counts /\ due' \in BOOLEAN /\ lingering' \subseteq Counts
    BY <1>1, <2>1 DEF TypeOK
  <2>. QED BY <1>1, <2>2, <2>3 DEF LinkInv, TypeOK, Reserved, Chosen
<1>8. CASE PoolChanges \/ FifteenSeconds \/ Shutdown
  <2>1. UNCHANGED <<last, client, pc, seen, lingering, asks, link, wire, estimate, job>>
    BY <1>8 DEF PoolChanges, FifteenSeconds, Shutdown, senderVars, schedulerVars
  <2>2. available' \in Counts /\ due' \in BOOLEAN /\ cancelled' \in BOOLEAN
    BY <1>1, <1>8 DEF PoolChanges, FifteenSeconds, Shutdown, TypeOK
  <2>. QED BY <1>1, <2>1, <2>2 DEF LinkInv, TypeOK, Reserved, Chosen
<1>9. CASE LinkBreak
  <2>1. PICK n \in 0 .. Len(wire) : wire' = SubSeq(wire, 1, n)
    BY <1>9 DEF LinkBreak
  <2>2. wire' \in Seq(Counts) /\ Len(wire') <= Window
    BY <1>1, <2>1 DEF TypeOK
  <2>3. asks' \in 0 .. MaxAsks
    BY <1>1, <1>9 DEF LinkBreak, TypeOK
  <2>. QED BY <1>1, <1>9, <2>2, <2>3 DEF LinkBreak, schedulerVars, LinkInv, TypeOK, Reserved, Chosen
<1>10. CASE Receive
  <2>1. /\ wire # <<>> /\ estimate' = Head(wire) /\ wire' = Tail(wire) /\ job' = job
        /\ UNCHANGED <<available, last, due, client, cancelled, pc, seen, lingering, asks, link>>
    BY <1>10 DEF Receive, SchedulerStep, senderVars
  <2>2. wire' \in Seq(Counts) /\ Len(wire') <= Window /\ Head(wire) \in Counts
    BY <1>1, <2>1 DEF TypeOK
  <2>3. estimate' \in Nat
    BY <2>1, <2>2, Zenon
  <2>4. estimate' \in Int /\ estimate' >= 0 /\ estimate' # NoStatus
    BY <2>3
  <2>. QED BY <1>1, <2>1, <2>2, <2>4 DEF LinkInv, TypeOK, Reserved, Chosen
<1>11. CASE Choose \/ Reserve \/ Assigned \/ RollBack
  <2>1. UNCHANGED <<available, last, due, client, cancelled, pc, seen, lingering, asks, link, wire>>
    BY <1>11 DEF Choose, Reserve, Assigned, RollBack, SchedulerStep, senderVars
  <2>2. /\ estimate' = NoStatus \/ (estimate' \in Int /\ estimate' >= -1)
        /\ job' \in {"none", "chosen", "reserved"}
        /\ Reserved' /\ Chosen'
    <3>1. estimate = NoStatus \/ (estimate \in Int /\ estimate >= -1)
      BY <1>1 DEF TypeOK
    <3>2. CASE Choose
      <4>1. estimate # NoStatus /\ estimate > 0 /\ estimate' = estimate /\ job' = "chosen"
        BY <3>2 DEF Choose
      <4>. QED BY <3>1, <4>1 DEF Reserved, Chosen
    <3>3. CASE Reserve
      <4>1. estimate \in Int /\ estimate >= 0 /\ estimate' = estimate - 1 /\ job' = "reserved"
        BY <1>1, <3>1, <3>3 DEF Reserve, Chosen
      <4>2. estimate' \in Int /\ estimate' >= -1
        BY <4>1
      <4>. QED BY <4>1, <4>2 DEF Reserved, Chosen
    <3>4. CASE Assigned
      <4>1. estimate' = estimate /\ job' = "none"
        BY <3>4 DEF Assigned
      <4>. QED BY <3>1, <4>1 DEF Reserved, Chosen
    <3>5. CASE RollBack
      <4>1. estimate \in Int /\ estimate >= -1 /\ estimate' = estimate + 1 /\ job' = "none"
        BY <1>1, <3>1, <3>5 DEF RollBack, Reserved
      <4>2. estimate' \in Int /\ estimate' >= -1
        BY <4>1
      <4>. QED BY <4>1, <4>2 DEF Reserved, Chosen
    <3>. QED BY <1>11, <3>2, <3>3, <3>4, <3>5
  <2>. QED BY <1>1, <2>1, <2>2 DEF LinkInv, TypeOK
<1>12. CASE UNCHANGED vars
  BY <1>1, <1>12 DEF vars, senderVars, schedulerVars, LinkInv, TypeOK, Reserved, Chosen
<1>. QED
  BY <1>2, <1>3, <1>4, <1>5, <1>6, <1>7, <1>8, <1>9, <1>10, <1>11, <1>12
     DEF Next, ReconnectLoop, Handler, Ticker, Sender

(* Every status on its way, held by a sender or shared by them is one that  *)
(* the pool has shown.  The scheduler takes a slot that a newer report may  *)
(* no longer offer, so that its estimate may fall below zero, but never by  *)
(* more than the one job that is being assigned; and a rollback always has  *)
(* a number to raise.                                                       *)
THEOREM Typing == Spec => [](TypeOK /\ Reserved /\ Chosen)
<1>1. Init => LinkInv
  <2>. SUFFICES ASSUME Init PROVE LinkInv
    OBVIOUS
  <2>1. wire \in Seq(Counts) /\ Len(wire) <= Window /\ asks \in 0 .. MaxAsks
    BY LinkAssumption DEF Init
  <2>. QED BY LinkAssumption, <2>1 DEF Init, LinkInv, TypeOK, Reserved, Chosen
<1>2. LinkInv => TypeOK /\ Reserved /\ Chosen
  BY DEF LinkInv
<1>. QED BY <1>1, <1>2, LinkNext, PTL DEF Spec
=============================================================================
