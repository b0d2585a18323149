---------------------------- MODULE JobLifecycle ----------------------------
(***************************************************************************)
(* What every stage of the judge pipeline promises about a job: it enters  *)
(* once, and leaves at most once, either completed or lost - never both,   *)
(* never twice.  The scheduler of the API server and the pool of a sandbox *)
(* server are both shown to implement it.                                  *)
(***************************************************************************)
CONSTANT Job

VARIABLE fate   \* per job: "new", "pending", "completed" or "lost"

Init == fate = [j \in Job |-> "new"]

Submit(j) == fate[j] = "new" /\ fate' = [fate EXCEPT ![j] = "pending"]

Complete(j) == fate[j] = "pending" /\ fate' = [fate EXCEPT ![j] = "completed"]

Lose(j) == fate[j] = "pending" /\ fate' = [fate EXCEPT ![j] = "lost"]

Next == \E j \in Job : Submit(j) \/ Complete(j) \/ Lose(j)

Spec == Init /\ [][Next]_fate
=============================================================================
