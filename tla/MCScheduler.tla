---------------------------- MODULE MCScheduler ----------------------------
(* Model-checking instance of Scheduler.  Jobs are interchangeable, and so   *)
(* are sandboxes.                                                            *)
EXTENDS Scheduler, TLC

SchedulerSymmetry == Permutations(Job) \cup Permutations(Sandbox)
=============================================================================
