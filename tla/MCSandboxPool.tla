--------------------------- MODULE MCSandboxPool ---------------------------
(* Model-checking instance of SandboxPool: two or three jobs, one or two     *)
(* boxes.  Jobs are interchangeable in the safety runs.                      *)
EXTENDS SandboxPool, TLC

JobSymmetry == Permutations(Job)
=============================================================================
