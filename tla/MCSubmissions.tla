--------------------------- MODULE MCSubmissions ---------------------------
(* Model-checking instance of Submissions.  Requests are interchangeable     *)
(* where only safety is checked.                                            *)
EXTENDS Submissions, TLC

RequestSymmetry == Permutations(Request)
=============================================================================
