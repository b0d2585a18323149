---------------------------- MODULE MCAccounts -----------------------------
(* Model-checking instance of Accounts: requests are interchangeable.        *)
EXTENDS Accounts, TLC

RequestSymmetry == Permutations(Request)
=============================================================================
