--------------------------- MODULE MCSandboxLink ---------------------------
(* Model-checking instance of SandboxLink: a pool of one box and a transport *)
(* that holds one status, so that the second sender may block in Send.      *)
EXTENDS SandboxLink
=============================================================================
