----------------------------- MODULE MCJobStore -----------------------------
(* TLC instances of JobStore.  Commands never touch each other's rows, so a *)
(* single command with two of every invocation shows every interleaving.   *)
EXTENDS JobStore
=============================================================================
