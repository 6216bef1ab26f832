---------------------------- MODULE MCSharedCalls ----------------------------
(* SharedCalls on a small instance: two keys and four calls of DoEx, enough *)
(* for two waiters of one executor, a call that joins between Done and      *)
(* delete, and a second execution for the same key.                         *)
EXTENDS SharedCalls
=============================================================================
