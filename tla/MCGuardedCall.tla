----------------------------- MODULE MCGuardedCall -----------------------------
(* Small instances of GuardedCall for TLC. *)
EXTENDS GuardedCall

CONSTANTS outer, inner
===============================================================================
