----------------------------- MODULE MCRetryClock -----------------------------
(* Headers that are absent, short, beyond the cap and beyond 64 bits; old  *)
(* floors that are absent, passed or due, and far in the future.           *)
EXTENDS RetryClock

MCRetryAfter  == {None, 3, 9, 50}
MCStaleFloors == {None, 2, 30}
===============================================================================
