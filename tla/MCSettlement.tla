---------------------------- MODULE MCSettlement ----------------------------
(* Small instances of CommitSettlement for TLC. *)
EXTENDS CommitSettlement, TLC

CONSTANTS r1, r2, p1, p2

(* Processes are interchangeable, and so are reservations.  Only the runs  *)
(* without liveness properties use the symmetry.                           *)
MCSymmetry == Permutations(Process) \cup Permutations(Reservation)
==============================================================================
