------------------------------ MODULE MCJournal ------------------------------
(* Two reservations whose ids differ only in characters that the older     *)
(* file names replace; the second belongs to another server.               *)
EXTENDS JournalFiles, TLC

CONSTANTS r1, r2, old

MCReservation == {r1, r2}
MCLegacyName  == {old}
MCLegacy      == [r \in {r1, r2} |-> old]
Symmetry == Permutations(Writer) \cup Permutations(Scanner) \cup Permutations(Temp)
===============================================================================
