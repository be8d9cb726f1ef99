----------------------------- MODULE SpendLedger -----------------------------
(***************************************************************************)
(* What the SDK promises about the spend of each guarded call, with no     *)
(* process, message, journal or retry in sight.                            *)
(*                                                                         *)
(*   "open"      the call has not spent anything yet                       *)
(*   "released"  the call failed and the reservation was given back        *)
(*   "volatile"  the action returned; only a live process knows its cost   *)
(*   "owed"      the cost is on disk                                       *)
(*   "recorded"  the server has charged it, exactly once                   *)
(*   "refused"   the server has refused it with a known, final error       *)
(*   "lost"      the only holder of the cost died before it reached disk   *)
(*                                                                         *)
(* The promise is in the edges that are missing: "owed" leads only to an   *)
(* answer of the server, "recorded" leads nowhere, and "released" is       *)
(* reached only by a call that spent nothing.                              *)
(***************************************************************************)

CONSTANT Reservation

VARIABLE spend

SpendState ==
    {"open", "released", "volatile", "owed", "recorded", "refused", "lost"}

LedgerTypeOK == spend \in [Reservation -> SpendState]

LedgerInit == spend = [r \in Reservation |-> "open"]

Move(r, from, to) ==
    /\ spend[r] \in from
    /\ spend' = [spend EXCEPT ![r] = to]

Spend(r)    == Move(r, {"open"}, "volatile")
GiveBack(r) == Move(r, {"open"}, "released")
Journal(r)  == Move(r, {"volatile"}, "owed")

(* A request already on the wire may be charged after the process that     *)
(* sent it has died, and a refusal may be followed by an acceptance.       *)
Record(r)   == Move(r, {"volatile", "owed", "refused", "lost"}, "recorded")
Refuse(r)   == Move(r, {"volatile", "owed", "lost"}, "refused")

(* One crash may lose the undocumented cost of several calls.              *)
Lose(S) ==
    /\ S # {}
    /\ \A r \in S : spend[r] = "volatile"
    /\ spend' = [r \in Reservation |-> IF r \in S THEN "lost" ELSE spend[r]]

LedgerNext ==
    \/ \E r \in Reservation :
          Spend(r) \/ GiveBack(r) \/ Journal(r) \/ Record(r) \/ Refuse(r)
    \/ \E S \in SUBSET Reservation : Lose(S)

LedgerSpec == LedgerInit /\ [][LedgerNext]_spend

(* What is on disk is eventually answered for by the server.               *)
Settle(r) == spend[r] = "owed" /\ (Record(r) \/ Refuse(r))

LedgerLiveSpec == LedgerSpec /\ \A r \in Reservation : WF_spend(Settle(r))
==============================================================================
