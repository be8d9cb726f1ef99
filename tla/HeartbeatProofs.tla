--------------------------- MODULE HeartbeatProofs ---------------------------
(***************************************************************************)
(* For every lease, timeout and grant: the heartbeat's two estimates of    *)
(* its lead are lower bounds of the server's lease, the measured one but   *)
(* for at most one grant that was assumed, and, if a sleep is never a      *)
(* second late, every planned attempt ends while the lease lasts.          *)
(* With full grants and no faults the fallback never lets the lease lapse. *)
(***************************************************************************)
EXTENDS Heartbeat, TLAPS

USE HeartbeatAssumption
DEF Assumed, Failure, None, NoReply, Reply, Larger, Smaller, AttemptBudget,
    SafetyMargin, server, sched, fallback, Sleep, Stop

(* An answer in transit was true when the server gave it: since then the   *)
(* lease lost no more than the age of the attempt.                         *)
AnswerInv ==
    /\ reply.kind # "none" => pc = "sent"
    /\ reply.kind = "ok" =>
          /\ reply.grant <= unseen
          /\ reply.remaining # None => reply.remaining - clock <= lease

ClockInv ==
    /\ pc = "sent" => clock \in 0..TimeoutBudget
    /\ pc = "wait" => clock >= -MaxOverrun

(* What the server granted and the client has not seen is in the lease.    *)
(* While the loop has no expiry to measure a grant from, it has no lead.   *)
LeaseInv ==
    /\ lease <= MaxLease /\ unseen <= MaxLease
    /\ ~applied => unseen = 0
    /\ leadMin + unseen <= lease + Assumed
    /\ baseline = "none" => leadMin <= 0
    /\ authoritative => lead <= lease

(* A planned attempt starts with its deadline and the safety margin in     *)
(* hand; only an overrun of the sleep eats into the margin.                *)
PlanInv ==
    /\ pc = "wait" /\ Planned => lead >= TimeoutBudget + Second + clock
    /\ pc = "sent" /\ Planned =>
          lead >= TimeoutBudget + Second - MaxOverrun - clock

(* The first attempt after a success starts with the whole retry reserve.  *)
FreshPlan == authoritative /\ zeroStreak = 0 /\ prevWindow = None

ReserveInv ==
    /\ pc = "wait" /\ FreshPlan => lead >= RetryReserve(rttMax) + clock
    /\ pc = "sent" /\ FreshPlan =>
          lead >= RetryReserve(rttMax) - MaxOverrun - clock

HeartbeatInv ==
    /\ TypeOK /\ AnswerInv /\ ClockInv /\ LeaseInv /\ PlanInv /\ ReserveInv

(* The loop starts with a lead that setup and transit have only shortened. *)
LEMMA InitInv == Init => HeartbeatInv
<1> SUFFICES ASSUME Init PROVE HeartbeatInv OBVIOUS
<1> DEFINE
      Start(remaining, rtt, setup, reported, transit) ==
        LET left  == Larger(0, Larger(0, remaining - setup) - rtt)
            slack == left - RetryReserve(rtt)
        IN /\ lease = remaining - transit - setup /\ lease > 0
           /\ authoritative = reported
           /\ rttMax = rtt
           /\ lead = IF reported THEN left ELSE 0
           /\ zeroStreak = IF reported /\ slack <= 0 THEN 1 ELSE 0
           /\ clock = IF reported /\ slack > 0 THEN slack ELSE 0
<1> PICK remaining \in 1..MaxLease, rtt \in 0..TimeoutBudget, setup \in 0..1,
         reported \in Reports :
         \E transit \in 0..rtt : Start(remaining, rtt, setup, reported, transit)
  BY DEF Init
<1> PICK transit \in 0..rtt : Start(remaining, rtt, setup, reported, transit)
  OBVIOUS
<1>1. reported \in BOOLEAN /\ authoritative \in BOOLEAN OBVIOUS
<1>a. lead \in Nat /\ clock \in Nat /\ lease \in Nat /\ rttMax \in Nat
      /\ zeroStreak \in Nat BY <1>1 DEF RetryReserve
<1>b. reply \in Reply BY DEF Init
<1>c. pc = "wait" /\ delay = clock /\ applied = FALSE /\ straggler = FALSE
      /\ unseen = 0 /\ prevWindow = None /\ leadMin = 0 /\ lastGrant = None
      /\ sinceSuccess = 0 /\ burst = 0 BY DEF Init
<1>2. TypeOK
  <2> HIDE DEF Start, Reply, NoReply
  <2>1. pc \in {"wait", "sent", "stopped"} BY <1>c
  <2>2. applied \in BOOLEAN /\ straggler \in BOOLEAN BY <1>c
  <2>3. prevWindow \in Nat \cup {None} /\ lastGrant \in Nat \cup {None}
    BY <1>c
  <2>4. clock \in Int /\ delay \in Nat /\ unseen \in Nat /\ leadMin \in Int
        /\ sinceSuccess \in Nat /\ burst \in Nat BY <1>a, <1>c
  <2>5. baseline \in {"create", "none", "assumed"} BY DEF Init
  <2> QED BY <1>1, <1>a, <1>b, <2>1, <2>2, <2>3, <2>4, <2>5 DEF TypeOK
<1>3. AnswerInv /\ ClockInv BY <1>2 DEF Init, AnswerInv, ClockInv, TypeOK
<1>4. LeaseInv BY <1>1, <1>2 DEF Init, LeaseInv, TypeOK
<1>5. PlanInv BY <1>1, <1>2 DEF Init, PlanInv, Planned, TypeOK, RetryReserve
<1>6. ReserveInv
  BY <1>1, <1>2 DEF Init, ReserveInv, FreshPlan, TypeOK, RetryReserve
<1> QED BY <1>2, <1>3, <1>4, <1>5, <1>6 DEF HeartbeatInv

(* Both estimates lose at least what the lease loses.                      *)
LEMMA TickInv == HeartbeatInv /\ Tick => HeartbeatInv'
<1> SUFFICES ASSUME HeartbeatInv, Tick PROVE HeartbeatInv' OBVIOUS
<1> USE DEF HeartbeatInv, Tick
<1>1. TypeOK' BY DEF TypeOK
<1>2. AnswerInv' BY DEF TypeOK, AnswerInv, LeaseInv, ClockInv
<1>3. ClockInv' BY DEF TypeOK, ClockInv
<1>4. LeaseInv' BY DEF TypeOK, LeaseInv, AnswerInv
<1>5. PlanInv' BY DEF TypeOK, PlanInv, Planned, ClockInv
<1>6. ReserveInv'
  BY DEF TypeOK, ReserveInv, FreshPlan, ClockInv, RetryReserve
<1> QED BY <1>1, <1>2, <1>3, <1>4, <1>5, <1>6

(* Skipping a beat changes only the sleep, in the fallback.                *)
LEMMA SkipInv == HeartbeatInv /\ Skip => HeartbeatInv'
<1> SUFFICES ASSUME HeartbeatInv, Skip PROVE HeartbeatInv' OBVIOUS
<1> USE DEF HeartbeatInv, Skip, LeadSuffices, NextDelay, HeldDelay
<1>1. TypeOK' BY DEF TypeOK
<1>2. AnswerInv' BY DEF TypeOK, AnswerInv, LeaseInv, ClockInv
<1>3. ClockInv' BY DEF TypeOK, ClockInv
<1>4. LeaseInv' BY DEF TypeOK, LeaseInv, AnswerInv
<1>5. PlanInv' BY DEF TypeOK, PlanInv, Planned, ClockInv
<1>6. ReserveInv'
  BY DEF TypeOK, ReserveInv, FreshPlan, ClockInv, RetryReserve
<1> QED BY <1>1, <1>2, <1>3, <1>4, <1>5, <1>6

(* An attempt starts when the sleep is over, at most MaxOverrun late.      *)
LEMMA AttemptInv == HeartbeatInv /\ Attempt => HeartbeatInv'
<1> SUFFICES ASSUME HeartbeatInv, Attempt PROVE HeartbeatInv' OBVIOUS
<1> USE DEF HeartbeatInv, Attempt, LeadSuffices, NextDelay, HeldDelay
<1>1. TypeOK' BY DEF TypeOK
<1>2. AnswerInv' BY DEF TypeOK, AnswerInv, LeaseInv, ClockInv
<1>3. ClockInv' BY DEF TypeOK, ClockInv
<1>4. LeaseInv' BY DEF TypeOK, LeaseInv, AnswerInv
<1>5. PlanInv' BY DEF TypeOK, PlanInv, Planned, ClockInv
<1>6. ReserveInv'
  BY DEF TypeOK, ReserveInv, FreshPlan, ClockInv, RetryReserve
<1> QED BY <1>1, <1>2, <1>3, <1>4, <1>5, <1>6

(* The server extends at most once per key, and answers the truth.         *)
LEMMA ServeInv == HeartbeatInv /\ Serve => HeartbeatInv'
<1> SUFFICES ASSUME HeartbeatInv, Serve PROVE HeartbeatInv' OBVIOUS
<1> USE DEF HeartbeatInv, Serve, Extend
<1> DEFINE
      Ok(reported) == [kind |-> "ok", grant |-> unseen',
                       remaining |-> IF reported THEN lease' ELSE None]
<1>0. lease' \in Nat /\ unseen' \in Nat BY DEF TypeOK, LeaseInv
<1>a. reply' \in Reply
  <2>1. CASE lease > 0
    <3>1. PICK reported \in Reports : reply' = Ok(reported) BY <2>1
    <3> QED BY <1>0, <3>1
  <2>2. CASE lease = 0
    BY <2>2 DEF TypeOK
  <2> QED BY <2>1, <2>2 DEF TypeOK
<1>1. TypeOK' BY <1>0, <1>a DEF TypeOK
<1>2. AnswerInv' BY DEF TypeOK, AnswerInv, LeaseInv, ClockInv
<1>3. ClockInv' BY DEF TypeOK, ClockInv
<1>4. LeaseInv' BY DEF TypeOK, LeaseInv, AnswerInv
<1>5. PlanInv' BY DEF TypeOK, PlanInv, Planned, ClockInv
<1>6. ReserveInv'
  BY DEF TypeOK, ReserveInv, FreshPlan, ClockInv, RetryReserve
<1> QED BY <1>1, <1>2, <1>3, <1>4, <1>5, <1>6

(* A failed attempt leaves the lease as it was.                            *)
LEMMA FailInv == HeartbeatInv /\ Fail => HeartbeatInv'
<1> SUFFICES ASSUME HeartbeatInv, Fail PROVE HeartbeatInv' OBVIOUS
<1> USE DEF HeartbeatInv, Fail
<1>1. TypeOK' BY DEF TypeOK
<1>2. AnswerInv' BY DEF TypeOK, AnswerInv, LeaseInv, ClockInv
<1>3. ClockInv' BY DEF TypeOK, ClockInv
<1>4. LeaseInv' BY DEF TypeOK, LeaseInv, AnswerInv
<1>5. PlanInv' BY DEF TypeOK, PlanInv, Planned, ClockInv
<1>6. ReserveInv'
  BY DEF TypeOK, ReserveInv, FreshPlan, ClockInv, RetryReserve
<1> QED BY <1>1, <1>2, <1>3, <1>4, <1>5, <1>6

(* A late request extends the lease if no other of its key did.            *)
LEMMA LateArrivalInv == HeartbeatInv /\ LateArrival => HeartbeatInv'
<1> SUFFICES ASSUME HeartbeatInv, LateArrival PROVE HeartbeatInv' OBVIOUS
<1> USE DEF HeartbeatInv, LateArrival, Extend
<1>0. lease' \in Nat /\ unseen' \in Nat /\ applied' \in BOOLEAN
  <2>1. CASE UNCHANGED <<lease, applied, unseen>> BY <2>1 DEF TypeOK
  <2>2. CASE applied' = TRUE /\ \E g \in Grants :
                LET grant == Smaller(g, MaxLease - lease)
                IN lease' = lease + grant /\ unseen' = unseen + grant
    BY <2>2 DEF TypeOK, LeaseInv
  <2> QED BY <2>1, <2>2
<1>1. TypeOK' BY <1>0 DEF TypeOK
<1>2. AnswerInv' BY DEF TypeOK, AnswerInv, LeaseInv, ClockInv
<1>3. ClockInv' BY DEF TypeOK, ClockInv
<1>4. LeaseInv' BY DEF TypeOK, LeaseInv, AnswerInv
<1>5. PlanInv' BY DEF TypeOK, PlanInv, Planned, ClockInv
<1>6. ReserveInv'
  BY DEF TypeOK, ReserveInv, FreshPlan, ClockInv, RetryReserve
<1> QED BY <1>1, <1>2, <1>3, <1>4, <1>5, <1>6

(* An answer deducts its own round trip.                                   *)
LEMMA SucceededInv == HeartbeatInv /\ Succeeded => HeartbeatInv'
<1> SUFFICES ASSUME HeartbeatInv, Succeeded PROVE HeartbeatInv' OBVIOUS
<1> USE DEF HeartbeatInv, Succeeded, Received, Clamping, GrantDelay, HeldDelay, OnValidSuccess, RetryReserve
<1>g. Grant \in Nat BY DEF TypeOK, Grant
<1>0. delay' \in Nat /\ clock' \in Int BY <1>g DEF TypeOK
<1>a. lead' \in Nat /\ rttMax' \in Nat /\ zeroStreak' \in Nat
      /\ prevWindow' \in Nat \cup {None} BY DEF TypeOK, ClockInv
<1>b. authoritative' \in BOOLEAN BY DEF TypeOK
<1>c. lastGrant' \in Nat /\ leadMin' \in Int
      /\ baseline' \in {"create", "none", "assumed"} BY DEF TypeOK, Grant
<1>d. reply' \in Reply /\ pc' \in {"wait", "sent", "stopped"} OBVIOUS
<1>1. TypeOK' BY <1>0, <1>a, <1>b, <1>c, <1>d DEF TypeOK
<1>2. AnswerInv' BY DEF TypeOK, AnswerInv, LeaseInv, ClockInv
<1>3. ClockInv' BY <1>g DEF TypeOK, ClockInv
<1>4. LeaseInv' BY DEF TypeOK, LeaseInv, AnswerInv, Grant
<1>5. PlanInv'
  <2>1. CASE reply.remaining = None
    BY <2>1 DEF PlanInv, Planned
  <2>2. CASE reply.remaining # None
    <3>1. reply.remaining \in Nat BY <2>2 DEF TypeOK
    <3>2. rttMax' \in Nat /\ rttMax' = Larger(rttMax, clock)
      BY <2>2 DEF TypeOK, ClockInv
    <3>3. pc' = "wait" /\ zeroStreak' = 0 =>
             lead' >= TimeoutBudget + Second + clock'
      BY <2>2, <3>1, <3>2 DEF TypeOK, ClockInv
    <3>4. prevWindow' = None /\ pc' # "sent" BY <2>2
    <3> HIDE DEF Succeeded
    <3> QED BY <3>3, <3>4 DEF PlanInv, Planned
  <2> QED BY <2>1, <2>2
<1>6. ReserveInv'
  <2>1. CASE reply.remaining = None
    BY <2>1 DEF ReserveInv, FreshPlan
  <2>2. CASE reply.remaining # None
    <3>1. reply.remaining \in Nat BY <2>2 DEF TypeOK
    <3>2. rttMax' \in Nat /\ rttMax' = Larger(rttMax, clock)
      BY <2>2 DEF TypeOK, ClockInv
    <3>3. pc' = "wait" /\ zeroStreak' = 0 =>
             lead' >= RetryReserve(rttMax') + clock'
      BY <2>2, <3>1, <3>2 DEF TypeOK, ClockInv
    <3>4. pc' # "sent" BY <2>2
    <3> HIDE DEF Succeeded
    <3> QED BY <3>3, <3>4 DEF ReserveInv, FreshPlan
  <2> QED BY <2>1, <2>2
<1> QED BY <1>1, <1>2, <1>3, <1>4, <1>5, <1>6

(* A retry is planned inside the window.                                   *)
LEMMA FailedInv == HeartbeatInv /\ Failed => HeartbeatInv'
<1> SUFFICES ASSUME HeartbeatInv, Failed PROVE HeartbeatInv' OBVIOUS
<1> USE DEF HeartbeatInv, Failed, Received, HeldDelay, OnTransientFailure, RetryWindow
<1>1. TypeOK' BY DEF TypeOK
<1>2. AnswerInv' BY DEF TypeOK, AnswerInv, LeaseInv, ClockInv
<1>3. ClockInv' BY DEF TypeOK, ClockInv
<1>4. LeaseInv' BY DEF TypeOK, LeaseInv, AnswerInv
<1>5. PlanInv' BY DEF TypeOK, PlanInv, Planned, ClockInv
<1>6. ReserveInv'
  BY DEF TypeOK, ReserveInv, FreshPlan, ClockInv, RetryReserve
<1> QED BY <1>1, <1>2, <1>3, <1>4, <1>5, <1>6

(* A rejection ends the loop or, in the fallback, keeps the pace.          *)
LEMMA RejectedInv == HeartbeatInv /\ Rejected => HeartbeatInv'
<1> SUFFICES ASSUME HeartbeatInv, Rejected PROVE HeartbeatInv' OBVIOUS
<1> USE DEF HeartbeatInv, Rejected, Received
<1>1. TypeOK' BY DEF TypeOK
<1>2. AnswerInv' BY DEF TypeOK, AnswerInv, LeaseInv, ClockInv
<1>3. ClockInv' BY DEF TypeOK, ClockInv
<1>4. LeaseInv' BY DEF TypeOK, LeaseInv, AnswerInv
<1>5. PlanInv' BY DEF TypeOK, PlanInv, Planned, ClockInv
<1>6. ReserveInv'
  BY DEF TypeOK, ReserveInv, FreshPlan, ClockInv, RetryReserve
<1> QED BY <1>1, <1>2, <1>3, <1>4, <1>5, <1>6

(* The end of the guarded call ends the loop.                              *)
LEMMA CallEndsInv == HeartbeatInv /\ CallEnds => HeartbeatInv'
<1> SUFFICES ASSUME HeartbeatInv, CallEnds PROVE HeartbeatInv' OBVIOUS
<1> USE DEF HeartbeatInv, CallEnds
<1>1. TypeOK' BY DEF TypeOK
<1>2. AnswerInv' BY DEF TypeOK, AnswerInv, LeaseInv, ClockInv
<1>3. ClockInv' BY DEF TypeOK, ClockInv
<1>4. LeaseInv' BY DEF TypeOK, LeaseInv, AnswerInv
<1>5. PlanInv' BY DEF TypeOK, PlanInv, Planned, ClockInv
<1>6. ReserveInv'
  BY DEF TypeOK, ReserveInv, FreshPlan, ClockInv, RetryReserve
<1> QED BY <1>1, <1>2, <1>3, <1>4, <1>5, <1>6

LEMMA NextInv == HeartbeatInv /\ [Next]_vars => HeartbeatInv'
<1> SUFFICES ASSUME HeartbeatInv, [Next]_vars PROVE HeartbeatInv' OBVIOUS
<1>1. CASE UNCHANGED vars
  BY <1>1 DEF vars, HeartbeatInv, TypeOK, AnswerInv, ClockInv, LeaseInv,
              PlanInv, Planned, ReserveInv, FreshPlan, RetryReserve
<1>2. CASE Next
  BY <1>2, TickInv, SkipInv, AttemptInv, ServeInv, FailInv, LateArrivalInv,
     SucceededInv, FailedInv, RejectedInv, CallEndsInv DEF Next
<1> QED BY <1>1, <1>2

(* Estimates, answers and lease agree in every reachable state.            *)
THEOREM HeartbeatInvariance == Spec => []HeartbeatInv
<1>1. Init => HeartbeatInv BY InitInv
<1>2. HeartbeatInv /\ [Next]_vars => HeartbeatInv' BY NextInv
<1> QED BY <1>1, <1>2, PTL DEF Spec

(* Delays and leads are never negative (lifecycle.py:480-550).             *)
THEOREM HeartbeatTypeCorrect == Spec => []TypeOK
<1>1. HeartbeatInv => TypeOK BY DEF HeartbeatInv
<1> QED BY <1>1, HeartbeatInvariance, PTL

(* lead_estimate_ms never promises more than the server has left, whatever *)
(* was lost, late or repeated (lifecycle.py:488-527).                      *)
THEOREM LeadConservative == Spec => []LeadIsConservative
<1>1. HeartbeatInv => LeadIsConservative
  BY DEF HeartbeatInv, LeaseInv, LeadIsConservative
<1> QED BY <1>1, HeartbeatInvariance, PTL

(* The sum of grants minus elapsed time is a lower bound of the lease too  *)
(* (lifecycle.py:914-918) where the create answer told its expiry; where   *)
(* it did not, the first grant is assumed to be ttl_ms (line 1016), and    *)
(* the sum is never too high by more than that one grant, whatever is      *)
(* lost, late or repeated and however long the call runs.                  *)
THEOREM MeasuredLeadConservative == Spec => []MeasuredLeadIsConservative
<1>1. HeartbeatInv => MeasuredLeadIsConservative
  BY DEF HeartbeatInv, TypeOK, LeaseInv, MeasuredLeadIsConservative
<1> QED BY <1>1, HeartbeatInvariance, PTL

(* The sum of grants minus elapsed time, without an allowance.             *)
MeasuredLeadIsLowerBound == pc # "stopped" => leadMin <= lease

(* prev_expiry was the create answer's own expires_at_ms from the start.   *)
Told == baseline = "create"

(* The claim of lifecycle.py:914-918 as it stands: against a server whose  *)
(* create answers always carry expires_at_ms, no grant is ever assumed,    *)
(* and the sum of grants minus elapsed time is a lower bound of the lease. *)
THEOREM ToldLeadConservative ==
    ASSUME CreateTells = {TRUE}
    PROVE  Spec => []MeasuredLeadIsLowerBound
<1>1. Init => Told
  BY DEF Init, Told
<1>2. Told /\ [Next]_vars => Told'
  BY DEF Told, Next, vars, Tick, Skip, Attempt, Serve, Fail, LateArrival,
         Succeeded, Failed, Rejected, CallEnds
<1>3. HeartbeatInv /\ Told => MeasuredLeadIsLowerBound
  BY DEF Told, HeartbeatInv, TypeOK, LeaseInv, MeasuredLeadIsLowerBound
<1> QED BY <1>1, <1>2, <1>3, HeartbeatInvariance, PTL DEF Spec

(* An extension the client has not heard of keeps its key pending.         *)
THEOREM UnseenPending == Spec => []UnseenIsPending
<1>1. HeartbeatInv => UnseenIsPending
  BY DEF HeartbeatInv, TypeOK, LeaseInv, UnseenIsPending
<1> QED BY <1>1, HeartbeatInvariance, PTL

(* If no sleep is more than a second late, a planned attempt is over       *)
(* before the lease can lapse, for every timeout and every round trip.     *)
THEOREM AttemptFits ==
    ASSUME MaxOverrun <= Second
    PROVE  Spec => []AttemptFitsLease
<1>1. HeartbeatInv => AttemptFitsLease
  BY DEF HeartbeatInv, TypeOK, ClockInv, LeaseInv, PlanInv, Planned,
         AttemptFitsLease
<1> QED BY <1>1, HeartbeatInvariance, PTL

(* While the first attempt is out, there is room for a second one.         *)
LEMMA WindowOpen ==
    ASSUME HeartbeatInv, MaxOverrun = 0, pc = "sent", FreshPlan
    PROVE  RetryWindow \in Nat
<1> DEFINE budget == AttemptBudget(rttMax)
           margin == SafetyMargin(rttMax)
<1>1. /\ lead \in Nat /\ rttMax \in Nat /\ clock \in Int
      /\ clock >= 0 /\ clock <= TimeoutBudget
  BY DEF HeartbeatInv, TypeOK, ClockInv
<1>2. lead >= (2 * budget + margin) - MaxOverrun - clock
  BY DEF HeartbeatInv, ReserveInv, RetryReserve
<1>3. budget \in Nat /\ margin \in Nat /\ budget >= TimeoutBudget
  BY <1>1
<1>4. RetryWindow = lead - budget - margin BY DEF RetryWindow
<1> HIDE DEF budget, margin
<1> QED BY <1>1, <1>2, <1>3, <1>4

(* If no sleep is late at all, the retry reserve does cover a failed       *)
(* attempt: its retry is always still safe (lifecycle.py:494-496).         *)
THEOREM ReserveCoversRetry ==
    ASSUME MaxOverrun = 0
    PROVE  Spec => FirstFailureRetried
<1>1. ASSUME HeartbeatInv, [Next]_vars
      PROVE  [ Failed /\ authoritative /\ zeroStreak = 0 /\ prevWindow = None
               /\ reply.kind # "limited" => pc' # "stopped" ]_vars
  <2> SUFFICES ASSUME Failed, authoritative, zeroStreak = 0,
                      prevWindow = None, reply.kind # "limited"
               PROVE  pc' # "stopped"
    OBVIOUS
  <2>1. pc = "sent" BY DEF Failed, Received
  <2>2. FreshPlan BY DEF FreshPlan
  <2>3. RetryWindow \in Nat BY <1>1, <2>1, <2>2, WindowOpen
  <2>4. OnTransientFailure(FALSE, reply.remaining) BY DEF Failed
  <2> QED BY <2>3, <2>4 DEF OnTransientFailure
<1> QED BY <1>1, HeartbeatInvariance, PTL DEF FirstFailureRetried, Spec

-------------------------------------------------------------------------------
(* No hot loop.                                                            *)

(* How many attempts the loop may still begin before time has to pass: an  *)
(* answer that leaves no slack uses up the streak and reopens the window,  *)
(* a failure closes the window until the lead has shrunk.                  *)
Progress == prevWindow = None \/ RetryWindow < prevWindow
Left == (IF zeroStreak = 0 THEN 3 ELSE 1) + (IF Progress THEN 1 ELSE 0)

BurstInv ==
    /\ burst <= 4
    /\ zeroStreak <= 1 \/ pc = "stopped"
    /\ pc = "wait" /\ clock <= 0 => burst + Left <= 4
    /\ pc = "sent" => burst + Left <= 5
    /\ pc = "sent" /\ ~ authoritative => delay >= 1

LEMMA LeftRange == 1 <= Left /\ Left <= 4 /\ Left \in Nat
  BY DEF Left

LEMMA LeftSame ==
    ASSUME UNCHANGED <<rttMax, lead, zeroStreak, prevWindow>>
    PROVE  Left' = Left
  BY DEF Left, Progress, RetryWindow

(* A pause of the fallback takes time: it is at least half a second, or    *)
(* half of a ttl_ms of at least a second.                                  *)
LEMMA PausesTakeTime ==
    ASSUME Second >= 2
    PROVE  /\ HeldDelay \in Nat /\ HeldDelay >= 1
           /\ \A g \in Nat : GrantDelay(g) \in Nat /\ GrantDelay(g) >= 1
<1>1. Second \div 2 \in Nat /\ Second \div 2 >= 1 /\ Ttl \div 2 \in Nat /\ Ttl \div 2 >= 1
  OBVIOUS
<1>2. HeldDelay \in Nat /\ HeldDelay >= 1
  BY <1>1 DEF HeldDelay
<1>3. ASSUME NEW g \in Nat PROVE GrantDelay(g) \in Nat /\ GrantDelay(g) >= 1
  <2>1. g \div 2 \in Nat
    OBVIOUS
  <2> QED
    BY <1>1, <2>1 DEF GrantDelay
<1> QED
  BY <1>2, <1>3

LEMMA BurstInit == Init => BurstInv
<1> SUFFICES ASSUME Init PROVE BurstInv
  OBVIOUS
<1>1. burst = 0 /\ pc = "wait"
  BY DEF Init
<1>2. zeroStreak <= 1
  BY DEF Init
<1> QED
  BY <1>1, <1>2, LeftRange DEF BurstInv

LEMMA BurstSucceeded ==
    ASSUME Second >= 2, HeartbeatInv, BurstInv, Succeeded
    PROVE  BurstInv'
<1>1. /\ burst' = burst /\ burst \in Nat /\ burst + Left <= 5 /\ prevWindow' = None
      /\ zeroStreak \in 0..1 /\ Grant \in Nat /\ reply.remaining \in Nat \cup {None}
  BY DEF Grant, Succeeded, Received, OnValidSuccess, BurstInv, HeartbeatInv, TypeOK
<1>2. CASE reply.remaining = None
  <2>1. pc' = "wait" /\ clock' >= 1 /\ clock' \in Nat /\ zeroStreak' = zeroStreak
    BY <1>1, <1>2, PausesTakeTime DEF Succeeded
  <2> QED
    BY <1>1, <2>1, LeftRange DEF BurstInv
<1>3. CASE reply.remaining # None
  <2>1. OnValidSuccess(reply.remaining, clock)
    BY <1>3 DEF Succeeded
  <2>2. \/ pc' = "wait" /\ clock' \in Int /\ clock' > 0 /\ zeroStreak' = 0
        \/ pc' = "stopped"
        \/ pc' = "wait" /\ zeroStreak = 0 /\ zeroStreak' = 1
    <3> DEFINE slack == Larger(0, reply.remaining - clock) - RetryReserve(Larger(rttMax, clock))
    <3>1. slack \in Int
      BY <1>1, <1>3 DEF RetryReserve, HeartbeatInv, TypeOK
    <3>2. IF slack > 0 THEN zeroStreak' = 0 /\ Sleep(slack)
          ELSE /\ zeroStreak' = zeroStreak + 1
               /\ IF zeroStreak + 1 >= 2 THEN Stop ELSE Sleep(0)
      BY <2>1 DEF OnValidSuccess
    <3> HIDE DEF slack
    <3> QED
      BY <1>1, <3>1, <3>2
  <2>3. zeroStreak = 0 => burst <= 2
    BY <1>1 DEF Left
  <2>4. zeroStreak' = 1 => Left' = 2
    BY <1>1 DEF Left, Progress
  <2> QED
    BY <1>1, <2>2, <2>3, <2>4, LeftRange DEF BurstInv
<1> QED
  BY <1>2, <1>3

LEMMA BurstFailed ==
    ASSUME Second >= 2, HeartbeatInv, BurstInv, Failed
    PROVE  BurstInv'
<1>1. /\ burst' = burst /\ burst \in Nat /\ burst + Left <= 5 /\ zeroStreak' = zeroStreak
      /\ zeroStreak \in 0..1 /\ delay \in Nat /\ (~ authoritative => delay >= 1)
  BY DEF Failed, Received, OnTransientFailure, BurstInv, HeartbeatInv, TypeOK
<1>2. CASE ~ authoritative
  <2>1. pc' = "wait" /\ clock' \in Nat /\ clock' >= 1
    BY <1>1, <1>2, PausesTakeTime DEF Failed
  <2> QED
    BY <1>1, <2>1, LeftRange DEF BurstInv
<1>3. CASE authoritative
  <2>1. OnTransientFailure(reply.kind = "limited", reply.remaining)
    BY <1>3 DEF Failed
  <2>2. CASE pc' = "stopped"
    BY <1>1, <2>2, LeftRange DEF BurstInv
  <2>3. CASE pc' # "stopped"
    <3>1. /\ prevWindow = None \/ RetryWindow < prevWindow
          /\ prevWindow' = RetryWindow /\ pc' = "wait" /\ UNCHANGED <<rttMax, lead>>
      <4>1. RetryWindow \in Int
        BY DEF RetryWindow, HeartbeatInv, TypeOK
      <4>2. prevWindow = None \/ prevWindow \in Nat
        BY DEF HeartbeatInv, TypeOK
      <4> QED
        BY <2>1, <2>3, <4>1, <4>2 DEF OnTransientFailure
    <3>2. RetryWindow' = RetryWindow /\ RetryWindow \in Nat
      <4>1. RetryWindow >= 0 /\ RetryWindow \in Int
        BY <2>1, <2>3 DEF OnTransientFailure, RetryWindow, HeartbeatInv, TypeOK
      <4> QED
        BY <3>1, <4>1 DEF RetryWindow
    <3>3. Progress /\ ~ Progress'
      BY <3>1, <3>2 DEF Progress
    <3>4. Left' = Left - 1
      BY <1>1, <3>3 DEF Left
    <3> QED
      BY <1>1, <3>1, <3>4, LeftRange DEF BurstInv
  <2> QED
    BY <2>2, <2>3
<1> QED
  BY <1>2, <1>3

LEMMA BurstNext ==
    ASSUME Second >= 2, HeartbeatInv, BurstInv, [Next]_vars
    PROVE  BurstInv'
<1> USE DEF BurstInv
<1>1. CASE UNCHANGED vars
  BY <1>1, LeftSame DEF vars
<1>2. CASE Tick
  <2>1. burst' = 0 /\ pc' = pc /\ zeroStreak' = zeroStreak /\ UNCHANGED <<delay, authoritative>>
    BY <1>2 DEF Tick
  <2>2. burst' + Left' <= 4 /\ burst' + Left' <= 5 /\ burst' <= 4
    BY <2>1 DEF Left
  <2>3. pc \in {"wait", "sent", "stopped"}
    BY DEF HeartbeatInv, TypeOK
  <2> QED
    BY <2>1, <2>2, <2>3
<1>3. CASE Skip
  <2>1. ~ authoritative /\ pc' = "wait" /\ clock' = NextDelay /\ UNCHANGED <<burst, zeroStreak>>
        /\ pc = "wait"
    BY <1>3 DEF Skip, LeadSuffices
  <2>2. NextDelay \in Nat /\ NextDelay >= 1
    BY <2>1, PausesTakeTime DEF NextDelay, HeartbeatInv, TypeOK
  <2> QED
    BY <2>1, <2>2
<1>4. CASE Attempt
  <2>1. /\ pc = "wait" /\ clock <= 0 /\ pc' = "sent" /\ burst' = burst + 1 /\ delay' = NextDelay
        /\ UNCHANGED <<authoritative, zeroStreak>> /\ Left' = Left
    BY <1>4, LeftSame DEF Attempt
  <2>2. burst \in Nat /\ burst + Left <= 4
    BY <2>1 DEF HeartbeatInv, TypeOK
  <2>3. ~ authoritative => NextDelay >= 1
    BY PausesTakeTime DEF NextDelay, HeartbeatInv, TypeOK
  <2> QED
    BY <2>1, <2>2, <2>3, LeftRange
<1>5. CASE Serve \/ Fail \/ LateArrival
  <2>1. UNCHANGED <<pc, clock, delay, authoritative, rttMax, lead, zeroStreak, prevWindow, burst>>
    BY <1>5 DEF Serve, Fail, LateArrival
  <2> QED
    BY <2>1, LeftSame
<1>6. CASE Succeeded
  BY <1>6, BurstSucceeded
<1>7. CASE Failed
  BY <1>7, BurstFailed
<1>8. CASE Rejected
  <2>1. /\ pc = "sent" /\ UNCHANGED <<burst, zeroStreak>> /\ burst \in Nat
        /\ \/ pc' = "stopped"
           \/ ~ authoritative /\ pc' = "wait" /\ clock' = delay
    BY <1>8 DEF Rejected, Received, HeartbeatInv, TypeOK
  <2>2. delay \in Nat
    BY DEF HeartbeatInv, TypeOK
  <2> QED
    BY <2>1, <2>2, LeftRange
<1>9. CASE CallEnds
  BY <1>9 DEF CallEnds
<1> QED
  BY <1>1, <1>2, <1>3, <1>4, <1>5, <1>6, <1>7, <1>8, <1>9 DEF Next

(* If half a second is at least a tick, no answers, failures or changes of *)
(* regime make the loop begin more than four attempts without time         *)
(* passing (lifecycle.py:512-518, 974-978).                                *)
THEOREM NoHotLoop ==
    ASSUME Second >= 2
    PROVE  Spec => []BoundedBurst
<1>1. HeartbeatInv /\ BurstInv /\ [Next]_vars => BurstInv'
  BY BurstNext
<1>2. BurstInv => BoundedBurst
  BY DEF BurstInv, BoundedBurst
<1> QED
  BY <1>1, <1>2, BurstInit, HeartbeatInvariance, PTL DEF Spec

-------------------------------------------------------------------------------
(* The steady fallback.                                                    *)

(* Every answer comes in time and omits remaining_ttl_ms, every extension  *)
(* adds ttl_ms, up to a cap of three and a half of them; and what a beat   *)
(* leaves of a grant covers two attempts and a late sleep.                 *)
Steady ==
    /\ Reports = {FALSE} /\ Faults = {} /\ Grants = {Ttl}
    /\ 2 * MaxLease >= 7 * Ttl
    /\ Ttl - (Ttl \div 2) >= 2 * TimeoutBudget + MaxOverrun

(* There are no failures to recover from, so no request is on its way when *)
(* an attempt starts.                                                      *)
NoFailureInv ==
    /\ ~authoritative /\ ~straggler
    /\ reply.kind \in {"none", "ok", "permanent"}
    /\ reply.remaining = None
    /\ applied => reply.kind = "ok"

(* The loop asks for more only while it knows of less than one and a half  *)
(* grants, so that a grant is cut short only by a lease that has a whole   *)
(* one to spare over what the loop knows: assuming the first to be whole   *)
(* overestimates nothing.                                                  *)
Spare == lease >= leadMin + unseen + Ttl

GrantInv ==
    /\ lastGrant \in {None} \cup 0..Ttl
    /\ lastGrant = None => leadMin <= 0
    /\ leadMin + unseen <= lease
    /\ pc = "sent" => 2 * leadMin < 3 * Ttl
    /\ reply.kind = "ok" =>
          reply.grant = unseen /\ unseen <= Ttl /\ (unseen = Ttl \/ Spare)
    /\ lastGrant \notin {None, Ttl} => Spare

(* A lease that was just extended lasts for a beat, a late sleep and two   *)
(* attempts: the one that brings the answer and the next.                  *)
BeatInv ==
    /\ delay <= Ttl \div 2
    /\ reply.kind = "ok" => lease >= 1 + Ttl - clock
    /\ lastGrant # None /\ pc = "wait" =>
          lease >= 1 + Ttl - TimeoutBudget - (Ttl \div 2) + clock
    /\ lastGrant # None /\ pc = "sent" /\ reply.kind # "ok" =>
          lease >= 1 + Ttl - TimeoutBudget - (Ttl \div 2) - MaxOverrun - clock

SteadyInv == pc # "stopped" => NoFailureInv /\ GrantInv /\ BeatInv

LEMMA SteadyInit == ASSUME Steady, Init PROVE SteadyInv
<1>1. ~authoritative /\ clock = 0
  BY DEF Init, Steady
<1>2. NoFailureInv
  BY <1>1 DEF Init, NoFailureInv
<1>3. GrantInv
  BY DEF Init, GrantInv
<1>4. BeatInv
  BY <1>1 DEF Init, BeatInv
<1> QED
  BY <1>2, <1>3, <1>4 DEF SteadyInv

(* What the arithmetic of a beat needs of the constants.                   *)
LEMMA SteadyNumbers ==
    ASSUME Steady
    PROVE  /\ Ttl \div 2 \in Nat /\ 2 * (Ttl \div 2) <= Ttl /\ Ttl >= 1
           /\ Ttl - (Ttl \div 2) >= 2 * TimeoutBudget + MaxOverrun
           /\ 2 * MaxLease >= 7 * Ttl /\ MaxLease >= Ttl + 1
           /\ HeldDelay \in Nat /\ HeldDelay <= Ttl \div 2
           /\ \A g : GrantDelay(g) <= Ttl \div 2
  BY DEF Steady, HeldDelay, GrantDelay

LEMMA SteadyTick ==
    ASSUME Steady, HeartbeatInv, SteadyInv, Tick PROVE SteadyInv'
<1>1. /\ pc \in {"wait", "sent"} /\ NoFailureInv /\ GrantInv /\ BeatInv
      /\ pc' = pc /\ clock \in Int /\ lease \in Nat /\ unseen \in Nat /\ leadMin \in Int
      /\ unseen <= MaxLease
      /\ UNCHANGED <<delay, reply, applied, straggler, unseen, authoritative, lastGrant>>
      /\ lease' = Larger(0, lease - 1) /\ leadMin' = Larger(-2 * MaxLease, leadMin - 1)
  <2>1. pc \in {"wait", "sent"}
    BY DEF Tick
  <2>2. NoFailureInv /\ GrantInv /\ BeatInv
    BY <2>1 DEF SteadyInv
  <2>3. clock \in Int /\ lease \in Nat /\ unseen \in Nat /\ leadMin \in Int
        /\ unseen <= MaxLease
    BY DEF HeartbeatInv, TypeOK, LeaseInv
  <2> QED
    BY <2>1, <2>2, <2>3 DEF Tick
<1>2. \/ pc = "wait" /\ clock' = clock - 1
      \/ pc = "sent" /\ clock' = clock + 1
  BY Zenon DEF Tick
<1>3. /\ NoFailureInv'
  BY <1>1 DEF NoFailureInv
<1>4. GrantInv'
  <2>1. Spare => Spare'
    BY <1>1, SteadyNumbers DEF Spare
  <2>2. leadMin' <= Larger(-1, leadMin)
    BY <1>1, SteadyNumbers
  <2>3. leadMin' + unseen <= lease'
    BY <1>1, SteadyNumbers DEF GrantInv
  <2> QED
    BY <1>1, <2>1, <2>2, <2>3, SteadyNumbers DEF GrantInv
<1>5. BeatInv'
  <2>1. lease' >= lease - 1 /\ lease' \in Nat
    BY <1>1
  <2>2. reply.kind = "ok" => pc = "sent"
    BY DEF HeartbeatInv, AnswerInv
  <2> QED
    BY <1>1, <1>2, <2>1, <2>2, SteadyNumbers DEF BeatInv
<1> QED
  BY <1>3, <1>4, <1>5 DEF SteadyInv

(* A skipped beat: the lease is a whole grant and a half.                  *)
LEMMA SteadySkip ==
    ASSUME Steady, HeartbeatInv, SteadyInv, Skip PROVE SteadyInv'
<1>1. /\ pc = "wait" /\ pc' = "wait" /\ NoFailureInv /\ GrantInv /\ BeatInv
      /\ clock' = delay' /\ delay' = NextDelay /\ clock \in Int /\ delay \in Nat
      /\ lease \in Nat /\ unseen \in Nat /\ leadMin \in Int
      /\ leadMin + unseen <= lease /\ reply.kind = "none"
      /\ UNCHANGED <<reply, lease, applied, straggler, unseen, authoritative,
                     leadMin, lastGrant>>
  BY DEF GrantInv, Skip, SteadyInv, HeartbeatInv, TypeOK, LeaseInv, AnswerInv
<1>2. lastGrant \in 0..Ttl /\ 2 * leadMin >= 3 * lastGrant
  BY <1>1 DEF Skip, LeadSuffices, GrantInv
<1>3. lease >= Ttl /\ (lastGrant = Ttl => 2 * lease >= 3 * Ttl)
  BY <1>1, <1>2 DEF GrantInv, Spare
<1>4. delay' \in Nat /\ delay' <= Ttl \div 2
  BY <1>1, SteadyNumbers DEF NextDelay, BeatInv
<1>5. NoFailureInv' /\ GrantInv'
  BY <1>1 DEF NoFailureInv, GrantInv, Spare
<1>6. BeatInv'
  BY <1>1, <1>3, <1>4, SteadyNumbers DEF BeatInv
<1> QED
  BY <1>5, <1>6 DEF SteadyInv

LEMMA SteadyAttempt ==
    ASSUME Steady, HeartbeatInv, SteadyInv, Attempt PROVE SteadyInv'
<1>1. /\ pc = "wait" /\ pc' = "sent" /\ NoFailureInv /\ GrantInv /\ BeatInv
      /\ clock' = 0 /\ delay' = NextDelay /\ clock \in Int /\ clock >= -MaxOverrun
      /\ delay \in Nat /\ lease \in Nat /\ leadMin \in Int /\ reply.kind = "none"
      /\ UNCHANGED <<reply, lease, applied, straggler, unseen, authoritative,
                     leadMin, lastGrant>>
  BY DEF Attempt, SteadyInv, HeartbeatInv, TypeOK, LeaseInv, AnswerInv, ClockInv
<1>2. 2 * leadMin < 3 * Ttl
  <2>1. lastGrant = None \/ 2 * leadMin < 3 * lastGrant
    BY <1>1 DEF Attempt, LeadSuffices, NoFailureInv, GrantInv
  <2> QED
    BY <1>1, <2>1, SteadyNumbers DEF GrantInv
<1>3. delay' <= Ttl \div 2
  BY <1>1, SteadyNumbers DEF NextDelay, BeatInv
<1>4. NoFailureInv' /\ GrantInv'
  BY <1>1, <1>2 DEF NoFailureInv, GrantInv, Spare
<1>5. BeatInv'
  BY <1>1, <1>3, SteadyNumbers DEF BeatInv
<1> QED
  BY <1>4, <1>5 DEF SteadyInv

LEMMA SteadyServe ==
    ASSUME Steady, HeartbeatInv, SteadyInv, Serve PROVE SteadyInv'
<1>1. /\ pc = "sent" /\ pc' = "sent" /\ reply = NoReply
      /\ NoFailureInv /\ GrantInv /\ BeatInv /\ ~applied /\ unseen = 0
      /\ clock \in 0..TimeoutBudget /\ lease \in Nat /\ lease <= MaxLease /\ leadMin \in Int
      /\ UNCHANGED <<clock, delay, straggler, authoritative, leadMin, lastGrant>>
  BY DEF Serve, SteadyInv, HeartbeatInv, TypeOK, LeaseInv, ClockInv, NoFailureInv
<1>2. CASE lease = 0
  <2>1. UNCHANGED <<lease, applied, unseen>> /\ reply'.kind = "permanent"
        /\ reply'.remaining = None
    BY <1>2 DEF Serve
  <2> QED
    BY <1>1, <2>1 DEF SteadyInv, NoFailureInv, GrantInv, BeatInv, Spare
<1>3. CASE lease > 0
  <2>1. /\ reply'.kind = "ok" /\ reply'.grant = unseen' /\ reply'.remaining = None
        /\ lease' = lease + Smaller(Ttl, MaxLease - lease)
        /\ unseen' = Smaller(Ttl, MaxLease - lease)
    BY <1>1, <1>3 DEF Serve, Extend, Steady
  <2>2. /\ unseen' \in 0..Ttl /\ lease' >= 1 + Ttl
        /\ unseen' = Ttl \/ Spare'
        /\ Spare => Spare'
    <3>1. CASE Ttl <= MaxLease - lease
      BY <1>1, <1>3, <2>1, <3>1, SteadyNumbers DEF Spare
    <3>2. CASE Ttl > MaxLease - lease
      <4>1. lease' = MaxLease /\ unseen' = MaxLease - lease /\ unseen' < Ttl
        BY <1>1, <2>1, <3>2
      <4> QED
        BY <1>1, <4>1, SteadyNumbers DEF Spare, GrantInv
    <3> QED
      BY <1>1, <3>1, <3>2
  <2>3. NoFailureInv'
    BY <1>1, <2>1 DEF NoFailureInv
  <2>4. GrantInv'
    BY <1>1, <2>1, <2>2 DEF GrantInv
  <2>5. BeatInv'
    BY <1>1, <2>1, <2>2 DEF BeatInv
  <2> QED
    BY <2>3, <2>4, <2>5 DEF SteadyInv
<1> QED
  BY <1>1, <1>2, <1>3

LEMMA SteadySucceeded ==
    ASSUME Steady, HeartbeatInv, SteadyInv, Succeeded PROVE SteadyInv'
<1>1. /\ pc = "sent" /\ reply.kind = "ok" /\ reply.remaining = None
      /\ NoFailureInv /\ GrantInv /\ BeatInv
      /\ clock \in 0..TimeoutBudget /\ lease \in Nat /\ leadMin \in Int
      /\ reply.grant \in Nat /\ (baseline = "none" => leadMin <= 0)
  BY DEF LeaseInv, Succeeded, Received, SteadyInv, HeartbeatInv, TypeOK, ClockInv, NoFailureInv
<1>2. /\ pc' = "wait" /\ reply' = NoReply /\ applied' = FALSE /\ straggler' = FALSE
      /\ unseen' = 0 /\ leadMin' = leadMin + Grant /\ lastGrant' = Grant
      /\ authoritative' = FALSE /\ lease' = lease /\ clock' = delay'
      /\ delay' \in {HeldDelay, GrantDelay(Grant)}
  <2>1. authoritative' = FALSE
    BY <1>1 DEF Succeeded
  <2>2. /\ reply' = NoReply /\ applied' = FALSE /\ straggler' = FALSE /\ unseen' = 0
        /\ leadMin' = leadMin + Grant /\ lastGrant' = Grant /\ lease' = lease
    BY DEF Succeeded
  <2>3. Sleep(IF Clamping(Grant) THEN HeldDelay ELSE GrantDelay(Grant))
    BY <1>1 DEF Succeeded
  <2> HIDE DEF NoReply
  <2> QED
    BY <2>1, <2>2, <2>3
<1>3. delay' <= Ttl \div 2
  BY <1>2, SteadyNumbers
<1>4. NoFailureInv'
  BY <1>2 DEF NoFailureInv
<1>5. GrantInv'
  <2>1. Grant = reply.grant \/ (Grant = Ttl /\ leadMin <= 0)
    BY <1>1 DEF Grant
  <2> QED
    BY <1>1, <1>2, <2>1, SteadyNumbers DEF GrantInv, Spare
<1>6. BeatInv'
  <2>1. delay' \in Int
    BY NextInv DEF HeartbeatInv, TypeOK, Next
  <2>2. lease >= 1 + Ttl - clock /\ clock <= TimeoutBudget
    BY <1>1 DEF BeatInv
  <2>3. lease >= 1 + Ttl - TimeoutBudget - (Ttl \div 2) + delay'
    <3>1. ASSUME NEW l \in Int, NEW c \in Int, NEW d \in Int, NEW h \in Int,
                 l >= 1 + Ttl - c, c <= TimeoutBudget, d <= h
          PROVE  l >= 1 + Ttl - TimeoutBudget - h + d
      BY <3>1
    <3>2. PICK half \in Int : half = Ttl \div 2
      BY SteadyNumbers
    <3>3. lease \in Int /\ clock \in Int /\ delay' <= half
      BY <1>1, <1>3, <3>2
    <3>4. lease >= 1 + Ttl - TimeoutBudget - half + delay'
      BY <2>1, <2>2, <3>1, <3>3
    <3> QED
      BY Zenon, <3>2, <3>4
  <2>4. reply'.kind = "none"
    BY <1>2
  <2> QED
    BY <1>2, <1>3, <2>3, <2>4 DEF BeatInv
<1> QED
  BY <1>4, <1>5, <1>6 DEF SteadyInv

LEMMA SteadyNext ==
    ASSUME Steady, HeartbeatInv, SteadyInv, [Next]_vars PROVE SteadyInv'
<1>1. CASE UNCHANGED vars
  BY <1>1 DEF vars, SteadyInv, NoFailureInv, GrantInv, BeatInv, Spare
<1>2. CASE Fail \/ LateArrival \/ Failed
  <2>1. pc = "stopped" => pc' = "stopped"
    BY <1>2 DEF Fail, LateArrival, Failed, Received
  <2> QED
    BY <1>2, <2>1 DEF Fail, LateArrival, Failed, Received, Steady, SteadyInv, NoFailureInv
<1>3. CASE Rejected \/ CallEnds
  BY <1>3 DEF Rejected, CallEnds, Received, SteadyInv, NoFailureInv
<1> QED
  BY <1>1, <1>2, <1>3, SteadyTick, SteadySkip, SteadyAttempt, SteadyServe,
     SteadySucceeded DEF Next

(* A server that omits remaining_ttl_ms is kept alive by beats of half a   *)
(* grant: for every ttl_ms, deadline and overrun that the pause leaves     *)
(* room for, the lease never lapses once the first grant is known          *)
(* (lifecycle.py:918-926, 1064).                                           *)
THEOREM SteadyFallbackHeld ==
    ASSUME Steady
    PROVE  Spec => []FallbackHeld
<1>1. Init => SteadyInv
  BY SteadyInit
<1>2. HeartbeatInv /\ SteadyInv /\ [Next]_vars => SteadyInv'
  BY SteadyNext
<1>3. HeartbeatInv /\ SteadyInv => FallbackHeld
  <2> SUFFICES ASSUME HeartbeatInv, SteadyInv, pc # "stopped", lastGrant # None
               PROVE  lease > 0
    BY DEF FallbackHeld
  <2>1. /\ pc \in {"wait", "sent"} /\ lease \in Nat /\ clock \in Int /\ BeatInv
        /\ (pc = "sent" => clock <= TimeoutBudget)
        /\ (pc = "wait" => clock >= -MaxOverrun)
    BY DEF HeartbeatInv, TypeOK, ClockInv, SteadyInv
  <2> QED
    BY <2>1, SteadyNumbers DEF BeatInv
<1> QED
  BY <1>1, <1>2, <1>3, HeartbeatInvariance, PTL DEF Spec
===============================================================================
