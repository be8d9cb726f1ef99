------------------------------ MODULE Heartbeat ------------------------------
(***************************************************************************)
(* The heartbeat that keeps a reservation's lease alive while the guarded  *)
(* action runs, against a server whose lease runs down in real time.       *)
(*                                                                         *)
(* Time is discrete.  Every clock is kept as a countdown or an age that    *)
(* Tick moves, so "now" itself is not a variable: lease is what the server *)
(* really has left, lead is the client's lead_estimate_ms of it.           *)
(*                                                                         *)
(* A server that reports remaining_ttl_ms is scheduled by the              *)
(* _AuthoritativeScheduler; one that omits it, by measured grants.  The    *)
(* same loop runs in four places (sync and async lifecycle, sync and async *)
(* stream).                                                                *)
(***************************************************************************)
EXTENDS Integers

CONSTANTS
    Second,         \* ticks in 1000 ms
    TimeoutBudget,  \* _timeout_budget_ms: the deadline of one attempt
    Ttl,            \* ttl_ms, which is also extend_by_ms
    MaxDelay,       \* the 30_000 ms cap on delays
    MaxOverrun,     \* how late a sleep may return
    MaxLease,       \* the longest lease the server gives
    Grants,         \* what an extension may add to a lease
    Reports,        \* subset of BOOLEAN: may a success carry remaining_ttl_ms?
    CreateTells,    \* subset of BOOLEAN: may the create carry expires_at_ms?
    RetryAfters,    \* the Retry-After values of a 429
    Faults          \* which failures happen: subset of Failure

(* A schema-invalid 2xx; a 5xx, transport error or timeout; a 429; and any  *)
(* other status that is neither a success nor permanent.                   *)
Failure == {"ambiguous", "error", "limited", "client"}
None == -1

ASSUME HeartbeatAssumption ==
    /\ Second \in Nat \ {0} /\ TimeoutBudget \in Nat \ {0}
    /\ Ttl \in Nat /\ Ttl >= Second
    /\ MaxDelay \in Nat \ {0}
    /\ MaxOverrun \in Nat
    /\ MaxLease \in Nat \ {0}
    /\ Grants \subseteq Nat
    /\ Reports \subseteq BOOLEAN
    /\ CreateTells \subseteq BOOLEAN
    /\ RetryAfters \subseteq Nat
    /\ Faults \subseteq Failure

VARIABLES
    pc,            \* "wait", "sent" or "stopped"
    clock,         \* ticks until the sleep ends, or the age of the attempt
    delay,         \* delay_ms
    reply,         \* the answer on its way back to the heartbeat, or NoReply
    lease,         \* the server's lease, in ticks from now
    applied,       \* the pending key's extension is in the lease
    straggler,     \* an unanswered request of the pending key is on its way
    unseen,        \* grants in the lease that the client has not been told of
    authoritative, \* the last success carried remaining_ttl_ms
    rttMax, lead, zeroStreak, prevWindow,       \* _AuthoritativeScheduler
    leadMin, lastGrant, sinceSuccess,           \* the measured-grant fallback
    baseline,      \* what prev_expiry is: the create's expires_at_ms, or "none",
                   \* or that of an extension whose own grant was "assumed"
    burst          \* history: attempts begun since time last passed

sched    == <<rttMax, lead, zeroStreak, prevWindow>>
fallback == <<leadMin, lastGrant, sinceSuccess, baseline>>
server   == <<lease, applied, straggler, unseen>>
vars == <<pc, clock, delay, reply, lease, applied, straggler, unseen, authoritative,
          rttMax, lead, zeroStreak, prevWindow, leadMin, lastGrant,
          sinceSuccess, baseline, burst>>

Larger(x, y)  == IF x >= y THEN x ELSE y
Smaller(x, y) == IF x <= y THEN x ELSE y

NoReply == [kind |-> "none", remaining |-> None, grant |-> 0]
Reply == [kind: {"none", "ok", "permanent"} \cup Failure,
          remaining: Nat \cup {None}, grant: Nat]

TypeOK ==
    /\ pc \in {"wait", "sent", "stopped"}
    /\ clock \in Int /\ delay \in Nat
    /\ reply \in Reply
    /\ lease \in Nat /\ unseen \in Nat
    /\ applied \in BOOLEAN /\ straggler \in BOOLEAN
    /\ authoritative \in BOOLEAN
    /\ rttMax \in Nat /\ lead \in Nat /\ zeroStreak \in Nat
    /\ prevWindow \in Nat \cup {None}
    /\ leadMin \in Int /\ lastGrant \in Nat \cup {None} /\ sinceSuccess \in Nat
    /\ baseline \in {"create", "none", "assumed"}
    /\ burst \in Nat

-------------------------------------------------------------------------------
(* The scheduler.                                                          *)

(* Definitions marked "Slip" are plausible mistakes in the definition that *)
(* follows them.  No action uses them: they show what each property sees.  *)

AttemptBudget(rtt) == Larger(TimeoutBudget, Larger(Second, 2 * rtt))
SafetyMargin(rtt)  == Larger(Second, 2 * rtt)

RetryReserve(rtt)  == 2 * AttemptBudget(rtt) + SafetyMargin(rtt)
HeldDelay == Smaller(Ttl \div 2, MaxDelay)

Sleep(d) == pc' = "wait" /\ clock' = d /\ delay' = d
Stop     == pc' = "stopped" /\ clock' = 0 /\ delay' = 0

(* Slip: the time the answer took to come back is not deducted.            *)
OnValidSuccessIgnoringRtt(remaining, rtt) ==
    LET slack == remaining - RetryReserve(Larger(rttMax, rtt))
    IN /\ rttMax' = Larger(rttMax, rtt)
       /\ lead' = remaining
       /\ prevWindow' = None
       /\ IF slack > 0 THEN zeroStreak' = 0 /\ Sleep(slack)
          ELSE /\ zeroStreak' = zeroStreak + 1
               /\ IF zeroStreak + 1 >= 2 THEN Stop ELSE Sleep(0)

(* on_valid_success: sleep until only the retry reserve is left.  A lease  *)
(* too short to hold it gets one immediate attempt, then the loop ends.    *)
OnValidSuccess(remaining, rtt) ==
    LET slack == Larger(0, remaining - rtt) - RetryReserve(Larger(rttMax, rtt))
    IN /\ rttMax' = Larger(rttMax, rtt)
       /\ lead' = Larger(0, remaining - rtt)
       /\ prevWindow' = None
       /\ IF slack > 0 THEN zeroStreak' = 0 /\ Sleep(slack)
          ELSE /\ zeroStreak' = zeroStreak + 1
               /\ IF zeroStreak + 1 >= 2 THEN Stop ELSE Sleep(0)

(* Slip: the retry may use up the safety margin.                           *)
RetryWindowWithoutMargin == lead - AttemptBudget(rttMax)

RetryWindow == lead - AttemptBudget(rttMax) - SafetyMargin(rttMax)

(* Slip: no progress guard.                                                *)
OnTransientFailureUnguarded(limited, retryAfter) ==
    /\ UNCHANGED <<rttMax, lead, zeroStreak>>
    /\ IF RetryWindow < 0
       THEN Stop /\ UNCHANGED prevWindow
       ELSE /\ prevWindow' = RetryWindow
            /\ IF ~limited
               THEN Sleep(Smaller(MaxDelay, Smaller(lead \div 4, RetryWindow)))
               ELSE IF retryAfter = None \/ retryAfter > RetryWindow
                    THEN Stop ELSE Sleep(retryAfter)

(* on_transient_failure: retry with the same key while the window is open  *)
(* and shrinking; a Retry-After beyond the window ends the loop.           *)
OnTransientFailure(limited, retryAfter) ==
    /\ UNCHANGED <<rttMax, lead, zeroStreak>>
    /\ IF RetryWindow < 0 \/ (prevWindow # None /\ RetryWindow >= prevWindow)
       THEN Stop /\ UNCHANGED prevWindow
       ELSE /\ prevWindow' = RetryWindow
            /\ IF ~limited
               THEN Sleep(Smaller(MaxDelay, Smaller(lead \div 4, RetryWindow)))
               ELSE IF retryAfter = None \/ retryAfter > RetryWindow
                    THEN Stop ELSE Sleep(retryAfter)

-------------------------------------------------------------------------------
(* The loop starts after a create whose answer left the server with        *)
(* remaining ticks, took transit of its rtt to come back, and was followed *)
(* by setup ticks of local work.  The answer need not carry expires_at_ms. *)
Init ==
    /\ \E remaining \in 1..MaxLease, rtt \in 0..TimeoutBudget, setup \in 0..1,
          reported \in Reports :
          \E transit \in 0..rtt :
             LET left  == Larger(0, Larger(0, remaining - setup) - rtt)
                 slack == left - RetryReserve(rtt)
             IN /\ lease = remaining - transit - setup /\ lease > 0
                /\ authoritative = reported
                /\ rttMax = rtt
                /\ lead = IF reported THEN left ELSE 0
                /\ zeroStreak = IF reported /\ slack <= 0 THEN 1 ELSE 0
                /\ clock = IF reported /\ slack > 0 THEN slack ELSE 0
    /\ pc = "wait" /\ delay = clock /\ reply = NoReply
    /\ applied = FALSE /\ straggler = FALSE /\ unseen = 0 /\ prevWindow = None
    /\ leadMin = 0 /\ lastGrant = None /\ sinceSuccess = 0 /\ burst = 0
    /\ \E tells \in CreateTells : baseline = IF tells THEN "create" ELSE "none"

(* Slip: the lead is not floored at 0.                                     *)
TickBelowZero ==
    /\ \/ pc = "wait" /\ clock > -MaxOverrun /\ clock' = clock - 1
       \/ pc = "sent" /\ clock < TimeoutBudget /\ clock' = clock + 1
    /\ lease' = Larger(0, lease - 1)
    /\ lead' = lead - 1
    /\ leadMin' = Larger(-2 * MaxLease, leadMin - 1)
    /\ sinceSuccess' = Smaller(sinceSuccess + 1, 2 * Ttl)
    /\ burst' = 0
    /\ UNCHANGED <<pc, delay, reply, applied, straggler, unseen, authoritative, rttMax,
                   zeroStreak, prevWindow, lastGrant, baseline>>

(* A sleep ends at most MaxOverrun late; an attempt ends by its deadline.  *)
Tick ==
    /\ \/ pc = "wait" /\ clock > -MaxOverrun /\ clock' = clock - 1
       \/ pc = "sent" /\ clock < TimeoutBudget /\ clock' = clock + 1
    /\ lease' = Larger(0, lease - 1)
    /\ lead' = Larger(0, lead - 1)
    /\ leadMin' = Larger(-2 * MaxLease, leadMin - 1)
    /\ sinceSuccess' = Smaller(sinceSuccess + 1, 2 * Ttl)
    /\ burst' = 0
    /\ UNCHANGED <<pc, delay, reply, applied, straggler, unseen, authoritative, rttMax,
                   zeroStreak, prevWindow, lastGrant, baseline>>

(* In the fallback a lead of 1.5 grants lets the loop skip a beat.         *)
LeadSuffices ==
    ~authoritative /\ lastGrant # None /\ 2 * leadMin >= 3 * lastGrant

NextDelay == IF ~authoritative /\ delay = 0 THEN HeldDelay ELSE delay

Skip ==
    /\ pc = "wait" /\ clock <= 0 /\ LeadSuffices
    /\ Sleep(NextDelay)
    /\ UNCHANGED <<reply, server, authoritative, sched, fallback, burst>>

(* One extend request with the pending key, fresh or not.                  *)
Attempt ==
    /\ pc = "wait" /\ clock <= 0 /\ ~LeadSuffices
    /\ pc' = "sent" /\ clock' = 0 /\ delay' = NextDelay
    /\ burst' = burst + 1
    /\ UNCHANGED <<reply, server, authoritative, sched, fallback>>

-------------------------------------------------------------------------------
(* The server (external).  An extension is applied once per key, adds to   *)
(* the lease up to MaxLease, and the answer tells what is left right now.  *)

Extend ==
    \/ applied /\ UNCHANGED <<lease, applied, unseen>>
    \/ /\ ~applied /\ lease > 0
       /\ \E g \in Grants :
             LET grant == Smaller(g, MaxLease - lease) IN
             /\ lease' = lease + grant
             /\ unseen' = unseen + grant
       /\ applied' = TRUE

Serve ==
    /\ pc = "sent" /\ reply = NoReply
    /\ UNCHANGED straggler
    /\ \/ /\ lease > 0 /\ Extend
          /\ \E reported \in Reports :
                reply' = [kind |-> "ok", grant |-> unseen',
                          remaining |-> IF reported THEN lease' ELSE None]
       \/ /\ lease = 0 /\ UNCHANGED <<lease, applied, unseen>>
          /\ reply' = [NoReply EXCEPT !.kind = "permanent"]
    /\ UNCHANGED <<pc, clock, delay, authoritative, sched, fallback, burst>>

(* An attempt that fails may have been, or may still be, applied.          *)
Fail ==
    /\ pc = "sent" /\ reply.kind \in {"none", "ok"}
    /\ \E f \in Faults, retryAfter \in RetryAfters \cup {None} :
          /\ f # "limited" => retryAfter = None
          /\ reply' = [kind |-> f, remaining |-> retryAfter, grant |-> 0]
    /\ straggler' = (~applied)
    /\ UNCHANGED <<pc, clock, delay, lease, applied, unseen, authoritative,
                   sched, fallback, burst>>

(* The request of a failed attempt arrives late.                           *)
LateArrival ==
    /\ straggler /\ straggler' = FALSE
    /\ lease > 0 /\ Extend
    /\ UNCHANGED <<pc, clock, delay, reply, authoritative, sched, fallback,
                   burst>>

-------------------------------------------------------------------------------
(* What the loop does with an answer.                                      *)

Received(kind) == pc = "sent" /\ reply.kind = kind

(* A grant that mirrors elapsed time says nothing about the lease.         *)
Clamping(grant) ==
    \/ grant <= 0
    \/ /\ 10 * grant < 9 * Ttl
       /\ 3 * sinceSuccess <= 4 * grant /\ 4 * grant <= 5 * sinceSuccess

(* Slip: the next beat is due when the grant has run out.                  *)
GrantDelayWhole(grant) == Smaller(Larger(grant, Second \div 2), Ttl)

GrantDelay(grant) == Smaller(Larger(grant \div 2, Second \div 2), Ttl \div 2)

(* The grant is the distance between two expiries; without a first one it  *)
(* is taken to be what was asked for.                                      *)
Grant == IF baseline = "none" THEN Ttl ELSE reply.grant

(* Slip: an unknown expiry is not replaced by the one that was granted.    *)
SucceededForgettingExpiry ==
    /\ Received("ok")
    /\ reply' = NoReply
    /\ applied' = FALSE /\ straggler' = FALSE /\ unseen' = 0   \* a new key
    /\ leadMin' = leadMin + (IF baseline = "create" THEN reply.grant ELSE Ttl)
    /\ lastGrant' = (IF baseline = "create" THEN reply.grant ELSE Ttl)
    /\ sinceSuccess' = 0
    /\ baseline' = IF baseline = "none" THEN "assumed" ELSE baseline
    /\ authoritative' = (reply.remaining # None)
    /\ IF reply.remaining # None
       THEN OnValidSuccess(reply.remaining, clock)
       ELSE /\ rttMax' = Larger(rttMax, clock)
            /\ Sleep(IF Clamping(Grant) THEN HeldDelay ELSE GrantDelay(Grant))
            /\ lead' = 0 /\ prevWindow' = None   \* not read in the fallback
            /\ UNCHANGED zeroStreak
    /\ UNCHANGED <<lease, burst>>

Succeeded ==
    /\ Received("ok")
    /\ reply' = NoReply
    /\ applied' = FALSE /\ straggler' = FALSE /\ unseen' = 0   \* a new key
    /\ leadMin' = leadMin + Grant
    /\ lastGrant' = Grant
    /\ sinceSuccess' = 0
    /\ baseline' = IF baseline = "none" THEN "assumed" ELSE baseline
    /\ authoritative' = (reply.remaining # None)
    /\ IF reply.remaining # None
       THEN OnValidSuccess(reply.remaining, clock)
       ELSE /\ rttMax' = Larger(rttMax, clock)
            /\ Sleep(IF Clamping(Grant) THEN HeldDelay ELSE GrantDelay(Grant))
            /\ lead' = 0 /\ prevWindow' = None   \* not read in the fallback
            /\ UNCHANGED zeroStreak
    /\ UNCHANGED <<lease, burst>>

(* Slip: every attempt gets a fresh key.                                   *)
FailedRotatingKey ==
    /\ \/ Received("ambiguous") \/ Received("error") \/ Received("limited")
    /\ reply' = NoReply
    /\ IF authoritative
       THEN OnTransientFailure(reply.kind = "limited", reply.remaining)
       ELSE /\ Sleep(IF reply.kind = "ambiguous" THEN HeldDelay ELSE delay)
            /\ UNCHANGED sched
    /\ applied' = FALSE
    /\ UNCHANGED <<lease, straggler, unseen, authoritative, fallback, burst>>

Failed ==
    /\ \/ Received("ambiguous") \/ Received("error") \/ Received("limited")
    /\ reply' = NoReply
    /\ IF authoritative
       THEN OnTransientFailure(reply.kind = "limited", reply.remaining)
       ELSE /\ Sleep(IF reply.kind = "ambiguous" THEN HeldDelay ELSE delay)
            /\ UNCHANGED sched
    /\ UNCHANGED <<server, authoritative, fallback, burst>>

(* 404, 410 and the permanent codes end the loop in either mode; any other *)
(* client error only when the server is authoritative.                     *)
Rejected ==
    /\ \/ Received("permanent") \/ Received("client")
    /\ reply' = NoReply
    /\ IF reply.kind = "permanent" \/ authoritative THEN Stop ELSE Sleep(delay)
    /\ UNCHANGED <<server, authoritative, sched, fallback, burst>>

(* The guarded call ends: stop_event.                                      *)
CallEnds ==
    /\ pc # "stopped" /\ Stop
    /\ reply' = NoReply
    /\ UNCHANGED <<server, authoritative, sched, fallback, burst>>

Next ==
    \/ Tick \/ Skip \/ Attempt \/ Serve \/ Fail \/ LateArrival
    \/ Succeeded \/ Failed \/ Rejected \/ CallEnds

Spec == Init /\ [][Next]_vars

-------------------------------------------------------------------------------
(* Properties.                                                             *)

(* The lead the scheduler works with never exceeds what the server has     *)
(* left, whatever part of a round trip, of local setup or of a lost answer *)
(* separates the two (lifecycle.py:521-527, AUDIT.md:77-85).               *)
LeadIsConservative == authoritative /\ pc # "stopped" => lead <= lease

(* The fallback's lead is, as lifecycle.py:914-918 says, a lower bound of  *)
(* the lease, except for the one grant that was assumed and not measured   *)
(* because the create answer had no expires_at_ms (lifecycle.py:1016): the *)
(* estimate may be too high by that grant, once and never by more.         *)
Assumed == IF baseline = "assumed" THEN Ttl ELSE 0

MeasuredLeadIsConservative == pc # "stopped" => leadMin <= lease + Assumed

(* An attempt the scheduler planned, first or retry, is over before the    *)
(* lease can lapse; only the one immediate attempt that a short lease      *)
(* permits may come too late (lifecycle.py:494-519, 540-550).              *)
Planned == authoritative /\ (zeroStreak = 0 \/ prevWindow # None)

AttemptFitsLease ==
    /\ pc = "sent" /\ Planned => lease >= TimeoutBudget - clock
    /\ pc = "wait" /\ Planned => lease >= TimeoutBudget + clock

(* What failed attempts left in the lease unseen, the pending key will     *)
(* still reveal: the key is never given up before a schema-valid success,  *)
(* so recovery burns no second extension (lifecycle.py:984-985, 1013).     *)
UnseenIsPending == unseen > 0 => applied

(* No hot loop: without time passing, at most four attempts are made       *)
(* (lifecycle.py:512-518, 974-978).                                        *)
BoundedBurst == burst <= 4

(* When every extension grants the same full lease and is answered in      *)
(* time, the fallback cadence never lets the lease lapse once the first    *)
(* grant is known (lifecycle.py:918-926, 1064).                            *)
FallbackHeld ==
    pc # "stopped" /\ lastGrant # None /\ ~authoritative => lease > 0

(* lifecycle.py:494-496: the retry reserve "covers one failed attempt, one *)
(* same-key retry, and margin": the first failure of a planned attempt     *)
(* does not end the heartbeat.                                             *)
FirstFailureRetried ==
    [][ Failed /\ authoritative /\ zeroStreak = 0 /\ prevWindow = None
        /\ reply.kind # "limited" => pc' # "stopped" ]_vars
===============================================================================
