------------------------------ MODULE RetryClock ------------------------------
(***************************************************************************)
(* One pending commit against the clock: the first attempt, the retry      *)
(* worker with its backoff and Retry-After floors, the record with its     *)
(* not_before_ms, and the answers of a server that proxies may mangle or   *)
(* replace.  Time is discrete; one process works on the record at a time.  *)
(***************************************************************************)
EXTENDS Responses

CONSTANTS
    MaxAttempts, Initial, Multiplier, MaxDelay,   \* retry_* of CyclesConfig
    Cap,          \* _MAX_HONORED_DELAY_S
    RetryAfter,   \* values of the header, None among them
    StaleFloors,  \* not_before_ms of records found on disk, corrupted ones, too
    Horizon       \* bound on the clock

ASSUME ClockAssumption ==
    /\ MaxAttempts \in Nat /\ Initial \in Nat /\ MaxDelay \in Nat
    /\ Cap \in Nat /\ Horizon \in Nat /\ MaxSeconds \in Nat
    /\ \A n \in 0..MaxAttempts : Multiplier^n \in Nat
    /\ RetryAfter \subseteq Nat \cup {None}
    /\ StaleFloors \subseteq Nat \cup {None}

VARIABLES
    now,
    server,      \* what the server knows of the spend
    fallback,    \* the record has an event_fallback_body
    file,        \* the journal record, or NoRecord
    agent,       \* the guarded call, then its retry worker
    response,    \* the response to the request under way, or NoResponse
    requests,    \* history: requests of this run
    asked        \* history: when the last 429 allows the next request

vars == <<now, server, fallback, file, agent, response, requests, asked>>

Seconds    == Nat \cup {None}
NoRecord   == [mode |-> "none", floor |-> None]
NoResponse == Wire(0, "none", "none", None)

ServerState == {"active", "expired", "committed", "recorded", "refused"}

AgentState ==
    [pc: {"off", "spent", "first", "loop", "asleep", "sent", "ended"},
     mode: Mode, attempt: 0..MaxAttempts, floor: Seconds, wake: Nat]

At(where) == agent.pc = where
Idle(where) ==
    [pc |-> where, mode |-> "commit", attempt |-> 0, floor |-> None, wake |-> 0]

TypeOK ==
    /\ now \in 0..Horizon
    /\ server \in ServerState
    /\ fallback \in BOOLEAN
    /\ file \in [mode: Mode, floor: Seconds] \cup {NoRecord}
    /\ agent \in AgentState
    /\ response \in Response
    /\ requests \in Nat
    /\ asked \in Nat

(* A call whose action has just returned, or a record of an earlier run,   *)
(* whose body from_json has validated: an event has something to post.     *)
Init ==
    /\ now = 0 /\ requests = 0 /\ asked = 0
    /\ response = NoResponse
    /\ \/ /\ agent = Idle("spent") /\ file = NoRecord
          /\ fallback = TRUE /\ server = "active"
       \/ /\ agent = Idle("off")
          /\ file \in [mode: Mode, floor: StaleFloors]
          /\ fallback \in BOOLEAN /\ (file.mode = "event" => fallback)
          /\ server \in {"active", "expired"}

-------------------------------------------------------------------------------
(* The server, and what its answers become on their way.                   *)

Envelope(status, code) == Wire(status, "envelope", code, None)
Success(status) == Wire(status, "success", "none", None)

Limited == {Wire(429, "envelope", "LIMIT_EXCEEDED", d) : d \in RetryAfter}

(* Answers that leave the server as it is.                                 *)
Refusals == Limited \cup {Envelope(401, "UNAUTHORIZED"), Envelope(500, "INTERNAL_ERROR")}

CommitAnswer(x) ==
    \/ /\ server \in {"active", "committed"} /\ x = Success(200)
       /\ server' = "committed"
    \/ /\ server = "committed" /\ x = Envelope(409, "RESERVATION_FINALIZED")
       /\ UNCHANGED server
    \/ /\ server \in {"active", "refused"} /\ x = Envelope(409, "REJECTED")
       /\ server' = "refused"
    \/ /\ server \in {"expired", "recorded"}
       /\ x = Envelope(410, "RESERVATION_EXPIRED")
       /\ UNCHANGED server

(* A 410 of a proxy brings the event of a reservation that has not expired *)
(* or is committed.  What the server has refused it refuses again.         *)
EventAnswer(x) ==
    \/ /\ server # "refused" /\ x = Success(201)
       /\ server' = IF server = "committed" THEN server ELSE "recorded"
    \/ /\ server # "recorded" /\ x = Envelope(409, "REJECTED")
       /\ server' = IF server = "committed" THEN server ELSE "refused"

(* A body lost on the way, or the whole answer.                            *)
Mangled(x) ==
    {x, TransportError} \cup {[x EXCEPT !.body = b, !.code = "none"] : b \in {"page", "text"}}

(* What gateways say in the server's stead; their codes are not the        *)
(* protocol's.                                                             *)
GatewayStatus == {302, 401, 404, 410, 429, 503}
Gateway ==
    {Wire(s, b, "none", d) : s \in GatewayStatus, b \in {"page", "text"}, d \in RetryAfter}
    \cup {Wire(s, "raw", "UNKNOWN", None) : s \in GatewayStatus}
    \cup {TransportError}

(* A request is a commit, or the event of a worker in event mode.          *)
ServerAnswer(x) ==
    \/ agent.mode = "commit" /\ CommitAnswer(x)
    \/ agent.mode = "event" /\ EventAnswer(x)
    \/ x \in Refusals /\ UNCHANGED server

Answers ==
    Refusals \cup {Success(200), Success(201), Envelope(409, "RESERVATION_FINALIZED"),
                   Envelope(409, "REJECTED"), Envelope(410, "RESERVATION_EXPIRED")}

Serve ==
    /\ (At("first") \/ At("sent")) /\ response = NoResponse
    /\ \/ \E x \in Answers : ServerAnswer(x) /\ \E y \in Mangled(x) : response' = HandleResponse(y)
       \/ \E y \in Gateway : response' = HandleResponse(y) /\ UNCHANGED server
    /\ UNCHANGED <<now, fallback, file, agent, requests, asked>>

Expire ==
    /\ server = "active" /\ server' = "expired"
    /\ UNCHANGED <<now, fallback, file, agent, response, requests, asked>>

Tick ==
    /\ now < Horizon /\ now' = now + 1
    /\ UNCHANGED <<server, fallback, file, agent, response, requests, asked>>

-------------------------------------------------------------------------------
(* Delays.                                                                 *)

Least(a, b)    == IF a <= b THEN a ELSE b
Greatest(a, b) == IF a >= b THEN a ELSE b

(* min(retry_after_ms / 1000, _MAX_HONORED_DELAY_S)                        *)
Honored(seconds) == IF seconds = None THEN None ELSE Least(seconds, Cap)

DelayFor(attempt, floor) ==
    LET delay == Least(Initial * Multiplier^attempt, MaxDelay)
    IN  IF floor = None THEN delay ELSE Greatest(delay, floor)

(* The record is given an absolute floor, so that it survives a restart.   *)
Record(mode, floor) ==
    [mode |-> mode, floor |-> IF floor = None THEN None ELSE now + floor]

(* Slip: a floor that has passed is restored, too.                         *)
RestoredPast(floor) ==
    IF floor = None THEN None ELSE Least(floor - now, Cap)

(* Slip: a journaled floor is trusted, whatever its value.                 *)
RestoredUnbounded(floor) == IF floor > now THEN floor - now ELSE None

Restored(floor) == IF floor > now THEN Least(floor - now, Cap) ELSE None

(* The answer asks for a delay.                                            *)
Ask == asked' = IF response.status = 429 /\ RetryAfterHeader(response) # None
                THEN now + Honored(RetryAfterHeader(response)) ELSE asked

-------------------------------------------------------------------------------
(* The first attempt: _handle_commit, schedule, schedule_event.            *)

Posted == requests' = requests + 1 /\ response' = NoResponse

Commit ==
    /\ At("spent")
    /\ file' = Record("commit", None)
    /\ agent' = Idle("first")
    /\ Posted
    /\ UNCHANGED <<now, server, fallback, asked>>

Answered(where) == At(where) /\ response # NoResponse

Handled == response' = NoResponse /\ UNCHANGED <<now, server, fallback, requests>>

FirstSettled ==
    /\ Answered("first") /\ FirstVerdict(response) = "discard"
    /\ file' = NoRecord
    /\ agent' = Idle("ended")
    /\ Ask /\ Handled

Scheduled(mode, floor) ==
    /\ file' = Record(mode, floor)
    /\ agent' = [Idle("loop") EXCEPT !.mode = mode, !.floor = floor]

(* Slip: the header of a rate-limited first attempt is not passed on.      *)
FirstScheduledNoFloor ==
    /\ Answered("first") /\ FirstVerdict(response) = "commit"
    /\ Scheduled("commit", None)
    /\ Ask /\ Handled

FirstScheduled ==
    /\ Answered("first") /\ FirstVerdict(response) = "commit"
    /\ Scheduled("commit", IF IsLimitedFirst(response)
                           THEN Honored(RetryAfterHeader(response)) ELSE None)
    /\ Ask /\ Handled

FirstEvent ==
    /\ Answered("first") /\ FirstVerdict(response) = "event"
    /\ Scheduled("event", None)
    /\ Ask /\ Handled

-------------------------------------------------------------------------------
(* The worker: _retry_loop, _attempt_once and the classification.          *)

Resume ==
    /\ At("loop")
    /\ \/ /\ agent.attempt < MaxAttempts
          /\ agent' = [agent EXCEPT !.pc = "asleep", !.attempt = @ + 1, !.floor = None,
                          !.wake = now + DelayFor(agent.attempt, agent.floor)]
       \/ /\ agent.attempt >= MaxAttempts
          /\ agent' = [agent EXCEPT !.pc = "ended"]
    /\ UNCHANGED <<now, server, fallback, file, response, requests, asked>>

(* A sleep may overrun.                                                    *)
Wake ==
    /\ At("asleep") /\ now >= agent.wake
    /\ agent' = [agent EXCEPT !.pc = "sent"]
    /\ Posted
    /\ UNCHANGED <<now, server, fallback, file, asked>>

Verdict == WorkerVerdict(agent.mode, fallback, response)

WorkerEnds ==
    /\ Answered("sent") /\ Verdict \in {"discard", "stop"}
    /\ file' = IF Verdict = "discard" THEN NoRecord ELSE file
    /\ agent' = [agent EXCEPT !.pc = "ended"]
    /\ Ask /\ Handled

(* Slip: a rate-limited attempt is not counted.                            *)
WorkerRetriesUncounted ==
    /\ Answered("sent") /\ Verdict = "retry"
    /\ agent' = [agent EXCEPT !.pc = "loop",
                    !.attempt = IF IsRateLimited(response) /\ @ > 0 THEN @ - 1 ELSE @]
    /\ UNCHANGED file
    /\ Ask /\ Handled

(* Slip: the floor is kept in memory only.                                 *)
WorkerRetriesUnrecorded ==
    /\ Answered("sent") /\ Verdict = "retry"
    /\ agent' = [agent EXCEPT !.pc = "loop",
                    !.floor = IF IsRateLimited(response)
                              THEN Honored(RetryAfterHeader(response)) ELSE None]
    /\ UNCHANGED file
    /\ Ask /\ Handled

(* A rate limit with a header leaves its floor, in memory and on disk.     *)
WorkerRetries ==
    LET floor == IF IsRateLimited(response)
                 THEN Honored(RetryAfterHeader(response)) ELSE None IN
    /\ Answered("sent") /\ Verdict = "retry"
    /\ agent' = [agent EXCEPT !.pc = "loop", !.floor = floor]
    /\ file' = IF floor = None THEN file ELSE Record(agent.mode, floor)
    /\ Ask /\ Handled

(* Expired: the event is posted at once, and the attempts start again.     *)
WorkerFlips ==
    /\ Answered("sent") /\ Verdict = "event"
    /\ agent' = [agent EXCEPT !.mode = "event", !.attempt = 0]
    /\ file' = Record("event", None)
    /\ Posted
    /\ UNCHANGED <<now, server, fallback, asked>>

-------------------------------------------------------------------------------
(* A process dies at any point; a later one replays what it left.          *)

Crash ==
    /\ ~ At("off")
    /\ agent' = Idle("off")
    /\ response' = NoResponse
    /\ UNCHANGED <<now, server, fallback, file, requests, asked>>

(* Slip: the replay takes the record off the disk when it hands it over.   *)
ReplayConsuming ==
    /\ At("off") /\ file # NoRecord
    /\ agent' = [Idle("loop") EXCEPT !.mode = file.mode, !.floor = Restored(file.floor)]
    /\ file' = NoRecord
    /\ requests' = 0
    /\ UNCHANGED <<now, server, fallback, response, asked>>

Replay ==
    /\ At("off") /\ file # NoRecord
    /\ agent' = [Idle("loop") EXCEPT !.mode = file.mode, !.floor = Restored(file.floor)]
    /\ requests' = 0
    /\ UNCHANGED <<now, server, fallback, file, response, asked>>

-------------------------------------------------------------------------------
Next ==
    \/ Serve \/ Expire \/ Tick
    \/ Commit \/ FirstSettled \/ FirstScheduled \/ FirstEvent
    \/ Resume \/ Wake \/ WorkerEnds \/ WorkerRetries \/ WorkerFlips
    \/ Crash \/ Replay

Spec == Init /\ [][Next]_vars

-------------------------------------------------------------------------------
(* The inductive invariant.                                                *)

(* The last Retry-After has passed, or is in force where it will be needed:*)
(* in the worker's floor or wake-up time, and in the record.               *)
FloorInv ==
    /\ asked <= now + Cap
    /\ At("spent") \/ At("first") \/ At("sent") => asked <= now
    /\ At("asleep") => asked <= agent.wake
    /\ At("loop") /\ asked > now => agent.floor # None /\ asked <= now + agent.floor
    /\ file # NoRecord /\ asked > now => asked <= file.floor
    /\ agent.floor <= Cap
    /\ At("asleep") => agent.wake - now <= Greatest(MaxDelay, Cap)

(* Requests sent, against the attempts counted.                            *)
CountInv ==
    LET before == IF agent.mode = "commit" THEN 1 ELSE MaxAttempts + 2 IN
    /\ At("spent") => requests = 0
    /\ At("first") => requests = 1 /\ agent.mode = "commit"
    /\ At("loop") \/ At("sent") => requests <= before + agent.attempt
    /\ At("asleep") => requests < before + agent.attempt
    /\ requests <= 2 * MaxAttempts + 2

(* An answer that discards the record comes from a server that has decided.*)
Decided == server \in {"committed", "recorded", "refused"}
AnswerInv ==
    /\ At("first") /\ FirstVerdict(response) = "discard" => Decided
    /\ At("sent") /\ Verdict = "discard" => Decided

ClockInv == TypeOK /\ FloorInv /\ CountInv /\ AnswerInv

-------------------------------------------------------------------------------
(* Properties.                                                             *)

(* No request goes out inside a Retry-After window, whoever asked for it   *)
(* and whichever run sends it: the floor passes from the first attempt to  *)
(* the worker, from an attempt to the next, and through the journal to the *)
(* next run (retry.py:263, 275-276, 420-421).                              *)
FloorKept == [][requests' > requests => now >= asked]_vars

(* A record leaves the disk only when the server has charged, recorded or  *)
(* refused the spend: no proxy page, mangled body, unknown code or         *)
(* credential failure destroys it (retry.py:43-46).                        *)
DroppedOnlyIfDecided ==
    [][file # NoRecord /\ file' = NoRecord => Decided]_vars

(* "A mangled Retry-After or a corrupted journal floor must not park a     *)
(* spend record for days" (retry.py:34-37): no wait exceeds both bounds.   *)
NeverParked == At("asleep") => agent.wake - now <= Greatest(MaxDelay, Cap)

(* What one run may send for one record, the restart of the count in event *)
(* mode and the immediate event included (retry.py:310-320, 475-497).      *)
RequestsBounded == requests <= 2 * MaxAttempts + 2

-------------------------------------------------------------------------------
(* The abstract ledger, of one reservation, read off the same state.       *)

Alive == agent.pc \in {"spent", "first", "loop", "asleep", "sent"}

Charged == server \in {"committed", "recorded"}

SpendOf ==
    CASE Charged                             -> "recorded"
      [] server = "refused"                  -> "refused"
      [] ~ Decided /\ file # NoRecord        -> "owed"
      [] ~ Decided /\ file = NoRecord /\ Alive   -> "volatile"
      [] ~ Decided /\ file = NoRecord /\ ~ Alive -> "lost"

Ledger == INSTANCE SpendLedger WITH
              Reservation <- {"r"}, spend <- [r \in {"r"} |-> SpendOf]

(* Attempt by attempt and answer by answer, mangled ones and restarts      *)
(* included, the commit machinery takes only the ledger's steps: what is   *)
(* on disk is owed until the server answers for it, and a cost that was    *)
(* lost before it was journaled does not come back (retry.py:246-497,      *)
(* lifecycle.py:781-883).                                                  *)
LedgerSteps == [][Ledger!LedgerNext]_SpendOf
===============================================================================
