------------------------------ MODULE Responses ------------------------------
(***************************************************************************)
(* What the SDK makes of one HTTP exchange: CyclesResponse and its         *)
(* accessors, and the decisions that the first commit attempt and the      *)
(* retry workers take on a response.  No state.                            *)
(***************************************************************************)
EXTENDS Integers

CONSTANT MaxSeconds     \* the longest Retry-After whose milliseconds fit 64 bits

None == -1

(* How a payload parses: not JSON; JSON in which looking up "error" raises  *)
(* (an array, a string or a number); a body of the endpoint's schema; an    *)
(* ErrorResponse; an object with an "error" but not an ErrorResponse.       *)
Payload == {"page", "text", "success", "envelope", "raw"}

(* The error codes that the decisions tell apart; REJECTED stands for the   *)
(* recognized codes without a branch of their own (BUDGET_CLOSED, ...), and *)
(* UNKNOWN for every string that is not a code of the protocol.             *)
Retryable == {"INTERNAL_ERROR", "UNKNOWN", "LIMIT_EXCEEDED"}
Code == Retryable \cup
    {"RESERVATION_EXPIRED", "RESERVATION_FINALIZED", "IDEMPOTENCY_MISMATCH",
     "UNAUTHORIZED", "REJECTED"}

(* A header of None is absent or not a plain integer.                      *)
Response ==
    [status: Int, body: (Payload \ {"page"}) \cup {"none"},
     code: Code \cup {"none"}, header: Nat \cup {None}]

Wire(status, body, code, header) ==
    [status |-> status, body |-> body, code |-> code, header |-> header]

HandleResponse(wire) ==
    [wire EXCEPT !.body = IF @ = "page" THEN "none" ELSE @]

TransportError == Wire(-1, "none", "none", None)

IsTransportError(x) == x = TransportError
IsSuccess(x)     == x.status \in 200..299
IsClientError(x) == x.status \in 400..499
IsServerError(x) == x.status \in 500..599

RetryAfterHeader(x) ==
    IF x.header # None /\ x.header <= MaxSeconds THEN x.header ELSE None

(* get_error_response().error_code: only of a valid ErrorResponse.         *)
ErrorCode(x) == IF x.body = "envelope" THEN x.code ELSE "none"

(* The workers also look at the plain "error" attribute of the body.       *)
ExtractErrorCode(x) == IF x.body \in {"envelope", "raw"} THEN x.code ELSE "none"

IsRecognizedRejection(c) == c # "none" /\ c \notin Retryable

Mode == {"commit", "event"}

Succeeded(mode, x) ==
    x.body = "success" /\ x.status = IF mode = "commit" THEN 200 ELSE 201

-------------------------------------------------------------------------------
(* _handle_commit: what becomes of the record after the first attempt.     *)
(* "discard" it, schedule a "commit" retry, or schedule an "event".        *)

IsLimitedFirst(x) ==
    /\ ~ (IsSuccess(x) \/ IsTransportError(x) \/ IsServerError(x))
    /\ x.status = 429 \/ ErrorCode(x) = "LIMIT_EXCEEDED"

(* Slip: whatever 4xx is left drops the record.                            *)
FirstVerdictAny4xx(x) ==
    IF Succeeded("commit", x) THEN "discard"
    ELSE IF ~ IsClientError(x) \/ IsLimitedFirst(x) \/ x.status \in {401, 403}
    THEN "commit"
    ELSE IF x.status = 410 \/ ErrorCode(x) = "RESERVATION_EXPIRED" THEN "event"
    ELSE "discard"

FirstVerdict(x) ==
    IF Succeeded("commit", x) THEN "discard"
    ELSE IF \/ IsSuccess(x) \/ IsTransportError(x) \/ IsServerError(x)
            \/ IsLimitedFirst(x) \/ x.status \in {401, 403}
    THEN "commit"
    ELSE IF x.status = 410 \/ ErrorCode(x) = "RESERVATION_EXPIRED" THEN "event"
    ELSE IF \/ ErrorCode(x) \in {"RESERVATION_FINALIZED", "IDEMPOTENCY_MISMATCH"}
            \/ IsClientError(x) /\ IsRecognizedRejection(ErrorCode(x))
    THEN "discard"
    ELSE "commit"

-------------------------------------------------------------------------------
(* _classify_commit_response and _classify_event_response: "discard" the   *)
(* record and end; "stop" and keep it; "retry"; or flip to the "event".    *)

IsRateLimited(x) ==
    x.status = 429 \/ ExtractErrorCode(x) = "LIMIT_EXCEEDED"

(* The lookup of the code raises, which the retry loop takes for a failed  *)
(* attempt, whatever the status.                                           *)
Raises(x) == x.status # 429 /\ x.body = "text"

WorkerVerdict(mode, fallback, x) ==
    IF Succeeded(mode, x) THEN "discard"
    ELSE IF IsRateLimited(x) \/ Raises(x) THEN "retry"
    ELSE IF x.status \in {401, 403} THEN "stop"
    ELSE IF ~ IsClientError(x) THEN "retry"
    ELSE IF mode = "commit" /\ (x.status = 410 \/ ExtractErrorCode(x) = "RESERVATION_EXPIRED")
    THEN IF fallback THEN "event" ELSE "stop"
    ELSE IF IsRecognizedRejection(ExtractErrorCode(x)) THEN "discard"
    ELSE "stop"
==============================================================================
