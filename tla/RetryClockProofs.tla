--------------------------- MODULE RetryClockProofs ---------------------------
(***************************************************************************)
(* Proofs about RetryClock, for every configuration of the retries, every  *)
(* Retry-After and every floor found on disk: ClockInv is inductive, and   *)
(* the properties of the run follow from it.  The last theorems compare    *)
(* the decisions of the first attempt with those of the worker.            *)
(***************************************************************************)
EXTENDS RetryClock, TLAPS

USE DEF None

-------------------------------------------------------------------------------
(* Operators.                                                              *)

(* Headers and what is honored of them are delays, and bounded.            *)
LEMMA HonoredBounded ==
    ASSUME NEW x \in Response
    PROVE  /\ RetryAfterHeader(x) \in Seconds
           /\ Honored(RetryAfterHeader(x)) \in Seconds
           /\ Honored(RetryAfterHeader(x)) <= Cap
           /\ Honored(RetryAfterHeader(x)) = None <=> RetryAfterHeader(x) = None
<1>1. x.header \in Seconds
  BY DEF Response, Seconds
<1>2. RetryAfterHeader(x) \in Seconds
  BY <1>1 DEF RetryAfterHeader, Seconds
<1>3. Cap \in Nat
  BY ClockAssumption
<1> QED
  BY <1>2, <1>3 DEF Honored, Least, Seconds

(* The delay before an attempt is a natural number, at least the floor,    *)
(* and bounded.                                                            *)
LEMMA DelayBounded ==
    ASSUME NEW a \in 0..MaxAttempts, NEW f \in Seconds, f <= Cap
    PROVE  /\ DelayFor(a, f) \in Nat
           /\ f <= DelayFor(a, f)
           /\ DelayFor(a, f) <= Greatest(MaxDelay, Cap)
<1>1. Initial * Multiplier^a \in Nat
  <2>1. Multiplier^a \in Nat /\ Initial \in Nat
    BY ClockAssumption
  <2>2. \A p \in Nat : Initial * p \in Nat
    BY <2>1
  <2> QED
    BY <2>1, <2>2
<1>2. Cap \in Nat /\ MaxDelay \in Nat
  BY ClockAssumption
<1> DEFINE delay == Least(Initial * Multiplier^a, MaxDelay)
<1>3. delay \in Nat /\ delay <= MaxDelay
  BY <1>1, <1>2 DEF Least
<1>4. DelayFor(a, f) = IF f = None THEN delay ELSE Greatest(delay, f)
  BY DEF DelayFor
<1> HIDE DEF delay
<1> QED
  BY <1>2, <1>3, <1>4 DEF Greatest, Seconds

(* A restored floor is bounded, and ends no earlier than the record says   *)
(* unless it was cut.                                                      *)
LEMMA RestoredBounded ==
    ASSUME NEW f \in Seconds, now \in Nat
    PROVE  /\ Restored(f) \in Seconds /\ Restored(f) <= Cap
           /\ f > now => Restored(f) # None
                /\ (now + Restored(f) = f \/ now + Restored(f) = now + Cap)
<1>1. Cap \in Nat
  BY ClockAssumption
<1> QED
  BY <1>1 DEF Restored, Least, Seconds

(* A body without a code that counts is no reason to discard, on the first *)
(* attempt and later.                                                      *)
LEMMA CodelessRetained ==
    ASSUME NEW x \in Response, x.body \in {"none", "text"} \/ x.code \in {"none", "UNKNOWN"},
           x.body # "success", NEW mode \in Mode, NEW f \in BOOLEAN
    PROVE  FirstVerdict(x) # "discard" /\ WorkerVerdict(mode, f, x) # "discard"
<1>1. ~ Succeeded("commit", x) /\ ~ Succeeded(mode, x)
  BY DEF Succeeded
<1>2. ErrorCode(x) \in {"none", "UNKNOWN"} /\ ExtractErrorCode(x) \in {"none", "UNKNOWN"}
  BY DEF ErrorCode, ExtractErrorCode, Response
<1>3. ~ IsRecognizedRejection(ErrorCode(x)) /\ ~ IsRecognizedRejection(ExtractErrorCode(x))
  BY <1>2 DEF IsRecognizedRejection, Retryable
<1>4. FirstVerdict(x) # "discard"
  BY <1>1, <1>2, <1>3 DEF FirstVerdict
<1>5. WorkerVerdict(mode, f, x) # "discard"
  BY <1>1, <1>3 DEF WorkerVerdict
<1> QED
  BY <1>4, <1>5

(* A response that asks for a delay is retried with its floor.             *)
LEMMA AskIsRetried ==
    ASSUME NEW x \in Response, x.status = 429, NEW mode \in Mode, NEW f \in BOOLEAN
    PROVE  /\ FirstVerdict(x) = "commit" /\ IsLimitedFirst(x)
           /\ WorkerVerdict(mode, f, x) = "retry" /\ IsRateLimited(x)
<1>1. IsLimitedFirst(x) /\ IsRateLimited(x)
  BY DEF IsLimitedFirst, IsRateLimited, IsSuccess, IsServerError, IsTransportError,
     TransportError, Wire
<1>2. ~ Succeeded("commit", x) /\ ~ Succeeded(mode, x)
  BY DEF Succeeded
<1> QED
  BY <1>1, <1>2 DEF FirstVerdict, WorkerVerdict

(* What the worker can decide.                                             *)
LEMMA Verdicts ==
    ASSUME NEW x \in Response, NEW mode \in Mode, NEW f \in BOOLEAN
    PROVE  /\ WorkerVerdict(mode, f, x) \in {"discard", "stop", "retry", "event"}
           /\ WorkerVerdict(mode, f, x) = "event" => mode = "commit" /\ f
<1> QED
  BY DEF WorkerVerdict

-------------------------------------------------------------------------------
(* Answers.                                                                *)

LEMMA NoResponseWaits ==
    ASSUME NEW mode \in Mode, NEW f \in BOOLEAN
    PROVE  /\ NoResponse \in Response
           /\ FirstVerdict(NoResponse) # "discard"
           /\ WorkerVerdict(mode, f, NoResponse) # "discard"
<1>1. NoResponse \in Response
  BY DEF NoResponse, Wire, Response, Payload
<1>2. NoResponse.body = "none"
  BY DEF NoResponse, Wire
<1> QED
  BY <1>1, <1>2, CodelessRetained

(* Whatever stands in for an answer is a response without a code.          *)
LEMMA GatewayRetained ==
    ASSUME NEW y \in Gateway, NEW mode \in Mode, NEW f \in BOOLEAN
    PROVE  /\ HandleResponse(y) \in Response
           /\ FirstVerdict(HandleResponse(y)) # "discard"
           /\ WorkerVerdict(mode, f, HandleResponse(y)) # "discard"
<1> DEFINE z == HandleResponse(y)
<1>1. z \in Response /\ z.body # "success" /\ z.code \in {"none", "UNKNOWN"}
  <2>1. CASE \E s \in GatewayStatus, b \in {"page", "text"}, d \in RetryAfter :
                y = Wire(s, b, "none", d)
    <3>1. PICK s \in GatewayStatus, b \in {"page", "text"}, d \in RetryAfter :
             y = Wire(s, b, "none", d)
      BY <2>1
    <3>2. d \in Nat \cup {None} /\ s \in Int
      BY ClockAssumption DEF GatewayStatus
    <3> QED
      BY <3>1, <3>2 DEF HandleResponse, Wire, Response, Payload
  <2>2. CASE \E s \in GatewayStatus : y = Wire(s, "raw", "UNKNOWN", None)
    BY <2>2 DEF HandleResponse, Wire, Response, Payload, Code, Retryable, GatewayStatus
  <2>3. CASE y = TransportError
    BY <2>3 DEF HandleResponse, TransportError, Wire, Response, Payload
  <2> QED
    BY <2>1, <2>2, <2>3 DEF Gateway
<1> QED
  BY <1>1, CodelessRetained

(* A mangled answer is a response without a code; or it is the answer.     *)
LEMMA MangledRetained ==
    ASSUME NEW x \in Response, x.body # "page", NEW y \in Mangled(x),
           NEW mode \in Mode, NEW f \in BOOLEAN
    PROVE  /\ HandleResponse(y) \in Response
           /\ \/ HandleResponse(y) = x
              \/ /\ FirstVerdict(HandleResponse(y)) # "discard"
                 /\ WorkerVerdict(mode, f, HandleResponse(y)) # "discard"
<1> DEFINE z == HandleResponse(y)
<1>1. CASE y = x
  <2>1. z = x
    BY <1>1 DEF HandleResponse, Response
  <2> QED
    BY <2>1
<1>2. CASE y = TransportError
  <2>1. z \in Response /\ z.body = "none"
    BY <1>2 DEF HandleResponse, TransportError, Wire, Response, Payload
  <2> QED
    BY <2>1, CodelessRetained
<1>3. CASE \E b \in {"page", "text"} : y = [x EXCEPT !.body = b, !.code = "none"]
  <2>1. z \in Response /\ z.body \in {"none", "text"}
    BY <1>3 DEF HandleResponse, Response, Payload
  <2> QED
    BY <2>1, CodelessRetained
<1> QED
  BY <1>1, <1>2, <1>3 DEF Mangled

LEMMA AnswersTyped ==
    ASSUME NEW x \in Answers
    PROVE  x \in Response /\ x.body # "page"
<1>1. CASE x \in Limited
  <2>1. PICK d \in RetryAfter : x = Wire(429, "envelope", "LIMIT_EXCEEDED", d)
    BY <1>1 DEF Limited
  <2>2. d \in Nat \cup {None}
    BY ClockAssumption
  <2> QED
    BY <2>1, <2>2 DEF Wire, Response, Payload, Code, Retryable
<1>2. CASE x \notin Limited
  BY <1>2 DEF Answers, Refusals, Envelope, Success, Wire, Response, Payload, Code, Retryable
<1> QED
  BY <1>1, <1>2

(* An answer that discards the record leaves the server decided.           *)
LEMMA AnswerDecides ==
    ASSUME NEW x \in Answers, ServerAnswer(x), agent.mode \in Mode, fallback \in BOOLEAN,
           \/ agent.mode = "commit" /\ FirstVerdict(x) = "discard"
           \/ WorkerVerdict(agent.mode, fallback, x) = "discard"
    PROVE  Decided'
<1>1. CASE x \in Limited
  <2>1. x \in Response /\ x.status = 429
    BY <1>1, AnswersTyped DEF Limited, Wire
  <2> QED
    BY <2>1, AskIsRetried
<1>2. CASE x \in {Envelope(401, "UNAUTHORIZED"), Envelope(500, "INTERNAL_ERROR")}
  <2>1. /\ ~ Succeeded("commit", x) /\ ~ Succeeded("event", x)
        /\ x.body = "envelope" /\ x.status \in {401, 500}
        /\ x.code \in {"UNAUTHORIZED", "INTERNAL_ERROR"}
        /\ x.status = 500 <=> x.code = "INTERNAL_ERROR"
    BY <1>2 DEF Succeeded, Envelope, Wire
  <2>2. FirstVerdict(x) = "commit"
    BY <2>1 DEF FirstVerdict, IsServerError
  <2>3. WorkerVerdict(agent.mode, fallback, x) # "discard"
    BY <2>1 DEF WorkerVerdict, IsClientError, Mode, Raises
  <2> QED
    BY <2>2, <2>3
<1>3. CASE agent.mode = "commit" /\ CommitAnswer(x)
  <2>1. CASE x = Envelope(410, "RESERVATION_EXPIRED")
    <3>1. x.status = 410 /\ x.body = "envelope" /\ x.code = "RESERVATION_EXPIRED"
          /\ x.header = None
      BY <2>1 DEF Envelope, Wire
    <3>2. FirstVerdict(x) = "event"
      BY <3>1 DEF FirstVerdict, Succeeded, IsSuccess, IsTransportError, TransportError,
         Wire, IsServerError, IsLimitedFirst, ErrorCode, IsClientError
    <3>3. WorkerVerdict("commit", fallback, x) \in {"event", "stop"}
      BY <3>1 DEF WorkerVerdict, Succeeded, IsRateLimited, ExtractErrorCode, Raises,
         IsClientError
    <3> QED
      BY <3>2, <3>3, <1>3
  <2>2. CASE x # Envelope(410, "RESERVATION_EXPIRED")
    BY <1>3, <2>2 DEF CommitAnswer, Decided
  <2> QED
    BY <2>1, <2>2
<1>4. CASE agent.mode = "event" /\ EventAnswer(x)
  BY <1>4 DEF EventAnswer, Decided
<1> QED
  BY <1>1, <1>2, <1>3, <1>4 DEF ServerAnswer, Refusals

-------------------------------------------------------------------------------
(* The inductive invariant.                                                *)

LEMMA InitInv == Init => ClockInv
<1> SUFFICES ASSUME Init PROVE ClockInv
  OBVIOUS
<1>1. /\ now = 0 /\ requests = 0 /\ asked = 0 /\ response = NoResponse
      /\ agent \in {Idle("spent"), Idle("off")}
      /\ fallback \in BOOLEAN /\ server \in {"active", "expired"}
      /\ file \in [mode: Mode, floor: StaleFloors] \cup {NoRecord}
  BY DEF Init
<1>2. /\ MaxAttempts \in Nat /\ Cap \in Nat /\ Horizon \in Nat
      /\ StaleFloors \subseteq Seconds
  BY ClockAssumption DEF Seconds
<1>3. /\ agent.pc \in {"spent", "off"} /\ agent.floor = None
      /\ agent \in AgentState /\ agent.attempt = 0
  BY <1>1, <1>2 DEF Idle, AgentState, Mode, Seconds
<1>4. response \in Response
  BY <1>1, NoResponseWaits DEF Mode
<1>5. TypeOK
  BY <1>1, <1>2, <1>3, <1>4 DEF TypeOK, ServerState
<1>6. FloorInv
  BY <1>1, <1>2, <1>3 DEF FloorInv, At
<1>7. CountInv
  BY <1>1, <1>2, <1>3 DEF CountInv, At
<1>8. AnswerInv
  BY <1>3 DEF AnswerInv, At
<1> QED
  BY <1>5, <1>6, <1>7, <1>8 DEF ClockInv

LEMMA StepTyped ==
    ASSUME ClockInv, [Next]_vars
    PROVE  TypeOK'
<1> USE DEF ClockInv, TypeOK
<1>0. /\ MaxAttempts \in Nat /\ Horizon \in Nat /\ response.status \in Int
      /\ fallback \in BOOLEAN /\ agent.mode \in Mode
      /\ agent.floor \in Seconds /\ agent.attempt \in 0..MaxAttempts
      /\ agent.wake \in Nat /\ agent.floor <= Cap
      /\ response \in Response /\ now \in Nat
  BY ClockAssumption DEF AgentState, Response, FloorInv
<1>1. NoResponse \in Response
  BY NoResponseWaits DEF Mode
<1>2. Honored(RetryAfterHeader(response)) \in Seconds
  BY <1>0, HonoredBounded
<1>3. ASSUME Ask PROVE asked' \in Nat
  <2>1. CASE RetryAfterHeader(response) = None
    BY <1>3, <2>1 DEF Ask
  <2>2. CASE RetryAfterHeader(response) # None
    <3>1. Honored(RetryAfterHeader(response)) \in Nat
      BY <2>2, <1>0, HonoredBounded DEF Seconds
    <3> QED
      BY <1>3, <1>0, <3>1 DEF Ask
  <2> QED
    BY <2>1, <2>2
<1>4. \A m \in Mode, f \in Seconds :
         Record(m, f) \in [mode: Mode, floor: Seconds] \cup {NoRecord}
  BY <1>0 DEF Record, Seconds
<1>5. \A p \in {"off", "spent", "first", "loop", "asleep", "sent", "ended"} :
         Idle(p) \in AgentState
  BY <1>0 DEF Idle, AgentState, Mode, Seconds
<1>6. None \in Seconds /\ "commit" \in Mode /\ "event" \in Mode
  BY DEF Seconds, Mode
<1>7. CASE Serve
  <2>1. server' \in ServerState
    BY <1>7 DEF Serve, ServerAnswer, CommitAnswer, EventAnswer, ServerState
  <2>2. response' \in Response
    <3>1. CASE \E x \in Answers : ServerAnswer(x) /\ \E y \in Mangled(x) : response' = HandleResponse(y)
      BY <3>1, <1>0, AnswersTyped, MangledRetained
    <3>2. CASE \E y \in Gateway : response' = HandleResponse(y) /\ UNCHANGED server
      BY <3>2, <1>0, GatewayRetained
    <3> QED
      BY <1>7, <3>1, <3>2 DEF Serve
  <2> QED
    BY <1>7, <2>1, <2>2 DEF Serve
<1>8. CASE Expire
  BY <1>8 DEF Expire, ServerState
<1>9. CASE Tick
  BY <1>9, <1>0 DEF Tick
<1>10. CASE Commit
  <2>1. file' \in [mode: Mode, floor: Seconds] \cup {NoRecord} /\ agent' \in AgentState
    BY <1>10, <1>4, <1>5, <1>6 DEF Commit
  <2> QED
    BY <1>10, <2>1, <1>1 DEF Commit, Posted
<1>11. CASE FirstSettled
  <2>1. file' = NoRecord /\ agent' \in AgentState
    BY <1>11, <1>5 DEF FirstSettled
  <2> QED
    BY <1>11, <2>1, <1>1, <1>3 DEF FirstSettled, Handled
<1>12. ASSUME NEW m \in Mode, NEW f \in Seconds, Scheduled(m, f)
       PROVE  /\ agent' \in AgentState
              /\ file' \in [mode: Mode, floor: Seconds] \cup {NoRecord}
  BY <1>12, <1>4, <1>5, <1>0 DEF Scheduled, AgentState, Idle
<1>13. CASE FirstScheduled
  <2>1. agent' \in AgentState /\ file' \in [mode: Mode, floor: Seconds] \cup {NoRecord}
    BY <1>13, <1>12, <1>2, <1>6 DEF FirstScheduled
  <2> QED
    BY <1>13, <2>1, <1>1, <1>3 DEF FirstScheduled, Handled
<1>14. CASE FirstEvent
  <2>1. agent' \in AgentState /\ file' \in [mode: Mode, floor: Seconds] \cup {NoRecord}
    BY <1>14, <1>12, <1>6 DEF FirstEvent
  <2> QED
    BY <1>14, <2>1, <1>1, <1>3 DEF FirstEvent, Handled
<1>15. CASE Resume
  <2>1. DelayFor(agent.attempt, agent.floor) \in Nat
    BY <1>0, DelayBounded
  <2>2. CASE agent.attempt < MaxAttempts
    <3>1. agent' = [agent EXCEPT !.pc = "asleep", !.attempt = agent.attempt + 1, !.floor = None,
                       !.wake = now + DelayFor(agent.attempt, agent.floor)]
      BY <1>15, <2>2, <1>0 DEF Resume
    <3>2. /\ now + DelayFor(agent.attempt, agent.floor) \in Nat
          /\ agent.attempt + 1 \in 0..MaxAttempts
      BY <2>1, <2>2, <1>0
    <3>3. agent' \in AgentState
      BY <3>1, <3>2, <1>6 DEF AgentState
    <3> QED
      BY <1>15, <3>3 DEF Resume
  <2>3. CASE agent.attempt >= MaxAttempts
    <3>1. agent' = [agent EXCEPT !.pc = "ended"]
      BY <1>15, <2>3, <1>0 DEF Resume
    <3>2. agent' \in AgentState
      BY <3>1 DEF AgentState
    <3> QED
      BY <1>15, <3>2 DEF Resume
  <2> QED
    BY <1>0, <2>2, <2>3
<1>16. CASE Wake
  <2>1. agent' \in AgentState
    BY <1>16, <1>0 DEF Wake, AgentState
  <2> QED
    BY <1>16, <2>1, <1>1 DEF Wake, Posted
<1>17. CASE WorkerEnds
  <2>1. agent' \in AgentState
    BY <1>17, <1>0 DEF WorkerEnds, AgentState
  <2> QED
    BY <1>17, <2>1, <1>1, <1>3 DEF WorkerEnds, Handled
<1>18. CASE WorkerRetries
  <2> DEFINE floor == IF IsRateLimited(response)
                      THEN Honored(RetryAfterHeader(response)) ELSE None
  <2>1. floor \in Seconds
    BY <1>2, <1>6
  <2>2. /\ agent' = [agent EXCEPT !.pc = "loop", !.floor = floor]
        /\ file' = IF floor = None THEN file ELSE Record(agent.mode, floor)
        /\ Ask /\ Handled
    BY <1>18 DEF WorkerRetries
  <2> HIDE DEF floor
  <2>3. agent' \in AgentState
    BY <2>1, <2>2, <1>0 DEF AgentState
  <2>4. file' \in [mode: Mode, floor: Seconds] \cup {NoRecord}
    BY <2>1, <2>2, <1>0, <1>4
  <2> QED
    BY <2>2, <2>3, <2>4, <1>1, <1>3 DEF Handled
<1>19. CASE WorkerFlips
  <2>1. file' \in [mode: Mode, floor: Seconds] \cup {NoRecord}
    BY <1>19, <1>4, <1>6 DEF WorkerFlips
  <2>2. agent' \in AgentState
    <3>1. agent' = [agent EXCEPT !.mode = "event", !.attempt = 0]
      BY <1>19 DEF WorkerFlips
    <3>2. 0 \in 0..MaxAttempts
      BY <1>0
    <3> QED
      BY <3>1, <3>2, <1>6 DEF AgentState
  <2> QED
    BY <1>19, <2>1, <2>2, <1>1 DEF WorkerFlips, Posted
<1>20. CASE Crash
  BY <1>20, <1>1, <1>5 DEF Crash
<1>21. CASE Replay
  <2>1. file.mode \in Mode /\ file.floor \in Seconds
    BY <1>21 DEF Replay
  <2>2. Restored(file.floor) \in Seconds
    BY <2>1, <1>0, RestoredBounded
  <2>3. agent' \in AgentState
    <3>1. agent' = [Idle("loop") EXCEPT !.mode = file.mode, !.floor = Restored(file.floor)]
      BY <1>21 DEF Replay
    <3> QED
      BY <3>1, <2>1, <2>2, <1>5 DEF AgentState
  <2> QED
    BY <1>21, <2>3 DEF Replay
<1>22. CASE UNCHANGED vars
  BY <1>22 DEF vars
<1> QED
  BY <1>7, <1>8, <1>9, <1>10, <1>11, <1>13, <1>14, <1>15, <1>16, <1>17, <1>18, <1>19,
     <1>20, <1>21, <1>22 DEF Next

(* The type facts that the other parts of the step use.                    *)
LEMMA StateTyped ==
    ASSUME TypeOK
    PROVE  /\ now \in Nat /\ asked \in Nat /\ requests \in Nat
           /\ fallback \in BOOLEAN /\ agent.mode \in Mode /\ agent.floor \in Seconds
           /\ agent.attempt \in 0..MaxAttempts /\ agent.wake \in Nat
           /\ response \in Response
           /\ MaxAttempts \in Nat /\ Cap \in Nat /\ MaxDelay \in Nat
           /\ file # NoRecord => file.mode \in Mode /\ file.floor \in Seconds
  BY ClockAssumption DEF TypeOK, AgentState

(* How asked moves: to the end of the delay honored, or not at all.        *)
LEMMA AskMoves ==
    ASSUME TypeOK, Ask
    PROVE  \/ asked' = asked
           \/ /\ response.status = 429
              /\ Honored(RetryAfterHeader(response)) \in Nat
              /\ Honored(RetryAfterHeader(response)) <= Cap
              /\ asked' = now + Honored(RetryAfterHeader(response))
<1>1. response \in Response
  BY StateTyped
<1> QED
  BY <1>1, HonoredBounded DEF Ask, Seconds

(* No floor leaves the next request where it was: not before now.          *)
LEMMA StepFloor ==
    ASSUME ClockInv, [Next]_vars
    PROVE  FloorInv'
<1>0. TypeOK /\ FloorInv
  BY DEF ClockInv
<1>1. /\ now \in Nat /\ asked \in Nat /\ Cap \in Nat /\ agent.floor \in Seconds
      /\ response \in Response /\ agent.mode \in Mode /\ fallback \in BOOLEAN
      /\ MaxAttempts \in Nat /\ MaxDelay \in Nat /\ agent.wake \in Nat
      /\ agent.attempt \in 0..MaxAttempts
      /\ file # NoRecord => file.floor \in Seconds
  BY <1>0, StateTyped
<1>2. agent.floor <= Cap
  BY <1>0 DEF FloorInv
<1>3. CASE Serve \/ Expire
  BY <1>3, <1>0 DEF Serve, Expire, FloorInv, At
<1>4. CASE Tick
  BY <1>4, <1>0, <1>1 DEF Tick, FloorInv, At, Seconds, Greatest
<1>5. CASE Commit
  BY <1>5, <1>0, <1>1 DEF Commit, FloorInv, At, Idle, Record, Seconds, NoRecord
<1>6. CASE FirstSettled
  <2>1. response.status # 429
    BY <1>6, <1>1, AskIsRetried DEF FirstSettled, Mode
  <2>2. asked' = asked
    BY <1>6, <1>0, <2>1, AskMoves DEF FirstSettled
  <2> QED
    BY <1>6, <2>2, <1>0, <1>1 DEF FirstSettled, Handled, FloorInv, At, Idle
<1>7. ASSUME NEW m \in Mode, NEW f \in Seconds, f <= Cap, Scheduled(m, f), At("first"),
             Ask, Handled, response.status = 429 => f = Honored(RetryAfterHeader(response))
      PROVE  FloorInv'
  <2>1. asked <= now
    BY <1>7, <1>0 DEF FloorInv
  <2>2. asked' <= now + Cap /\ asked' \in Nat /\ (asked' > now => f # None /\ asked' = now + f)
    BY <1>7, <1>0, <1>1, <2>1, AskMoves
  <2>3. /\ agent'.pc = "loop" /\ agent'.floor = f /\ now' = now
        /\ file'.floor = IF f = None THEN None ELSE now + f
    BY <1>7 DEF Scheduled, Handled, Idle, Record
  <2> QED
    BY <2>2, <2>3, <1>7, <1>1 DEF FloorInv, At
<1>8. CASE FirstScheduled
  <2> DEFINE f == IF IsLimitedFirst(response)
                  THEN Honored(RetryAfterHeader(response)) ELSE None
  <2>1. f \in Seconds /\ f <= Cap
    BY <1>1, HonoredBounded DEF Seconds
  <2>2. response.status = 429 => f = Honored(RetryAfterHeader(response))
    BY <1>1, AskIsRetried
  <2>3. Scheduled("commit", f) /\ At("first") /\ Ask /\ Handled
    BY <1>8 DEF FirstScheduled, Answered
  <2> HIDE DEF f
  <2> QED
    BY <2>1, <2>2, <2>3, <1>7 DEF Mode
<1>9. CASE FirstEvent
  <2>1. response.status # 429
    BY <1>9, <1>1, AskIsRetried DEF FirstEvent, Mode
  <2>2. None \in Seconds /\ None <= Cap
    BY <1>1 DEF Seconds
  <2> QED
    BY <1>9, <2>1, <2>2, <1>7 DEF FirstEvent, Answered, Mode
<1>10. CASE Resume
  <2> DEFINE d == DelayFor(agent.attempt, agent.floor)
  <2>1. d \in Nat /\ agent.floor <= d /\ d <= Greatest(MaxDelay, Cap)
    BY <1>1, <1>2, DelayBounded
  <2>2. At("loop") /\ UNCHANGED <<now, file, asked>>
    BY <1>10 DEF Resume
  <2>3. CASE agent.attempt < MaxAttempts
    <3>0. agent' = [agent EXCEPT !.pc = "asleep", !.attempt = agent.attempt + 1, !.floor = None,
                       !.wake = now + d]
      BY <1>10, <2>3, <1>1 DEF Resume
    <3> HIDE DEF d
    <3>1. agent'.pc = "asleep" /\ agent'.floor = None /\ agent'.wake = now + d
      BY <3>0, <1>0 DEF TypeOK, AgentState
    <3>2. asked <= now + d
      BY <2>1, <2>2, <1>0, <1>1 DEF FloorInv, Seconds
    <3>3. Greatest(MaxDelay, Cap) \in Nat
      BY <1>1 DEF Greatest
    <3>4. agent'.wake - now' <= Greatest(MaxDelay, Cap)
      BY <3>1, <3>3, <2>1, <2>2, <1>1
    <3>5. asked' <= now' + Cap /\ (file' # NoRecord /\ asked' > now' => asked' <= file'.floor)
      BY <2>2, <1>0 DEF FloorInv
    <3>6. agent'.floor <= Cap /\ asked' <= agent'.wake
      BY <3>1, <3>2, <2>2, <1>1
    <3> QED
      BY <3>1, <3>4, <3>5, <3>6 DEF FloorInv, At
  <2>4. CASE agent.attempt >= MaxAttempts
    <3>1. agent'.pc = "ended" /\ agent'.floor = agent.floor
      BY <1>10, <2>4, <1>0, <1>1 DEF Resume, TypeOK, AgentState
    <3> QED
      BY <3>1, <2>2, <1>0 DEF FloorInv, At
  <2> QED
    BY <2>3, <2>4, <1>1
<1>11. CASE Wake
  <2>1. /\ agent'.pc = "sent" /\ agent'.floor = agent.floor
        /\ now >= agent.wake /\ asked <= agent.wake /\ UNCHANGED <<now, file, asked>>
    BY <1>11, <1>0 DEF Wake, TypeOK, AgentState, FloorInv
  <2> QED
    BY <2>1, <1>0, <1>1 DEF FloorInv, At
<1>12. CASE WorkerEnds
  <2>1. response.status # 429
    BY <1>12, <1>1, AskIsRetried DEF WorkerEnds, Verdict
  <2>2. asked' = asked
    BY <1>12, <1>0, <2>1, AskMoves DEF WorkerEnds
  <2>3. agent'.pc = "ended" /\ agent'.floor = agent.floor
    BY <1>12, <1>0 DEF WorkerEnds, TypeOK, AgentState
  <2>4. now' = now /\ asked <= now
    BY <1>12, <1>0 DEF WorkerEnds, Answered, Handled, FloorInv
  <2> QED
    BY <2>2, <2>3, <2>4, <1>0, <1>1 DEF FloorInv, At
<1>13. CASE WorkerRetries
  <2> DEFINE f == IF IsRateLimited(response)
                  THEN Honored(RetryAfterHeader(response)) ELSE None
  <2>1. f \in Seconds /\ f <= Cap
    BY <1>1, HonoredBounded DEF Seconds
  <2>2. response.status = 429 => f = Honored(RetryAfterHeader(response))
    BY <1>1, AskIsRetried
  <2>3. /\ agent' = [agent EXCEPT !.pc = "loop", !.floor = f]
        /\ file' = IF f = None THEN file ELSE Record(agent.mode, f)
        /\ Ask /\ Handled /\ At("sent")
    BY <1>13 DEF WorkerRetries, Answered
  <2> HIDE DEF f
  <2>4. asked <= now
    BY <2>3, <1>0 DEF FloorInv
  <2>5. asked' <= now + Cap /\ asked' \in Nat /\ (asked' > now => f # None /\ asked' = now + f)
    BY <2>2, <2>3, <2>4, <1>0, <1>1, AskMoves
  <2>6. /\ agent'.pc = "loop" /\ agent'.floor = f /\ now' = now
        /\ f # None => file'.floor = now + f
    BY <2>3, <1>0 DEF Handled, Record, TypeOK, AgentState
  <2> QED
    BY <2>1, <2>5, <2>6, <1>1 DEF FloorInv, At
<1>14. CASE WorkerFlips
  <2>1. /\ agent'.pc = "sent" /\ agent'.floor = agent.floor
        /\ asked <= now /\ UNCHANGED <<now, asked>>
    BY <1>14, <1>0 DEF WorkerFlips, Answered, At, TypeOK, AgentState, FloorInv
  <2> QED
    BY <2>1, <1>0, <1>1 DEF FloorInv, At
<1>15. CASE Crash
  BY <1>15, <1>0, <1>1 DEF Crash, FloorInv, At, Idle
<1>16. CASE Replay
  <2> DEFINE f == Restored(file.floor)
  <2>1. file # NoRecord /\ file.floor \in Seconds /\ UNCHANGED <<now, file, asked>>
    BY <1>16, <1>1 DEF Replay
  <2>2. /\ f \in Seconds /\ f <= Cap
        /\ file.floor > now => f # None /\ (now + f = file.floor \/ now + f = now + Cap)
    BY <2>1, <1>1, RestoredBounded
  <2>3. agent'.pc = "loop" /\ agent'.floor = f
    BY <1>16 DEF Replay, Idle
  <2> HIDE DEF f
  <2>4. asked > now => f # None /\ asked <= now + f
    BY <2>1, <2>2, <1>0, <1>1 DEF FloorInv, Seconds
  <2> QED
    BY <2>1, <2>2, <2>3, <2>4, <1>0 DEF FloorInv, At
<1>17. CASE UNCHANGED vars
  BY <1>17, <1>0 DEF vars, FloorInv, At
<1> QED
  BY <1>3, <1>4, <1>5, <1>6, <1>8, <1>9, <1>10, <1>11, <1>12, <1>13, <1>14, <1>15, <1>16,
     <1>17 DEF Next

-------------------------------------------------------------------------------
LEMMA StepCount ==
    ASSUME ClockInv, [Next]_vars
    PROVE  CountInv'
<1>0. TypeOK /\ CountInv
  BY DEF ClockInv
<1>1. /\ requests \in Nat /\ MaxAttempts \in Nat /\ agent.attempt \in 0..MaxAttempts
      /\ response \in Response /\ agent.mode \in Mode /\ fallback \in BOOLEAN
      /\ file # NoRecord => file.mode \in Mode
  BY <1>0, StateTyped
<1>2. CASE Serve \/ Expire \/ Tick \/ UNCHANGED vars
  BY <1>2, <1>0 DEF Serve, Expire, Tick, vars, CountInv, At
<1>3. CASE Commit
  BY <1>3, <1>0, <1>1 DEF Commit, Posted, CountInv, At, Idle
<1>4. CASE FirstSettled
  BY <1>4, <1>0, <1>1 DEF FirstSettled, Handled, CountInv, At, Idle
<1>5. ASSUME NEW m \in Mode, NEW f \in Seconds, Scheduled(m, f), At("first"), Handled
      PROVE  CountInv'
  <2>1. agent'.pc = "loop" /\ agent'.mode = m /\ agent'.attempt = 0 /\ requests' = requests
    BY <1>5 DEF Scheduled, Idle, Handled
  <2>2. requests = 1
    BY <1>5, <1>0 DEF CountInv
  <2> QED
    BY <2>1, <2>2, <1>1 DEF CountInv, At
<1>6. CASE FirstScheduled
  <2>1. (IF IsLimitedFirst(response) THEN Honored(RetryAfterHeader(response)) ELSE None) \in Seconds
    BY <1>1, HonoredBounded DEF Seconds
  <2> QED
    BY <1>6, <2>1, <1>5 DEF FirstScheduled, Answered, Mode
<1>7. CASE FirstEvent
  <2>1. None \in Seconds
    BY DEF Seconds
  <2> QED
    BY <1>7, <2>1, <1>5 DEF FirstEvent, Answered, Mode
<1>8. CASE Resume
  <2>1. At("loop") /\ requests' = requests
    BY <1>8 DEF Resume
  <2>2. CASE agent.attempt < MaxAttempts
    <3> DEFINE d == DelayFor(agent.attempt, agent.floor)
    <3>1. agent' = [agent EXCEPT !.pc = "asleep", !.attempt = agent.attempt + 1, !.floor = None,
                       !.wake = now + d]
      BY <1>8, <2>2, <1>1 DEF Resume
    <3> HIDE DEF d
    <3>2. agent'.pc = "asleep" /\ agent'.attempt = agent.attempt + 1 /\ agent'.mode = agent.mode
      BY <3>1, <1>0 DEF TypeOK, AgentState
    <3> QED
      BY <3>2, <2>1, <1>0, <1>1 DEF CountInv, At
  <2>3. CASE agent.attempt >= MaxAttempts
    <3>1. agent'.pc = "ended"
      BY <1>8, <2>3, <1>0, <1>1 DEF Resume, TypeOK, AgentState
    <3> QED
      BY <3>1, <2>1, <1>0 DEF CountInv, At
  <2> QED
    BY <2>2, <2>3, <1>1
<1>9. CASE Wake
  <2>1. /\ agent'.pc = "sent" /\ agent'.attempt = agent.attempt /\ agent'.mode = agent.mode
        /\ At("asleep") /\ requests' = requests + 1
    BY <1>9, <1>0 DEF Wake, Posted, TypeOK, AgentState
  <2> QED
    BY <2>1, <1>0, <1>1 DEF CountInv, At, Mode
<1>10. CASE WorkerEnds
  <2>1. agent'.pc = "ended" /\ requests' = requests
    BY <1>10, <1>0 DEF WorkerEnds, Handled, TypeOK, AgentState
  <2> QED
    BY <2>1, <1>0 DEF CountInv, At
<1>11. CASE WorkerRetries
  <2>1. /\ agent'.pc = "loop" /\ agent'.attempt = agent.attempt /\ agent'.mode = agent.mode
        /\ At("sent") /\ requests' = requests
    BY <1>11, <1>0 DEF WorkerRetries, Answered, Handled, TypeOK, AgentState
  <2> QED
    BY <2>1, <1>0 DEF CountInv, At
<1>12. CASE WorkerFlips
  <2>1. agent.mode = "commit"
    BY <1>12, <1>1, Verdicts DEF WorkerFlips, Verdict
  <2>2. /\ agent'.pc = "sent" /\ agent'.attempt = 0 /\ agent'.mode = "event"
        /\ At("sent") /\ requests' = requests + 1
    BY <1>12, <1>0 DEF WorkerFlips, Answered, At, Posted, TypeOK, AgentState
  <2> QED
    BY <2>1, <2>2, <1>0, <1>1 DEF CountInv, At
<1>13. CASE Crash
  BY <1>13, <1>0 DEF Crash, CountInv, At, Idle
<1>14. CASE Replay
  <2>1. agent'.pc = "loop" /\ agent'.attempt = 0 /\ requests' = 0
    BY <1>14 DEF Replay, Idle
  <2> QED
    BY <2>1, <1>1 DEF CountInv, At
<1> QED
  BY <1>2, <1>3, <1>4, <1>6, <1>7, <1>8, <1>9, <1>10, <1>11, <1>12, <1>13, <1>14 DEF Next

LEMMA StepAnswer ==
    ASSUME ClockInv, [Next]_vars
    PROVE  AnswerInv'
<1>0. TypeOK /\ CountInv /\ AnswerInv
  BY DEF ClockInv
<1>1. response \in Response /\ agent.mode \in Mode /\ fallback \in BOOLEAN
  BY <1>0, StateTyped
<1>2. TypeOK' /\ agent'.mode \in Mode /\ fallback' \in BOOLEAN
  BY StepTyped DEF TypeOK, AgentState
<1>3. ASSUME response' = NoResponse
      PROVE  AnswerInv'
  <2>1. FirstVerdict(response') # "discard"
    BY <1>3, NoResponseWaits DEF Mode
  <2>2. Verdict' # "discard"
    BY <1>2, <1>3, NoResponseWaits DEF Verdict
  <2> QED
    BY <2>1, <2>2 DEF AnswerInv
<1>4. CASE Serve
  <2>1. UNCHANGED <<agent, fallback>> /\ (At("first") \/ At("sent"))
    BY <1>4 DEF Serve
  <2>2. At("first") => agent.mode = "commit"
    BY <1>0 DEF CountInv
  <2>3. ASSUME NEW x \in Answers, ServerAnswer(x), NEW y \in Mangled(x),
               response' = HandleResponse(y)
        PROVE  AnswerInv'
    <3>1. CASE response' = x
      BY <3>1, <2>1, <2>2, <2>3, <1>1, AnswerDecides DEF AnswerInv, At, Verdict
    <3>2. CASE response' # x
      <4>1. FirstVerdict(response') # "discard" /\ WorkerVerdict(agent.mode, fallback, response') # "discard"
        BY <3>2, <2>3, <1>1, AnswersTyped, MangledRetained
      <4> QED
        BY <4>1, <2>1 DEF AnswerInv, Verdict
    <3> QED
      BY <3>1, <3>2
  <2>4. ASSUME NEW y \in Gateway, response' = HandleResponse(y)
        PROVE  AnswerInv'
    <3>1. FirstVerdict(response') # "discard" /\ WorkerVerdict(agent.mode, fallback, response') # "discard"
      BY <2>4, <1>1, GatewayRetained
    <3> QED
      BY <3>1, <2>1 DEF AnswerInv, Verdict
  <2> QED
    BY <1>4, <2>3, <2>4 DEF Serve
<1>5. CASE Expire
  BY <1>5, <1>0 DEF Expire, AnswerInv, At, Verdict, Decided
<1>6. CASE Tick \/ UNCHANGED vars
  BY <1>6, <1>0 DEF Tick, vars, AnswerInv, At, Verdict, Decided
<1>7. CASE Commit \/ Wake \/ WorkerFlips
  BY <1>7, <1>3 DEF Commit, Wake, WorkerFlips, Posted
<1>8. CASE FirstSettled \/ FirstScheduled \/ FirstEvent \/ WorkerEnds \/ WorkerRetries
  BY <1>8, <1>3 DEF FirstSettled, FirstScheduled, FirstEvent, WorkerEnds, WorkerRetries, Handled
<1>9. CASE Resume
  <2>1. agent'.pc \notin {"first", "sent"}
    BY <1>9, <1>0 DEF Resume, TypeOK, AgentState
  <2> QED
    BY <2>1 DEF AnswerInv, At
<1>10. CASE Crash
  BY <1>10, <1>3 DEF Crash
<1>11. CASE Replay
  BY <1>11 DEF Replay, Idle, AnswerInv, At
<1> QED
  BY <1>4, <1>5, <1>6, <1>7, <1>8, <1>9, <1>10, <1>11 DEF Next

(* ClockInv holds in every reachable state: floors, counts and answers     *)
(* agree, for every configuration and whatever was found on disk.          *)
THEOREM ClockInvariance == Spec => []ClockInv
<1>1. Init => ClockInv
  BY InitInv
<1>2. ClockInv /\ [Next]_vars => ClockInv'
  <2> SUFFICES ASSUME ClockInv, [Next]_vars PROVE ClockInv'
    OBVIOUS
  <2> QED
    BY StepTyped, StepFloor, StepCount, StepAnswer DEF ClockInv
<1> QED
  BY <1>1, <1>2, PTL DEF Spec

-------------------------------------------------------------------------------
(* The properties of the run.                                              *)

(* Every variable keeps its type: no delay and no floor is negative, and   *)
(* no worker counts more attempts than retry_max_attempts.                 *)
THEOREM ClockTypeCorrect == Spec => []TypeOK
<1>1. ClockInv => TypeOK
  BY DEF ClockInv
<1> QED
  BY <1>1, ClockInvariance, PTL

(* No wait of a worker exceeds both retry_max_delay and the cap, whatever  *)
(* a header or a record on disk says.                                      *)
THEOREM WorkerNeverParked == Spec => []NeverParked
<1>1. ClockInv => NeverParked
  BY DEF ClockInv, FloorInv, NeverParked
<1> QED
  BY <1>1, ClockInvariance, PTL

(* One run sends at most 2 * retry_max_attempts + 2 requests for a record. *)
THEOREM RunsAreBounded == Spec => []RequestsBounded
<1>1. ClockInv => RequestsBounded
  BY DEF ClockInv, CountInv, RequestsBounded
<1> QED
  BY <1>1, ClockInvariance, PTL

(* No request is sent inside the last Retry-After window, across attempts  *)
(* and restarts.                                                           *)
THEOREM RetryAfterKept == Spec => FloorKept
<1>1. ClockInv /\ [Next]_vars => [requests' > requests => now >= asked]_vars
  <2> SUFFICES ASSUME ClockInv, [Next]_vars, requests' > requests
               PROVE  now >= asked
    OBVIOUS
  <2>0. TypeOK /\ FloorInv
    BY DEF ClockInv
  <2>1. now \in Nat /\ asked \in Nat /\ requests \in Nat /\ agent.wake \in Nat
    BY <2>0, StateTyped
  <2>2. requests' # requests /\ requests' # 0
    BY <2>1
  <2>3. Commit \/ Wake \/ WorkerFlips
    BY <2>2 DEF Next, vars, Serve, Expire, Tick, FirstSettled, FirstScheduled, FirstEvent,
       Resume, WorkerEnds, WorkerRetries, Crash, Replay, Handled
  <2>4. CASE Commit \/ WorkerFlips
    BY <2>4, <2>0, <2>1 DEF Commit, WorkerFlips, Answered, FloorInv
  <2>5. CASE Wake
    BY <2>5, <2>0, <2>1 DEF Wake, FloorInv
  <2> QED
    BY <2>3, <2>4, <2>5
<1> QED
  BY <1>1, ClockInvariance, PTL DEF Spec, FloorKept

(* A record is dropped only once the server has charged, recorded or       *)
(* refused the spend.                                                      *)
THEOREM DropsAreDecided == Spec => DroppedOnlyIfDecided
<1>1. ClockInv /\ [Next]_vars => [file # NoRecord /\ file' = NoRecord => Decided]_vars
  <2> SUFFICES ASSUME ClockInv, [Next]_vars, file # NoRecord, file' = NoRecord
               PROVE  Decided
    OBVIOUS
  <2>0. TypeOK /\ AnswerInv
    BY DEF ClockInv
  <2>1. \A m \in Mode, f \in Seconds : Record(m, f) # NoRecord
    <3>1. "none" \notin Mode
      BY DEF Mode
    <3> QED
      BY <3>1 DEF Record, NoRecord
  <2>2. FirstSettled \/ (WorkerEnds /\ Verdict = "discard")
    <3>1. agent.mode \in Mode /\ response \in Response
      BY <2>0, StateTyped
    <3>2. Honored(RetryAfterHeader(response)) \in Seconds /\ None \in Seconds
      BY <3>1, HonoredBounded DEF Seconds
    <3>3. "commit" \in Mode /\ "event" \in Mode
      BY DEF Mode
    <3>4. CASE Commit \/ WorkerFlips
      BY <3>4, <2>1, <3>2, <3>3 DEF Commit, WorkerFlips
    <3>5. CASE FirstScheduled \/ FirstEvent
      BY <3>5, <2>1, <3>2, <3>3 DEF FirstScheduled, FirstEvent, Scheduled
    <3>6. CASE WorkerRetries
      BY <3>6, <2>1, <3>1, <3>2 DEF WorkerRetries
    <3>7. CASE WorkerEnds
      BY <3>7 DEF WorkerEnds
    <3> QED
      BY <3>4, <3>5, <3>6, <3>7 DEF Next, vars, Serve, Expire, Tick, Resume, Wake, Crash, Replay
  <2> QED
    BY <2>2, <2>0 DEF FirstSettled, WorkerEnds, Answered, AnswerInv
<1> QED
  BY <1>1, ClockInvariance, PTL DEF Spec, DroppedOnlyIfDecided

-------------------------------------------------------------------------------
(* The ledger.                                                             *)

LEMMA SpendCases ==
    /\ Charged => SpendOf = "recorded"
    /\ server = "refused" => SpendOf = "refused"
    /\ ~ Decided /\ file # NoRecord => SpendOf = "owed"
    /\ ~ Decided /\ file = NoRecord /\ Alive => SpendOf = "volatile"
    /\ ~ Decided /\ file = NoRecord /\ ~ Alive => SpendOf = "lost"
    /\ Charged \/ server = "refused" <=> Decided
BY DEF SpendOf, Charged, Decided

(* Which changes of the spend are steps of the ledger.                     *)
LEMMA LedgerMoves ==
    ASSUME \/ SpendOf = "volatile" /\ SpendOf' \in {"owed", "recorded", "refused", "lost"}
           \/ SpendOf = "owed" /\ SpendOf' \in {"recorded", "refused"}
    PROVE  Ledger!LedgerNext
<1> DEFINE s == [r \in {"r"} |-> SpendOf]
           t == [r \in {"r"} |-> SpendOf']
<1>1. s["r"] = SpendOf /\ t = [s EXCEPT !["r"] = SpendOf']
  OBVIOUS
<1>2. CASE SpendOf' = "owed"
  <2>1. Ledger!Journal("r")
    BY <1>1, <1>2 DEF Ledger!Journal, Ledger!Move
  <2> QED
    BY <2>1 DEF Ledger!LedgerNext
<1>3. CASE SpendOf' = "recorded"
  <2>1. Ledger!Record("r")
    BY <1>1, <1>3 DEF Ledger!Record, Ledger!Move
  <2> QED
    BY <2>1 DEF Ledger!LedgerNext
<1>4. CASE SpendOf' = "refused"
  <2>1. Ledger!Refuse("r")
    BY <1>1, <1>4 DEF Ledger!Refuse, Ledger!Move
  <2> QED
    BY <2>1 DEF Ledger!LedgerNext
<1>5. CASE SpendOf' = "lost"
  <2>1. Ledger!Lose({"r"})
    BY <1>1, <1>5 DEF Ledger!Lose
  <2> QED
    BY <2>1 DEF Ledger!LedgerNext
<1> QED
  BY <1>2, <1>3, <1>4, <1>5

(* Only an answer changes what the server has decided, and it decides once.*)
LEMMA ServerDecidesOnce ==
    ASSUME ClockInv, [Next]_vars
    PROVE  /\ Decided => (Charged <=> Charged') /\ (server' = "refused" <=> server = "refused")
                         /\ Decided'
           /\ ~ Decided /\ Decided' => Alive
<1>1. CASE Serve
  <2>1. Alive
    BY <1>1 DEF Serve, At, Alive
  <2>2. server' = server \/ (\E x : CommitAnswer(x) \/ EventAnswer(x))
    BY <1>1 DEF Serve, ServerAnswer
  <2> QED
    BY <2>1, <2>2 DEF CommitAnswer, EventAnswer, Charged, Decided
<1>2. CASE Expire
  BY <1>2 DEF Expire, Charged, Decided
<1>3. CASE ~ Serve /\ ~ Expire
  <2>1. server' = server
    BY <1>3 DEF Next, vars, Tick, Commit, FirstSettled, FirstScheduled, FirstEvent, Resume,
       Wake, WorkerEnds, WorkerRetries, WorkerFlips, Crash, Replay, Handled
  <2> QED
    BY <2>1 DEF Charged, Decided
<1> QED
  BY <1>1, <1>2, <1>3

(* No run of the call, its worker and its replays takes a step that the    *)
(* ledger of the spend does not allow.                                     *)
THEOREM ClockKeepsLedger == Spec => LedgerSteps
<1>1. /\ ClockInv /\ [Next]_vars
      /\ [file # NoRecord /\ file' = NoRecord => Decided]_vars
      => [Ledger!LedgerNext]_SpendOf
  <2> SUFFICES ASSUME ClockInv, [Next]_vars, SpendOf' # SpendOf,
                      [file # NoRecord /\ file' = NoRecord => Decided]_vars
               PROVE  Ledger!LedgerNext
    OBVIOUS
  <2>1. CASE Decided
    <3>1. /\ Charged \/ server = "refused"
          /\ Charged => Charged'
          /\ server = "refused" => server' = "refused"
      BY <2>1, SpendCases, ServerDecidesOnce
    <3>2. /\ Charged' => SpendOf' = "recorded"
          /\ server' = "refused" => SpendOf' = "refused"
      BY DEF SpendOf, Charged, Decided
    <3> QED
      BY <3>1, <3>2, SpendCases
  <2>2. CASE ~ Decided /\ Decided'
    <3>1. SpendOf' \in {"recorded", "refused"}
      BY <2>2 DEF SpendOf, Charged, Decided
    <3>2. SpendOf \in {"owed", "volatile"}
      BY <2>2, ServerDecidesOnce, SpendCases
    <3> QED
      BY <3>1, <3>2, LedgerMoves
  <2>3. CASE ~ Decided /\ ~ Decided'
    <3>1. /\ file' # NoRecord => SpendOf' = "owed"
          /\ file' = NoRecord /\ Alive' => SpendOf' = "volatile"
          /\ file' = NoRecord /\ ~ Alive' => SpendOf' = "lost"
      BY <2>3 DEF SpendOf, Charged, Decided
    <3>2. CASE file # NoRecord
      <4>1. file' # NoRecord
        BY <2>3, <3>2 DEF vars
      <4> QED
        BY <3>1, <3>2, <4>1, <2>3, SpendCases
    <3>3. CASE file = NoRecord /\ Alive
      <4>1. SpendOf = "volatile"
        BY <2>3, <3>3, SpendCases
      <4> QED
        BY <3>1, <4>1, LedgerMoves
    <3>4. CASE file = NoRecord /\ ~ Alive
      <4>1. agent.pc \notin {"spent", "first", "loop", "asleep", "sent"}
        BY <3>4 DEF Alive
      <4>2. /\ ~ At("spent") /\ ~ At("first") /\ ~ At("loop") /\ ~ At("asleep")
            /\ ~ At("sent")
        BY <4>1 DEF At
      <4>3. Expire \/ Tick \/ Crash \/ UNCHANGED vars
        BY <3>4, <4>2 DEF Next, Serve, Commit, FirstSettled, FirstScheduled, FirstEvent,
           Resume, Wake, WorkerEnds, WorkerRetries, WorkerFlips, Replay, Answered
      <4>4. file' = file /\ ~ Alive'
        <5>1. CASE Crash
          BY <5>1 DEF Crash, Idle, Alive
        <5>2. CASE Expire \/ Tick \/ UNCHANGED vars
          BY <3>4, <5>2 DEF Expire, Tick, vars, Alive
        <5> QED
          BY <4>3, <5>1, <5>2
      <4> QED
        BY <3>1, <3>4, <4>4, <2>3, SpendCases
    <3> QED
      BY <3>2, <3>3, <3>4
  <2> QED
    BY <2>1, <2>2, <2>3
<1>2. Spec => [][file # NoRecord /\ file' = NoRecord => Decided]_vars
  BY DropsAreDecided DEF DroppedOnlyIfDecided
<1> QED
  BY <1>1, <1>2, ClockInvariance, PTL DEF Spec, LedgerSteps

-------------------------------------------------------------------------------
(* The first attempt and the worker classify with code of their own        *)
(* (lifecycle.py:808-883, retry.py:284-344).                               *)

(* Where the worker destroys a record, the first attempt would have, if    *)
(* the code came in a valid ErrorResponse.                                 *)
THEOREM WorkerDiscardsNoMore ==
    ASSUME NEW x \in Response, x.body # "raw", NEW f \in BOOLEAN,
           WorkerVerdict("commit", f, x) = "discard"
    PROVE  FirstVerdict(x) = "discard"
<1>1. CASE Succeeded("commit", x)
  BY <1>1 DEF FirstVerdict
<1>2. CASE ~ Succeeded("commit", x)
  <2>1. /\ ~ IsRateLimited(x) /\ x.status \notin {401, 403} /\ IsClientError(x)
        /\ x.status # 410 /\ ExtractErrorCode(x) # "RESERVATION_EXPIRED"
        /\ IsRecognizedRejection(ExtractErrorCode(x))
    BY <1>2 DEF WorkerVerdict
  <2>2. ErrorCode(x) = ExtractErrorCode(x)
    BY DEF ErrorCode, ExtractErrorCode
  <2>3. x.status \in 400..499
    BY <2>1 DEF IsClientError
  <2>4. ~ IsSuccess(x) /\ ~ IsServerError(x) /\ ~ IsTransportError(x)
    <3> DEFINE s == x.status
    <3>0. s \in Int /\ 400 <= s /\ s <= 499
      BY <2>3
    <3> HIDE DEF s
    <3>1. ~ IsSuccess(x) /\ ~ IsServerError(x)
      <4>1. ~ (s \in 200..299) /\ ~ (s \in 500..599)
        BY <3>0
      <4> QED
        BY <4>1 DEF IsSuccess, IsServerError, s
    <3>2. TransportError.status \notin 400..499
      BY DEF TransportError, Wire
    <3>3. ~ IsTransportError(x)
      BY <2>3, <3>2 DEF IsTransportError
    <3> QED
      BY <3>1, <3>3
  <2>5. ~ IsLimitedFirst(x)
    BY <2>1, <2>2 DEF IsLimitedFirst, IsRateLimited
  <2> QED
    BY <1>2, <2>1, <2>2, <2>4, <2>5 DEF FirstVerdict
<1> QED
  BY <1>1, <1>2

(* For a success, a failure of transport or server, and a client error     *)
(* that is expired, rate-limited or a recognized rejection, both decide    *)
(* the same.  They differ for credentials and unclassified errors, which   *)
(* the worker gives up, for bodies without a readable code, and for codes  *)
(* that come with a status of another class.                               *)
THEOREM VerdictsAgree ==
    ASSUME NEW x \in Response,
           \/ Succeeded("commit", x) \/ IsTransportError(x) \/ IsServerError(x)
           \/ /\ IsClientError(x) /\ x.status \notin {401, 403} /\ x.body \notin {"raw", "text"}
              /\ \/ x.status \in {410, 429} \/ ErrorCode(x) = "LIMIT_EXCEEDED"
                 \/ IsRecognizedRejection(ErrorCode(x))
    PROVE  /\ FirstVerdict(x) = "discard" <=> WorkerVerdict("commit", TRUE, x) = "discard"
           /\ FirstVerdict(x) = "commit" <=> WorkerVerdict("commit", TRUE, x) = "retry"
           /\ FirstVerdict(x) = "event" <=> WorkerVerdict("commit", TRUE, x) = "event"
<1>1. CASE Succeeded("commit", x)
  BY <1>1 DEF FirstVerdict, WorkerVerdict
<1>2. CASE ~ Succeeded("commit", x) /\ (IsTransportError(x) \/ IsServerError(x))
  <2>1. x.status \notin {401, 403} /\ ~ IsClientError(x)
    BY <1>2 DEF IsTransportError, TransportError, Wire, IsServerError, IsClientError
  <2> QED
    BY <1>2, <2>1 DEF FirstVerdict, WorkerVerdict
<1>3. CASE ~ Succeeded("commit", x) /\ ~ IsTransportError(x) /\ ~ IsServerError(x)
  <2>1. /\ IsClientError(x) /\ x.status \notin {401, 403} /\ x.body \notin {"raw", "text"}
        /\ \/ x.status \in {410, 429} \/ ErrorCode(x) = "LIMIT_EXCEEDED"
           \/ IsRecognizedRejection(ErrorCode(x))
    BY <1>3
  <2>2. ErrorCode(x) = ExtractErrorCode(x) /\ ~ Raises(x)
    BY <2>1 DEF ErrorCode, ExtractErrorCode, Raises
  <2>3. ~ IsSuccess(x)
    BY <2>1 DEF IsClientError, IsSuccess
  <2>4. IsLimitedFirst(x) <=> IsRateLimited(x)
    BY <1>3, <2>2, <2>3 DEF IsLimitedFirst, IsRateLimited
  <2>5. CASE IsLimitedFirst(x)
    BY <2>4, <2>5, <1>3 DEF FirstVerdict, WorkerVerdict
  <2>6. CASE ~ IsLimitedFirst(x)
    <3>1. x.status # 429 /\ ErrorCode(x) # "LIMIT_EXCEEDED"
      BY <2>6, <2>3, <1>3 DEF IsLimitedFirst
    <3> QED
      BY <1>3, <2>1, <2>2, <2>3, <2>4, <2>6, <3>1 DEF FirstVerdict, WorkerVerdict
  <2> QED
    BY <2>5, <2>6
<1> QED
  BY <1>1, <1>2, <1>3
===============================================================================
