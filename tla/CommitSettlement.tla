--------------------------- MODULE CommitSettlement ---------------------------
(***************************************************************************)
(* How the SDK turns the spend of a guarded call into exactly one charge.  *)
(*                                                                         *)
(* Processes share one journal directory (one server, one principal) and   *)
(* one budget server.  A guarded call of process p on reservation r is the *)
(* agent <<r, p, "caller">>; after its first commit attempt fails, the     *)
(* same agent is the retry worker that _submit spawned.  The worker that a *)
(* restarted process starts from the journal is <<r, p, "replay">>.  All   *)
(* agents run concurrently; a process may die between any two steps; a     *)
(* request may be answered, lost, answered by a proxy, or reach the server *)
(* long after its sender gave up or died.                                  *)
(*                                                                         *)
(* The server is external: it is modelled by the contract the SDK relies   *)
(* on (idempotency by key, 410 once expired, 409 once finalized).          *)
(***************************************************************************)
EXTENDS Naturals

CONSTANTS
    Reservation,
    Process,
    MaxAttempts,     \* retry_max_attempts
    RetryEnabled,    \* retry_enabled
    JournalMayFail   \* may a journal write or unlink raise OSError?

ASSUME SettlementAssumption ==
    /\ MaxAttempts \in Nat
    /\ RetryEnabled \in BOOLEAN
    /\ JournalMayFail \in BOOLEAN

VARIABLES
    up,        \* up[p]: process p is running
    claim,     \* claim[p]: progress of p's once-per-process journal replay
    agent,     \* agent[a]: what the thread or task a is doing
    journal,   \* journal[r]: mode of the file recorded for r, or "none"
    status,    \* status[r]: the reservation, as the server sees it
    charged,   \* charged[r]: the endpoints that charged r's spend
    late,      \* late[r]: requests whose sender no longer waits for them
    acted,     \* history: the guarded action of r returned
    durable,   \* history: r's spend was on disk at some time
    refused    \* history: the server refused r's spend with a final error

serverVars  == <<status, charged, refused, late>>
historyVars == <<acted, durable>>
vars == <<up, claim, agent, journal, status, charged, late, acted, durable,
          refused>>

Agent == Reservation \X Process \X {"caller", "replay"}

(* "first" is the caller's own commit attempt; "commit" and "event" are    *)
(* the two modes of a retry worker's _PendingCommit.                       *)
Duty == {"none", "first", "commit", "event", "release"}

(* The answers the SDK tells apart: a schema-valid success; a 2xx, 5xx or  *)
(* transport error that proves nothing; a 429 with Retry-After; 401/403;   *)
(* 410 or RESERVATION_EXPIRED; a recognized non-retryable error code; any  *)
(* other 4xx.  A 429 without Retry-After is handled like "transient".      *)
Answer == {"none", "ok", "transient", "limited", "auth", "expired",
           "reject", "unclassified"}

FaultAnswer == {"transient", "limited", "auth", "unclassified"}

AgentState ==
    [pc: {"idle", "running", "completed", "sent", "answered", "backoff"},
     duty: Duty, attempt: 0..MaxAttempts, answer: Answer]

At(where, d, n) == [pc |-> where, duty |-> d, attempt |-> n, answer |-> "none"]
Idle == At("idle", "none", 0)

(* Definitions marked "Slip" are plausible mistakes in the definition that *)
(* follows them.  No action uses them: they show what each property sees.  *)

(* Slip: the retry loop does not count its attempts.                       *)
ResumeForever(d, n) == At("backoff", d, n)

(* The head of the retry loop: sleep before another attempt, or give up.   *)
Resume(d, n) == IF n < MaxAttempts THEN At("backoff", d, n) ELSE Idle

Endpoint(d) == IF d = "first" THEN "commit" ELSE d

TypeOK ==
    /\ up \in [Process -> BOOLEAN]
    /\ claim \in [Process -> {"none", "deferred", "loading", "done"}]
    /\ agent \in [Agent -> AgentState]
    /\ journal \in [Reservation -> {"none", "commit", "event"}]
    /\ status \in [Reservation ->
          {"none", "active", "committed", "released", "expired"}]
    /\ charged \in [Reservation -> SUBSET {"commit", "event"}]
    /\ late \in [Reservation -> SUBSET {"commit", "event", "release"}]
    /\ acted \in [Reservation -> BOOLEAN]
    /\ durable \in [Reservation -> BOOLEAN]
    /\ refused \in [Reservation -> BOOLEAN]

Init ==
    /\ up = [p \in Process |-> FALSE]
    /\ claim = [p \in Process |-> "none"]
    /\ agent = [a \in Agent |-> Idle]
    /\ journal = [r \in Reservation |-> "none"]
    /\ status = [r \in Reservation |-> "none"]
    /\ charged = [r \in Reservation |-> {}]
    /\ late = [r \in Reservation |-> {}]
    /\ acted = [r \in Reservation |-> FALSE]
    /\ durable = [r \in Reservation |-> FALSE]
    /\ refused = [r \in Reservation |-> FALSE]

-------------------------------------------------------------------------------
(* The journal: one file per reservation.  Both operations swallow         *)
(* OSError, which leaves the file as it was.                               *)

JournalRecord(r, m) ==
    /\ \/ journal' = [journal EXCEPT ![r] = m]
       \/ JournalMayFail /\ journal' = journal
    /\ durable' = [durable EXCEPT ![r] = durable[r] \/ journal'[r] # "none"]

JournalDiscard(r) ==
    /\ \/ journal' = [journal EXCEPT ![r] = "none"]
       \/ JournalMayFail /\ journal' = journal
    /\ UNCHANGED durable

(* Slip: the replay overlooks records in event mode.                       *)
ReplayedCommitsOnly(p, j) ==
    [a \in Agent |->
        IF a[2] = p /\ a[3] = "replay" /\ j[a[1]] = "commit"
        THEN Resume(j[a[1]], 0)
        ELSE agent[a]]

(* The workers p has once it replays the records in journal j.             *)
Replayed(p, j) ==
    [a \in Agent |->
        IF a[2] = p /\ a[3] = "replay" /\ j[a[1]] # "none"
        THEN Resume(j[a[1]], 0)
        ELSE agent[a]]

-------------------------------------------------------------------------------
(* Processes and the replay of the journal.                                *)

Start(p) ==
    /\ ~up[p]
    /\ up' = [up EXCEPT ![p] = TRUE]
    /\ claim' = [claim EXCEPT ![p] = IF RetryEnabled THEN "none" ELSE "done"]
    /\ UNCHANGED <<agent, journal, serverVars, historyVars>>

(* The first engine of the process claims the directory in set_client ...  *)
Claim(p) ==
    /\ up[p] /\ claim[p] \in {"none", "deferred"}
    /\ claim' = [claim EXCEPT ![p] = "loading"]
    /\ UNCHANGED <<up, agent, journal, serverVars, historyVars>>

(* ... and then scans it; other threads of p run in between.  An engine    *)
(* created in a loop claims even if an earlier one deferred its replay.    *)
Load(p) ==
    /\ up[p] /\ claim[p] = "loading"
    /\ claim' = [claim EXCEPT ![p] = "done"]
    /\ agent' = Replayed(p, journal)
    /\ UNCHANGED <<up, journal, serverVars, historyVars>>

(* An async engine built outside a running event loop replays later.       *)
Defer(p) ==
    /\ up[p] /\ claim[p] = "none"
    /\ claim' = [claim EXCEPT ![p] = "deferred"]
    /\ UNCHANGED <<up, agent, journal, serverVars, historyVars>>

(* A process that ends takes its threads with it: they are daemons, and a  *)
(* clean exit waits for them only until the flush deadline.                *)
Stop(p) ==
    /\ up' = [up EXCEPT ![p] = FALSE]
    /\ claim' = [claim EXCEPT ![p] = "none"]
    /\ agent' = [a \in Agent |-> IF a[2] = p THEN Idle ELSE agent[a]]
    /\ late' = [r \in Reservation |-> late[r] \cup
          {Endpoint(agent[a].duty) :
              a \in {b \in Agent : b[1] = r /\ b[2] = p
                                   /\ agent[b].pc = "sent"}}]
    /\ UNCHANGED <<journal, status, charged, refused, historyVars>>

Quiescent(p) == \A a \in Agent : a[2] = p => agent[a] = Idle

(* A run that ends by itself has created an engine; a crash comes any time. *)
Exit(p)  == up[p] /\ claim[p] \in {"deferred", "done"} /\ Quiescent(p) /\ Stop(p)
Crash(p) == up[p] /\ ~(claim[p] \in {"deferred", "done"} /\ Quiescent(p)) /\ Stop(p)

-------------------------------------------------------------------------------
(* The guarded call.                                                       *)

Reserve(r, p) ==
    /\ up[p] /\ claim[p] # "none"
    /\ status[r] = "none"
    /\ status' = [status EXCEPT ![r] = "active"]
    /\ agent' = [agent EXCEPT ![<<r, p, "caller">>] = At("running", "none", 0)]
    /\ UNCHANGED <<up, claim, journal, charged, refused, late, historyVars>>

ActionReturns(a) ==
    /\ agent[a].pc = "running"
    /\ agent' = [agent EXCEPT ![a] = At("completed", "first", 0)]
    /\ acted' = [acted EXCEPT ![a[1]] = TRUE]
    /\ UNCHANGED <<up, claim, journal, serverVars, durable>>

ActionFails(a) ==
    /\ agent[a].pc = "running"
    /\ agent' = [agent EXCEPT ![a] = At("sent", "release", 0)]
    /\ UNCHANGED <<up, claim, journal, serverVars, historyVars>>

(* persist_pending, then the first POST.                                   *)
PersistAndCommit(a) ==
    /\ agent[a].pc = "completed"
    /\ JournalRecord(a[1], "commit")
    /\ agent' = [agent EXCEPT ![a] = At("sent", "first", 0)]
    /\ UNCHANGED <<up, claim, serverVars, acted>>

(* _submit: journal the record, then hand it to a worker.  A deferred      *)
(* replay runs between the two, and finds the record just written.         *)
Submit(a, d) ==
    LET deferred == claim[a[2]] = "deferred"
        others   == IF deferred THEN Replayed(a[2], journal') ELSE agent
    IN /\ JournalRecord(a[1], d)
       /\ IF RetryEnabled
          THEN /\ agent' = [others EXCEPT ![a] = Resume(d, 0)]
               /\ claim' = IF deferred
                           THEN [claim EXCEPT ![a[2]] = "done"] ELSE claim
          ELSE /\ agent' = [agent EXCEPT ![a] = Idle]
               /\ UNCHANGED claim

Answered(a, d, answers) ==
    /\ agent[a].pc = "answered"
    /\ agent[a].duty = d
    /\ agent[a].answer \in answers

Finish(a) == agent' = [agent EXCEPT ![a] = Idle]

(* Slip: a rejected commit gives the reservation back.                     *)
FirstSettledByRelease(a) ==
    /\ Answered(a, "first", {"ok", "reject"})
    /\ JournalDiscard(a[1])
    /\ IF agent[a].answer = "ok"
       THEN Finish(a)
       ELSE agent' = [agent EXCEPT ![a] = At("sent", "release", 0)]
    /\ UNCHANGED <<up, claim, serverVars, acted>>

(* _handle_commit, once the first attempt has been answered.               *)
FirstSettled(a) ==
    /\ Answered(a, "first", {"ok", "reject"})
    /\ JournalDiscard(a[1])
    /\ Finish(a)
    /\ UNCHANGED <<up, claim, serverVars, acted>>

(* Slip: an unclassifiable 4xx is taken for an expired reservation.        *)
FirstRetriedAsEvent(a) ==
    /\ Answered(a, "first", FaultAnswer \cup {"expired"})
    /\ Submit(a, IF agent[a].answer \in {"expired", "unclassified"}
                 THEN "event" ELSE "commit")
    /\ UNCHANGED <<up, serverVars, acted>>

FirstRetried(a) ==
    /\ \/ Answered(a, "first", FaultAnswer) /\ Submit(a, "commit")
       \/ Answered(a, "first", {"expired"}) /\ Submit(a, "event")
    /\ UNCHANGED <<up, serverVars, acted>>

(* A release is best effort: whatever the answer, the caller moves on.     *)
ReleaseAnswered(a) ==
    /\ Answered(a, "release", Answer)
    /\ Finish(a)
    /\ UNCHANGED <<up, claim, journal, serverVars, historyVars>>

-------------------------------------------------------------------------------
(* The retry worker.                                                       *)

Wake(a) ==
    /\ agent[a].pc = "backoff"
    /\ agent' = [agent EXCEPT ![a] =
          At("sent", agent[a].duty, agent[a].attempt + 1)]
    /\ UNCHANGED <<up, claim, journal, serverVars, historyVars>>

WorkerAnswered(a, answers) ==
    \E d \in {"commit", "event"} : Answered(a, d, answers)

(* Slip: the record of an expired reservation's event is not discarded.    *)
WorkerSettledKeepingEvent(a) ==
    /\ WorkerAnswered(a, {"ok", "reject"})
    /\ IF agent[a].duty = "commit"
       THEN JournalDiscard(a[1]) ELSE UNCHANGED <<journal, durable>>
    /\ Finish(a)
    /\ UNCHANGED <<up, claim, serverVars, acted>>

WorkerSettled(a) ==
    /\ WorkerAnswered(a, {"ok", "reject"})
    /\ JournalDiscard(a[1])
    /\ Finish(a)
    /\ UNCHANGED <<up, claim, serverVars, acted>>

(* Slip: the record goes with the worker.                                  *)
WorkerGivesUpDiscarding(a) ==
    /\ WorkerAnswered(a, {"auth", "unclassified"})
    /\ JournalDiscard(a[1])
    /\ Finish(a)
    /\ UNCHANGED <<up, claim, serverVars, acted>>

(* Authentication and unclassifiable errors end the worker, not the record. *)
WorkerGivesUp(a) ==
    /\ WorkerAnswered(a, {"auth", "unclassified"})
    /\ Finish(a)
    /\ UNCHANGED <<up, claim, journal, serverVars, historyVars>>

(* A Retry-After is journaled at once, with the worker's mode.             *)
WorkerRetries(a) ==
    /\ \/ WorkerAnswered(a, {"transient"}) /\ UNCHANGED <<journal, durable>>
       \/ WorkerAnswered(a, {"limited"}) /\ JournalRecord(a[1], agent[a].duty)
    /\ agent' = [agent EXCEPT ![a] = Resume(agent[a].duty, agent[a].attempt)]
    /\ UNCHANGED <<up, claim, serverVars, acted>>

(* Slip: any 4xx sends the spend to the events endpoint.                   *)
WorkerFlipsOnAny4xx(a) ==
    /\ Answered(a, "commit", {"expired", "unclassified"})
    /\ JournalRecord(a[1], "event")
    /\ agent' = [agent EXCEPT ![a] = At("sent", "event", 0)]
    /\ UNCHANGED <<up, claim, serverVars, acted>>

(* The commit came too late: journal the event mode and post the event     *)
(* within the same attempt, with the attempt counter reset.                *)
WorkerFlips(a) ==
    /\ Answered(a, "commit", {"expired"})
    /\ JournalRecord(a[1], "event")
    /\ agent' = [agent EXCEPT ![a] = At("sent", "event", 0)]
    /\ UNCHANGED <<up, claim, serverVars, acted>>

(* Slip: a cancelled settlement counts as a failed action.                 *)
InterruptReleasing(a) ==
    /\ agent[a].pc \in {"completed", "sent", "answered", "backoff"}
    /\ agent' = [agent EXCEPT ![a] = At("sent", "release", 0)]
    /\ late' = [late EXCEPT ![a[1]] =
          IF agent[a].pc = "sent" THEN @ \cup {Endpoint(agent[a].duty)} ELSE @]
    /\ UNCHANGED <<up, claim, journal, status, charged, refused, historyVars>>

(* CancelledError and KeyboardInterrupt are no Exception: they end a       *)
(* caller's settlement or a worker without scheduling anything.            *)
Interrupt(a) ==
    /\ agent[a].pc \in {"completed", "sent", "answered", "backoff"}
    /\ Finish(a)
    /\ late' = [late EXCEPT ![a[1]] =
          IF agent[a].pc = "sent" THEN @ \cup {Endpoint(agent[a].duty)} ELSE @]
    /\ UNCHANGED <<up, claim, journal, status, charged, refused, historyVars>>

-------------------------------------------------------------------------------
(* The server (external).  Each clause is one endpoint's contract; ans is  *)
(* the answer it gives.                                                    *)

ServerCommit(r, ans) ==
    \/ /\ status[r] = "committed" /\ ans = "ok"           \* replay of the key
       /\ UNCHANGED <<status, charged, refused>>
    \/ /\ status[r] = "active" /\ ans = "ok"
       /\ status' = [status EXCEPT ![r] = "committed"]
       /\ charged' = [charged EXCEPT ![r] = @ \cup {"commit"}]
       /\ UNCHANGED refused
    \/ /\ status[r] = "active" /\ ans = "reject"          \* e.g. BUDGET_CLOSED
       /\ refused' = [refused EXCEPT ![r] = TRUE]
       /\ UNCHANGED <<status, charged>>
    \/ /\ status[r] = "expired" /\ ans = "expired"
       /\ UNCHANGED <<status, charged, refused>>
    \/ /\ status[r] = "released" /\ ans = "reject"   \* RESERVATION_FINALIZED
       /\ UNCHANGED <<status, charged, refused>>

ServerEvent(r, ans) ==
    \/ /\ "event" \in charged[r] /\ ans = "ok"            \* replay of the key
       /\ UNCHANGED <<status, charged, refused>>
    \/ /\ "event" \notin charged[r] /\ ans = "ok"
       /\ charged' = [charged EXCEPT ![r] = @ \cup {"event"}]
       /\ UNCHANGED <<status, refused>>
    \/ /\ "event" \notin charged[r] /\ ans = "reject"     \* e.g. BUDGET_EXCEEDED
       /\ refused' = [refused EXCEPT ![r] = TRUE]
       /\ UNCHANGED <<status, charged>>

ServerRelease(r, ans) ==
    \/ /\ status[r] \in {"active", "released"} /\ ans = "ok"
       /\ status' = [status EXCEPT ![r] = "released"]
       /\ UNCHANGED <<charged, refused>>
    \/ /\ status[r] = "expired" /\ ans = "expired"
       /\ UNCHANGED <<status, charged, refused>>
    \/ /\ status[r] = "committed" /\ ans = "reject"
       /\ UNCHANGED <<status, charged, refused>>

Handle(r, endpoint, ans) ==
    \/ endpoint = "commit"  /\ ServerCommit(r, ans)
    \/ endpoint = "event"   /\ ServerEvent(r, ans)
    \/ endpoint = "release" /\ ServerRelease(r, ans)

(* The request is processed and its answer comes back.                     *)
Serve(a) ==
    /\ agent[a].pc = "sent"
    /\ \E ans \in {"ok", "reject", "expired"} :
          /\ Handle(a[1], Endpoint(agent[a].duty), ans)
          /\ agent' = [agent EXCEPT ![a].pc = "answered", ![a].answer = ans]
    /\ UNCHANGED <<up, claim, journal, late, historyVars>>

(* The sender is left with an answer that proves nothing.  The request may *)
(* still be on its way: LateArrival may process it, now, later or never.   *)
Deflect(a) ==
    /\ agent[a].pc = "sent"
    /\ \E ans \in FaultAnswer :
          agent' = [agent EXCEPT ![a].pc = "answered", ![a].answer = ans]
    /\ late' = [late EXCEPT ![a[1]] = @ \cup {Endpoint(agent[a].duty)}]
    /\ UNCHANGED <<up, claim, journal, status, charged, refused, historyVars>>

LateArrival(r) ==
    /\ \E endpoint \in late[r], ans \in {"ok", "reject", "expired"} :
          Handle(r, endpoint, ans)
    /\ UNCHANGED <<up, claim, agent, journal, late, historyVars>>

Expire(r) ==
    /\ status[r] = "active"
    /\ status' = [status EXCEPT ![r] = "expired"]
    /\ UNCHANGED <<up, claim, agent, journal, charged, refused, late,
                   historyVars>>

-------------------------------------------------------------------------------
ProcessStep(p) == Start(p) \/ Claim(p) \/ Load(p) \/ Defer(p) \/ Exit(p) \/ Crash(p)

CallerStep(a) ==
    \/ ActionReturns(a) \/ ActionFails(a) \/ PersistAndCommit(a)
    \/ FirstSettled(a) \/ FirstRetried(a) \/ ReleaseAnswered(a)

WorkerStep(a) ==
    \/ Wake(a) \/ WorkerSettled(a) \/ WorkerGivesUp(a) \/ WorkerRetries(a)
    \/ WorkerFlips(a)

(* The step an agent takes on an answer that decides the spend's fate.     *)
Conclude(a) ==
    /\ agent[a].answer \in {"ok", "reject", "expired"}
    /\ FirstSettled(a) \/ FirstRetried(a) \/ WorkerSettled(a) \/ WorkerFlips(a)

Next ==
    \/ \E p \in Process : ProcessStep(p)
    \/ \E r \in Reservation, p \in Process : Reserve(r, p)
    \/ \E a \in Agent :
          CallerStep(a) \/ WorkerStep(a) \/ Interrupt(a) \/ Serve(a) \/ Deflect(a)
    \/ \E r \in Reservation : LateArrival(r) \/ Expire(r)

Spec == Init /\ [][Next]_vars

(* Scheduling: runnable threads and tasks run, and a process that has      *)
(* nothing left to do ends and is started again some day.  Environment: a  *)
(* request that is retried for ever is served some day, and crashes do not *)
(* hit the same step for ever.                                             *)
Fairness ==
    /\ \A p \in Process : /\ WF_vars(Start(p)) /\ WF_vars(Exit(p))
                          /\ SF_vars(Claim(p) \/ Defer(p)) /\ SF_vars(Load(p))
    /\ \A a \in Agent : /\ WF_vars(CallerStep(a)) /\ WF_vars(WorkerStep(a))
                        /\ SF_vars(Wake(a)) /\ SF_vars(Serve(a))
                        /\ SF_vars(Conclude(a))

LiveSpec == Spec /\ Fairness

(* The application keeps creating engines where they can replay at once:   *)
(* sync ones, or async ones inside a running event loop.                   *)
ReplaySpec == LiveSpec /\ \A p \in Process : SF_vars(Claim(p))

-------------------------------------------------------------------------------
(* The inductive invariant: what the agents, the disk, the wire and the    *)
(* server know about one another.                                          *)

SettlementDuty == {"first", "commit", "event"}

(* What an agent does is backed by the reservation it does it for.         *)
AgentInv ==
    \A a \in Agent :
        /\ agent[a].pc \in {"idle", "running"} <=> agent[a].duty = "none"
        /\ agent[a].pc = "idle" => agent[a] = Idle
        /\ agent[a].pc = "answered" <=> agent[a].answer # "none"
        /\ agent[a].pc = "completed" => agent[a].duty = "first"
        /\ agent[a].pc = "backoff" => /\ agent[a].duty \in {"commit", "event"}
                                     /\ agent[a].attempt < MaxAttempts
        /\ agent[a].pc # "idle" => status[a[1]] # "none"
        /\ agent[a].duty = "event" \/ agent[a].answer = "expired"
              => status[a[1]] = "expired"
        /\ agent[a].duty \in SettlementDuty => acted[a[1]]
        /\ agent[a].duty = "release" => ~acted[a[1]]

(* An answer about the spend is true of the server, and stays true.        *)
AnswerInv ==
    \A a \in Agent :
        agent[a].duty \in SettlementDuty =>
            /\ agent[a].answer = "ok" => charged[a[1]] # {}
            /\ agent[a].answer = "reject" => refused[a[1]]

(* While the action runs, nobody else works on its reservation.            *)
RunningInv ==
    \A a \in Agent : agent[a].pc = "running" =>
        /\ ~acted[a[1]]
        /\ status[a[1]] # "released"
        /\ "release" \notin late[a[1]]
        /\ \A b \in Agent : b[1] = a[1] /\ b # a => agent[b].pc = "idle"

(* Disk, wire and server agree on how far the reservation has come.        *)
ReservationInv ==
    \A r \in Reservation :
        /\ status[r] = "none" => ~acted[r] /\ late[r] = {}
        /\ journal[r] # "none" => acted[r]
        /\ acted[r] => status[r] # "released" /\ "release" \notin late[r]
        /\ journal[r] = "event" \/ "event" \in late[r] \/ "event" \in charged[r]
              => status[r] = "expired"
        /\ "commit" \in charged[r] <=> status[r] = "committed"
        /\ "commit" \in late[r] \/ "event" \in late[r] => acted[r]

-------------------------------------------------------------------------------
(* Properties.                                                             *)

(* Commit retries, replays of several processes, late requests and the     *)
(* event fallback together charge a reservation's spend at most once       *)
(* (README.md:278, retry.py:310).                                          *)
ChargedAtMostOnce == \A r \in Reservation : charged[r] # {"commit", "event"}

(* Once the spend of r has reached the disk, its record goes away only     *)
(* after the server charged or refused it, whatever crashes, is cancelled, *)
(* runs out of attempts or fails to write (README.md:247-249).             *)
DurableSpendKept ==
    \A r \in Reservation :
        durable[r] => journal[r] # "none" \/ charged[r] # {} \/ refused[r]

(* Budget is never given back for an action that was carried out, not even *)
(* by a release request that arrives late (README.md:103-104).             *)
SpentNeverReleased ==
    \A r \in Reservation : acted[r] => status[r] # "released"

(* Spend goes to the events endpoint only once the server itself has       *)
(* expired the reservation; otherwise the hold would stay behind a charge. *)
EventOnlyAfterExpiry ==
    \A a \in Agent :
        agent[a].pc = "sent" /\ agent[a].duty = "event"
            => status[a[1]] = "expired"

(* The inductive invariant behind the four properties above; it is what    *)
(* SettlementProofs shows every step to preserve.                          *)
SettlementInv ==
    /\ TypeOK /\ AgentInv /\ AnswerInv /\ RunningInv /\ ReservationInv
    /\ DurableSpendKept

(* The spend an observer of disk, server and processes would report.       *)
Holder(r) ==
    \E a \in Agent : a[1] = r /\ agent[a].duty \in SettlementDuty

SpendOf(r) ==
    CASE charged[r] # {}                             -> "recorded"
      [] charged[r] = {} /\ refused[r]               -> "refused"
      [] charged[r] = {} /\ ~refused[r] /\ journal[r] # "none" -> "owed"
      [] OTHER ->
            IF ~acted[r]
            THEN IF status[r] = "released" THEN "released" ELSE "open"
            ELSE IF Holder(r) THEN "volatile" ELSE "lost"

Ledger == INSTANCE SpendLedger WITH spend <- [r \in Reservation |-> SpendOf(r)]

(* Settlement keeps the ledger's promise: see SpendLedger.                 *)
LedgerSafety == Ledger!LedgerSpec

(* ... and what is on disk is eventually answered for by the server.       *)
LedgerLiveness == Ledger!LedgerLiveSpec

(* A journaled record does not stay for ever (README.md:262-264: "replayed *)
(* automatically the next time").                                          *)
JournalDrains ==
    \A r \in Reservation : journal[r] # "none" ~> journal[r] = "none"
===============================================================================
