--------------------------- MODULE SettlementProofs ---------------------------
(***************************************************************************)
(* For every number of processes, reservations and attempts: settlement    *)
(* charges once, loses no journaled spend, and never gives back spent      *)
(* budget.  SettlementInv is inductive; each step of Next has a lemma.     *)
(***************************************************************************)
EXTENDS CommitSettlement, TLAPS

USE SettlementAssumption
DEF Agent, AgentState, Duty, Answer, SettlementDuty, At, Idle,
    serverVars, historyVars

LEMMA InitInv == Init => SettlementInv
<1> SUFFICES ASSUME Init PROVE SettlementInv OBVIOUS
<1>1. TypeOK BY DEF Init, TypeOK
<1>2. AgentInv /\ AnswerInv /\ RunningInv
  BY DEF Init, AgentInv, AnswerInv, RunningInv
<1>3. ReservationInv /\ DurableSpendKept
  BY DEF Init, ReservationInv, DurableSpendKept
<1> QED BY <1>1, <1>2, <1>3 DEF SettlementInv

(* A process starts: nothing it shares changes.                            *)
LEMMA StartInv ==
    ASSUME SettlementInv, NEW p \in Process, Start(p)
    PROVE  SettlementInv'
<1> USE DEF SettlementInv, TypeOK, Start
<1>1. TypeOK' BY DEF AgentInv
<1>2. AgentInv' BY DEF AgentInv, RunningInv, ReservationInv
<1>3. AnswerInv' BY DEF AnswerInv, AgentInv, ReservationInv
<1>4. RunningInv' BY DEF RunningInv, AgentInv, ReservationInv
<1>5. ReservationInv' BY DEF ReservationInv, AgentInv, RunningInv
<1>6. DurableSpendKept' BY DEF DurableSpendKept, AnswerInv, AgentInv
<1> QED BY <1>1, <1>2, <1>3, <1>4, <1>5, <1>6

(* The claim of a directory is private to the process.                     *)
LEMMA ClaimInv ==
    ASSUME SettlementInv, NEW p \in Process, Claim(p)
    PROVE  SettlementInv'
<1> USE DEF SettlementInv, TypeOK, Claim
<1>1. TypeOK' BY DEF AgentInv
<1>2. AgentInv' BY DEF AgentInv, RunningInv, ReservationInv
<1>3. AnswerInv' BY DEF AnswerInv, AgentInv, ReservationInv
<1>4. RunningInv' BY DEF RunningInv, AgentInv, ReservationInv
<1>5. ReservationInv' BY DEF ReservationInv, AgentInv, RunningInv
<1>6. DurableSpendKept' BY DEF DurableSpendKept, AnswerInv, AgentInv
<1> QED BY <1>1, <1>2, <1>3, <1>4, <1>5, <1>6

(* Replay workers start on journaled spend, so on spend that was made.     *)
LEMMA LoadInv ==
    ASSUME SettlementInv, NEW p \in Process, Load(p)
    PROVE  SettlementInv'
<1> USE DEF SettlementInv, TypeOK, Load, Replayed, Resume
<1>1. TypeOK' BY DEF AgentInv
<1>2. AgentInv' BY DEF AgentInv, RunningInv, ReservationInv
<1>3. AnswerInv' BY DEF AnswerInv, AgentInv, ReservationInv
<1>4. RunningInv' BY DEF RunningInv, AgentInv, ReservationInv
<1>5. ReservationInv' BY DEF ReservationInv, AgentInv, RunningInv
<1>6. DurableSpendKept' BY DEF DurableSpendKept, AnswerInv, AgentInv
<1> QED BY <1>1, <1>2, <1>3, <1>4, <1>5, <1>6

(* Deferring the replay touches only the claim.                            *)
LEMMA DeferInv ==
    ASSUME SettlementInv, NEW p \in Process, Defer(p)
    PROVE  SettlementInv'
<1> USE DEF SettlementInv, TypeOK, Defer
<1>1. TypeOK' BY DEF AgentInv
<1>2. AgentInv' BY DEF AgentInv, RunningInv, ReservationInv
<1>3. AnswerInv' BY DEF AnswerInv, AgentInv, ReservationInv
<1>4. RunningInv' BY DEF RunningInv, AgentInv, ReservationInv
<1>5. ReservationInv' BY DEF ReservationInv, AgentInv, RunningInv
<1>6. DurableSpendKept' BY DEF DurableSpendKept, AnswerInv, AgentInv
<1> QED BY <1>1, <1>2, <1>3, <1>4, <1>5, <1>6

(* A dead process leaves its requests on the wire and its records on disk. *)
LEMMA StopInv ==
    ASSUME SettlementInv, NEW p \in Process, Stop(p)
    PROVE  SettlementInv'
<1> USE DEF SettlementInv, TypeOK, Stop, Endpoint
<1>1. TypeOK' BY DEF AgentInv
<1>2. AgentInv' BY DEF AgentInv, RunningInv, ReservationInv
<1>3. AnswerInv' BY DEF AnswerInv, AgentInv, ReservationInv
<1>4. RunningInv'
  <2> SUFFICES ASSUME NEW a \in Agent, agent'[a].pc = "running"
               PROVE  /\ ~acted'[a[1]]
                      /\ status'[a[1]] # "released"
                      /\ "release" \notin late'[a[1]]
                      /\ \A b \in Agent : b[1] = a[1] /\ b # a => agent'[b].pc = "idle"
    BY DEF RunningInv
  <2>1. agent'[a] = agent[a] /\ \A b \in Agent : agent'[b] \in {agent[b], Idle}
    OBVIOUS
  <2>2. \A b \in Agent : b[1] = a[1] => agent[b].pc # "sent"
    BY <2>1 DEF RunningInv
  <2>3. late'[a[1]] = late[a[1]]
    BY <2>2
  <2> QED BY <2>1, <2>3 DEF RunningInv
<1>5. ReservationInv' BY DEF ReservationInv, AgentInv, RunningInv
<1>6. DurableSpendKept' BY DEF DurableSpendKept, AnswerInv, AgentInv
<1> QED BY <1>1, <1>2, <1>3, <1>4, <1>5, <1>6

(* A new reservation has no other agent: status "none" excludes them.      *)
LEMMA ReserveInv ==
    ASSUME SettlementInv, NEW r \in Reservation, NEW p \in Process, Reserve(r, p) PROVE SettlementInv'
<1> USE DEF SettlementInv, TypeOK, Reserve
<1> DEFINE c == <<r, p, "caller">>
<1>1. TypeOK' OBVIOUS
<1>2. AgentInv' BY DEF AgentInv, RunningInv, ReservationInv
<1>3. AnswerInv' BY DEF AnswerInv, AgentInv, ReservationInv
<1>4. RunningInv'
  <2>1. c \in Agent /\ c[1] = r OBVIOUS
  <2>2. \A b \in Agent : b[1] = r => agent[b].pc = "idle" BY DEF AgentInv
  <2>3. \A b \in Agent : b # c => agent'[b] = agent[b] OBVIOUS
  <2>4. ~acted[r] /\ late[r] = {} BY DEF ReservationInv
  <2>. SUFFICES ASSUME NEW a \in Agent, agent'[a].pc = "running"
       PROVE /\ ~acted'[a[1]]
             /\ status'[a[1]] # "released"
             /\ "release" \notin late'[a[1]]
             /\ \A b \in Agent : b[1] = a[1] /\ b # a => agent'[b].pc = "idle"
       BY DEF RunningInv
  <2>5. CASE a = c BY <2>1, <2>2, <2>3, <2>4, <2>5
  <2>6. CASE a # c
    <3>1. a[1] # r BY <2>2, <2>3, <2>6
    <3> QED BY <2>1, <2>3, <2>6, <3>1 DEF RunningInv
  <2> QED BY <2>5, <2>6
<1>5. ReservationInv' BY DEF ReservationInv, AgentInv, RunningInv
<1>6. DurableSpendKept' BY DEF DurableSpendKept, AnswerInv, AgentInv
<1> QED BY <1>1, <1>2, <1>3, <1>4, <1>5, <1>6

(* From here on the spend is known; no release of r exists.                *)
LEMMA ActionReturnsInv ==
    ASSUME SettlementInv, NEW a \in Agent, ActionReturns(a)
    PROVE  SettlementInv'
<1> USE DEF SettlementInv, TypeOK, ActionReturns
<1>1. TypeOK' BY DEF AgentInv
<1>2. AgentInv' BY DEF AgentInv, RunningInv, ReservationInv
<1>3. AnswerInv' BY DEF AnswerInv, AgentInv, ReservationInv
<1>4. RunningInv' BY DEF RunningInv, AgentInv, ReservationInv
<1>5. ReservationInv' BY DEF ReservationInv, AgentInv, RunningInv
<1>6. DurableSpendKept' BY DEF DurableSpendKept, AnswerInv, AgentInv
<1> QED BY <1>1, <1>2, <1>3, <1>4, <1>5, <1>6

(* Only the running agent may ask for a release, and it has spent nothing. *)
LEMMA ActionFailsInv ==
    ASSUME SettlementInv, NEW a \in Agent, ActionFails(a)
    PROVE  SettlementInv'
<1> USE DEF SettlementInv, TypeOK, ActionFails
<1>1. TypeOK' BY DEF AgentInv
<1>2. AgentInv' BY DEF AgentInv, RunningInv, ReservationInv
<1>3. AnswerInv' BY DEF AnswerInv, AgentInv, ReservationInv
<1>4. RunningInv' BY DEF RunningInv, AgentInv, ReservationInv
<1>5. ReservationInv' BY DEF ReservationInv, AgentInv, RunningInv
<1>6. DurableSpendKept' BY DEF DurableSpendKept, AnswerInv, AgentInv
<1> QED BY <1>1, <1>2, <1>3, <1>4, <1>5, <1>6

(* The first record is in commit mode, for spend that was made.            *)
LEMMA PersistAndCommitInv ==
    ASSUME SettlementInv, NEW a \in Agent, PersistAndCommit(a)
    PROVE  SettlementInv'
<1> USE DEF SettlementInv, TypeOK, PersistAndCommit, JournalRecord
<1>1. TypeOK' BY DEF AgentInv
<1>2. AgentInv' BY DEF AgentInv, RunningInv, ReservationInv
<1>3. AnswerInv' BY DEF AnswerInv, AgentInv, ReservationInv
<1>4. RunningInv' BY DEF RunningInv, AgentInv, ReservationInv
<1>5. ReservationInv' BY DEF ReservationInv, AgentInv, RunningInv
<1>6. DurableSpendKept' BY DEF DurableSpendKept, AnswerInv, AgentInv
<1> QED BY <1>1, <1>2, <1>3, <1>4, <1>5, <1>6

(* The first attempt discards the record on a true answer only.            *)
LEMMA FirstSettledInv ==
    ASSUME SettlementInv, NEW a \in Agent, FirstSettled(a)
    PROVE  SettlementInv'
<1> USE DEF SettlementInv, TypeOK, FirstSettled, Answered, JournalDiscard,
            Finish
<1>1. TypeOK' BY DEF AgentInv
<1>2. AgentInv' BY DEF AgentInv, RunningInv, ReservationInv
<1>3. AnswerInv' BY DEF AnswerInv, AgentInv, ReservationInv
<1>4. RunningInv' BY DEF RunningInv, AgentInv, ReservationInv
<1>5. ReservationInv' BY DEF ReservationInv, AgentInv, RunningInv
<1>6. DurableSpendKept' BY DEF DurableSpendKept, AnswerInv, AgentInv
<1> QED BY <1>1, <1>2, <1>3, <1>4, <1>5, <1>6

(* What _submit does to the agents: a becomes a worker or ends, and a      *)
(* deferred replay starts workers on journaled records.                    *)
LEMMA SubmitAgents ==
    ASSUME TypeOK, NEW a \in Agent, NEW d \in {"commit", "event"}, Submit(a, d)
    PROVE  /\ claim' \in [Process -> {"none", "deferred", "loading", "done"}]
           /\ journal' \in [Reservation -> {"none", "commit", "event"}]
           /\ durable' \in [Reservation -> BOOLEAN]
           /\ agent' \in [Agent -> AgentState]
           /\ agent'[a] \in {Idle, Resume(d, 0)}
           /\ \A b \in Agent : b # a =>
                 \/ agent'[b] = agent[b]
                 \/ /\ journal'[b[1]] # "none"
                    /\ agent'[b] = Resume(journal'[b[1]], 0)
<1> DEFINE R == Replayed(a[2], journal')
<1>1. /\ journal' \in [Reservation -> {"none", "commit", "event"}]
      /\ durable' \in [Reservation -> BOOLEAN]
  BY DEF TypeOK, Submit, JournalRecord
<1>2. \A m \in {"commit", "event"} : Resume(m, 0) \in AgentState
  BY DEF Resume
<1>3. /\ R \in [Agent -> AgentState]
      /\ \A b \in Agent : R[b] = agent[b] \/ (journal'[b[1]] # "none" /\ R[b] = Resume(journal'[b[1]], 0))
  BY <1>1, <1>2 DEF TypeOK, Replayed
<1>4. claim' \in [Process -> {"none", "deferred", "loading", "done"}]
  BY DEF Submit, TypeOK
<1>5. Idle \in AgentState OBVIOUS
<1>6. \/ agent' = [R EXCEPT ![a] = Resume(d, 0)]
      \/ agent' = [agent EXCEPT ![a] = Resume(d, 0)]
      \/ agent' = [agent EXCEPT ![a] = Idle]
  BY DEF Submit
<1>7. agent \in [Agent -> AgentState] BY DEF TypeOK
<1> HIDE DEF R, Idle, AgentState, Agent
<1> QED BY <1>1, <1>2, <1>3, <1>4, <1>5, <1>6, <1>7

(* The first attempt hands over to a worker.                               *)
LEMMA FirstRetriedInv ==
    ASSUME SettlementInv, NEW a \in Agent, FirstRetried(a) PROVE SettlementInv'
<1>0. PICK d \in {"commit", "event"} :
         /\ Submit(a, d)
         /\ agent[a].duty = "first" /\ agent[a].pc = "answered"
         /\ d = "event" => agent[a].answer = "expired"
  BY DEF FirstRetried, Answered
<1>1. /\ claim' \in [Process -> {"none", "deferred", "loading", "done"}]
      /\ journal' \in [Reservation -> {"none", "commit", "event"}]
      /\ durable' \in [Reservation -> BOOLEAN]
      /\ agent' \in [Agent -> AgentState]
      /\ agent'[a] \in {Idle, Resume(d, 0)}
      /\ \A b \in Agent : b # a =>
            \/ agent'[b] = agent[b]
            \/ /\ journal'[b[1]] # "none"
               /\ agent'[b] = Resume(journal'[b[1]], 0)
  BY <1>0, SubmitAgents DEF SettlementInv
<1>2. UNCHANGED <<up, status, charged, refused, late, acted>>
  BY DEF FirstRetried
<1>3. acted[a[1]] /\ (d = "event" => status[a[1]] = "expired")
  BY <1>0 DEF SettlementInv, AgentInv
<1>4. \A r \in Reservation :
         /\ journal'[r] \in {journal[r], IF r = a[1] THEN d ELSE journal[r]}
         /\ durable'[r] \in BOOLEAN
         /\ durable'[r] => durable[r] \/ journal'[r] # "none"
  BY <1>0 DEF Submit, JournalRecord, SettlementInv, TypeOK
<1>5. \A r \in Reservation :
         /\ journal'[r] # "none" => acted[r]
         /\ journal'[r] = "event" => status[r] = "expired"
         /\ acted[r] => status[r] # "none"
  BY <1>3, <1>4 DEF SettlementInv, ReservationInv
<1>6. \A b \in Agent :
         \/ agent'[b] = agent[b]
         \/ agent'[b] = Idle
         \/ \E m \in {"commit", "event"} :
               /\ agent'[b] = At("backoff", m, 0)
               /\ 0 < MaxAttempts
               /\ acted[b[1]]
               /\ m = "event" => status[b[1]] = "expired"
  <2>1. \A b \in Agent : b[1] \in Reservation OBVIOUS
  <2>2. CASE \/ agent'[a] = Idle
             \/ agent'[a] = At("backoff", d, 0) /\ 0 < MaxAttempts
    <3> SUFFICES ASSUME NEW b \in Agent
        PROVE  \/ agent'[b] = agent[b]
               \/ agent'[b] = Idle
               \/ \E m \in {"commit", "event"} :
                     /\ agent'[b] = At("backoff", m, 0)
                     /\ 0 < MaxAttempts
                     /\ acted[b[1]]
                     /\ m = "event" => status[b[1]] = "expired"
      OBVIOUS
    <3>1. CASE b = a BY <1>3, <2>2, <3>1
    <3>2. CASE b # a /\ agent'[b] # agent[b]
      <4>1. journal'[b[1]] \in {"commit", "event"}
        BY <1>1, <2>1, <3>2
      <4>2. agent'[b] = Resume(journal'[b[1]], 0) BY <1>1, <3>2
      <4> QED BY <1>5, <2>1, <4>1, <4>2 DEF Resume
    <3> QED BY <3>1, <3>2
  <2> QED BY <1>1, <2>2 DEF Resume
<1>7. TypeOK' BY <1>1, <1>2 DEF SettlementInv, TypeOK
<1>8. AgentInv'
  BY <1>2, <1>5, <1>6 DEF SettlementInv, AgentInv
<1>9. AnswerInv' /\ RunningInv'
  <2>1. \A b \in Agent : agent'[b].pc = "running" => agent'[b] = agent[b]
    BY <1>6
  <2>2. \A b \in Agent : agent'[b].pc # "idle" /\ ~ acted[b[1]] => agent'[b] = agent[b]
    BY <1>6
  <2>3. AnswerInv' BY <1>2, <1>6 DEF SettlementInv, AnswerInv
  <2> QED BY <1>2, <2>1, <2>2, <2>3 DEF SettlementInv, RunningInv
<1>10. ReservationInv' BY <1>2, <1>5 DEF SettlementInv, ReservationInv
<1>11. DurableSpendKept'
  BY <1>2, <1>4 DEF SettlementInv, DurableSpendKept, Submit, JournalRecord
<1> QED BY <1>7, <1>8, <1>9, <1>10, <1>11 DEF SettlementInv

(* A release answer ends the agent.                                        *)
LEMMA ReleaseAnsweredInv ==
    ASSUME SettlementInv, NEW a \in Agent, ReleaseAnswered(a)
    PROVE  SettlementInv'
<1> USE DEF SettlementInv, TypeOK, ReleaseAnswered, Answered, Finish
<1>1. TypeOK' BY DEF AgentInv
<1>2. AgentInv' BY DEF AgentInv, RunningInv, ReservationInv
<1>3. AnswerInv' BY DEF AnswerInv, AgentInv, ReservationInv
<1>4. RunningInv' BY DEF RunningInv, AgentInv, ReservationInv
<1>5. ReservationInv' BY DEF ReservationInv, AgentInv, RunningInv
<1>6. DurableSpendKept' BY DEF DurableSpendKept, AnswerInv, AgentInv
<1> QED BY <1>1, <1>2, <1>3, <1>4, <1>5, <1>6

(* A worker's next attempt stays within MaxAttempts.                       *)
LEMMA WakeInv ==
    ASSUME SettlementInv, NEW a \in Agent, Wake(a)
    PROVE  SettlementInv'
<1> USE DEF SettlementInv, TypeOK, Wake
<1>1. TypeOK' BY DEF AgentInv
<1>2. AgentInv' BY DEF AgentInv, RunningInv, ReservationInv
<1>3. AnswerInv' BY DEF AnswerInv, AgentInv, ReservationInv
<1>4. RunningInv' BY DEF RunningInv, AgentInv, ReservationInv
<1>5. ReservationInv' BY DEF ReservationInv, AgentInv, RunningInv
<1>6. DurableSpendKept' BY DEF DurableSpendKept, AnswerInv, AgentInv
<1> QED BY <1>1, <1>2, <1>3, <1>4, <1>5, <1>6

(* A worker discards the record on a true answer only.                     *)
LEMMA WorkerSettledInv ==
    ASSUME SettlementInv, NEW a \in Agent, WorkerSettled(a)
    PROVE  SettlementInv'
<1> USE DEF SettlementInv, TypeOK, WorkerSettled, WorkerAnswered, Answered,
            JournalDiscard, Finish
<1>1. TypeOK' BY DEF AgentInv
<1>2. AgentInv' BY DEF AgentInv, RunningInv, ReservationInv
<1>3. AnswerInv' BY DEF AnswerInv, AgentInv, ReservationInv
<1>4. RunningInv' BY DEF RunningInv, AgentInv, ReservationInv
<1>5. ReservationInv' BY DEF ReservationInv, AgentInv, RunningInv
<1>6. DurableSpendKept' BY DEF DurableSpendKept, AnswerInv, AgentInv
<1> QED BY <1>1, <1>2, <1>3, <1>4, <1>5, <1>6

(* A worker that gives up leaves the record.                               *)
LEMMA WorkerGivesUpInv ==
    ASSUME SettlementInv, NEW a \in Agent, WorkerGivesUp(a)
    PROVE  SettlementInv'
<1> USE DEF SettlementInv, TypeOK, WorkerGivesUp, WorkerAnswered, Answered,
            Finish
<1>1. TypeOK' BY DEF AgentInv
<1>2. AgentInv' BY DEF AgentInv, RunningInv, ReservationInv
<1>3. AnswerInv' BY DEF AnswerInv, AgentInv, ReservationInv
<1>4. RunningInv' BY DEF RunningInv, AgentInv, ReservationInv
<1>5. ReservationInv' BY DEF ReservationInv, AgentInv, RunningInv
<1>6. DurableSpendKept' BY DEF DurableSpendKept, AnswerInv, AgentInv
<1> QED BY <1>1, <1>2, <1>3, <1>4, <1>5, <1>6

(* A worker re-records its own mode, which the server has justified.       *)
LEMMA WorkerRetriesInv ==
    ASSUME SettlementInv, NEW a \in Agent, WorkerRetries(a)
    PROVE  SettlementInv'
<1> USE DEF SettlementInv, TypeOK, WorkerRetries, WorkerAnswered, Answered,
            JournalRecord, Resume
<1>1. TypeOK'
  <2>1. agent' \in [Agent -> AgentState] OBVIOUS
  <2>2. agent[a].duty \in {"commit", "event"} OBVIOUS
  <2>3. journal' \in [Reservation -> {"none", "commit", "event"}] BY <2>2
  <2>4. durable' \in [Reservation -> BOOLEAN] OBVIOUS
  <2> QED BY <2>1, <2>3, <2>4
<1>2. AgentInv' BY DEF AgentInv, RunningInv, ReservationInv
<1>3. AnswerInv' BY DEF AnswerInv, AgentInv, ReservationInv
<1>4. RunningInv' BY DEF RunningInv, AgentInv, ReservationInv
<1>5. ReservationInv' BY DEF ReservationInv, AgentInv, RunningInv
<1>6. DurableSpendKept' BY DEF DurableSpendKept, AnswerInv, AgentInv
<1> QED BY <1>1, <1>2, <1>3, <1>4, <1>5, <1>6

(* A worker flips to event mode only when the server expired r.            *)
LEMMA WorkerFlipsInv ==
    ASSUME SettlementInv, NEW a \in Agent, WorkerFlips(a)
    PROVE  SettlementInv'
<1> USE DEF SettlementInv, TypeOK, WorkerFlips, Answered, JournalRecord
<1>1. TypeOK' BY DEF AgentInv
<1>2. AgentInv' BY DEF AgentInv, RunningInv, ReservationInv
<1>3. AnswerInv' BY DEF AnswerInv, AgentInv, ReservationInv
<1>4. RunningInv' BY DEF RunningInv, AgentInv, ReservationInv
<1>5. ReservationInv' BY DEF ReservationInv, AgentInv, RunningInv
<1>6. DurableSpendKept' BY DEF DurableSpendKept, AnswerInv, AgentInv
<1> QED BY <1>1, <1>2, <1>3, <1>4, <1>5, <1>6

(* An interrupted agent leaves its request on the wire.                    *)
LEMMA InterruptInv ==
    ASSUME SettlementInv, NEW a \in Agent, Interrupt(a)
    PROVE  SettlementInv'
<1> USE DEF SettlementInv, TypeOK, Interrupt, Finish, Endpoint
<1>1. TypeOK' BY DEF AgentInv
<1>2. AgentInv' BY DEF AgentInv, RunningInv, ReservationInv
<1>3. AnswerInv' BY DEF AnswerInv, AgentInv, ReservationInv
<1>4. RunningInv' BY DEF RunningInv, AgentInv, ReservationInv
<1>5. ReservationInv' BY DEF ReservationInv, AgentInv, RunningInv
<1>6. DurableSpendKept' BY DEF DurableSpendKept, AnswerInv, AgentInv
<1> QED BY <1>1, <1>2, <1>3, <1>4, <1>5, <1>6

(* Every endpoint's answer is true when it is given.                       *)
LEMMA ServeInv ==
    ASSUME SettlementInv, NEW a \in Agent, Serve(a)
    PROVE  SettlementInv'
<1> USE DEF SettlementInv, TypeOK, Serve, Handle, ServerCommit, ServerEvent,
            ServerRelease, Endpoint
<1>1. TypeOK' BY DEF AgentInv
<1>2. AgentInv' BY DEF AgentInv, RunningInv, ReservationInv
<1>3. AnswerInv' BY DEF AnswerInv, AgentInv, ReservationInv
<1>4. RunningInv' BY DEF RunningInv, AgentInv, ReservationInv
<1>5. ReservationInv' BY DEF ReservationInv, AgentInv, RunningInv
<1>6. DurableSpendKept' BY DEF DurableSpendKept, AnswerInv, AgentInv
<1> QED BY <1>1, <1>2, <1>3, <1>4, <1>5, <1>6

(* An answer that proves nothing claims nothing.                           *)
LEMMA DeflectInv ==
    ASSUME SettlementInv, NEW a \in Agent, Deflect(a)
    PROVE  SettlementInv'
<1> USE DEF SettlementInv, TypeOK, Deflect, Endpoint, FaultAnswer
<1>1. TypeOK' BY DEF AgentInv
<1>2. AgentInv' BY DEF AgentInv, RunningInv, ReservationInv
<1>3. AnswerInv' BY DEF AnswerInv, AgentInv, ReservationInv
<1>4. RunningInv' BY DEF RunningInv, AgentInv, ReservationInv
<1>5. ReservationInv' BY DEF ReservationInv, AgentInv, RunningInv
<1>6. DurableSpendKept' BY DEF DurableSpendKept, AnswerInv, AgentInv
<1> QED BY <1>1, <1>2, <1>3, <1>4, <1>5, <1>6

(* A late request changes the server the way a timely one would.           *)
LEMMA LateArrivalInv ==
    ASSUME SettlementInv, NEW r \in Reservation, LateArrival(r)
    PROVE  SettlementInv'
<1> PICK endpoint \in late[r], ans \in {"ok", "reject", "expired"} :
       Handle(r, endpoint, ans)
  BY DEF LateArrival
<1> USE DEF SettlementInv, TypeOK, LateArrival, Handle, ServerCommit,
            ServerEvent, ServerRelease
<1>1. TypeOK'
  <2>1. charged' \in [Reservation -> SUBSET {"commit", "event"}] OBVIOUS
  <2>2. status' \in [Reservation ->
           {"none", "active", "committed", "released", "expired"}]
    OBVIOUS
  <2>3. refused' \in [Reservation -> BOOLEAN] OBVIOUS
  <2> QED BY <2>1, <2>2, <2>3
<1>2. AgentInv' BY DEF AgentInv, RunningInv, ReservationInv
<1>3. AnswerInv' BY DEF AnswerInv, AgentInv, ReservationInv
<1>4. RunningInv' BY DEF RunningInv, AgentInv, ReservationInv
<1>5. ReservationInv' BY DEF ReservationInv, AgentInv, RunningInv
<1>6. DurableSpendKept' BY DEF DurableSpendKept, AnswerInv, AgentInv
<1> QED BY <1>1, <1>2, <1>3, <1>4, <1>5, <1>6

(* Expiry takes an active reservation, which no commit has charged.        *)
LEMMA ExpireInv ==
    ASSUME SettlementInv, NEW r \in Reservation, Expire(r)
    PROVE  SettlementInv'
<1> USE DEF SettlementInv, TypeOK, Expire
<1>1. TypeOK' BY DEF AgentInv
<1>2. AgentInv' BY DEF AgentInv, RunningInv, ReservationInv
<1>3. AnswerInv' BY DEF AnswerInv, AgentInv, ReservationInv
<1>4. RunningInv' BY DEF RunningInv, AgentInv, ReservationInv
<1>5. ReservationInv' BY DEF ReservationInv, AgentInv, RunningInv
<1>6. DurableSpendKept' BY DEF DurableSpendKept, AnswerInv, AgentInv
<1> QED BY <1>1, <1>2, <1>3, <1>4, <1>5, <1>6

-------------------------------------------------------------------------------
LEMMA NextInv == SettlementInv /\ [Next]_vars => SettlementInv'
<1> SUFFICES ASSUME SettlementInv, [Next]_vars PROVE SettlementInv' OBVIOUS
<1>1. CASE UNCHANGED vars
  BY <1>1 DEF vars, SettlementInv, TypeOK, AgentInv, AnswerInv, RunningInv,
              ReservationInv, DurableSpendKept
<1>2. ASSUME NEW p \in Process, ProcessStep(p) PROVE SettlementInv'
  BY <1>2, StartInv, ClaimInv, LoadInv, DeferInv, StopInv
     DEF ProcessStep, Exit, Crash
<1>3. ASSUME NEW r \in Reservation, NEW p \in Process, Reserve(r, p)
      PROVE  SettlementInv'
  BY <1>3, ReserveInv
<1>4. ASSUME NEW a \in Agent, CallerStep(a) PROVE SettlementInv'
  BY <1>4, ActionReturnsInv, ActionFailsInv, PersistAndCommitInv,
     FirstSettledInv, FirstRetriedInv, ReleaseAnsweredInv DEF CallerStep
<1>5. ASSUME NEW a \in Agent, WorkerStep(a) PROVE SettlementInv'
  BY <1>5, WakeInv, WorkerSettledInv, WorkerGivesUpInv, WorkerRetriesInv,
     WorkerFlipsInv DEF WorkerStep
<1>6. ASSUME NEW a \in Agent, Interrupt(a) \/ Serve(a) \/ Deflect(a)
      PROVE  SettlementInv'
  BY <1>6, InterruptInv, ServeInv, DeflectInv
<1>7. ASSUME NEW r \in Reservation, LateArrival(r) \/ Expire(r)
      PROVE  SettlementInv'
  BY <1>7, LateArrivalInv, ExpireInv
<1> QED BY <1>1, <1>2, <1>3, <1>4, <1>5, <1>6, <1>7 DEF Next

(* Every reachable state satisfies the inductive invariant: the agents,    *)
(* the disk, the wire and the server agree (retry.py:284-383).             *)
THEOREM Invariance == Spec => []SettlementInv
<1>1. Init => SettlementInv BY InitInv
<1>2. SettlementInv /\ [Next]_vars => SettlementInv' BY NextInv
<1> QED BY <1>1, <1>2, PTL DEF Spec

(* Every variable keeps its type; in particular no worker ever counts more *)
(* attempts than retry_max_attempts (retry.py:475-478).                    *)
THEOREM TypeCorrect == Spec => []TypeOK
<1>1. SettlementInv => TypeOK BY DEF SettlementInv
<1> QED BY <1>1, Invariance, PTL

(* However many processes replay the journal and however late requests     *)
(* arrive, the spend is charged by commit or by event, never by both.      *)
THEOREM ChargedOnce == Spec => []ChargedAtMostOnce
<1>1. SettlementInv => ChargedAtMostOnce
  BY DEF SettlementInv, ReservationInv, ChargedAtMostOnce
<1> QED BY <1>1, Invariance, PTL

(* A record that reached the disk is there until the server has charged or *)
(* refused the spend (journal.py:190-234, retry.py:284-383).               *)
THEOREM DurableKept == Spec => []DurableSpendKept
<1>1. SettlementInv => DurableSpendKept BY DEF SettlementInv
<1> QED BY <1>1, Invariance, PTL

(* The budget of an action that was carried out is never given back        *)
(* (lifecycle.py:781-790).                                                 *)
THEOREM NeverReleased == Spec => []SpentNeverReleased
<1>1. SettlementInv => SpentNeverReleased
  BY DEF SettlementInv, ReservationInv, SpentNeverReleased
<1> QED BY <1>1, Invariance, PTL

(* The events endpoint is used only for reservations the server expired.   *)
THEOREM EventAfterExpiry == Spec => []EventOnlyAfterExpiry
<1>1. SettlementInv => EventOnlyAfterExpiry
  BY DEF SettlementInv, AgentInv, EventOnlyAfterExpiry
<1> QED BY <1>1, Invariance, PTL
===============================================================================
