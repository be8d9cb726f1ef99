------------------------- MODULE SettlementRefinement -------------------------
(***************************************************************************)
(* CommitSettlement implements SpendLedger, for every number of processes, *)
(* reservations and attempts, with retries enabled or not: under SpendOf,  *)
(* every step is one move of the ledger or leaves it as it is.             *)
(***************************************************************************)
EXTENDS SettlementProofs

Spends == [r \in Reservation |-> SpendOf(r)]

(* What one move of the ledger may do to the spend of one reservation.     *)
Edge ==
    {<<"open", "volatile">>, <<"open", "released">>, <<"volatile", "owed">>,
     <<"volatile", "lost">>}
    \cup ({"volatile", "owed", "refused", "lost"} \X {"recorded"})
    \cup ({"volatile", "owed", "lost"} \X {"refused"})

-------------------------------------------------------------------------------
(* The ledger.                                                             *)

LEMMA OneMove ==
    ASSUME NEW r \in Reservation,
           <<SpendOf(r), SpendOf(r)'>> \in Edge \/ SpendOf(r)' = SpendOf(r),
           \A q \in Reservation : q # r => SpendOf(q)' = SpendOf(q)
    PROVE  [Ledger!LedgerNext]_Spends
<1>1. CASE SpendOf(r)' = SpendOf(r)
  BY <1>1 DEF Spends
<1>2. CASE <<SpendOf(r), SpendOf(r)'>> \in Edge
  <2>1. Spends' = [Spends EXCEPT ![r] = SpendOf(r)']
    BY DEF Spends
  <2>2. Spends[r] = SpendOf(r)
    BY DEF Spends
  <2>3. \/ Ledger!Spend(r) \/ Ledger!GiveBack(r) \/ Ledger!Journal(r)
        \/ Ledger!Record(r) \/ Ledger!Refuse(r)
        \/ SpendOf(r) = "volatile" /\ SpendOf(r)' = "lost"
    BY <1>2, <2>1, <2>2 DEF Edge, Spends, Ledger!Spend, Ledger!GiveBack, Ledger!Journal,
       Ledger!Record, Ledger!Refuse, Ledger!Move
  <2>4. CASE SpendOf(r) = "volatile" /\ SpendOf(r)' = "lost"
    <3>1. Ledger!Lose({r})
      BY <2>1, <2>2, <2>4 DEF Ledger!Lose, Spends
    <3> QED
      BY <3>1 DEF Ledger!LedgerNext
  <2> QED
    BY <2>3, <2>4 DEF Ledger!LedgerNext
<1> QED
  BY <1>1, <1>2

LEMMA ManyLost ==
    ASSUME \A r \in Reservation :
              \/ SpendOf(r)' = SpendOf(r)
              \/ SpendOf(r) = "volatile" /\ SpendOf(r)' = "lost"
    PROVE  [Ledger!LedgerNext]_Spends
<1> DEFINE S == {r \in Reservation : SpendOf(r)' # SpendOf(r)}
<1>1. CASE S = {}
  BY <1>1 DEF Spends
<1>2. CASE S # {}
  <2>1. Ledger!Lose(S)
    BY <1>2 DEF Ledger!Lose, Spends
  <2>2. S \in SUBSET Reservation
    OBVIOUS
  <2> QED
    BY <2>1, <2>2 DEF Ledger!LedgerNext
<1> QED
  BY <1>1, <1>2

-------------------------------------------------------------------------------
(* What the spend of a reservation depends on.                             *)

LEMMA SpendIs ==
    ASSUME NEW r \in Reservation
    PROVE  SpendOf(r) =
              IF charged[r] # {} THEN "recorded"
              ELSE IF refused[r] THEN "refused"
              ELSE IF journal[r] # "none" THEN "owed"
              ELSE IF ~ acted[r] THEN IF status[r] = "released" THEN "released" ELSE "open"
              ELSE IF Holder(r) THEN "volatile" ELSE "lost"
  BY DEF SpendOf

LEMMA SpendWillBe ==
    ASSUME NEW r \in Reservation
    PROVE  SpendOf(r)' =
              IF charged'[r] # {} THEN "recorded"
              ELSE IF refused'[r] THEN "refused"
              ELSE IF journal'[r] # "none" THEN "owed"
              ELSE IF ~ acted'[r] THEN IF status'[r] = "released" THEN "released" ELSE "open"
              ELSE IF Holder(r)' THEN "volatile" ELSE "lost"
  BY DEF SpendOf

LEMMA HolderSame ==
    ASSUME NEW r \in Reservation,
           \A a \in Agent : a[1] = r =>
              (agent'[a].duty \in SettlementDuty <=> agent[a].duty \in SettlementDuty)
    PROVE  Holder(r)' <=> Holder(r)
  BY DEF Holder

(* Where nothing that counts changes, the spend does not.                  *)
LEMMA SpendSame ==
    ASSUME NEW r \in Reservation,
           charged'[r] = charged[r], refused'[r] = refused[r], acted'[r] = acted[r],
           journal'[r] = journal[r],
           status'[r] = "released" <=> status[r] = "released",
           journal[r] # "none" \/ (Holder(r)' <=> Holder(r))
    PROVE  SpendOf(r)' = SpendOf(r)
  BY SpendIs, SpendWillBe

(* An agent that settles r and journals, or ends, or both.                 *)
LEMMA SettlerMoves ==
    ASSUME NEW r \in Reservation, acted[r], Holder(r),
           charged'[r] = charged[r], refused'[r] = refused[r], acted'[r] = acted[r],
           journal[r] # "none" => journal'[r] # "none"
    PROVE  <<SpendOf(r), SpendOf(r)'>> \in Edge \/ SpendOf(r)' = SpendOf(r)
  BY SpendIs, SpendWillBe DEF Edge

(* A request that reaches the server.                                      *)
LEMMA HandleMoves ==
    ASSUME SettlementInv, NEW r \in Reservation, NEW e \in {"commit", "event", "release"},
           NEW ans, Handle(r, e, ans),
           e = "release" => ~ acted[r], e # "release" => acted[r],
           UNCHANGED <<journal, acted>>, \A q \in Reservation : Holder(q)' <=> Holder(q)
    PROVE  /\ <<SpendOf(r), SpendOf(r)'>> \in Edge \/ SpendOf(r)' = SpendOf(r)
           /\ \A q \in Reservation : q # r => SpendOf(q)' = SpendOf(q)
<1>1. /\ status \in [Reservation -> {"none", "active", "committed", "released", "expired"}]
      /\ charged \in [Reservation -> SUBSET {"commit", "event"}]
      /\ refused \in [Reservation -> BOOLEAN]
      /\ acted \in [Reservation -> BOOLEAN]
  BY DEF SettlementInv, TypeOK
<1>2. \A q \in Reservation : q # r => SpendOf(q)' = SpendOf(q)
  <2>1. \A q \in Reservation : q # r =>
           charged'[q] = charged[q] /\ refused'[q] = refused[q] /\ status'[q] = status[q]
    BY <1>1 DEF Handle, ServerCommit, ServerEvent, ServerRelease
  <2> QED
    BY <2>1, SpendSame
<1>3. journal[r] # "none" => acted[r]
  BY DEF SettlementInv, ReservationInv
<1>4. CASE e = "commit"
  <2>1. /\ acted[r] /\ acted'[r] /\ journal'[r] = journal[r]
        /\ charged[r] # {} => charged'[r] # {}
        /\ charged'[r] # {} \/ refused'[r] \/ (charged'[r] = charged[r] /\ refused'[r] = refused[r])
        /\ refused[r] => refused'[r]
    BY <1>1, <1>4 DEF Handle, ServerCommit
  <2> QED
    BY <1>1, <1>2, <2>1, SpendIs, SpendWillBe DEF Edge
<1>5. CASE e = "event"
  <2>1. /\ acted[r] /\ acted'[r] /\ journal'[r] = journal[r]
        /\ charged[r] # {} => charged'[r] # {}
        /\ charged'[r] # {} \/ refused'[r] \/ (charged'[r] = charged[r] /\ refused'[r] = refused[r])
        /\ refused[r] => refused'[r]
    BY <1>1, <1>5 DEF Handle, ServerEvent
  <2> QED
    BY <1>1, <1>2, <2>1, SpendIs, SpendWillBe DEF Edge
<1>6. CASE e = "release"
  <2>1. /\ ~ acted[r] /\ ~ acted'[r] /\ journal[r] = "none" /\ journal'[r] = "none"
        /\ charged'[r] = charged[r] /\ refused'[r] = refused[r]
        /\ status[r] = "released" => status'[r] = "released"
    BY <1>1, <1>3, <1>6 DEF Handle, ServerRelease
  <2> QED
    BY <1>2, <2>1, SpendIs, SpendWillBe DEF Edge
<1> QED
  BY <1>2, <1>4, <1>5, <1>6

-------------------------------------------------------------------------------
(* The agents.                                                             *)

(* A step of agent a leaves the agents of other reservations, or starts    *)
(* workers on what is journaled.                                           *)
LEMMA OthersKeep ==
    ASSUME NEW a \in Agent, NEW q \in Reservation, q # a[1],
           \A b \in Agent : b # a => agent'[b] = agent[b],
           UNCHANGED <<charged, refused, acted, status>>, journal'[q] = journal[q]
    PROVE  SpendOf(q)' = SpendOf(q)
<1>1. \A b \in Agent : b[1] = q => agent'[b] = agent[b]
  OBVIOUS
<1> QED
  BY <1>1, HolderSame, SpendSame

(* A settling agent journals, hands over, retries or ends.                 *)
LEMMA SettlerStep ==
    ASSUME SettlementInv, NEW a \in Agent, agent[a].duty \in SettlementDuty,
           UNCHANGED <<charged, refused, acted, status>>,
           journal[a[1]] # "none" => journal'[a[1]] # "none",
           \A q \in Reservation : q # a[1] => journal'[q] = journal[q],
           \A q \in Reservation : q # a[1] => SpendOf(q)' = SpendOf(q)
    PROVE  [Ledger!LedgerNext]_Spends
<1>1. a[1] \in Reservation
  BY DEF Agent
<1>2. acted[a[1]] /\ Holder(a[1])
  BY <1>1 DEF SettlementInv, AgentInv, Holder
<1>3. <<SpendOf(a[1]), SpendOf(a[1])'>> \in Edge \/ SpendOf(a[1])' = SpendOf(a[1])
  BY <1>1, <1>2, SettlerMoves
<1> QED
  BY <1>1, <1>3, OneMove

-------------------------------------------------------------------------------
(* The steps.                                                              *)

(* Claims, sleeps, requests and answers say nothing about the spend; a     *)
(* replay starts workers on what is on disk, which owes what it owes.      *)
LEMMA QuietStep ==
    ASSUME SettlementInv,
           \/ \E p \in Process : Start(p) \/ Claim(p) \/ Defer(p) \/ Load(p)
           \/ \E r \in Reservation, p \in Process : Reserve(r, p)
           \/ \E r \in Reservation : Expire(r)
           \/ \E a \in Agent : ActionFails(a) \/ ReleaseAnswered(a) \/ Wake(a) \/ Deflect(a)
           \/ UNCHANGED vars
    PROVE  [Ledger!LedgerNext]_Spends
<1> SUFFICES \A r \in Reservation : SpendOf(r)' = SpendOf(r)
  BY DEF Spends
<1>0. /\ agent \in [Agent -> AgentState] /\ AgentInv /\ ReservationInv
      /\ status \in [Reservation -> {"none", "active", "committed", "released", "expired"}]
  BY DEF SettlementInv, TypeOK
<1>1. CASE \E p \in Process : Start(p) \/ Claim(p) \/ Defer(p)
  <2>1. UNCHANGED <<agent, journal, status, charged, refused, acted>>
    BY <1>1 DEF Start, Claim, Defer, serverVars, historyVars
  <2> QED
    BY <2>1, SpendSame, HolderSame
<1>2. CASE \E p \in Process : Load(p)
  <2>1. PICK p \in Process : Load(p)
    BY <1>2
  <2>2. UNCHANGED <<journal, status, charged, refused, acted>>
    BY <2>1 DEF Load, serverVars, historyVars
  <2>3. \A a \in Agent : journal[a[1]] = "none" => agent'[a] = agent[a]
    BY <2>1 DEF Load, Replayed
  <2> SUFFICES ASSUME NEW r \in Reservation PROVE SpendOf(r)' = SpendOf(r)
    OBVIOUS
  <2>4. journal[r] = "none" => (Holder(r)' <=> Holder(r))
    BY <2>3, HolderSame
  <2> QED
    BY <2>2, <2>4, SpendSame
<1>3. CASE \E r \in Reservation, p \in Process : Reserve(r, p)
  <2>1. PICK q \in Reservation, p \in Process : Reserve(q, p)
    BY <1>3
  <2>2. /\ UNCHANGED <<journal, charged, refused, acted>>
        /\ status[q] = "none" /\ status' = [status EXCEPT ![q] = "active"]
        /\ agent' = [agent EXCEPT ![<<q, p, "caller">>] = At("running", "none", 0)]
    BY <2>1 DEF Reserve, serverVars, historyVars
  <2>3. agent[<<q, p, "caller">>].duty \notin SettlementDuty
    BY <1>0, <2>2 DEF AgentInv, Agent, SettlementDuty, Idle, At
  <2>4. \A a \in Agent : agent'[a].duty \in SettlementDuty <=> agent[a].duty \in SettlementDuty
    BY <1>0, <2>2, <2>3 DEF At, SettlementDuty
  <2>5. \A r \in Reservation : status'[r] = "released" <=> status[r] = "released"
    BY <1>0, <2>2
  <2> QED
    BY <2>2, <2>4, <2>5, HolderSame, SpendSame
<1>4. CASE \E r \in Reservation : Expire(r)
  <2>1. UNCHANGED <<agent, journal, charged, refused, acted>>
    BY <1>4 DEF Expire, historyVars
  <2>2. \A r \in Reservation : status'[r] = "released" <=> status[r] = "released"
    BY <1>4, <1>0 DEF Expire
  <2> QED
    BY <2>1, <2>2, HolderSame, SpendSame
<1>5. CASE \E a \in Agent : ActionFails(a) \/ ReleaseAnswered(a) \/ Wake(a) \/ Deflect(a)
  <2>1. PICK a \in Agent : ActionFails(a) \/ ReleaseAnswered(a) \/ Wake(a) \/ Deflect(a)
    BY <1>5
  <2>2. UNCHANGED <<journal, status, charged, refused, acted>>
    BY <2>1 DEF ActionFails, ReleaseAnswered, Wake, Deflect, serverVars, historyVars
  <2>3. \A b \in Agent : agent'[b].duty \in SettlementDuty <=> agent[b].duty \in SettlementDuty
    <3>1. CASE ActionFails(a)
      BY <1>0, <3>1 DEF ActionFails, AgentInv, AgentState, At, SettlementDuty
    <3>2. CASE ReleaseAnswered(a)
      BY <1>0, <3>2 DEF ReleaseAnswered, Answered, Finish, Idle, AgentState, At, SettlementDuty
    <3>3. CASE Wake(a)
      BY <1>0, <3>3 DEF Wake, AgentState, At, SettlementDuty
    <3>4. CASE Deflect(a)
      BY <1>0, <3>4 DEF Deflect, AgentState, SettlementDuty
    <3> QED
      BY <2>1, <3>1, <3>2, <3>3, <3>4
  <2> QED
    BY <2>2, <2>3, HolderSame, SpendSame
<1>6. CASE UNCHANGED vars
  BY <1>6, HolderSame, SpendSame DEF vars
<1> QED
  BY <1>1, <1>2, <1>3, <1>4, <1>5, <1>6

(* A process that ends may take the only knowledge of several spends.      *)
LEMMA StopStep ==
    ASSUME SettlementInv, NEW p \in Process, Stop(p)
    PROVE  [Ledger!LedgerNext]_Spends
<1>1. UNCHANGED <<journal, status, charged, refused, acted>>
  BY DEF Stop, historyVars
<1>2. \A a \in Agent : agent'[a] \in {agent[a], Idle}
  BY DEF Stop, SettlementInv, TypeOK
<1>3. \A r \in Reservation : Holder(r)' => Holder(r)
  BY <1>2 DEF Holder, Idle, At, SettlementDuty
<1>4. \A r \in Reservation :
         SpendOf(r)' = SpendOf(r) \/ (SpendOf(r) = "volatile" /\ SpendOf(r)' = "lost")
  BY <1>1, <1>3, SpendIs, SpendWillBe
<1> QED
  BY <1>4, ManyLost

LEMMA ActionReturnsStep ==
    ASSUME SettlementInv, NEW a \in Agent, ActionReturns(a)
    PROVE  [Ledger!LedgerNext]_Spends
<1>0. /\ agent \in [Agent -> AgentState] /\ acted \in [Reservation -> BOOLEAN]
      /\ RunningInv /\ ReservationInv /\ a[1] \in Reservation
  BY DEF SettlementInv, TypeOK, Agent
<1>1. /\ agent[a].pc = "running" /\ UNCHANGED <<journal, status, charged, refused>>
      /\ agent' = [agent EXCEPT ![a] = At("completed", "first", 0)]
      /\ acted' = [acted EXCEPT ![a[1]] = TRUE]
  BY DEF ActionReturns, serverVars
<1>2. ~ acted[a[1]] /\ status[a[1]] # "released" /\ journal[a[1]] = "none"
  BY <1>0, <1>1 DEF RunningInv, ReservationInv
<1>3. acted'[a[1]] /\ Holder(a[1])'
  BY <1>0, <1>1 DEF Holder, At, SettlementDuty
<1>4. <<SpendOf(a[1]), SpendOf(a[1])'>> \in Edge \/ SpendOf(a[1])' = SpendOf(a[1])
  BY <1>0, <1>1, <1>2, <1>3, SpendIs, SpendWillBe DEF Edge
<1>5. \A q \in Reservation : q # a[1] => SpendOf(q)' = SpendOf(q)
  <2> SUFFICES ASSUME NEW q \in Reservation, q # a[1] PROVE SpendOf(q)' = SpendOf(q)
    OBVIOUS
  <2>1. acted'[q] = acted[q]
    BY <1>0, <1>1
  <2>2. Holder(q)' <=> Holder(q)
    BY <1>0, <1>1, HolderSame
  <2> QED
    BY <1>1, <2>1, <2>2, SpendSame
<1> QED
  BY <1>0, <1>4, <1>5, OneMove

(* A settling agent that journals, hands over, retries, flips or ends.     *)
LEMMA SettlerSteps ==
    ASSUME SettlementInv, NEW a \in Agent,
           \/ PersistAndCommit(a) \/ WorkerGivesUp(a) \/ WorkerRetries(a) \/ WorkerFlips(a)
           \/ Interrupt(a) /\ agent[a].duty # "release"
    PROVE  [Ledger!LedgerNext]_Spends
<1>0. /\ agent \in [Agent -> AgentState] /\ AgentInv /\ a[1] \in Reservation
      /\ journal \in [Reservation -> {"none", "commit", "event"}]
  BY DEF SettlementInv, TypeOK, Agent
<1>1. agent[a].duty \in SettlementDuty
  BY <1>0 DEF PersistAndCommit, WorkerGivesUp, WorkerRetries, WorkerFlips, Interrupt,
     WorkerAnswered, Answered, AgentInv, SettlementDuty, AgentState, Duty
<1>2. UNCHANGED <<charged, refused, acted, status>>
  BY DEF PersistAndCommit, WorkerGivesUp, WorkerRetries, WorkerFlips, Interrupt,
     serverVars, historyVars
<1>3. \A b \in Agent : b # a => agent'[b] = agent[b]
  BY <1>0 DEF PersistAndCommit, WorkerGivesUp, WorkerRetries, WorkerFlips, Interrupt, Finish
<1>4. \/ journal' = journal
      \/ \E d \in {"commit", "event"} : journal' = [journal EXCEPT ![a[1]] = d]
  <2>1. CASE PersistAndCommit(a) \/ WorkerFlips(a)
    BY <2>1 DEF PersistAndCommit, WorkerFlips, JournalRecord
  <2>2. CASE WorkerRetries(a)
    BY <2>2 DEF WorkerRetries, WorkerAnswered, Answered, JournalRecord
  <2>3. CASE WorkerGivesUp(a) \/ Interrupt(a)
    BY <2>3 DEF WorkerGivesUp, Interrupt, historyVars
  <2> QED
    BY <2>1, <2>2, <2>3
<1>5. /\ journal[a[1]] # "none" => journal'[a[1]] # "none"
      /\ \A q \in Reservation : q # a[1] => journal'[q] = journal[q]
  BY <1>0, <1>4
<1>6. \A q \in Reservation : q # a[1] => SpendOf(q)' = SpendOf(q)
  BY <1>2, <1>3, <1>5, OthersKeep
<1> QED
  BY <1>1, <1>2, <1>5, <1>6, SettlerStep

(* A release that is interrupted holds no spend.                           *)
LEMMA InterruptedRelease ==
    ASSUME SettlementInv, NEW a \in Agent, Interrupt(a), agent[a].duty = "release"
    PROVE  [Ledger!LedgerNext]_Spends
<1>1. UNCHANGED <<journal, charged, refused, acted, status>>
  BY DEF Interrupt, historyVars
<1>2. \A b \in Agent : agent'[b].duty \in SettlementDuty <=> agent[b].duty \in SettlementDuty
  BY DEF Interrupt, Finish, Idle, At, SettlementDuty, SettlementInv, TypeOK
<1>3. \A r \in Reservation : SpendOf(r)' = SpendOf(r)
  BY <1>1, <1>2, HolderSame, SpendSame
<1> QED
  BY <1>3 DEF Spends

(* The record is dropped only after an answer, which the server keeps.     *)
LEMMA SettledStep ==
    ASSUME SettlementInv, NEW a \in Agent, FirstSettled(a) \/ WorkerSettled(a)
    PROVE  [Ledger!LedgerNext]_Spends
<1>0. /\ agent \in [Agent -> AgentState] /\ AnswerInv /\ a[1] \in Reservation
      /\ journal \in [Reservation -> {"none", "commit", "event"}]
  BY DEF SettlementInv, TypeOK, Agent
<1>1. agent[a].duty \in SettlementDuty /\ agent[a].answer \in {"ok", "reject"}
  BY DEF FirstSettled, WorkerSettled, WorkerAnswered, Answered, SettlementDuty
<1>2. UNCHANGED <<charged, refused, acted, status>>
  BY DEF FirstSettled, WorkerSettled, serverVars
<1>3. charged[a[1]] # {} \/ refused[a[1]]
  BY <1>0, <1>1 DEF AnswerInv
<1>4. SpendOf(a[1])' = SpendOf(a[1])
  BY <1>0, <1>2, <1>3, SpendIs, SpendWillBe
<1>5. /\ \A b \in Agent : b # a => agent'[b] = agent[b]
      /\ \A q \in Reservation : q # a[1] => journal'[q] = journal[q]
  BY <1>0 DEF FirstSettled, WorkerSettled, JournalDiscard, Finish
<1>6. \A q \in Reservation : q # a[1] => SpendOf(q)' = SpendOf(q)
  BY <1>2, <1>5, OthersKeep
<1> QED
  BY <1>0, <1>4, <1>6, OneMove

(* _submit: the deferred replay it may run works on what is on disk.       *)
LEMMA FirstRetriedStep ==
    ASSUME SettlementInv, NEW a \in Agent, FirstRetried(a)
    PROVE  [Ledger!LedgerNext]_Spends
<1>0. /\ TypeOK /\ a[1] \in Reservation
      /\ journal \in [Reservation -> {"none", "commit", "event"}]
  BY DEF SettlementInv, TypeOK, Agent
<1>1. PICK d \in {"commit", "event"} : Submit(a, d) /\ agent[a].duty = "first"
  BY DEF FirstRetried, Answered
<1>2. UNCHANGED <<charged, refused, acted, status>>
  BY DEF FirstRetried, serverVars
<1>3. journal' = journal \/ journal' = [journal EXCEPT ![a[1]] = d]
  BY <1>1 DEF Submit, JournalRecord
<1>4. /\ journal[a[1]] # "none" => journal'[a[1]] # "none"
      /\ \A q \in Reservation : q # a[1] => journal'[q] = journal[q]
  BY <1>0, <1>3
<1>5. \A b \in Agent : b # a => agent'[b] = agent[b] \/ journal'[b[1]] # "none"
  BY <1>0, <1>1, SubmitAgents
<1>6. ASSUME NEW q \in Reservation, q # a[1]
      PROVE  SpendOf(q)' = SpendOf(q)
  <2>1. journal[q] = "none" => \A b \in Agent : b[1] = q => agent'[b] = agent[b]
    BY <1>4, <1>5, <1>6
  <2>2. journal[q] = "none" => (Holder(q)' <=> Holder(q))
    BY <2>1, HolderSame
  <2> QED
    BY <1>2, <1>4, <1>6, <2>2, SpendSame
<1>7. agent[a].duty \in SettlementDuty
  BY <1>1 DEF SettlementDuty
<1> QED
  BY <1>2, <1>4, <1>6, <1>7, SettlerStep

(* A request reaches the server in time or late.                           *)
LEMMA ServeStep ==
    ASSUME SettlementInv, NEW a \in Agent, Serve(a)
    PROVE  [Ledger!LedgerNext]_Spends
<1>0. /\ agent \in [Agent -> AgentState] /\ AgentInv /\ a[1] \in Reservation
  BY DEF SettlementInv, TypeOK, Agent
<1>1. PICK ans \in {"ok", "reject", "expired"} :
         /\ Handle(a[1], Endpoint(agent[a].duty), ans)
         /\ agent' = [agent EXCEPT ![a].pc = "answered", ![a].answer = ans]
  BY DEF Serve
<1>2. agent[a].pc = "sent" /\ UNCHANGED <<journal, acted>>
  BY DEF Serve, historyVars
<1>3. agent[a].duty \in SettlementDuty \cup {"release"}
  BY <1>0, <1>2 DEF AgentInv, AgentState, Duty, SettlementDuty
<1>4. /\ Endpoint(agent[a].duty) \in {"commit", "event", "release"}
      /\ Endpoint(agent[a].duty) = "release" => ~ acted[a[1]]
      /\ Endpoint(agent[a].duty) # "release" => acted[a[1]]
  BY <1>0, <1>3 DEF Endpoint, SettlementDuty, AgentInv
<1>5. \A b \in Agent : agent'[b].duty = agent[b].duty
  BY <1>0, <1>1 DEF AgentState
<1>6. \A q \in Reservation : Holder(q)' <=> Holder(q)
  BY <1>5, HolderSame
<1> HIDE DEF Endpoint
<1> QED
  BY <1>0, <1>1, <1>2, <1>4, <1>6, HandleMoves, OneMove

LEMMA LateArrivalStep ==
    ASSUME SettlementInv, NEW r \in Reservation, LateArrival(r)
    PROVE  [Ledger!LedgerNext]_Spends
<1>1. PICK e \in late[r], ans \in {"ok", "reject", "expired"} : Handle(r, e, ans)
  BY DEF LateArrival
<1>2. UNCHANGED <<agent, journal, acted>>
  BY DEF LateArrival, historyVars
<1>3. /\ e \in {"commit", "event", "release"}
      /\ e = "release" => ~ acted[r]
      /\ e # "release" => acted[r]
  BY <1>1 DEF SettlementInv, TypeOK, ReservationInv
<1>4. \A q \in Reservation : Holder(q)' <=> Holder(q)
  BY <1>2, HolderSame
<1> QED
  BY <1>1, <1>2, <1>3, <1>4, HandleMoves, OneMove

LEMMA StepRefines == SettlementInv /\ [Next]_vars => [Ledger!LedgerNext]_Spends
<1> SUFFICES ASSUME SettlementInv, [Next]_vars PROVE [Ledger!LedgerNext]_Spends
  OBVIOUS
<1>1. CASE UNCHANGED vars
  BY <1>1, QuietStep
<1>2. ASSUME NEW p \in Process, ProcessStep(p) PROVE [Ledger!LedgerNext]_Spends
  BY <1>2, QuietStep, StopStep DEF ProcessStep, Exit, Crash
<1>3. ASSUME NEW r \in Reservation, NEW p \in Process, Reserve(r, p)
      PROVE  [Ledger!LedgerNext]_Spends
  BY <1>3, QuietStep
<1>4. ASSUME NEW a \in Agent, CallerStep(a) PROVE [Ledger!LedgerNext]_Spends
  BY <1>4, QuietStep, ActionReturnsStep, SettlerSteps, SettledStep, FirstRetriedStep
     DEF CallerStep
<1>5. ASSUME NEW a \in Agent, WorkerStep(a) PROVE [Ledger!LedgerNext]_Spends
  BY <1>5, QuietStep, SettlerSteps, SettledStep DEF WorkerStep
<1>6. ASSUME NEW a \in Agent, Interrupt(a) \/ Serve(a) \/ Deflect(a)
      PROVE  [Ledger!LedgerNext]_Spends
  BY <1>6, QuietStep, SettlerSteps, InterruptedRelease, ServeStep
<1>7. ASSUME NEW r \in Reservation, LateArrival(r) \/ Expire(r)
      PROVE  [Ledger!LedgerNext]_Spends
  BY <1>7, QuietStep, LateArrivalStep
<1> QED
  BY <1>1, <1>2, <1>3, <1>4, <1>5, <1>6, <1>7 DEF Next

(* Every behaviour of the callers, the workers, the processes that die and *)
(* restart, the journal and the server is a behaviour of the ledger: spend *)
(* that is owed on disk is only ever answered for by the server, charged   *)
(* spend stays charged, and only unspent reservations are given back.      *)
THEOREM SettlementImplementsLedger == Spec => LedgerSafety
<1>1. Init => Ledger!LedgerInit
  <2> SUFFICES ASSUME Init PROVE Spends = [r \in Reservation |-> "open"]
    BY DEF Ledger!LedgerInit, Spends
  <2>1. \A r \in Reservation : SpendOf(r) = "open"
    BY SpendIs DEF Init
  <2> QED
    BY <2>1 DEF Spends
<1>2. SettlementInv /\ [Next]_vars
        => [Ledger!LedgerNext]_[r \in Reservation |-> SpendOf(r)]
  BY StepRefines DEF Spends
<1> QED
  BY <1>1, <1>2, Invariance, PTL DEF Spec, LedgerSafety, Ledger!LedgerSpec
===============================================================================
