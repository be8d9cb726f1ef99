------------------------------ MODULE GuardedCall ------------------------------
(***************************************************************************)
(* The guarded calls of one thread or asyncio task, from the create        *)
(* request to the last step of their finally blocks: @cycles functions     *)
(* (lifecycle.py) and stream reservations (streaming.py), sync and async.  *)
(*                                                                         *)
(* Calls of one task overlap but run one at a time: functions nest,        *)
(* streams are context managers and may be left in any order.  Each has a  *)
(* heartbeat of its own, which runs concurrently.  A function settles      *)
(* first and stops its heartbeat in the finally block; a stream stops it   *)
(* first.                                                                  *)
(*                                                                         *)
(* What becomes of a commit once it has been journaled is the subject of   *)
(* CommitSettlement, and when a heartbeat extends or stops by itself that  *)
(* of Heartbeat: here both are one step each.                              *)
(***************************************************************************)
EXTENDS Naturals, SequencesExt

CONSTANTS
    Call,
    Kinds,       \* the kinds of calls there are
    Interrupts,  \* may KeyboardInterrupt or a cancellation hit a call?
    NoCall

(* @cycles on a def or an async def; stream_reservation of either client.  *)
Kind == {"function", "coroutine", "stream", "async stream"}

ASSUME GuardedCallAssumption ==
    /\ Kinds \subseteq Kind
    /\ Interrupts \in BOOLEAN
    /\ NoCall \notin Call

VARIABLES
    kind,     \* kind[c]: fixed
    pc,       \* pc[c]: where the call is
    tries,    \* tries[c]: create requests sent, all with one idempotency key
    pending,  \* pending[c]: an unanswered create request may still be served
    hold,     \* hold[c]: the reservation, as the server sees it
    beat,     \* beat[c]: the heartbeat
    spent,    \* spent[c]: the action returned, or the block ended normally
    disk,     \* disk[c]: the journal record, and how the server answered it
    open,     \* the calls this task is in, in the order it entered them
    context,  \* the task's value of _cycles_context_var
    cut       \* history: calls whose end a KeyboardInterrupt in join cut short

vars == <<kind, pc, tries, pending, hold, beat, spent, disk, open, context, cut>>
request == <<tries, pending>>
inside  == <<open, context, cut>>

Stream == {c \in Call : kind[c] \in {"stream", "async stream"}}
Async  == {c \in Call : kind[c] \in {"coroutine", "async stream"}}

(* KeyboardInterrupt hits sync code where it blocks or calls back; async   *)
(* code is cancelled where it awaits.                                      *)
SyncInterrupted(c) == Interrupts /\ c \notin Async

TypeOK ==
    /\ kind \in [Call -> Kinds]
    /\ pc \in [Call -> {"new", "creating", "running", "settling", "committing",
                        "releasing", "stopping", "over"}]
    /\ tries \in [Call -> 0..2]
    /\ pending \in [Call -> BOOLEAN]
    /\ hold \in [Call -> {"none", "active", "committed", "released", "expired"}]
    /\ beat \in [Call -> {"none", "alive", "stopping", "dead"}]
    /\ spent \in [Call -> BOOLEAN]
    /\ disk \in [Call -> {"none", "recorded", "charged", "refused"}]
    /\ open \in Seq(Call)
    /\ context \in Call \cup {NoCall}
    /\ cut \subseteq Call

Init ==
    /\ kind \in [Call -> Kinds]
    /\ pc = [c \in Call |-> "new"]
    /\ tries = [c \in Call |-> 0]
    /\ pending = [c \in Call |-> FALSE]
    /\ hold = [c \in Call |-> "none"]
    /\ beat = [c \in Call |-> "none"]
    /\ spent = [c \in Call |-> FALSE]
    /\ disk = [c \in Call |-> "none"]
    /\ open = << >> /\ context = NoCall /\ cut = {}

(* Definitions marked "Slip" are plausible mistakes in the definition that *)
(* follows them.  No action uses them: they show what each property sees.  *)

(* The task runs user code, not the code of a call.                        *)
TaskFree == \A c \in Call : pc[c] \in {"new", "running", "over"}

Goto(c, where) == pc' = [pc EXCEPT ![c] = where]

-------------------------------------------------------------------------------
(* Creating the reservation.                                               *)

Begin(c) ==
    /\ TaskFree /\ pc[c] = "new"
    /\ Goto(c, "creating")
    /\ tries' = [tries EXCEPT ![c] = 1]
    /\ UNCHANGED <<kind, pending, hold, beat, spent, disk, inside>>

(* The server creates the reservation once per key.                        *)
Created(c) == IF hold[c] = "none" THEN "active" ELSE hold[c]

(* The create is over; its count of attempts goes out of scope.            *)
Create(c, where) == Goto(c, where) /\ tries' = [tries EXCEPT ![c] = 0]

(* A schema-valid 200: the context is set and the heartbeat started.  An   *)
(* earlier request that is still on its way has nothing left to create.    *)
Enter(c) ==
    /\ pc[c] = "creating"
    /\ Create(c, "running")
    /\ pending' = [pending EXCEPT ![c] = FALSE]
    /\ hold' = [hold EXCEPT ![c] = Created(c)]
    /\ beat' = [beat EXCEPT ![c] = "alive"]
    /\ open' = Append(open, c) /\ context' = c
    /\ UNCHANGED <<kind, spent, disk, cut>>

(* Slip: an ambiguous create is retried until it is not.                   *)
CreateAmbiguousForever(c) ==
    /\ pc[c] = "creating"
    /\ pending' = [pending EXCEPT ![c] = TRUE]
    /\ tries' = [tries EXCEPT ![c] = @ + 1]
    /\ UNCHANGED <<kind, pc, hold, beat, spent, disk, inside>>

(* A timeout, transport error, 5xx or invalid 2xx: one retry at once, then *)
(* the call raises.                                                        *)
CreateAmbiguous(c) ==
    /\ pc[c] = "creating"
    /\ pending' = [pending EXCEPT ![c] = TRUE]
    /\ IF tries[c] = 1
       THEN tries' = [tries EXCEPT ![c] = 2] /\ UNCHANGED pc
       ELSE Create(c, "over")
    /\ UNCHANGED <<kind, hold, beat, spent, disk, inside>>

(* DENY, any other 4xx, or a dry run: no reservation comes of this request. *)
CreateRefused(c) ==
    /\ pc[c] = "creating"
    /\ Create(c, "over")
    /\ UNCHANGED <<kind, pending, hold, beat, spent, disk, inside>>

CreateInterrupted(c) ==
    /\ pc[c] = "creating" /\ Interrupts
    /\ pending' = [pending EXCEPT ![c] = TRUE]
    /\ Create(c, "over")
    /\ UNCHANGED <<kind, hold, beat, spent, disk, inside>>

(* The server (external): an abandoned create request is served late.      *)
LateCreate(c) ==
    /\ pending[c]
    /\ pending' = [pending EXCEPT ![c] = FALSE]
    /\ hold' = [hold EXCEPT ![c] = Created(c)]
    /\ UNCHANGED <<kind, pc, tries, beat, spent, disk, inside>>

-------------------------------------------------------------------------------
(* The action, and the order in which a call is wound up.                  *)

(* A function returns only after the functions called inside it.           *)
MayExit(c) ==
    /\ TaskFree /\ pc[c] = "running"
    /\ c \in Stream \/ \A i, j \in DOMAIN open :
                          open[i] = c /\ j > i => open[j] \in Stream

(* Slip: the heartbeat is left to run.                                     *)
HeartbeatLeft(c) == beat

(* stop_event.set(), or cancel().                                          *)
HeartbeatStopped(c) ==
    IF beat[c] = "alive" THEN [beat EXCEPT ![c] = "stopping"] ELSE beat

(* A call is entered once, so it has one place among the open ones.        *)
Close(c) == \E i \in DOMAIN open : open[i] = c /\ open' = RemoveAt(open, i)

(* Slip: only async code clears the context.                               *)
LeaveClearingAsync(c) ==
    /\ Close(c)
    /\ context' = IF c \in Async THEN NoCall ELSE context
    /\ UNCHANGED cut

Leave(c) == Close(c) /\ context' = NoCall /\ UNCHANGED cut

(* After the commit or release: a function stops its heartbeat, a stream   *)
(* has done so before and is over.                                         *)
WindUp(c) ==
    IF c \in Stream
    THEN Goto(c, "over") /\ Leave(c) /\ UNCHANGED beat
    ELSE Goto(c, "stopping") /\ beat' = HeartbeatStopped(c) /\ UNCHANGED inside

(* Slip: a stream, too, settles before it stops its heartbeat.             *)
ActionReturnsSettling(c) ==
    /\ MayExit(c)
    /\ spent' = [spent EXCEPT ![c] = TRUE]
    /\ Goto(c, "settling")
    /\ UNCHANGED <<kind, request, hold, beat, disk, inside>>

ActionReturns(c) ==
    /\ MayExit(c)
    /\ spent' = [spent EXCEPT ![c] = TRUE]
    /\ IF c \in Stream
       THEN Goto(c, "stopping") /\ beat' = HeartbeatStopped(c)
       ELSE Goto(c, "settling") /\ UNCHANGED beat
    /\ UNCHANGED <<kind, request, hold, disk, inside>>

(* Any exception: of the action's own, of a nested call, or an interrupt.  *)
ActionRaises(c) ==
    /\ MayExit(c)
    /\ IF c \in Stream
       THEN Goto(c, "stopping") /\ beat' = HeartbeatStopped(c)
       ELSE Goto(c, "releasing") /\ UNCHANGED beat
    /\ UNCHANGED <<kind, request, hold, spent, disk, inside>>

(* join(timeout=1.0) returns in any case; await returns when the task has  *)
(* ended, and a cancellation that arrives meanwhile is swallowed.          *)
HeartbeatAwaited(c) == pc[c] = "stopping" /\ (beat[c] = "dead" \/ c \notin Async)

(* Slip: a cancellation that arrives meanwhile is raised.                  *)
StoppedOrCancelled(c) ==
    /\ HeartbeatAwaited(c)
    /\ \/ c \notin Stream /\ Goto(c, "over") /\ Leave(c)
       \/ /\ c \in Stream
          /\ Goto(c, IF spent[c] THEN "settling" ELSE "releasing")
          /\ UNCHANGED inside
       \/ /\ c \in Stream /\ Interrupts
          /\ Goto(c, "over") /\ Leave(c)
    /\ UNCHANGED <<kind, request, hold, beat, spent, disk>>

Stopped(c) ==
    /\ HeartbeatAwaited(c)
    /\ IF c \in Stream
       THEN /\ Goto(c, IF spent[c] THEN "settling" ELSE "releasing")
            /\ UNCHANGED inside
       ELSE Goto(c, "over") /\ Leave(c)
    /\ UNCHANGED <<kind, request, hold, beat, spent, disk>>

(* A KeyboardInterrupt in join leaves __exit__, or the finally block, at   *)
(* once: what should follow does not happen.                               *)
StopInterrupted(c) ==
    /\ pc[c] = "stopping" /\ SyncInterrupted(c)
    /\ Goto(c, "over")
    /\ Close(c) /\ cut' = cut \cup {c}
    /\ UNCHANGED <<kind, request, hold, beat, spent, disk, context>>

-------------------------------------------------------------------------------
(* Settlement.                                                             *)

(* Slip: the commit is posted first.                                       *)
PersistAfterwards(c) ==
    /\ pc[c] = "settling"
    /\ Goto(c, "committing")
    /\ UNCHANGED <<kind, request, hold, beat, spent, disk, inside>>

(* Resolve the actual amount, persist_pending, post the commit.            *)
Persist(c) ==
    /\ pc[c] = "settling"
    /\ Goto(c, "committing")
    /\ disk' = [disk EXCEPT ![c] = "recorded"]
    /\ UNCHANGED <<kind, request, hold, beat, spent, inside>>

(* A KeyboardInterrupt or SystemExit in the actual or cost_fn callback.    *)
SettleInterrupted(c) ==
    /\ pc[c] = "settling" /\ SyncInterrupted(c)
    /\ WindUp(c)
    /\ UNCHANGED <<kind, request, hold, spent, disk>>

(* The server decides the spend of c, by commit or, after expiry, by event. *)
Decide(c) ==
    \/ /\ disk' = [disk EXCEPT ![c] = "charged"]
       /\ hold' = [hold EXCEPT ![c] = IF @ = "active" THEN "committed" ELSE @]
    \/ disk' = [disk EXCEPT ![c] = "refused"] /\ UNCHANGED hold

(* The first commit is charged or refused for good: discard_pending.       *)
CommitSettles(c) ==
    /\ pc[c] = "committing" /\ hold[c] = "active"
    /\ Decide(c)
    /\ WindUp(c)
    /\ UNCHANGED <<kind, request, spent>>

(* Anything else leaves the record on disk, and hands it to a worker.      *)
CommitHandedOver(c) ==
    /\ pc[c] = "committing"
    /\ WindUp(c)
    /\ UNCHANGED <<kind, request, hold, spent, disk>>

(* Slip: an interrupted settlement counts as a failed action.              *)
CommitInterruptedReleasing(c) ==
    /\ pc[c] = "committing" /\ Interrupts
    /\ Goto(c, "releasing")
    /\ UNCHANGED <<kind, request, hold, beat, spent, disk, inside>>

(* Neither except clause catches this, and the outer one does not release. *)
CommitInterrupted(c) ==
    /\ pc[c] = "committing" /\ Interrupts
    /\ WindUp(c)
    /\ UNCHANGED <<kind, request, hold, spent, disk>>

(* A release is best effort: it may be interrupted, fail or be refused.    *)
Released(c) ==
    /\ pc[c] = "releasing"
    /\ \/ UNCHANGED hold
       \/ hold[c] = "active" /\ hold' = [hold EXCEPT ![c] = "released"]
    /\ WindUp(c)
    /\ UNCHANGED <<kind, request, spent, disk>>

(* Workers and replays (CommitSettlement), or the request itself, late.    *)
WorkerSettles(c) ==
    /\ disk[c] = "recorded" /\ pc[c] # "committing"
    /\ Decide(c)
    /\ UNCHANGED <<kind, pc, request, beat, spent, inside>>

-------------------------------------------------------------------------------
(* The heartbeat (Heartbeat) and the lease.                                *)

(* The loop ends by itself: permanent error or no safe window.             *)
HeartbeatGivesUp(c) ==
    /\ beat[c] = "alive"
    /\ beat' = [beat EXCEPT ![c] = "dead"]
    /\ UNCHANGED <<kind, pc, request, hold, spent, disk, inside>>

(* It notices that it was stopped, after the attempt in flight.            *)
HeartbeatEnds(c) ==
    /\ beat[c] = "stopping"
    /\ beat' = [beat EXCEPT ![c] = "dead"]
    /\ UNCHANGED <<kind, pc, request, hold, spent, disk, inside>>

(* A lease runs out even under a heartbeat, and certainly without one.     *)
Expire(c) ==
    /\ hold[c] = "active"
    /\ hold' = [hold EXCEPT ![c] = "expired"]
    /\ UNCHANGED <<kind, pc, request, beat, spent, disk, inside>>

Lapse(c) == beat[c] \in {"none", "dead"} /\ Expire(c)

-------------------------------------------------------------------------------
CallStep(c) ==
    \/ Enter(c) \/ CreateAmbiguous(c) \/ CreateRefused(c) \/ CreateInterrupted(c)
    \/ Stopped(c) \/ StopInterrupted(c) \/ Persist(c) \/ SettleInterrupted(c)
    \/ CommitSettles(c) \/ CommitHandedOver(c) \/ CommitInterrupted(c)
    \/ Released(c)

Next ==
    \E c \in Call :
        \/ Begin(c) \/ ActionReturns(c) \/ ActionRaises(c) \/ CallStep(c)
        \/ LateCreate(c) \/ WorkerSettles(c)
        \/ HeartbeatGivesUp(c) \/ HeartbeatEnds(c) \/ Expire(c)

Spec == Init /\ [][Next]_vars

(* Requests have deadlines, stopped heartbeats end, and the server expires *)
(* a lease that nobody extends.  Actions need not return.                  *)
Fairness ==
    \A c \in Call :
        /\ WF_vars(CallStep(c)) /\ WF_vars(HeartbeatEnds(c)) /\ WF_vars(Lapse(c))

LiveSpec == Spec /\ Fairness

-------------------------------------------------------------------------------
(* Properties.                                                             *)

(* The calls, with nothing but their hold and record to show, keep the     *)
(* ledger's promise: see SpendLedger.                                      *)
Charged(c) == hold[c] = "committed" \/ disk[c] = "charged"

SpendOf(c) ==
    CASE hold[c] = "released"                 -> "released"
      [] Charged(c)                           -> "recorded"
      [] ~Charged(c) /\ disk[c] = "refused"   -> "refused"
      [] ~Charged(c) /\ disk[c] = "recorded"  -> "owed"
      [] OTHER -> IF ~spent[c] THEN "open"
                  ELSE IF pc[c] = "over" THEN "lost" ELSE "volatile"

Ledger == INSTANCE SpendLedger
    WITH Reservation <- Call, spend <- [c \in Call |-> SpendOf(c)]

LedgerSafety == Ledger!LedgerSpec

(* README.md:246: "the SDK never lets one exist only in memory": a call    *)
(* whose work was done is not over before its cost has been on disk,       *)
(* whatever was cancelled on the way.                                      *)
SpendReachesDisk ==
    \A c \in Call : pc[c] = "over" /\ spent[c] => disk[c] # "none"

(* On asyncio this is so: no cancellation, in the action, in the commit or *)
(* while the heartbeat is awaited, separates done work from its record     *)
(* (lifecycle.py:1274-1282; streaming.py:863-876).                         *)
AsyncSpendReachesDisk ==
    \A c \in Async : pc[c] = "over" /\ spent[c] => disk[c] # "none"

(* The task never finds the reservation of a call that is over, however    *)
(* its functions and streams overlap: what is written to that context no   *)
(* commit would carry (lifecycle.py:745-757, 796; streaming.py:343-347).   *)
(* Only a sync call whose end a KeyboardInterrupt in join did cut short    *)
(* may leave its context behind.                                           *)
OwnContextIsOpen == context \in ToSet(open) \cup {NoCall} \cup (cut \ Async)

(* The inductive invariant: what the place of a call says of its spend,    *)
(* its record and its hold.                                                *)
Settled(c) == pc[c] = "over" \/ (pc[c] = "stopping" /\ c \notin Stream)

CallOK(c) ==
    /\ ~ spent[c] => disk[c] = "none"
    /\ pc[c] \in {"new", "creating", "running", "releasing"} => ~ spent[c]
    /\ pc[c] = "settling" => spent[c] /\ disk[c] = "none"
    /\ pc[c] = "committing" => spent[c] /\ disk[c] = "recorded"
    /\ pc[c] = "stopping" /\ c \in Stream => disk[c] = "none"
    /\ hold[c] = "committed" => disk[c] = "charged"
    /\ hold[c] = "released" => ~ spent[c] /\ Settled(c)
    /\ c \in Async /\ spent[c] /\ Settled(c) => disk[c] # "none"

(* GuardedCallProofs shows every step to preserve it.                      *)
CallInv == TypeOK /\ (\A c \in Call : CallOK(c)) /\ OwnContextIsOpen

(* No call leaves its heartbeat running: whatever interrupts it, the       *)
(* heartbeat was told to stop before a stream settles and before any call  *)
(* is over, and on asyncio it has ended by then: no extension goes out for *)
(* a reservation that its stream is settling (lifecycle.py:792-796,        *)
(* 1274-1282; streaming.py:335-347, 863-876).                              *)
PastHeartbeat(c) ==
    \/ pc[c] = "over"
    \/ c \in Stream /\ pc[c] \in {"settling", "committing", "releasing"}

HeartbeatStopsFirst ==
    \A c \in Call : PastHeartbeat(c) =>
        beat[c] # "alive" /\ (c \in Async => beat[c] # "stopping")

(* Inside a guarded call there is a context: get_cycles_context is None    *)
(* only "if not inside a guarded call" (context.py:44), and nested calls   *)
(* are allowed (README.md:467).                                            *)
ContextInsideCall == open # << >> => context # NoCall

(* However a call ends, the budget it holds is given back or charged some  *)
(* day: no heartbeat outlives its call and keeps the lease alive           *)
(* (lifecycle.py:792-796, 1274-1282; streaming.py:335-337).                *)
HoldEnds == \A c \in Call : pc[c] = "over" ~> hold[c] # "active"
===============================================================================
