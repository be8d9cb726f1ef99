# Runcycles Python SDK: verification project

TLA+ specifications of the `runcycles` client library (`src/runcycles/`), the
TLC runs that check them on small instances, and proofs, checked by TLAPS, of
what holds for every instance. Line numbers refer to the source at this commit.

## 1. The system

The SDK guards a piece of work with a budget reservation held by a remote
Cycles server: *reserve* an estimate, run the work while a *heartbeat* keeps
the reservation's lease alive, then *commit* the actual amount or *release*
the reservation. What makes this hard is that spend, once made, cannot be
undone: it has to be charged exactly once although requests are lost,
reservations expire, processes crash, several processes share one journal
directory and replay each other's records.

| Component | State | Operations | Correct when |
|---|---|---|---|
| Guarded call (`lifecycle.py`, `decorator.py`) | reservation id, `guarded_action_completed`, heartbeat | `execute`, `_handle_commit`, `_handle_release`, create with same-key recovery | work done is committed, never released; work not done is released |
| Retry engines (`retry.py`) | pending commits with mode, attempt and floor; claimed directories; deferred replay; live engines | `schedule`, `schedule_event`, `_submit`, `_retry_loop`, `_classify_*_response`, `_maybe_replay`, `flush` | the spend is charged once or stays on disk; the worker stops |
| Journal (`journal.py`) | a directory with one file per reservation | `record`, `discard`, `load_pending` | a record leaves the disk only after the server answered for it |
| Heartbeat (`lifecycle.py`, `streaming.py`) | pending key, lead estimates, delay, scheduler | the loop, `_AuthoritativeScheduler` | the lead is never overestimated; retries are safe; no hot loop |
| Stream reservations (`streaming.py`) | usage, stable keys, settlement error | enter, exit, `_handle_commit`, `_handle_release` | as the guarded call, from a context manager |
| Context (`context.py`) | one ContextVar per task | set on entry, cleared on exit | a function finds its own open reservation |
| Client and responses (`client.py`, `response.py`, error codes of `models.py`) | none | `_post`, `_handle_response`, predicates and accessors of `CyclesResponse` | what is no decision of the server is not taken for one |
| Request models, validation, configuration, exceptions | none that matters here | parsing; validation | |

How they interact: the guarded call and the stream create reservations through
the client, start a heartbeat (a thread or a task), run the work, journal the
commit through the retry engine, post it once themselves and hand everything
unresolved to a worker of the engine. Workers and callers share the journal
files, the server and nothing else; two processes share the directory of an
identity. An engine scans that directory once per process. At exit a hook
waits for workers for a bounded time, then daemon threads die with the
process.

The hard behaviours: lost, late and repeated requests; expiry between two
attempts; a crash between any two steps; workers of several processes on one
record; claim, scan and record as separate steps; swallowed I/O errors;
interruption by KeyboardInterrupt or task cancellation; clocks that cannot be
compared; sleeps that end late; nested and overlapping calls. `PROJECT.json`
lists each of them at its line, with the property that watches it.

## 2. Modules

| Module | What it is |
|---|---|
| `SpendLedger` | abstract: what is promised about the spend of one call |
| `CommitSettlement` | callers, retry workers, replay, journal, crashes, the server's contract |
| `SettlementProofs`, `SettlementRefinement` | proofs about `CommitSettlement`: its invariants; that it implements `SpendLedger` |
| `MCSettlement` | model values and symmetry for its runs |
| `JournalFiles` | the journal directory, one step per system call, for concurrent writers and scanners |
| `JournalFilesProofs` | proofs about `JournalFiles` |
| `MCJournal` | colliding names and symmetry for its runs |
| `Responses` | what the SDK makes of one HTTP exchange, and the decisions taken on it |
| `RetryClock` | one record against the clock: backoff, Retry-After floors, attempt counts, event mode, restarts; uses `Responses` |
| `RetryClockProofs` | proofs about `RetryClock` and `Responses` |
| `MCRetryClock` | headers and old floors for its run |
| `Heartbeat` | the heartbeat loop and its scheduler in discrete time |
| `HeartbeatProofs` | proofs about `Heartbeat` |
| `GuardedCall` | the calls of one task: create, action, settlement, heartbeat shutdown, context, interrupts |
| `GuardedCallProofs` | proofs about `GuardedCall`: its invariants; that it implements `SpendLedger` |
| `MCGuardedCall` | model values for its runs |

### SpendLedger

`spend[r]` is *open, released, volatile, owed, recorded, refused* or *lost*.
The promise is in the edges that are missing: spend that is *owed* (on disk)
is left only by an answer of the server; *recorded* is final; *released* is
reached only from *open*. *Lost* is the documented gap: a process that dies
between the return of the action and the first journal write, or whose journal
cannot be written, takes the amount with it.

### CommitSettlement

An *agent* is a guarded call of a process on a reservation (`"caller"`) or the
worker a process starts from a journal record (`"replay"`). A caller whose
first attempt failed turns into the worker that `_submit` spawned.

| Model | Code |
|---|---|
| `agent[a]`: `pc`, `duty`, `attempt`, `answer` | the thread or task: where it is, the mode of its `_PendingCommit`, `pending.attempt`, the class of the response |
| `journal[r]` | the file of `r` in the identity directory, by mode |
| `claim[p]` | `_replayed_dirs` and `_replay_deferred` of process `p` |
| `status`, `charged`, `refused` | the server |
| `late[r]` | requests whose sender no longer waits for them |
| `acted`, `durable` | history: the action returned; the spend was on disk |
| `Claim`, `Load`, `Defer` | `_claim_replay`, `load_pending`, `_maybe_replay` without a loop |
| `PersistAndCommit` | `persist_pending`, then the first POST |
| `FirstSettled`, `FirstRetried` | the branches of `_handle_commit` |
| `Submit` | `_submit`: journal, run a deferred replay, spawn or, when disabled, drop |
| `Wake`, `Resume` | `_retry_loop`: sleep, count, attempt; give up after `MaxAttempts` |
| `WorkerSettled`, `WorkerGivesUp`, `WorkerRetries`, `WorkerFlips` | `_classify_commit_response` and `_classify_event_response` |
| `Interrupt` | `CancelledError` or `KeyboardInterrupt`, which no `except Exception` catches |
| `Stop` (`Exit`, `Crash`) | the end of a process: threads die, requests stay on the wire |

Responses are abstracted to the classes that the code distinguishes (`Answer`).
An answer that proves nothing (`FaultAnswer`) leaves the request in `late`,
from where `LateArrival` may deliver it now, later, repeatedly or never.
The server is external and is modelled by the contract the client relies on:
requests with a known key are replayed, an expired reservation answers 410, a
finalized one `RESERVATION_FINALIZED`. Both operations of the journal may fail
silently when `JournalMayFail`. With `RetryEnabled = FALSE` a process neither
retries nor replays.

`LedgerSafety` states that this implements `SpendLedger` under the mapping
`SpendOf`: what an observer of disk, server and live processes would say.

Two abstractions of this module have modules of their own: the journal is one
record per reservation here and a directory of files in `JournalFiles`; time
and the classes of answers are nondeterministic here and concrete in
`RetryClock`. Both are stand-alone models of their part, tied to this one by
the properties that it assumes: a record that was not discarded stays
(`OwedOnDisk`), a scan returns it (`ScanFindsOwed`), and it is discarded only
when the server has decided (`DroppedOnlyIfDecided`). One gap is left between
them: a read error makes `JournalFiles` set a valid record aside (finding 4),
which `CommitSettlement` does not do.

### JournalFiles

A *writer* is a thread that records or discards; a *scanner* is a process that
scans for records to replay. Every system call is a step, so any number of
them interleave; whoever crashes merely takes no further step.

| Model | Code |
|---|---|
| `file`, `aside`, `temp` | the `*.json`, `*.corrupt` and `*.tmp` files of the directory, each a record (the id it holds), `Bad` or `Absent` |
| `Standard(r)`, `OldName(r)` | `_safe_filename` (a digest, no collisions) and `_legacy_filename` (ids may share one) |
| `OpenTemp`, `WriteTemp`, `Publish`, `RecordFails` | `record`: unique temporary file, `os.replace`, swallowed failure |
| `UnlinkStandard`, `ReadLegacy`, `UnlinkLegacy` | `discard` |
| `List`, `ReadRecord`, `ReadFails`, `Quarantine`, `Return` | `load_pending`: reap old temporary files, list, parse, `.corrupt` |
| `Check`, `Migrate`, `Compare`, `DropDuplicate` | its treatment of records under a legacy name |
| `owed`, `due[s]` | history: records complete on disk and not settled; those scan `s` has still to return |

`Init` is any directory that earlier releases and earlier runs may have left.
`MayFail` says which calls may raise OSError. The listing of a scan may reap the
temporary file of a slow writer. A record of another server's base URL
(`Elsewhere`) is kept and not returned.

### Responses

Operators only. A response is its status, how its payload parses, its error
code and its Retry-After header. `FirstVerdict` is the decision of
`_handle_commit`, `WorkerVerdict` that of the two `_classify_*_response`
methods; both are built from the predicates of `CyclesResponse` as the code
builds them.

### RetryClock

| Model | Code |
|---|---|
| `agent` | the first attempt, then the worker: mode, attempt, floor of its `_PendingCommit`, end of its sleep |
| `file` | the record: mode and `not_before_ms` |
| `Commit`, `FirstSettled`, `FirstScheduled`, `FirstEvent` | `_handle_commit`, `schedule`, `schedule_event` |
| `Resume`, `Wake` | `_retry_loop`: count, delay (`DelayFor`), sleep, attempt |
| `WorkerEnds`, `WorkerRetries`, `WorkerFlips` | `_attempt_once` and what it does with the verdict; the flip posts the event at once |
| `Crash`, `Replay`, `Restored` | the process dies; `_load_replay_entries` restores what is left of the floor |
| `Serve` | external: an honest answer, one damaged on its way, or a gateway's |

An honest server answers 410 to a commit only when the reservation expired. A
gateway may answer a bare 410 at any time; the client takes it for expiry and
posts the event while the server's reservation is still active or already
committed, and the server may then charge both. `RetryClock` covers this: its
properties hold with such gateways. `ChargedAtMostOnce`, `EventOnlyAfterExpiry`
and the refinement of `SpendLedger` by `CommitSettlement` do not: they rest on its
contract that only the server answers 410. What the server refused it is assumed to refuse again.

`SpendOf` reads the state of `SpendLedger` off the same variables, and
`LedgerSteps` says that every step is one of the ledger or a stutter. It is an
action property and no refinement, because a run starts where the action has
returned: the spend is already *volatile*, or *owed* by an earlier run.

One process at a time works on the record here. Two workers of one record may
overwrite each other's floor; that is a hazard without a property (`retry.py:277`).
Time is in whole seconds: the truncation of floors to milliseconds and jumps of the
wall clock, from which `not_before_ms` is computed, are left out.

### Heartbeat

All clocks are countdowns or ages that `Tick` moves: `lease` is what the server
has left, `lead` is `lead_estimate_ms`, `leadMin` the fallback's sum of grants
minus elapsed time, `clock` the rest of a sleep or the age of an attempt. An
attempt that fails may have been applied, may still be (`straggler`), or
never. `unseen` is what the server granted and the client has not been told.
A sleep ends up to `MaxOverrun` ticks late and an attempt ends by its deadline
(`_run_sync_attempt`, `_run_async_attempt`). The create answer the loop starts
from is any split of a round trip into the way there and back, followed by up
to one tick of setup. The four copies of the loop differ only in how they
sleep and are cancelled.

`baseline` is `prev_expiry`. The create answer need not carry `expires_at_ms`
(`models.py:285`, `lifecycle.py:346-348`; `CreateTells` says which occurs); the
first grant is then assumed to be `ttl_ms` (`Grant`: `lifecycle.py:1016`, `1487`;
`streaming.py:589`, `1124`), and the next ones are measured. `RetryAfters` are the
Retry-After values of a 429; they may lie beyond the retry window.

### GuardedCall

The calls of one thread or task, each of one of four kinds: `@cycles` on a
`def` or an `async def`, and the sync and async stream reservation. They nest
or overlap, but run one at a time (`TaskFree`); their heartbeats, the server
and the workers of `CommitSettlement` run concurrently.

| Model | Code |
|---|---|
| `pc[c]`, `spent[c]` | where `execute`, `__enter__` or `__exit__` is; `guarded_action_completed`, or a block that ended normally |
| `tries`, `pending`; `Create...`, `LateCreate` | `_create_reservation_with_recovery`: one retry with the same key; abandoned requests that are served late |
| `beat[c]` | the heartbeat thread or task, from its start until it notices that it was stopped |
| `disk[c]`, `Persist`, `CommitSettles`, `CommitHandedOver` | `_handle_commit`, down to the record; `WorkerSettles` stands for all of `CommitSettlement` that follows |
| `WindUp`, `Stopped` | the order of the two endings: a function settles, then stops its heartbeat; a stream stops it, then settles |
| `open`, `context` | the calls the task is in, and its `_cycles_context_var` |
| `cut` | history: the calls whose end a KeyboardInterrupt in `join` cut short; only a sync one among these may leave its context behind |
| `...Interrupted` | KeyboardInterrupt where sync code blocks or calls back, cancellation where async code awaits |

A cancellation that arrives while the cancelled heartbeat task is awaited is
swallowed, as in the code; `join(timeout=1.0)` returns whether or not the thread has
ended. The journal works here (`CommitSettlement` lets it fail).

## 3. Runs

| Run | Instance | Shows |
|---|---|---|
| `settlement` | 1 reservation, 2 processes, 1 retry, failing journal | type, inductive invariant, at most one charge, durable spend kept, spent budget never released, events only after expiry; implements `SpendLedger` |
| `settlement_live` | 1 reservation, 1 process, 1 retry, working journal, `ReplaySpec` | owed spend is answered for; records leave the disk |
| `deferred_replay` | 1 and 1, `LiveSpec` | *violation*: a record that is never replayed |
| `heartbeat` | answers report or not, lease 8, ttl 4, every fault, Retry-After 0, 2, 5, create tells its expiry or not, sleeps one tick late | type, both leads (the measured one up to one assumed grant), planned attempts, pending key, no burst, in both regimes and across their switches |
| `heartbeat_steady` | never reports, full grants, no faults | the fallback keeps the lease |
| `heartbeat_overrun` | sleeps may be one tick late | *violation*: the reserve does not cover a failure and its retry |
| `guarded_call` | 2 overlapping calls of every pair of kinds, with interrupts | implements `SpendLedger`; async spend reaches the disk; no context of a call that is over, unless a KeyboardInterrupt in `join` cut its end short; heartbeats are stopped before streams settle and before any call is over; no hold outlives its call; inductive invariant |
| `interrupted_exit` | 1 sync stream | *violation*: a KeyboardInterrupt in `__exit__` loses known spend |
| `nested_call` | 2 functions | *violation*: the outer call loses its context |
| `journal_files` | 2 writers, 1 scanner, 2 temporary names, 2 ids that share a legacy name, one of another server; reads and renames fail | type, inductive invariant, owed records stay on disk, no partial record is published, a scan misses nothing |
| `quarantine` | 1 writer, 1 scanner; reads fail | *violation*: a valid record is set aside as corrupt |
| `retry_clock` | 2 retries, delays up to 3, cap 4, headers absent, 3, 9 and 50, old floors absent, 2 and 30, clock up to 9 | type, inductive invariant, no request inside a Retry-After window, no wait beyond both bounds, bounded requests, no record dropped undecided; only steps of `SpendLedger` |

**Bounds.** Two processes and one reservation are enough for every
interference on a record: records of different reservations share only the
replay claim and the crash of their process, and the proof of the ledger covers
any number of each, with retries on and off. One retry gives every agent a first, a repeated and an exhausted
attempt, and a replay starts the count anew; the proofs cover any number. Late
requests need no bound: a set of endpoints suffices, because requests of one
reservation with one endpoint have the same key and body.

In the heartbeat a second is 2 ticks, so the smallest retry reserve is
2·2 + 2 = 6 ticks; with leases up to 8, or 14 in `heartbeat_overrun`, leases with
and without a planned delay, a recovery window and its end all occur.
`MaxDelay` is small enough to cap. `burst` and `zeroStreak` have no bound of their own:
their limits are what is checked. Two ages stop growing where nothing reads them
any more: `sinceSuccess` at `2 * Ttl` (a grant that `Clamping` compares with it
is below 0.9 `Ttl`, so no comparison changes above 1.2 `Ttl`), and `leadMin` at
`-2 * MaxLease` (while the lease lives, `leadMin` is short of it by the
create's lease and the unseen grant at most; afterwards no grant can raise it). In the fallback `lead` and `prevWindow` are reset, because
nothing reads them until the next authoritative answer overwrites them. Two
calls give every order in which functions and streams can be entered and left;
a third adds no kind of overlap, because a context is one variable that every
entry sets and every exit clears. Deadlock is not checked for the heartbeat and the guarded calls,
which end, for the journal, whose writers may all have crashed, and for the retry clock,
which stops at its horizon.

In the journal, two ids with one legacy name give a discard that meets another
id's record, and one id on another server a record that scans skip. Two
writers and one scanner are enough for a scanner and a writer, or two writers, to meet
between any two system calls. Two processes that scan and migrate the same file
(`journal.py:276`) do not occur in the run, because two of each take TLC too long.
That hazard rests on the proofs of `OwedOnDisk`, `NoPartialRecord` and
`ScanFindsOwed`, which hold for any number of scanners. The instance with
`Writer = {w1}`, `Scanner = {s1, s2}`, `Temp = {t1}` can be checked by changing these three
constants (4 million states, no error in the invariants). In the retry clock the
header values lie below the cap, above it, and above what milliseconds in 64
bits can hold (`MaxSeconds`); old floors have passed or are far in the future;
`Horizon` leaves room for a floor, a restart within it and what follows.

**Fairness.** Threads and tasks that can run do run (weak fairness of the
steps of callers and workers), a process without work ends, and an ended one
is started again. Three assumptions are about the environment and are strong:
a worker that sleeps is not killed every time before it wakes (`SF Wake`); a
request that is sent again and again is some day served rather than deflected
(`SF Serve`); the step after a decisive answer is not hit by a crash each time
(`SF Conclude`). Without them no client could promise anything. `ReplaySpec`
adds that the application keeps creating engines where they can replay at once
(sync ones, or async ones inside a running loop). `deferred_replay` shows that
without this addition records may stay for ever. In `GuardedCall` requests have deadlines,
stopped heartbeats end and the server expires a lease that nobody extends (weak
fairness); actions need not return.

## 4. Proofs

`SettlementProofs` proves for all sets of reservations and processes and every
number of attempts that `CommitSettlement` satisfies `TypeOK`,
`ChargedAtMostOnce`, `DurableSpendKept`, `SpentNeverReleased` and
`EventOnlyAfterExpiry`, from `SettlementAssumption` alone. None of these is inductive.
`SettlementInv` adds what the steps rely on: an agent in event mode, or with an
"expired" answer, works on an expired reservation (`AgentInv`), decisive
answers are true of the server and stay true (`AnswerInv`), while an action
runs nobody else works on its reservation (`RunningInv`), and records, late
requests and charges agree with the server's status (`ReservationInv`). The
heart is that `"commit" \in charged[r] <=> status[r] = "committed"` and that
event mode anywhere implies `status[r] = "expired"`, so the two endpoints exclude
each other. Each action has a lemma with one step per conjunct; `NextInv`
collects them. The run `settlement` checks the same `SettlementInv`.

`HeartbeatProofs` proves for every lease, timeout, grant, overrun and round
trip that `lead` is a lower bound of the lease, that `leadMin` is one where the
create answers tell their expiry (`ToldLeadConservative`) and is otherwise too high
by at most the one assumed grant (`MeasuredLeadConservative`), and that the key
of an unseen extension stays pending. The key is `AnswerInv`: an answer of age
`clock` overstates the lease by at most `clock`, which is what deducting the
round trip removes. With the hypothesis `MaxOverrun <= Second` planned attempts fit
the lease (`PlanInv`); with `MaxOverrun = 0` the first failure of a planned beat
is always retried (`ReserveInv`), while the run `heartbeat_overrun` shows that
any overrun breaks it when the deadline is the attempt budget.

`NoHotLoop` proves `BoundedBurst` with the hypothesis that half a second is at
least one tick. Its invariant is a potential: `Left` counts the attempts the
loop may still begin before time has to pass, 3 while the zero streak is unused
and 1 after it, and one more while the retry window can still shrink.

`SteadyFallbackHeld` proves `FallbackHeld` under `Steady`: the server never
reports the remaining lease, grants are full, nothing is lost, a capped lease
has room for 3.5 ttl, and half a ttl covers two attempts and an overrun. `SteadyInv` is
the induction. The server may cut a grant at its cap, and a cut grant looks like
one that mirrors elapsed time; `GrantInv` says that this happens only when the lease has
a whole ttl to spare over what the loop knows of (`Spare`), because the loop
asks only while it knows of less than 1.5 ttl. `BeatInv` says that a lease that was
just extended lasts for half a ttl, a late sleep and two attempts, the one that brought the
answer and the next. The constants of `heartbeat_steady` satisfy `Steady`.

`SettlementRefinement` proves that `CommitSettlement` implements `SpendLedger`
for any number of reservations, processes and attempts, with retries on or off
and a journal that may fail. Steps of callers, workers and the server change
the spend of at most one reservation and have a lemma each; the end of a
process changes that of several at once, and needs that what it leaves behind is
either on disk or *lost*, from `SettlementInv`.

`JournalFilesProofs` proves `OwedOnDisk` and `NoPartialRecord` for any number
of writers, scanners, ids and collisions, from `JournalAssumption`. `JournalInv` says what a
thread may rely on between two of its system calls: the temporary file of a
writer is its own (`WriterInv`), a path that was parsed still holds that record
or nothing (`ScannerInv`), a legacy file that is about to be removed is not
needed (`Covered`), and a file set aside is not overwritten by anything worse
(`AsideInv`).

`ScanReturnsOwed` proves `ScanFindsOwed`, for the same numbers. `DueInv` follows each
record a scan owes its caller through the scan (`Pending`): the scan has yet to visit
a file that holds it, or has it in hand, or the record was set aside; and
while its standard file holds it, that one is still ahead. `FilesKeep` is
what every other thread guarantees meanwhile: a file that holds the record is
given up only when the record is set aside or its standard file holds it too.

`RetryClockProofs` proves the properties of the retry clock for all delays, caps, headers,
floors and numbers of attempts, from `ClockInv`: where a Retry-After that is
still in force is kept (`FloorInv`), how the requests of a run relate to its
attempts (`CountInv`), and that an answer that discards a record is true of
the server (`AnswerInv`). `VerdictsAgree` and `WorkerDiscardsNoMore` compare the two
classifications for every response. `ClockKeepsLedger` proves `LedgerSteps`: the
server decides once (`ServerDecidesOnce`), and while it has not, a record
that is on disk stays (`DropsAreDecided`) and one that died with its process does not return.

`GuardedCallProofs` proves the safety of `GuardedCall` for any number of calls of
every kind. `CallInv` says for each place in the code whether the action
completed, whether a record exists and what the server holds; a committed hold
implies a record that was charged, a released one an action that did not complete.
The mapping to `SpendLedger` then follows per step. `HeartbeatsStop` needs
`BeatInv`: a call that is still being created has no heartbeat, and one that waits for
its own has told it to stop. The two orders in which functions and streams wind up
are two cases of the proof. Two theorems say where the documented claims of
findings 3 and 5 do hold: `UnnestedContextFound`, in a task that is in one call
at a time, and `UninterruptedSpendReachesDisk`, without interrupts.

Only model-checked: all liveness (`LedgerLiveness`, `JournalDrains`,
`HoldEnds`: out of the prover's reach). Every invariant and action property of
the passing runs has a theorem.

## 5. Findings

1. A deferred async replay may never happen (README 261-264).
2. The retry reserve leaves nothing for a late wake-up: one timeout of the full
   deadline ends an authoritative heartbeat (`lifecycle.py:494-496`).
3. A nested guarded call leaves the outer one without a context (`context.py:44`).
4. A record whose read fails for a passing reason is renamed to `.corrupt`, as if
   it were unparseable (`journal.py:264` against `242-243`); no later run loads it.
   Even when no read fails, a scan that finds the file mangled or gone can rename the
   valid record that a writer publishes under its name in between (259-267 against 205).
5. A KeyboardInterrupt while a stream's `__exit__` joins its heartbeat skips
   journal, commit and context (README 246-247); the async stream settles.

One more divergence has no run of its own: `lifecycle.py:914-918` calls the
fallback's sum of grants a lower bound of the lease without exception, but line 1016 assumes
a first grant of `ttl_ms` when the create answer had no `expires_at_ms`. With a lease of
2 and a server that grants nothing, the sum is 4 after the first beat.
`MeasuredLeadIsConservative` states the exception as an allowance
(`Assumed`); without it the run `heartbeat` fails in three steps.

Observed while modelling, and harmless or a matter of taste: a replay
does not exclude the claimer's own work (`retry.py:110-111`, `545-567`), which
the idempotency keys absorb; a 401 or 403 on the *first* commit is handed to a
worker and retried, on a retry it ends the run (README 271-273,
`lifecycle.py:846`); a JSON body that is not an object makes the lookup of the error code raise,
which a worker counts as a failed attempt whatever the status (`retry.py:104`,
`response.py:118-121`); a code in a bare `error` attribute is accepted by
workers and not by the first attempt; a finalized or mismatched commit with a
status outside 4xx drops the record on the first attempt and is retried by a worker.

## 6. Not modelled

- Requests' and responses' fields, validation, configuration values, exceptions:
  data without behaviour that a property tells apart. URLs, headers, logging,
  file permissions, `fsync`: pure I/O.
- The time the exit flush grants to workers: `Exit` in `CommitSettlement` may come
  at any time, as it may when the shared deadline has passed, so nothing that
  is checked relies on it.
- Interrupts between two bytecodes that block nowhere (the two hazards of
  `PROJECT.json` that say so), and tasks created inside a call, which copy its context.
- Writers of one record whose floors overwrite each other, clock jumps and millisecond
  truncation (see RetryClock).
- The composition of `JournalFiles` with `CommitSettlement` as one model: each
  step of settlement would become up to four system calls of each process, beyond what
  TLC can enumerate; the two are tied by the properties named above.

What a later extension could add: a composition proof that `JournalFiles`
without read errors implements the one-record journal of `CommitSettlement`; two workers in
`RetryClock`.
