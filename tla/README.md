# better-trigger: specifications and proofs

better-trigger is a durable task engine on PostgreSQL. A client triggers a
*run*; daemons claim runs from a queue table and execute task code step by
step; each finished step is recorded, so that a run that is suspended, retried
or taken over by another worker replays from its ledger. This directory holds
TLA+ modules of that engine, their TLC configurations, and proofs that TLAPS
checks. Paths below are relative to the repository root; `kernel/` stands for
`packages/kernel/src/`, `worker/` for `apps/worker/src/`, `sdk/` for
`packages/sdk/src/` and `web/` for `apps/web/src/`.

    tlc -workers 2 -config MCRunKernel_fencing.cfg MCRunKernel.tla
    tlapm RunKernelLedgerProofs.tla

`PROJECT.json` lists, for every definition, the source lines it stands for, and
for every property a plausible bug (a *mutant*) that makes TLC refute it.

Contents: 1 the system and its parts, 2 the modules, 3 the runs, 4 the proofs,
5 what the runs found, 6 what is not modelled, 7 the plan.

## 1. The system and its parts

All durable state is in PostgreSQL. Daemons share nothing else: any number of
them run against one database, each with claim loops, executors, a heartbeat
and an orchestrator, and any of them may die at any moment.

| Component | State it keeps | Operations | What makes it correct |
|---|---|---|---|
| Run lifecycle (`kernel/runs-*.ts`, `queue.ts`) | rows of `runs`, `queue`, `waits`, `run_steps` | create, batch, retry, claim, heartbeat, hand-back, report a step, suspend, wait for a child, complete, fail, cancel | queue and run agree; one writer per run; recorded steps and ends are final; each claim charged once; no wake lost |
| Creation (`kernel/runs-create.ts`, `retryRun`) | idempotency and operation keys in unique indexes | trigger, batch trigger, retry, each possibly asked twice | one key, one run; only unsorted batches can lock each other out |
| Orchestrator (`kernel/orchestrator.ts`) | none of its own; scans the tables | reap lapsed leases, resume due timers, fail orphaned waits, heal lost wakes, fire cron schedules, mark workers offline, report stranded runs | every run ends; a run that moved on is never resurrected; several daemons do the work of one; due waits are settled though some fail |
| Claim gate and scan (`kernel/queue.ts`) | row and advisory locks inside one transaction; the loops' rotation | scan a window per namespace, lock key, count, flip, commit | limit never overshot; a run claimed once; claims end; a busy head does not starve what is behind it |
| Row locks (`kernel/runs-internal.ts`, LOCK ORDER) | locks of open transactions | lockQueueRow, lockRunRow, tryLockRunRow | decisions still hold at commit; no circle of waits |
| Claim connection (`kernel/queue.ts` claimRuns) | one pooled connection | transaction, ledger reads, release | reads run outside anybody's transaction |
| Worker runtime (`worker/runtime.ts`) | `inFlight` map, slots, heartbeat chain, stop phase | claim loop, heartbeat, stop, hand-back | leases of what runs are renewed; a stop leaves nothing to the reaper and bills nobody |
| Executor (`worker/executor.ts`) | replay position, snapshot, signal, abort reason | step, wait, child, batch, settle, abandon, report | nothing recorded runs again; one end per claim; a swallowed signal stops the run; an execution told to stop blames nobody for an exception |
| Logs (`worker/executor.ts`, `kernel/runs-logs.ts`) | buffer, chain of flushes, `run_logs` rows | log, flush, append in chunks | lines in order, once, none after the end |
| Registration and cron (`kernel/workers.ts`, scanCron) | `workers`, `tasks`, `schedules` | register, upsert task and schedule, beat, leave, mark offline, tick, patch | the schedule is its owner's; each due time fires once |
| Result waiters (`worker/waiters.ts`), `kernel/runs-read.ts`, SDK (`sdk/instance.ts`) | pending promises, first reads, sweeps, the client's polls | wait, notify, sweep, time out, abort, stop, retry | outcomes are true; every call ends |
| LISTEN connection (`worker/notify.ts`) | one client, generation, one reconnect timer | connect, break, reconnect, stop | it comes back, or a crash ends it with the process; none is orphaned |
| Process exit (`worker/main.ts`, `shutdown.ts`) | boot stage, hand-off stage, two backstops | boot, signal, crash, failed boot, hand-off | each piece ended once; code 0 means clean; it always leaves |
| Embedded runtime (`worker/embedded.ts`, `sdk/instance.ts`) | the process-wide slot, resolver and default client | create, install, start, fail, stop, restore | the host finds its own things again |
| Rate limiter (`worker/rate-limit.ts`) | buckets, their order | consume, evict | no more than burst and rate |
| Probes and statistics (`worker/routes/db-probe.ts`, `dashboard.ts`) | flights, a pool of two, a cache | probe, check out, time out, load | no more work than the pool has clients; statistics never go back |
| Dashboard (`web/api/hooks.ts`, `mergeRuns.ts`) | head and tail of a list, query generations, key version; pages of log lines | poll, load more, filter, new key, pause, hide | nothing stale shown, nothing skipped, polling goes on |
| Migrations (`packages/db/src/migrate.ts`) | advisory lock of a session, journal | boot, lock, read, apply, unlock | each migration once; boots end |
| Retention (`kernel/prune.ts`) | none | delete ended runs in batches | never a live run; what the foreign keys leave behind is recovered |
| HTTP parsing, CLI, loader, configuration, core helpers, examples, test support | none that outlives a call | | not the subject here |

How they interact. The executor calls the kernel; every such write is *fenced*:
it is accepted only while the run is running, its queue row is locked by that
worker and the run's fencing token is the one the claim was given. The end of a
run wakes the parent that waits for it in the same transaction. The
orchestrator takes runs back whose lease lapsed. Notifications (`NOTIFY bt`)
only shorten polls: the claim loops' sleep, the waiters' sweep. The hard behaviours are
therefore interleavings of transactions on the same rows, executors that live
on after their claim was taken away (*zombies*), processes that die between two
transactions, task code that catches the signal meant to end it, answers
applied after an `await`, callbacks in an order nobody planned, and the order in
which locks are taken. The list of hazards, each at its line and with the
properties that would catch it, is in `PROJECT.json`.

## 2. The modules

| Module | Models | Extends / uses |
|---|---|---|
| `RunKernel` | the tables and every transaction on them, the executors' claims, the orchestrator | |
| `DurableRun` | what the engine promises a task, without queue, workers or leases | instantiated by `RunKernel` |
| `RunKernelRepair` | the same transactions started on disturbed tables | `RunKernel` |
| `WorkerRuntime` | the daemon process between its awaits | `RunKernel` |
| `Replay` | one run and its executors: primitives, branches, signals, reports | |
| `LogFlush` | the log lines of one execution | |
| `Creation` | trigger, batch and retry under keys | |
| `Registry` | registration, the owner of a task, its schedule, cron | |
| `ClaimScan` | which runs a claim looks at, in which namespace, for which build | |
| `TimerScan` | one pass over due timers and orphaned waits | |
| `ClaimGate` | the claim transaction, statement by statement, with its locks | |
| `RowLocks` | the row locks of all kernel transactions, statement by statement | |
| `ClaimConnection` | the pooled connection under `claimRuns` | |
| `ResultDelivery` | waiters, sweeps, kernel polling and the client's loop | |
| `Listener` | the LISTEN connection and its generations | |
| `Exit` | a process from boot to exit code | |
| `Embedded` | runtimes inside a host process | |
| `RateLimit` | token buckets over a clock that may be set back | |
| `RunsPage`, `RunDetail` | the dashboard's list and its page of one run | |
| `SharedReads` | single flights: probes, cached statistics | |
| `Migration` | concurrent boots that migrate | |
| `RunKernelProofs`, `RunKernelLedgerProofs`, `WorkerRuntimeProofs` | theorems about the tables, and about the process on top of them | `RunKernel`, `RunKernelRepair`, `WorkerRuntime` |
| `ReplayProofs`, `ClaimGateProofs` | theorems about the executor and the claim | their module |
| `TransactionProofs` | theorems about transactions side by side | `RowLocks`, `Creation` |
| `DaemonProofs` | theorems about a daemon process | `Migration`, `Exit`, `ResultDelivery`, `Listener` |
| `ServicesProofs` | theorems about the other parts | `Registry`, `Embedded`, `ClaimConnection`, `SharedReads`, `RateLimit`, `RunDetail` |
| `MC*` | constants and symmetry for TLC; `MCServices` and `MCDaemon` put several modules side by side | |

### RunKernel

State: `status`, `attempt`, `recoveries`, `token` are columns of `runs`;
`queueRow` is the row of `queue` (its holder, `Free`, or `NoRow`) and `expired`
the held rows whose `lease_until` has passed; `waits` holds the pending rows of
`waits` (a row that is no longer pending is never read again); `ledger` is
`run_steps`; `job` says, for each execution slot, which run and token the
executor in it holds, whether it has its snapshot, and the positions it knows.
`released` and `suspended` are history variables: they count and decide
nothing.

One action is one transaction: `CreateRun`, `RetryRun`, `CancelRun`, `ClaimTx`,
`Heartbeat`, `ReleaseClaims`, `ReportStep`, `BatchTriggerChild`, `SuspendRun`,
`SuspendDue`, `WaitForChildRun`, `CompleteRun`, `FailRunRetry`,
`FailRunTerminal`, `ReapRequeue`, `ReapExhausted`, `ReapDesynced`,
`ResumeTimer`, `ResumeStaleTimer`, `FailOrphan`, `RetireOrphan`,
`HealStuckWaits`, `PruneRun`. The claim is two actions because the code reads
the ledger after the commit (`ReadLedger`). `EndExecution` is everything that
makes an executor leave its slot without another write, the death of its
process included. `Finish` is the wrap-up shared by all ends, with
`wakeParentIfWaiting`.

What justifies one transaction as one step is checked, not assumed:
`ClaimGate` checks that nothing moves a run between a claim's scan and its
commit (`ClaimIsolated`, part of `ClaimsEnd`), and `RowLocks` that what any
transaction decided on a row is still so at its commit (`DecisionsHold`) and
that a locked queue row freezes its run (`QueueRowFreezesRun`). All three
are also proved.

Abstractions: clocks are nondeterminism (a timer, a back-off and a lease may
fall due at any moment). The reaper takes one row per step, although the code
commits one batch; the rows of a batch are independent but for parents, whom
each wake locks. Operations that find nothing to do (a refused write, a cancel
of an ended run, an idempotent replay) change nothing and are stutters. A run
id is used once. A new process has a new worker id; that a process restarts
under its old id is not modelled. The branches for a stale claim of a worker
that re-polls its own row and for a lease on a missing run are left out: the
foreign key and the claim scan exclude them.

### RunKernelRepair

`DisturbedInit` is every combination of queue, status and wait rows that the
code says it repairs: a leftover queue row, a stale lease, a wait on an ended
or deleted child, a timer on a run that moved on. What it only reports (a
waiting run with no wait) or has no path for is excluded by `Repairable`, with
the list in the comment.

### WorkerRuntime

JavaScript is not interrupted between awaits, so an action is the code between
two of them. A claim is `Poll`, `ClaimCommits`, and one of `Start`,
`HandBackLate`, `ClaimAnswerLost`; a heartbeat is `BeatSend`, `BeatRenew`,
`BeatAnswer`, `BeatApply`; a stop is `StopBegin`, `DrainEnds`, `HandBack`.
`Execute` is every fenced operation of a registered executor (steps, batches, waits for time and for
children, both ends), whatever it has been told: an abort keeps no write away here, and
what it does keep away is the subject of `Replay`.
`Elsewhere` is the rest of the deployment: every transaction of `RunKernel` that a client
(retries and retention included) or any daemon's orchestrator makes, on the same tables. `LostIsLost`, that only an executor without
its claim is aborted as `lease_lost`, stands there unchecked; it does not hold
(section 5).

### Replay and LogFlush

`Replay` looks at what `RunKernel` takes as given: that an executor behaves. One
run; per executor its claim and snapshot, its `mind` (what it believes: told to
stop, the signal it threw, abandoned, the end it reported), the `main` code and the
branches. An execution begins (`Start`), the task's validation of the payload is awaited and lets the
code in or refuses (`Validated`), and it may be told to stop (`Told`: canceled, drained, lease lost) at any moment until it is over:
in the validation, in a body, and while its end is being reported. Each durable primitive (`Step`, `Wait`, `Child`, deterministic values)
takes the next position, is answered from the snapshot or refused because its fingerprint
differs, or runs its body and reports; the report, its fate in the kernel and its answer are
separate steps, so that cancels, reaps and other executors move in between and answers are
lost. The task's code may catch whatever is thrown, end, and leave branches
running behind. A row that a failed step left behind is no row
here, as it is never an answer. The gap between a primitive's check and the start
of its work is one microtask in the code and none here.

`LogFlush` has the buffer with its threshold and cap, the serial chain of flushes with its
one batch in flight, the append in chunks with one transaction each, failed
chunks, the refusal once the run has ended, and the transitions that wait for a flush
first. `flushLogs(true)` with an empty buffer returns although an append is under way; the
lines of that append are stored or counted, but the transition does not wait for them, and
`BufferedLinesLand` says no more than that of the lines in the buffer.

### Creation, Registry

In both, transactions overlap at READ COMMITTED and an action is a statement. `Creation` has
requests with keys in any order, an unfinished insert of the same key that makes
the next wait, the read-back of conflicts by another statement (which may find nothing, after
retention took the row), the retry's lock on its source and its operation key, and callers
who ask again because the answer was lost. `Registry` has one task:
the upsert whose guard sees the conflicting row as it is but the workers as they were
when the statement began, the schedule synced by the owner alone, cron ticks by several
daemons with the schedule's row locked, a pattern that no longer parses, the
operator's patch that read before it writes, silence, the offline mark, deregistration and
retention of workers.

### ClaimScan, TimerScan, ClaimGate, RowLocks, ClaimConnection

`ClaimScan` takes a claim as one step and asks what it may look at: a window at the
head of each namespace's queue, widened where a limit or a pin passes over rows, the
budget the namespaces share and the rotation between them, runs pinned to a
build, builds that join and leave, notes that are lost, and the scan that reports what no build serves.
That scan's counts and its cap of 20 groups are abstracted; a dead worker still looks online until it is stale.

`TimerScan` reads a window of due timers and one of orphaned waits without a lock, then
settles them one transaction at a time; loops skip each other's rows, and a
transaction that fails ends the pass.

`ClaimGate` runs the statements of concurrent claims: the scan with
`FOR UPDATE SKIP LOCKED`, the advisory lock on the concurrency key, the count
(committed rows and the claim's own flips), the flip and the commit or rollback.
PostgreSQL's deadlock detector is an action (`DeadlockVictim`), because two claims may lock
two keys in opposite orders.

`RowLocks` has one program counter per transaction and one operator per
statement that locks. Whether a queue row exists is read off the committed
status, which is what `QueueMatchesStatus` says of `RunKernel`. `ParentOf` names who waits
for a run. A step that waits for a child creates that child itself (`waitForChildRun` takes no
idempotency key), in the transaction that makes its run wait; so a run has one waiter, a
run waits for one child, and no chain of waiting runs closes (`FamilyAssumption`; a child
that a run waited for before has ended, and wakes nobody any more).

`ClaimConnection` follows one connection: statements queue up on it whoever
sends them, and the pool hands it on as soon as it is released. Its runs claim one run per
call, which is what the daemon asks for; with two the property fails (section 5).

### ResultDelivery, Listener, Exit, Embedded, Migration

`ResultDelivery`: per caller, where its call is (`asking`) and which daemon it hops to; per
daemon the waiters (`entry`), the look that a notification begins, the sweep, and
stop and restart. A read of the database and what is done with the row are two
steps. Callers poll over HTTP, wait inside a daemon, or poll through the
kernel alone. `Listener` names a connection by its generation; 'error' and 'end' come in
any order, together or alone. A
connection that is lost while LISTEN is awaited says 'error' with nobody to hear it, which is an
uncaught exception (`LostUnhandled`); until the exit that begins then has ended (`ProcessEnds`, the
subject of `Exit`) the listener goes on.
`Exit` is `main()` and the exits side by side: boot and hand-off are
stages that interleave; marks of the waiters and of the worker happen in one tick;
a boot that fails has no backstop. `BootHandsBack`, the header comment of
`shutdown.ts` taken literally, stands there unchecked: a registration whose answer comes after the
hand-off leaves an online row until it is stale. `Embedded` holds the two process-wide registers, what each
runtime found in them, and `chosen`, what the host last chose; the registry may be fresh or
filled by another copy of the SDK. `Migration` has the session's lock, the journal, a lost
answer to the commit and an unlock whose failure is swallowed. The comment
there says that releasing the client ends the session anyway; `client.release()`
gives a live session back to the pool, so a failed unlock keeps the lock and others wait
until their `statement_timeout` (for ever, where it is off).

### RateLimit, SharedReads, RunsPage, RunDetail

`RateLimit` counts tokens and, beside them, a meter of real time that knows nothing of the
buckets. `SharedReads` has flights that are answered at their deadline and settle
later, on a pool of two, and the loads behind the cached statistics.
`RunsPage` and `RunDetail` follow a request from the effect that sends it, through the
server's answer, to the state it may still write, with renders, filters, keys, pauses and
hidden tabs in between. In `RunsPage` a request carries the generation that sends it, with its
filter and its key; the answer is that filter's, and the head and the older pages record whom they
answer, so that `ListIsTrue` compares each with what is on screen.

### Side by side

`MCServices` and `MCDaemon` put modules next to each other that share no state. The
variable `part`, chosen initially, says which of them moves; the others keep their initial state, so
that the states of the run are those of the separate specifications and not their product. In
`MCDaemon` each part owes only its own fairness, and a part that stands still owes nothing.

### Operators with an odd name

Operators such as `NextTokenKept`, `WokenByAll`, `ReleaseClaimsCharged`,
`KeptLocks`, `PutBackAnyway`, `GenerationOfKey` or `OneWindow` are not used by any action. Each stands
before the operator it varies and is that operator with a plausible bug; the
mutation checks put it in the other's place and expect the property to fail.

## 3. The runs

| Run | Bounds | Shows |
|---|---|---|
| `fencing` | 1 run, 2 workers, 3 slots (two of one worker), 2 steps, 1 recovery, 1 hand-back, 1 retry | `TypeOK`, `SingleWriter`, `ReplaySeesLedger`, `EveryClaimAccounted` with zombies of the same and of another worker |
| `tables` | 3 runs, 1 worker, 2 slots, 1 step, no recoveries, symmetric runs | `QueueMatchesStatus`, `WaitGraph`, `ChildAnswersAreTrue`, `TerminalFrozen`, and `ImplementsDurableRun` |
| `liveness` | 2 runs, 2 slots, 1 step, 1 recovery | `RunsTerminate` |
| `repair` | 2 runs, 1 slot, 1 recovery, all repairable tables | `NeverResurrected`, `RepairsStick` |
| `stop` | 2 runs, 1 worker with 2 slots, 3 claims in all (2 where a call has failed), 1 suspension, 1 step, 1 attempt, no recoveries, 1 hand-back per run, symmetric runs and slots | `StoppedHoldsNothing`, which includes that a stop is charged to nobody |
| `gate` | 4 runs of 2 tasks over 2 keys, limit 1 each or withdrawn, 2 claims of 2 runs | `LimitHeld`; `ClaimsEnd`, which includes `ClaimIsolated` |
| `replay` | 1 run, 2 executors, 2 branches, 2 positions, a step and a wait, the wait perhaps already recorded by an older release without a fingerprint, 2 attempts, 1 execution told to stop (at any moment; beside another execution with one branch each and 2 positions between them) | `NothingDoneTwice`, `NothingAfterSignal`, `AbortIsNotAFailure` |
| `services` | see below | thirteen safety properties of nine modules |
| `daemon` | see below | what a daemon owes in the end, and three invariants, of seven modules |
| `inflight`, `gate_default`, `takeover` | small | findings, section 5 |

| Part of `services` | Bounds | Properties |
|---|---|---|
| `Registry` | 3 workers of 3 builds (one without cron), 2 daemons, 3 registrations, due twice, 1 patch | `OwnersSchedule`, `OneFirePerDueTime` |
| `Creation` | 2 callers, 3 requests: batches of the keys 1,2 and 2,1,2, a retry with and without an operation key, retention of 2 runs | `SameKeySameRun`, `OnlyUnsortedBatchesDeadlock` |
| `RowLocks` | a parent and its child, 3 transactions of any of 8 operations | `DecisionsHold`, `QueueRowFreezesRun`, `OnlyLateCancelDeadlocks` |
| `Embedded` | 3 runtimes, one with `setDefault: false`, the registry fresh or filled | `HostUndisturbed` |
| `RateLimit` | 2 callers, burst 2, 2 entries, time 3, one set-back of the clock | `RateHeld` |
| `RunsPage` | 3 runs, pages of 1, 2 filters (one lets two of the runs through), 3 generations, 1 change of key, 2 pauses, 3 changes in all | `ListIsTrue` |
| `RunDetail` | 4 lines, pages of 2, 2 views | `EndedRunShowsItsLogs` |
| `ClaimConnection` | 2 connections, 1 claim, 2 other callers | `LedgerReadOutsideTx` |
| `SharedReads` | 2 probes, a pool of 2, 3 flights, time 4 with a life of 2 | `ReadsAreShared` |

| Part of `daemon` | Bounds | Properties |
|---|---|---|
| `LogFlush` | 4 lines, threshold 2, buffer 3, 1 queued batch, chunks of 2 | `BufferedLinesLand` |
| `ResultDelivery` | 2 callers of one daemon (one inside it), or 1 caller of the kernel's polling, 2 faults | `OutcomeIsTrue`, `EveryCallEnds` |
| `Listener` | 4 generations, the process perhaps lost with a connection | `ComesBack` |
| `Exit` | 3 signals or crashes | `CleanExit`, `AlwaysLeaves` |
| `ClaimScan` | 4 runs (two under a limit, one of them urgent), 2 namespaces, 2 builds, 1 deploy, a window of 2 | `EveryRunServedOrReported` |
| `TimerScan` | 2 timers, 2 orphans, windows of 1, 2 loops, 2 failures | `DueWaitsSettle` |
| `Migration` | an old build and two new ones, 4 boots | `MigratedOnce` |

Why the bounds are enough for the interesting cases. Fencing needs a zombie of
the worker that holds the run now and one of another: three slots on two
workers; two claims beyond the first are possible by a recovery, a retry, a
hand-back and a suspend each, so tokens reach at least four. Waits need a
parent, a child and a run that is either's parent, child or neither: three
runs. A stop needs the two slots in different places, a parent parked by one and woken by
the other, and a claim under way beside a heartbeat: two runs and three claims; what recoveries and
retries add is a claim again, and the theorem has them. The claim gate needs two claims that take two keys in opposite orders.
A circle of row locks through one parent edge needs a claim, the end of the child and
a cancel: three transactions. The operation `retry` is left out of that run, since it takes the same locks
as `suspend` and differs in the status it writes; the theorems have all nine. Replay needs a second executor after the first, two
positions so that one is recorded and the next is not, and a second branch that
goes on after the first has ended the execution. A takeover needs an owner, a build that
is refused and one that takes over; two batches deadlock over two keys. A list needs three generations for a filter to
change and change back. Three
runtimes let a second put back what a third has replaced. The eviction of the rate limiter
needs more callers than entries, counting the shared one. A window of one or two is passed over
by two waits or two runs at their limit.

Bounds that limit the model and not the code: everything named `Max...`, and the constraints
`ThreeClaims`, `FewChanges`, `FewEnded` and `StoppedBesideAnother` of the `MC` modules, beyond which nothing is explored. The one with
an effect on what a property says is `MaxGeneration`: after the last one
the listener's timer has nothing to do, which `ComesBack` names.

Symmetry is used in `tables` (runs), `stop` (runs, slots), `replay` (executors, branches) and `takeover`
(daemons), which check invariants and action properties only. Deadlock checking
is off where every run may have ended, every caller may be served or every bound be
reached, and nothing is left to do.

### Fairness

`RunKernel`: the poll loops of claim and orchestrator
come round for ever (`setTimeout` chains that reschedule themselves also after
an error), so claims, reaps, resumes and heals are weakly fair; task code ends
or is given up, so an executor's slot is weakly fair as a whole, which asks
only that *something* happens to it (leaving the slot is enough); a lease that
no heartbeat covers runs out. Clients, heartbeats and hand-backs owe nothing. That an
executor leaves its slot abstracts code that never yields: a hung event loop
sends no heartbeat either.

`ClaimGate`: a claim goes on with its statements, and strong fairness of `TakeKey`:
PostgreSQL queues waiters of an advisory lock first come, first served. A claim that keeps being
chosen as a deadlock's victim has still ended.

`ResultDelivery`: queries return, timers fire, clients go on; notifications need not
come. `Listener`: callbacks and the reconnect timer come; nothing need break, and a process that crashes ends, as
`AlwaysLeaves` of `Exit` says.
`Exit`: continuations run and backstops fire; the database may never answer again.
`ClaimScan`: loops and sleeps go on; no run need ever end, so a run at its limit may
block for ever what is behind it, which is what the property is about. `TimerScan`: the interval
fires and a pass that has begun goes on; nothing asks that a transaction succeed, but only
`MaxFailures` of them fail: a wait that fails at *every* pass would keep those behind
it waiting, since the failure ends the pass. `Migration` assumes nothing: a swallowed
unlock may keep every later boot out, and only safety is claimed.

Liveness properties have the form `[]<>P`. That is as much as "whatever was asked leads to P",
since none of the states outside P is left otherwise than through P.

`ImplementsDurableRun` maps a live status to "live" and a completed step row to
a recorded entry, and checks that every transaction is a step of `DurableRun`
or a stutter: a recorded step never changes, an end is final, and the answer of
a child reaches its parent in the very step in which the child ends.

## 4. The proofs

Every invariant that a passing run checks is proved, and with them the action
properties of `RunKernel`, `RunKernelRepair`, `RowLocks`, `Replay` and `Registry` and the refinement,
for every set of runs, workers, slots, positions, transactions, callers, builds, daemons and
runtimes, and for every limit, that the named assumptions admit. What those assume:

- Markers (`Free`, `NoRow`, `Nobody`, `NoRun`, `Keyless`, `Nowhere`, ...) are no workers, runs, transactions or callers,
  limits are naturals, and each slot has a worker.
- `FamilyAssumption` of `RowLocks`: section 2.
- `CreationAssumption`: keys are comparable, a key of a trigger is no operation key, a run's name is
  no marker, and the callers are finitely many.
- `SharedReadsAssumption`: no fewer clients in the pool than kinds of probe, as in `db-probe.ts`.
- `LedgerIsOutside` is for `Claimed = 1`, one run per claim, as the daemon's loops ask.
  For two it is false (section 5).
- `LimitIsHeld` is for `EveryRunKeyed`: each run is triggered with a key, or its task has a limit from
  before the first run and never withdraws it. Otherwise it is false: that is the run
  `gate_default`. `KeyedLimitIsHeld` needs no such condition; it speaks of the runs that carry a key.

| Theorem | Module | Says |
|---|---|---|
| `TypeCorrect` | `RunKernelProofs` | `Spec => []TypeOK`; with it the schema's CHECK that recoveries stay within `max_recoveries` |
| `QueueAgrees` | `RunKernelProofs` | `Spec => []QueueMatchesStatus` |
| `AtMostOneWriter` | `RunKernelProofs` | `Spec => []SingleWriter` |
| `ClaimsAccounted` | `RunKernelProofs` | `Spec => []EveryClaimAccounted` |
| `WaitsAgree` | `RunKernelLedgerProofs` | `Spec => []WaitGraph` |
| `ReplayIsCurrent` | `RunKernelLedgerProofs` | `Spec => []ReplaySeesLedger` |
| `EndsAreFinal` | `RunKernelLedgerProofs` | `Spec => TerminalFrozen` |
| `AnswersAgree` | `RunKernelLedgerProofs` | `Spec => []ChildAnswersAreTrue` |
| `EndedStaysEnded` | `RunKernelLedgerProofs` | `RepairSpec => NeverResurrected` |
| `KernelIsDurable` | `RunKernelLedgerProofs` | `Spec => ImplementsDurableRun` |
| `RuntimeIsFenced` | `WorkerRuntimeProofs` | `RuntimeSpec => [](TypeOK /\ QueueMatchesStatus /\ WaitGraph /\ SingleWriter /\ ReplaySeesLedger /\ EveryClaimAccounted)` |
| `RuntimeIsDurable` | `WorkerRuntimeProofs` | `RuntimeSpec => ImplementsDurableRun` |
| `StopLeavesNothing` | `WorkerRuntimeProofs` | `RuntimeSpec => []StoppedHoldsNothing` |
| `LocksOfOpenTransactions` | `TransactionProofs` | `Spec => []TypeOK` of `RowLocks` |
| `RunRowSerializes` | `TransactionProofs` | `Spec => []DecisionsHold` |
| `QueueRowIsExclusive` | `TransactionProofs` | `Spec => QueueRowFreezesRun` |
| `LockOrderHolds` | `TransactionProofs` | `Spec => []OnlyLateCancelDeadlocks` |
| `OneRunPerKey` | `TransactionProofs` | `CreSpec => []SameKeySameRun` |
| `SortedNeverDeadlock` | `TransactionProofs` | `CreSpec => []OnlyUnsortedBatchesDeadlock` |
| `DoesNothingTwice` | `ReplayProofs` | `ReplaySpec => []NothingDoneTwice` |
| `SilentAfterSignal` | `ReplayProofs` | `ReplaySpec => NothingAfterSignal` |
| `StoppedBlamesNobody` | `ReplayProofs` | `ReplaySpec => AbortIsNotAFailure` |
| `ClaimsAreIsolated` | `ClaimGateProofs` | `Spec => []ClaimIsolated` |
| `KeyedLimitIsHeld` | `ClaimGateProofs` | `Spec => []KeyedLimitHeld` |
| `LimitIsHeld` | `ClaimGateProofs` | `EveryRunKeyed` gives `Spec => []LimitHeld` |
| `MigratesOnce` | `DaemonProofs` | `MigSpec => []MigratedOnce` |
| `ExitsClean` | `DaemonProofs` | `ExitSpec => []CleanExit` |
| `OutcomesAreTrue` | `DaemonProofs` | `DelSpec => []OutcomeIsTrue` |
| `NoneIsOrphaned` | `DaemonProofs` | `LsnSpec => []NoOrphan`, the invariant inside `ComesBack` |
| `ScheduleIsOwners` | `ServicesProofs` | `RegSpec => []OwnersSchedule` |
| `FiresOnce` | `ServicesProofs` | `RegSpec => OneFirePerDueTime` |
| `HostFindsItsOwn` | `ServicesProofs` | `EmbSpec => []HostUndisturbed` |
| `LedgerIsOutside` | `ServicesProofs` | `Claimed = 1` gives `ConSpec => []LedgerReadOutsideTx` |
| `SharedReadsHold` | `ServicesProofs` | `ReadSpec => []ReadsAreShared` |
| `RateIsHeld` | `ServicesProofs` | `RateSpec => []RateHeld` |
| `EndedRunsAreShown` | `ServicesProofs` | `DetailSpec => []EndedRunShowsItsLogs` |

### The tables

`TypeOK` and `QueueMatchesStatus` are inductive together.

`SingleWriter` is not inductive: it says nothing of an executor whose token is
older, or of two that hold the same token of a run that is queued again. The
strengthening `Fenced` says that no executor holds a token above its run's and
that no two executors hold the same token of the same run; a claim raises the
token above every one that is held. Two executors whose writes are accepted both
hold the run's present token, so they are one.

`EveryClaimAccounted` is proved run by run (`Accounted`): a step changes the
balance of at most the runs it names, on both sides alike, and it needs
`QueueMatchesStatus` to know that a hand-back's run is running.

`WaitGraph` needs `WaitShape` beside it: a timer's wait names no child and no
run waits for itself. Otherwise the end of a run could leave the one wait of a
waiting run behind that names it. With both, the repairs of waits and the
stale branch of a timer are never enabled on the tables the transactions make
(`NothingToRepair`); they are for the tables of `RunKernelRepair`.

`ReplaySeesLedger` follows from `Fenced` and the wait graph. A ledger is written
by the executor whose writes are accepted, which updates its own snapshot in the
same step, or by the wake of its run, which waits and so has no such executor.
`ChildAnswersAreTrue` rests on the same graph: a wait names a live child, a
live child is in no ledger, and its end fills the one row of the one parent
that waits for it. For `TerminalFrozen`, no guard admits a run that has ended;
what needs the invariants is the wake at the end of a child and the repairs.

`KernelIsDurable` is a step simulation: under the invariants each transaction is
a `Create`, `Record`, `End` or `Forget` of `DurableRun`, or changes neither phase
nor journal. The end of a child that wakes its parent is one `End` step that
records the answer, so the two are one transaction in the abstract as well.

`NeverResurrected` starts from disturbed tables, where `QueueMatchesStatus` and
`WaitGraph` are false; its proof uses only `TypeOK` and the guards, which is the
point: the guards alone keep an ended run ended.

### The process on the tables

`RuntimeNext` makes two moves that no step of `RunKernel` makes: a late claim is handed back and
forgotten in one step, and a process that dies forgets all its executors at once. `KernelInv`
gathers the invariants of the tables; the proofs show that both moves keep it
(`ForgetsKeeps`, `HandBackLateKeeps`) and are steps or stutters of `DurableRun`. All others are steps of
`RunKernel`, among them every fenced operation and every client and orchestrator transaction, so the children, the
fan-outs, the repairs and the retention of `DurableRun` are there under the process too. What is
proved under the process is the three theorems of the table: the state invariants, the refinement and the
stop. `ChildAnswersAreTrue` and the action property `TerminalFrozen` are proved for `RunKernel` alone (`TerminalFrozen`
speaks of counters and tokens, of which `DurableRun` knows nothing). `StoppedHoldsNothing` is not inductive, as a claim may commit under the
name of a worker that has stopped. `StopKept` says what is: a row under the name of a stopped
worker whose database calls did not fail belongs to a claim whose answer is under
way, and the loop that gets it hands it back.

### Transactions side by side

`LockInv` is the invariant of `RowLocks`. Its core is `Covered`: whoever has
decided about a run holds its runs row, and also its queue row, unless the run
waits and has none, or the transaction's next statement takes it. That is
what `lockQueueRow`'s "an absent row locks nothing" comes down to. `Prepared`
says which queue rows are held before the decision (fenced operations that found
their row, claims, reaps and releases), `Held` that a lock belongs to an open
transaction and a locked queue row exists. At a commit the third case of
`Covered` is over, so a transaction that moves a run holds its queue row, or
moves a waiting run, of which nobody does.

`OrderInv` adds who may hold what where it waits. A transaction that waits for a runs row
holds no other, unless it goes on from a locked child to the parent, or is a scan that has the
queue row of each run it locked (`Early`, `Stacked`). So in a circle whoever is waited for at a
runs row is itself on the way to a parent (a scan cannot be, since it holds the queue row of
the run it is waiting for and that run then has no locked child), and the blocker of that
one too, at the parent's parent. Parents for ever there are not: `FamilyAssumption`. What
remains waits for queue rows alone, and then every blocker has a queue row before its first runs row
without being a scan, which only a hand-back does; a circle of those needs two that share rows, and two
workers hold different claims. The late cancel is the one that waits at a queue
row with its runs row in hand, and the property names it.

`CreInv`, of `Creation`, has three parts: a pending row belongs to a transaction that took its items in order, and has no
committed row beside it; a retry holds its source from its decision to its commit (`Calling`,
`Rows`), so two retries of one operation key never meet; and what a caller
was told is still in the index, unless retention took it (`Told`). For the deadlocks: a
transaction that waits has all keys below the one it waits for, and whom it waits for has that
key. Round a circle of sorted batches the keys would rise for ever.

### Executor and claim

`ReplayInv`: of the executor whose claim is accepted, the snapshot *is* the ledger from its
position on, and where one of its branches works the ledger has nothing (`Current`); no two of its branches
work at one position (`Placed`); an executor that may still write has ended nothing (`Unended`);
and each thing from which an executor concludes that it has ended its run is matched by
the end the kernel accepted (`EndIsTrue`). The action properties need no more than the
shapes: that an execution told to stop may still report two verdicts on data (`DataRefused`: the validation
refused the payload, the output could not be recorded) is read off where it stands when the report begins. The proof describes once what a step may do to a branch and to the main code
(`StepsMay`), and reads both off that.

`GateInv`: that the runs in use stay within "the limit" is not inductive, because runs claimed under
different limits end in any order, and the one with the largest may end first. What is kept is
that for every n at most n runs of a key were granted n or less (`Stepped`), where runs flipped and not yet
committed count. A claim that counts or flips holds the key's advisory lock, and those of all it
took under a limit until its commit (`LockedBy`), so what it counted is still so when it
flips (`RoomOf`).

### The daemon process

`MigInv`: who reads the journal or applies holds the lock; what one that applies has read is what is
applied; who goes on to unlock without an error has all of its own. A swallowed unlock needs no
case: it keeps the lock, and others out.

`ExitInv`: the hand-off ends the pieces in their order (`InTurn`), each stage of the boot has assembled its
pieces (`Assembled`), and a hand-off that found the daemon up and met no fault has ended what comes
before its stage (`TakenApart`). Exit code 0 then means that it is done.

`DelInv`: every copy of an outcome, in the row, a waiter, a look, a sweep and an answer, is either no
end or an end that happened (`EverywhereTrue`), and a daemon that stopped has none of the
waiters (part of `OutcomeIsTrue` itself).

`LsnInv`: one attempt to connect is under way at a time, the newest, and it is the client or stop() has
closed it, or has failed; the reconnect timer runs only when the newest attempt is over and its connection is
not open.

### The other parts

`RegInv`, of `Registry`, ties the row of the schedule to who may write it: a registration that
rewrites it owns the task and holds the row (`Owning`), a tick holds it and what it found
due stays due until it commits (`Ticking`), and a patch under way has a schedule to patch
(`Present`). `Counted` then says that the fires, and one more while a fire is due, are no
more than the times the schedule fell due.

`EmbInv`, of `Embedded`, says of the one runtime in the slot that each of the two
registers is either what the host chose, or the runtime's own with what the host chose
put by (`ResolverKept`, `DefaultKept`). `HostUndisturbed` alone says nothing
of a runtime that starts or cleans up.

`ConInv`, of `ClaimConnection`: a connection has at most two statements queued, a ledger read only
at the head and outside any transaction, and the other one its user's, who waits for it. With two
reads per claim the second has no such place.

`ReadInv`, of `SharedReads`: one flight of a kind at a time, no client on loan once its deadline has answered,
and what is kept is the newest that was told while no load under way read anything older
(`NothingOlder`).

`RateInv`, of `RateLimit`, relates the bucket to the meter, which knows nothing of it: meter and tokens together
are at most the burst, and the meter drains no slower than the bucket fills
(`Unspent`), while the clock keeps real time they are equal (`InStep`). The second half of the property,
that nobody is refused who has a token, needs the equality; the first survives set-backs.

`DetailInv`, of `RunDetail`: an answer that says the run has ended is the last page
(`Latest`), and between that page and the cursor of a paging that began after it nothing is
missing (`Covers`), which the cursors of the state, of the last render and of the request under way
share.

### Left to TLC

Everything that is liveness under fairness (`RunsTerminate`, `RepairsStick`, `ClaimsEnd` but for its invariant, and the
properties of `MCDaemon` that say that something comes), which is out of the prover's reach, as
are ENABLED and what recursively defined functions compute. `ListIsTrue` of `RunsPage` is an action property over
sorted sequences (`SetToSortSeq`, defined by CHOOSE), and is not proved yet. `BufferedLinesLand` of `LogFlush` is a safety property too, but
one about what packing and flattening sequences of lines keep (`FlattenSeq` is recursive), which
stays with TLC. `ClaimScan` and `TimerScan` have only liveness properties.

## 5. What the runs found

Each of the first three is a run that expects a violation, with the line it contradicts in
`PROJECT.json`.

1. `inflight` (`worker/runtime.ts:446`). `inFlight` is keyed by run id, and an
   executor that settles deletes the key without looking whose entry it is. A
   worker with two slots whose lease lapsed can claim its own run again; the old
   executor then removes the new one's entry, whose lease is no longer renewed
   and whom a cancel does not reach.
2. `gate_default` (`kernel/queue.ts:500`). The gate locks and counts under
   `concurrency_key ?? task_id`, but the count compares the column, which is NULL in
   runs created before their task declared a limit. Such runs are not counted
   and exceed the limit.
3. `takeover` (`kernel/workers.ts:235`). The guard of the task's upsert re-reads the
   row it had to wait for, but its subquery on `workers` sees the statement's
   snapshot. Two builds that register at once: the second takes the task over
   although the first is online. `OwnersSchedule` holds all the same.

Not given a run of their own:

- The heartbeat's answer (`worker/runtime.ts:252`) is applied to whatever executor the map
  names when it arrives: one that claimed the run after the heartbeat's UPDATE is aborted as
  `lease_lost` although it holds the claim. `LostIsLost` in `WorkerRuntime` states the opposite.
- `return readLedger(...)` (`kernel/queue.ts:788`) is not awaited, so the connection is
  released before the reads are done. With one run per claim the only read is already
  queued at the release; with `Claimed = 2` a later read runs in somebody else's transaction.
- A cancel of a waiting run (`kernel/runs-terminal.ts:353`) finds
  no queue row to lock, locks the runs row, and waits for the queue row that a
  wake has inserted and a claim has locked meanwhile. PostgreSQL aborts one of
  them; nothing is corrupted, but the lock order does not exclude the circle as
  its comment says. `OnlyLateCancelDeadlocks` checks that this is the only kind.
- The heal's comment (`kernel/orchestrator.ts:506`) says that it only touches parents
  that are still waiting; `wakeParentIfWaiting` completes the wait and fills the step row
  before it looks at the parent's status, and only the flip is guarded. `NeverResurrected`
  checks what matters.
- An execution told to stop still fails its run when the task's validation throws at the payload
  (`worker/executor.ts:285`) or its output cannot be recorded (`:331`): `execute` does not ask
  `abandonIfAborted` there, as it does for what `run()` throws. Both are verdicts on data that
  another execution would reach as well, and fail the run without a retry; but a validation that threw
  *because* of the shutdown would end the run all the same. `AbortIsNotAFailure` names the two and excludes
  every other.
- A connection lost while LISTEN is awaited has no 'error' handler yet (`worker/notify.ts:243` comes after),
  so the loss ends the process, where the comment at `:185` says that "this must never take the daemon down".
  `Listener` has it as `LostUnhandled`.
- A batch of children whose step row was committed as failed (`kernel/runs-steps.ts:650`: "the children must NOT be
  re-created") is created again if the process dies between that commit and `failRun`, because a failed
  row is no answer to the replay. `BatchTriggerChild` of `RunKernel` commits either way, and every property
  of the tables holds.
- `useRun` (`web/api/hooks.ts`): "all logs loaded" is said of a paging that
  began after the run had ended; of an earlier one it is not true, since lines that slide off the polled head
  are never loaded. `EndedRunShowsItsLogs` has the condition.
- With a status filter the dashboard's list need not be "ordered and duplicate-free"
  (`web/api/mergeRuns.ts`), as runs leave the filter between two pages; `RunsPage` keeps to filters
  a run does not leave.
- The cache of `/tasks` (`worker/routes/dashboard.ts`, "without the dashboard ever seeing stats
  older than the TTL"): the time to live runs from the end of the load, so the load's own
  duration comes on top.
- `flushLogs(true)` with an empty buffer, the migration's unlock, and `shutdown.ts`'s header:
  section 2.

## 6. Not modelled, and why

- Payloads and their sizes, back-off arithmetic, durations, error text, serialisation: pure
  functions that a unit test reaches, or data that no property tells apart.
- HTTP parsing, middleware, audit lines, static files, the SDK's typed wrappers, CLI, loader, configuration,
  counters: one call in, one call out, no protocol.
- The dashboard's connection state and key prompt, its views and formatting.
- Locks of `waits` rows (always behind their run's row), of prune and of cron in `RowLocks`;
  prune of batches of runs and of workers beyond the rows that other modules read.
- The report of suspended runs without a wait, which repairs nothing.
- The namespaces of `Registry` and of the kernel's transactions, where they are one more
  column of every key; `ClaimScan` has the two places where they share a budget.
- Restart of a process under its old worker id.
- Examples, end-to-end scripts and the test support: read as statements of what the system
  promises.

## 7. The plan

Done: the tables and their promise (`RunKernel`, `DurableRun`, `RunKernelRepair`), the
process around them (`WorkerRuntime`, `Exit`, `Embedded`), what makes one transaction one step
(`ClaimGate`, `RowLocks`, `ClaimConnection`), the executor (`Replay`, `LogFlush`), how runs come to be and
become due (`Creation`, `Registry`, `ClaimScan`, `TimerScan`), how their ends are learnt
(`ResultDelivery`, `Listener`), the shared reads, the dashboard, the rate limiter and the migration.

Left, in this order:

1. Proofs: `ListIsTrue` without its sorting; invariants of `ClaimScan` and `TimerScan` on which their
   liveness rests (no run held twice, no wait settled twice); that `ClaimTx` of `RunKernel` is what a committed claim of
   `ClaimGate` does to a run.
2. `Replay` over `RunKernel`: the executor as a refinement of the slots there, so
   that `ReplaySeesLedger` and `NothingDoneTwice` become one statement.
3. The batch of children inside an executor, beyond its one commit, and with it the second fan-out of
   section 5 as a run of its own.
