----------------------------- MODULE RunKernel -----------------------------
(***************************************************************************)
(* The durable-run engine of packages/kernel: the rows of one namespace in *)
(* Postgres (runs, queue, waits, run_steps), the transactions that move    *)
(* them, and the executors that hold claims.                               *)
(*                                                                         *)
(* Every transaction that touches a run takes its queue row and its runs   *)
(* row FOR UPDATE before it decides anything (lock order 1 -> 2 -> 3 in    *)
(* runs-internal.ts), so one transaction is one atomic action here.  The   *)
(* claim is the exception the code makes itself: the ledger is read AFTER  *)
(* the claim transaction commits, so ClaimTx and ReadLedger are two steps. *)
(*                                                                         *)
(* Clocks are abstracted: a timer wait, a backoff and a lease may fall due *)
(* at any moment.  Payloads, outputs, priorities and namespaces are left   *)
(* out; a step row keeps its status and, for a child run, the answer.      *)
(***************************************************************************)
EXTENDS Naturals, FiniteSets

CONSTANTS
    Run,            \* run ids; a run id is never used twice
    Worker,         \* worker ids (queue.locked_by)
    Slot,           \* execution slots of the workers
    WorkerOf,       \* the worker a slot belongs to
    Seq,            \* step positions of a run's ledger
    RetryLimits,    \* the effective maxAttempts a failRun call may carry
    MaxRecoveries,  \* runs.max_recoveries
    MaxReleases,    \* bound: graceful hand-backs explored per run
    Free,           \* queue.locked_by IS NULL
    NoRow,          \* the run has no queue row
    NoRun           \* NULL in a column that names a run

ASSUME KernelAssumption ==
    /\ WorkerOf \in [Slot -> Worker]
    /\ RetryLimits \subseteq Nat
    /\ MaxRecoveries \in Nat
    /\ MaxReleases \in Nat
    /\ Free # NoRow
    /\ Free \notin Worker
    /\ NoRow \notin Worker
    /\ NoRun \notin Run

VARIABLES
    status,     \* runs.status; "absent" before creation, "pruned" once deleted
    attempt,    \* runs.attempt: 1 + retries after the task's own failures
    recoveries, \* runs.recoveries: claims taken back by the reaper
    token,      \* runs.fencing_token
    queueRow,   \* the run's queue row: its holder, Free, or NoRow
    expired,    \* runs whose held queue row has lease_until <= now()
    waits,      \* the waits rows with status 'pending'
    ledger,     \* run_steps: one row per (run, seq)
    job,        \* per slot, the executor instance that occupies it
    released,   \* history: claims handed back by releaseClaims
    suspended   \* history: claims given up by a suspend

kernelVars == <<status, attempt, recoveries, token, queueRow, expired, waits, ledger>>
history    == <<released, suspended>>
vars       == <<status, attempt, recoveries, token, queueRow, expired, waits,
                ledger, job, released, suspended>>

Terminal == {"completed", "failed", "canceled"}
Live     == {"queued", "running", "waiting"}
Status   == {"absent", "pruned"} \cup Live \cup Terminal

Wait    == [run : Run, seq : Seq, kind : {"timer", "run"}, child : Run \cup {NoRun}]
StepRow == [st : {"none", "failed", "completed"}, child : Run \cup {NoRun}, ok : BOOLEAN]
Job     == [run : Run \cup {NoRun}, tok : Nat, loaded : BOOLEAN, view : SUBSET Seq]

Idle          == [run |-> NoRun, tok |-> 0, loaded |-> FALSE, view |-> {}]
StepOf(st)    == [st |-> st, child |-> NoRun, ok |-> TRUE]
AnswerOf(c, ok) == [st |-> "completed", child |-> c, ok |-> ok]

----------------------------------------------------------------------------
\* Helpers over the tables

\* The worker-side fencing check, assertOwnedRunning: the run is running, the
\* queue row is locked by this worker, the token is this claim's.  The lease
\* is NOT part of it.
HoldsRow(s) ==
    LET r == job[s].run IN
    /\ job[s].loaded
    /\ status[r] = "running"
    /\ queueRow[r] = WorkerOf[s]
Accepted(s) == HoldsRow(s) /\ token[job[s].run] = job[s].tok

CompletedSeqs(r) == {q \in Seq : ledger[r][q].st = "completed"}

\* upsertStep: INSERT ... ON CONFLICT DO UPDATE ... WHERE status <> 'completed'.
Upsert(old, row) == IF old.st = "completed" THEN old ELSE row

\* The pending run-waits on child c: the only evidence that somebody waits.
WaitersOf(c) == {w \in waits : w.kind = "run" /\ w.child = c}
OwnWaits(r)  == {w \in waits : w.run = r}

\* wakeParentIfWaiting flips a parent only if it is still 'waiting'.
WokenByAll(c) == {w.run : w \in WaitersOf(c)}
WokenBy(c)    == {p \in Run : status[p] = "waiting" /\ \E w \in WaitersOf(c) : w.run = p}

LedgerAfterWake(c, ok) ==
    [p \in Run |-> [q \in Seq |->
        IF \E w \in WaitersOf(c) : w.run = p /\ w.seq = q
        THEN Upsert(ledger[p][q], AnswerOf(c, ok))
        ELSE ledger[p][q]]]

\* The terminal wrap-up shared by completeRun, terminalFail and cancelRun:
\* flip the run, drop its queue row, resolve every parent waiting on it and
\* put the parents that are still waiting back in the queue.  Only the two
\* failing ends also cancel the run's own pending waits.
RetiredNone(r, final) == {}
Retired(r, final) == IF final = "completed" THEN {} ELSE OwnWaits(r)
AnswersUnlessFailed(final) == final # "failed"
AnswersOk(final) == final = "completed"
Finish(r, final) ==
    /\ status' = [p \in Run |-> IF p = r THEN final
                                ELSE IF p \in WokenBy(r) THEN "queued" ELSE status[p]]
    /\ queueRow' = [p \in Run |-> IF p = r THEN NoRow
                                  ELSE IF p \in WokenBy(r) THEN Free ELSE queueRow[p]]
    /\ expired' = expired \ ({r} \cup WokenBy(r))
    /\ ledger' = LedgerAfterWake(r, AnswersOk(final))
    /\ waits' = waits \ (WaitersOf(r) \cup Retired(r, final))

\* Give the claim back and leave the run claimable.
UnlockKeepingOwner(r) ==
    /\ status' = [status EXCEPT ![r] = "queued"]
    /\ UNCHANGED <<queueRow, expired>>
Unlock(r) ==
    /\ status' = [status EXCEPT ![r] = "queued"]
    /\ queueRow' = [queueRow EXCEPT ![r] = Free]
    /\ expired' = expired \ {r}

----------------------------------------------------------------------------
\* Clients: trigger, retry, cancel

Init ==
    /\ status = [r \in Run |-> "absent"]
    /\ attempt = [r \in Run |-> 1]
    /\ recoveries = [r \in Run |-> 0]
    /\ token = [r \in Run |-> 0]
    /\ queueRow = [r \in Run |-> NoRow]
    /\ expired = {}
    /\ waits = {}
    /\ ledger = [r \in Run |-> [q \in Seq |-> StepOf("none")]]
    /\ job = [s \in Slot |-> Idle]
    /\ released = [r \in Run |-> 0]
    /\ suspended = [r \in Run |-> 0]

\* createRunIn: the runs row at 'queued' and its queue row, in one transaction.
Created(kids) ==
    /\ status' = [p \in Run |-> IF p \in kids THEN "queued" ELSE status[p]]
    /\ queueRow' = [p \in Run |-> IF p \in kids THEN Free ELSE queueRow[p]]

CreateRun(r) ==
    /\ status[r] = "absent"
    /\ Created({r})
    /\ UNCHANGED <<attempt, recoveries, token, expired, waits, ledger, job, history>>

\* retryRun: a failed or canceled source begets a new run; the source is left.
RetryRun(src, r) ==
    /\ status[src] \in {"failed", "canceled"}
    /\ CreateRun(r)

\* cancelRun: a terminal run is a no-op, a missing one an error.
Existing(r) == status[r] \notin {"absent", "pruned"}
Cancelable(r) == status[r] \in Live

CancelRun(r) ==
    /\ Cancelable(r)
    /\ Finish(r, "canceled")
    /\ UNCHANGED <<attempt, recoveries, token, job, history>>

----------------------------------------------------------------------------
\* Workers: claim, heartbeat, hand-back

\* tryClaimOne's flip: guarded by status = 'queued', fencing token + 1.
NextTokenKept(r) == token[r]
NextToken(r) == token[r] + 1

ClaimTx(s, r) ==
    /\ job[s] = Idle
    /\ queueRow[r] = Free
    /\ status[r] = "queued"
    /\ status' = [status EXCEPT ![r] = "running"]
    /\ token' = [token EXCEPT ![r] = NextToken(r)]
    /\ queueRow' = [queueRow EXCEPT ![r] = WorkerOf[s]]
    /\ job' = [job EXCEPT ![s] = [run |-> r, tok |-> NextToken(r), loaded |-> FALSE, view |-> {}]]
    /\ UNCHANGED <<attempt, recoveries, expired, waits, ledger, history>>

\* readLedger, after the claim's COMMIT: the executor's snapshot.
ReadLedger(s) ==
    /\ job[s].run # NoRun
    /\ ~job[s].loaded
    /\ job' = [job EXCEPT ![s].loaded = TRUE, ![s].view = CompletedSeqs(job[s].run)]
    /\ UNCHANGED <<kernelVars, history>>

\* heartbeat renews the rows this worker holds among the runs it reports in
\* flight, expired or not.
InFlight(w, r) == \E s \in Slot : WorkerOf[s] = w /\ job[s].run = r
RenewableAll(w) == {r \in expired : queueRow[r] = w}
Renewable(w)    == {r \in expired : queueRow[r] = w /\ InFlight(w, r)}

Heartbeat(w) ==
    /\ Renewable(w) # {}
    /\ expired' = expired \ Renewable(w)
    /\ UNCHANGED <<status, attempt, recoveries, token, queueRow, waits, ledger, job, history>>

\* releaseClaims: hand back all of this worker's claims, or the runs named.
ReleaseClaimsCharged(w, rs) ==
    /\ rs # {}
    /\ \A r \in rs : queueRow[r] = w /\ recoveries[r] < MaxRecoveries
    /\ status' = [r \in Run |-> IF r \in rs /\ status[r] = "running" THEN "queued" ELSE status[r]]
    /\ queueRow' = [r \in Run |-> IF r \in rs THEN Free ELSE queueRow[r]]
    /\ expired' = expired \ rs
    /\ recoveries' = [r \in Run |-> IF r \in rs THEN recoveries[r] + 1 ELSE recoveries[r]]
    /\ released' = [r \in Run |-> IF r \in rs THEN released[r] + 1 ELSE released[r]]
    /\ UNCHANGED <<attempt, token, waits, ledger, job, suspended>>
ReleaseClaims(w, rs) ==
    /\ rs # {}
    /\ \A r \in rs : queueRow[r] = w /\ released[r] < MaxReleases
    /\ status' = [r \in Run |-> IF r \in rs /\ status[r] = "running" THEN "queued" ELSE status[r]]
    /\ queueRow' = [r \in Run |-> IF r \in rs THEN Free ELSE queueRow[r]]
    /\ expired' = expired \ rs
    /\ released' = [r \in Run |-> IF r \in rs THEN released[r] + 1 ELSE released[r]]
    /\ UNCHANGED <<attempt, recoveries, token, waits, ledger, job, suspended>>

\* The executor leaves its slot without another write: it finished, suspended,
\* was refused (RunNotRunning, StaleLease), was aborted, or its process died.
EndExecution(s) ==
    /\ job[s] # Idle
    /\ job' = [job EXCEPT ![s] = Idle]
    /\ UNCHANGED <<kernelVars, history>>

----------------------------------------------------------------------------
\* Executors: the fenced operations.  A position already in the executor's
\* snapshot is answered from it and never reaches the kernel.

\* The row write shared by reportStep and suspendRun's already-due branch.
RecordStep(s, q, row) ==
    /\ Accepted(s)
    /\ q \notin job[s].view
    /\ ledger' = [ledger EXCEPT ![job[s].run][q] = Upsert(@, row)]
    /\ job' = [job EXCEPT ![s].view = IF row.st = "completed" THEN @ \cup {q} ELSE @]

ReportStep(s, q, st) ==
    /\ RecordStep(s, q, StepOf(st))
    /\ UNCHANGED <<status, attempt, recoveries, token, queueRow, expired, waits, history>>

\* batchTriggerChild: fire-and-forget children and the step, in one transaction.  The
\* step is recorded as failed, and the children are created all the same, when the
\* list of their ids cannot be recorded.
BatchTriggerChild(s, q, kids, st) ==
    /\ kids # {}
    /\ \A c \in kids : status[c] = "absent"
    /\ RecordStep(s, q, StepOf(st))
    /\ Created(kids)
    /\ UNCHANGED <<attempt, recoveries, token, expired, waits, history>>

\* Park a running run on one new wait: 'waiting', no queue row.
Park(s, wait) ==
    /\ waits' = waits \cup {wait}
    /\ expired' = expired \ {wait.run}
    /\ suspended' = [suspended EXCEPT ![wait.run] = @ + 1]
    /\ UNCHANGED <<attempt, recoveries, token, ledger, job, released>>

\* suspendRun: already due -> the wait step is recorded and the claim is kept.
SuspendDue(s, q) == ReportStep(s, q, "completed")

\* suspendRun: not due -> pending timer wait.
SuspendRun(s, q) ==
    LET r == job[s].run IN
    /\ Accepted(s)
    /\ q \notin job[s].view
    /\ status' = [status EXCEPT ![r] = "waiting"]
    /\ queueRow' = [queueRow EXCEPT ![r] = NoRow]
    /\ Park(s, [run |-> r, seq |-> q, kind |-> "timer", child |-> NoRun])

\* waitForChildRun: create the child and wait for it.  A step row or pending
\* wait that already names a child is answered without a change.
WaitForChildRun(s, q, c) ==
    LET r == job[s].run IN
    /\ Accepted(s)
    /\ q \notin job[s].view
    /\ ledger[r][q].child = NoRun
    /\ ~\E w \in OwnWaits(r) : w.seq = q /\ w.kind = "run"
    /\ status[c] = "absent"
    /\ status' = [status EXCEPT ![c] = "queued", ![r] = "waiting"]
    /\ queueRow' = [queueRow EXCEPT ![c] = Free, ![r] = NoRow]
    /\ Park(s, [run |-> r, seq |-> q, kind |-> "run", child |-> c])

CompleteRun(s) ==
    /\ Accepted(s)
    /\ Finish(job[s].run, "completed")
    /\ UNCHANGED <<attempt, recoveries, token, job, history>>

\* failRun, retry branch: attempt + 1, the claim released.
FailRunRetry(s, limit) ==
    LET r == job[s].run IN
    /\ Accepted(s)
    /\ attempt[r] < limit
    /\ attempt' = [attempt EXCEPT ![r] = @ + 1]
    /\ Unlock(r)
    /\ UNCHANGED <<recoveries, token, waits, ledger, job, history>>

\* failRun, terminal branch: AbortError, or the attempts are used up.
FailRunTerminal(s, limit, abort) ==
    /\ Accepted(s)
    /\ abort \/ attempt[job[s].run] >= limit
    /\ Finish(job[s].run, "failed")
    /\ UNCHANGED <<attempt, recoveries, token, job, history>>

----------------------------------------------------------------------------
\* Orchestrator loops

LeaseExpires(r) ==
    /\ queueRow[r] \in Worker
    /\ r \notin expired
    /\ expired' = expired \cup {r}
    /\ UNCHANGED <<status, attempt, recoveries, token, queueRow, waits, ledger, job, history>>

RecoverableOnce(r) == recoveries[r] <= MaxRecoveries
Recoverable(r)     == recoveries[r] < MaxRecoveries

\* reap, a running run with recoveries left: requeue, spend one recovery.
ReapRequeue(r) ==
    /\ r \in expired
    /\ status[r] = "running"
    /\ Recoverable(r)
    /\ recoveries' = [recoveries EXCEPT ![r] = @ + 1]
    /\ Unlock(r)
    /\ UNCHANGED <<attempt, token, waits, ledger, job, history>>

\* reap, budget exhausted: terminalFail with WorkerLostError.
ReapExhausted(r) ==
    /\ r \in expired
    /\ status[r] = "running"
    /\ ~Recoverable(r)
    /\ Finish(r, "failed")
    /\ UNCHANGED <<attempt, recoveries, token, job, history>>

\* reap, expected-old-state guard: a stale lease on a run that is not running.
ReapDesynced(r) ==
    /\ r \in expired
    /\ status[r] # "running"
    /\ queueRow' = [queueRow EXCEPT ![r] =
                      IF status[r] \in {"queued", "waiting"} THEN Free ELSE NoRow]
    /\ expired' = expired \ {r}
    /\ UNCHANGED <<status, attempt, recoveries, token, waits, ledger, job, history>>

\* resumeOneWait, a due timer on a waiting run.
ResumeTimer(w) ==
    /\ w \in waits
    /\ w.kind = "timer"
    /\ status[w.run] = "waiting"
    /\ waits' = waits \ {w}
    /\ ledger' = [ledger EXCEPT ![w.run][w.seq] = Upsert(@, StepOf("completed"))]
    /\ Unlock(w.run)
    /\ UNCHANGED <<attempt, recoveries, token, job, history>>

\* resumeOneWait, a due timer on a run that is not waiting: retire the wait and
\* the leftover queue row of a terminal run, never the run.
RetireTimer(w) ==
    /\ w \in waits
    /\ w.kind = "timer"
    /\ status[w.run] # "waiting"
    /\ waits' = waits \ {w}
    /\ UNCHANGED <<status, attempt, recoveries, token, queueRow, expired, ledger, job, history>>
ResumeStaleTimer(w) ==
    /\ w \in waits
    /\ w.kind = "timer"
    /\ status[w.run] # "waiting"
    /\ waits' = waits \ {w}
    /\ queueRow' = [queueRow EXCEPT ![w.run] = IF status[w.run] \in Terminal THEN NoRow ELSE @]
    /\ expired' = expired \ (IF status[w.run] \in Terminal THEN {w.run} ELSE {})
    /\ UNCHANGED <<status, attempt, recoveries, token, ledger, job, history>>

\* resumeOneWait, a run-wait whose child was deleted (child_run_id NULL):
\* ChildLostError for a waiting run, otherwise the wait is just retired.
FailOrphan(w) ==
    /\ w \in waits
    /\ w.kind = "run" /\ w.child = NoRun
    /\ status[w.run] = "waiting"
    /\ Finish(w.run, "failed")
    /\ UNCHANGED <<attempt, recoveries, token, job, history>>

RetireOrphan(w) ==
    /\ w \in waits
    /\ w.kind = "run" /\ w.child = NoRun
    /\ status[w.run] # "waiting"
    /\ waits' = waits \ {w}
    /\ UNCHANGED <<status, attempt, recoveries, token, queueRow, expired, ledger, job, history>>

\* healStuckWaits: replay the wake of a child that is already terminal.
HealStuckWaits(c) ==
    /\ status[c] \in Terminal
    /\ WaitersOf(c) # {}
    /\ status' = [p \in Run |-> IF p \in WokenBy(c) THEN "queued" ELSE status[p]]
    /\ queueRow' = [p \in Run |-> IF p \in WokenBy(c) THEN Free ELSE queueRow[p]]
    /\ expired' = expired \ WokenBy(c)
    /\ ledger' = LedgerAfterWake(c, AnswersOk(status[c]))
    /\ waits' = waits \ WaitersOf(c)
    /\ UNCHANGED <<attempt, recoveries, token, job, history>>

\* prune: delete a terminal run with its queue row, steps and waits; waits on
\* it keep their row with child_run_id set to NULL (ON DELETE SET NULL).
Prunable(r) == status[r] \in Terminal

PruneRun(r) ==
    /\ Prunable(r)
    /\ status' = [status EXCEPT ![r] = "pruned"]
    /\ queueRow' = [queueRow EXCEPT ![r] = NoRow]
    /\ expired' = expired \ {r}
    /\ ledger' = [ledger EXCEPT ![r] = [q \in Seq |-> StepOf("none")]]
    /\ waits' = (waits \ (OwnWaits(r) \cup WaitersOf(r)))
                  \cup {[w EXCEPT !.child = NoRun] : w \in WaitersOf(r) \ OwnWaits(r)}
    /\ UNCHANGED <<attempt, recoveries, token, job, history>>

----------------------------------------------------------------------------
\* The next-state relation

ClientNext ==
    \E r \in Run : \/ CreateRun(r) \/ CancelRun(r) \/ PruneRun(r)
                   \/ \E src \in Run : RetryRun(src, r)

\* The fenced operations, and all that an executor does with its claim.
FencedNext(s) ==
    \/ \E q \in Seq : \/ \E st \in {"failed", "completed"} :
                            \/ ReportStep(s, q, st)
                            \/ \E kids \in SUBSET Run : BatchTriggerChild(s, q, kids, st)
                      \/ SuspendDue(s, q)
                      \/ SuspendRun(s, q)
                      \/ \E c \in Run : WaitForChildRun(s, q, c)
    \/ CompleteRun(s)
    \/ \E limit \in RetryLimits : \/ FailRunRetry(s, limit)
                                  \/ \E abort \in BOOLEAN : FailRunTerminal(s, limit, abort)

ExecutorNext(s) == ReadLedger(s) \/ FencedNext(s) \/ EndExecution(s)

ClaimNext == \E s \in Slot, r \in Run : ClaimTx(s, r)

WorkerNext ==
    \E w \in Worker : \/ Heartbeat(w)
                      \/ \E rs \in SUBSET Run : ReleaseClaims(w, rs)

ReapNext(r) == ReapRequeue(r) \/ ReapExhausted(r) \/ ReapDesynced(r)

WaitNext(w) == ResumeTimer(w) \/ ResumeStaleTimer(w) \/ FailOrphan(w) \/ RetireOrphan(w)

OrchestratorNext ==
    \/ \E r \in Run : LeaseExpires(r) \/ ReapNext(r) \/ HealStuckWaits(r)
    \/ \E w \in Wait : WaitNext(w)

Next ==
    \/ ClientNext
    \/ ClaimNext
    \/ \E s \in Slot : ExecutorNext(s)
    \/ WorkerNext
    \/ OrchestratorNext

Spec == Init /\ [][Next]_vars

\* What the daemons keep doing: every poll loop comes round again (runtime.ts
\* claimLoop, the orchestrator's timers), a lease no heartbeat covers runs out, and
\* task code returns, throws or is given up.  Clients, heartbeats and releases
\* owe nothing.
Fairness ==
    /\ WF_vars(ClaimNext)
    /\ \A s \in Slot : WF_vars(ExecutorNext(s))
    /\ \A r \in Run : /\ WF_vars(LeaseExpires(r) /\ ~InFlight(queueRow[r], r))
                      /\ WF_vars(ReapNext(r))
                      /\ WF_vars(HealStuckWaits(r))
    /\ \A w \in Wait : WF_vars(WaitNext(w))

FairSpec == Spec /\ Fairness

----------------------------------------------------------------------------
\* Properties

\* Every table holds the rows its schema admits, its CHECK that recoveries stay
\* within max_recoveries included (db/schema.ts runs_recoveries_check).
TypeOK ==
    /\ status \in [Run -> Status]
    /\ attempt \in [Run -> Nat]
    /\ recoveries \in [Run -> 0..MaxRecoveries]
    /\ token \in [Run -> Nat]
    /\ queueRow \in [Run -> Worker \cup {Free, NoRow}]
    /\ expired \subseteq Run
    /\ waits \subseteq Wait
    /\ ledger \in [Run -> [Seq -> StepRow]]
    /\ job \in [Slot -> Job]
    /\ \A s \in Slot : job[s].run = NoRun => job[s] = Idle
    /\ released \in [Run -> Nat]
    /\ suspended \in [Run -> Nat]

\* The queue and the runs table never disagree, whichever path moved a run: a
\* run is claimable exactly when it is 'queued', held exactly when 'running',
\* and carries no queue row otherwise, so a run can neither be claimed twice,
\* nor be lost to the claim scan, nor come back after its end.
QueueMatchesStatus ==
    \A r \in Run :
        /\ queueRow[r] = Free <=> status[r] = "queued"
        /\ queueRow[r] \in Worker <=> status[r] = "running"
        /\ r \in expired => status[r] = "running"

\* No wake is ever lost: a waiting run has exactly one pending wait and nobody
\* else has any, a pending run-wait names a child that can still end, and no
\* child is shared (orchestrator.ts calls both states "impossible in a healthy
\* system" and scans for them).
WaitGraph ==
    /\ \A w \in waits : status[w.run] = "waiting"
    /\ \A r \in Run : status[r] = "waiting" => \E w \in waits : w.run = r
    /\ \A v, w \in waits : v.run = w.run => v = w
    /\ \A w \in waits : w.kind = "run" => w.child \in Run /\ status[w.child] \in Live
    /\ \A v, w \in waits : v.child = w.child /\ v.child # NoRun => v = w

\* Fencing: of all the executors that ever held a run, zombies of the same
\* worker included, at most one can still write to it.
SingleWriter ==
    \A s, t \in Slot : Accepted(s) /\ Accepted(t) /\ job[s].run = job[t].run => s = t

\* An executor whose writes are accepted has replayed from the ledger as it is
\* now, although the ledger is read after the claim commits: nobody wrote a
\* step behind its back, so no recorded step is executed again.
ReplaySeesLedger ==
    \A s \in Slot : Accepted(s) => job[s].view = CompletedSeqs(job[s].run)

\* Every claim is charged to exactly one account: the current holder, a retry
\* of the task's own failure, a recovery, a graceful hand-back, a suspend, or
\* the end of the run.  Reaping, retrying and releasing never bill each other.
EveryClaimAccounted ==
    \A r \in Run :
        LET charged == (attempt[r] - 1) + recoveries[r] + released[r] + suspended[r] IN
        /\ attempt[r] >= 1
        /\ status[r] \in {"absent", "queued", "waiting"} => token[r] = charged
        /\ status[r] = "running" => token[r] = charged + 1
        /\ status[r] \in Terminal \cup {"pruned"} => token[r] \in {charged, charged + 1}

\* What a parent's ledger says of a child is how that child ended, and no two
\* steps of any run share a child.
ChildAnswersAreTrue ==
    \A p \in Run, q \in Seq :
        LET row == ledger[p][q] IN
        row.child # NoRun =>
            /\ status[row.child] \in (IF row.ok THEN {"completed"} ELSE {"failed", "canceled"})
                                      \cup {"pruned"}
            /\ \A p2 \in Run, q2 \in Seq : ledger[p2][q2].child = row.child => p2 = p /\ q2 = q

\* A run that ended stays as it ended until retention deletes it: no late
\* executor, reaper, timer, wake or cancel moves it, its counters or its ledger.
TerminalFrozen ==
    [][\A r \in Run : status[r] \in Terminal =>
          \/ status'[r] = "pruned"
          \/ /\ status'[r] = status[r] /\ ledger'[r] = ledger[r]
             /\ attempt'[r] = attempt[r] /\ recoveries'[r] = recoveries[r]
             /\ token'[r] = token[r] /\ queueRow'[r] = queueRow[r]]_vars

\* Whatever crashes, lapses or is taken back, every run that was created ends.
RunsTerminate == \A r \in Run : []<>(status[r] \notin Live)

----------------------------------------------------------------------------
\* What the engine promises, read off its tables.

Entry(row) == IF row.st = "completed"
              THEN [rec |-> TRUE, child |-> row.child, ok |-> row.ok]
              ELSE [rec |-> FALSE, child |-> NoRun, ok |-> TRUE]

Durable == INSTANCE DurableRun WITH
    phase   <- [r \in Run |-> IF status[r] \in Live THEN "live" ELSE status[r]],
    journal <- [r \in Run |-> [q \in Seq |-> Entry(ledger[r][q])]]

\* The tables implement the durable run: ends are final, recorded steps are
\* never changed, and a child's answer reaches its parent in the very
\* transaction that ends the child.
ImplementsDurableRun == Durable!Spec

=============================================================================
