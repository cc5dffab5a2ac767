----------------------------- MODULE ClaimGate -----------------------------
(***************************************************************************)
(* The claim transaction of packages/kernel/src/queue.ts, statement by     *)
(* statement: the candidate scan with FOR UPDATE SKIP LOCKED, then for each*)
(* candidate the concurrency limit (an advisory lock on the key, a count,  *)
(* the flip) until the claim has its limit, and the commit.  RunKernel takes *)
(* this transaction as one step; here it runs against other claims,        *)
(* cancels, registrations and its own rollback.                            *)
(*                                                                         *)
(* Run ids are their queue order: smaller is earlier.                      *)
(***************************************************************************)
EXTENDS Naturals, FiniteSets

CONSTANTS
    Run,          \* run ids, in the order of the candidate scan
    Task,         \* task ids
    TaskOf,       \* the task of a run
    Key,          \* concurrency keys
    AskedKey,     \* options.concurrencyKey of the trigger, or NoKey
    DefaultKey,   \* the key a task id stands for
    NoKey,        \* NULL
    Limits,       \* limits a registration may declare; 0 is "no limit"
    InitialLimit, \* limits registered before the first run
    Claimer,      \* claimRuns calls that run concurrently
    Nobody,       \* an advisory lock nobody holds
    ClaimLimit,   \* the limit of a claimRuns call
    Window        \* claimWindow(limit), the candidates one scan may lock

ASSUME GateAssumption ==
    /\ Run \subseteq Nat
    /\ TaskOf \in [Run -> Task]
    /\ DefaultKey \in [Task -> Key]
    /\ AskedKey \in [Run -> Key \cup {NoKey}]
    /\ NoKey \notin Key
    /\ Limits \subseteq Nat
    /\ InitialLimit \in [Task -> Nat]
    /\ Nobody \notin Claimer
    /\ ClaimLimit \in Nat \ {0}
    /\ Window \in Nat \ {0}

VARIABLES
    limit,   \* tasks.concurrency_limit, 0 when NULL
    status,  \* runs.status: absent, queued, running, ended
    key,     \* runs.concurrency_key
    cap,     \* history: the limit the current claim of a run was granted under
    keyLock, \* per key, the claim that holds its advisory lock
    tx       \* per claimer, its transaction

vars == <<limit, status, key, cap, keyLock, tx>>

\* A transaction: the queue rows it locked, the candidates it has not looked at,
\* the limits its scan read, and the runs it has flipped but not committed.
NoTx == [pc |-> "idle", window |-> {}, todo |-> {}, caps |-> [t \in Task |-> 0], taken |-> {}]

Tx == [pc : {"idle", "next", "count", "flip"}, window : SUBSET Run, todo : SUBSET Run,
       caps : [Task -> Nat], taken : SUBSET Run]

Init ==
    /\ limit = InitialLimit
    /\ status = [r \in Run |-> "absent"]
    /\ key = [r \in Run |-> NoKey]
    /\ cap = [r \in Run |-> 0]
    /\ keyLock = [k \in Key |-> Nobody]
    /\ tx = [c \in Claimer |-> NoTx]

\* A queue row no open claim transaction has locked.
RowFree(r)   == \A c \in Claimer : r \notin tx[c].window
Claimable(r) == status[r] = "queued" /\ RowFree(r)

Head(c)     == CHOOSE r \in tx[c].todo : \A x \in tx[c].todo : r <= x
HeadCap(c)  == tx[c].caps[TaskOf[Head(c)]]
\* concurrency_key ?? task_id
KeyOf(r)    == IF key[r] = NoKey THEN DefaultKey[TaskOf[r]] ELSE key[r]

----------------------------------------------------------------------------
\* Registration and creation

\* upsertTasks: a worker registers with its own declaration of the limit.
Register(t, n) ==
    /\ limit[t] # n
    /\ limit' = [limit EXCEPT ![t] = n]
    /\ UNCHANGED <<status, key, cap, keyLock, tx>>

\* createRunIn: the key recorded depends on whether the task has a limit NOW.
KeyAtCreation(r) ==
    IF AskedKey[r] = NoKey /\ limit[TaskOf[r]] > 0 THEN DefaultKey[TaskOf[r]] ELSE AskedKey[r]

Create(r) ==
    /\ status[r] = "absent"
    /\ status' = [status EXCEPT ![r] = "queued"]
    /\ key' = [key EXCEPT ![r] = KeyAtCreation(r)]
    /\ UNCHANGED <<limit, cap, keyLock, tx>>

----------------------------------------------------------------------------
\* The claim transaction

\* The candidate scan: the first Window claimable rows that are not locked.
Scan(c) ==
    LET free   == {r \in Run : Claimable(r)}
        window == {r \in free : Cardinality({x \in free : x < r}) < Window}
    IN  /\ tx[c].pc = "idle"
        /\ window # {}
        /\ tx' = [tx EXCEPT ![c] = [pc |-> "next", window |-> window, todo |-> window,
                                    caps |-> limit, taken |-> {}]]
        /\ UNCHANGED <<limit, status, key, cap, keyLock>>

Looking(c) ==
    /\ tx[c].pc = "next"
    /\ Cardinality(tx[c].taken) < ClaimLimit
    /\ tx[c].todo # {}

\* pg_advisory_xact_lock: waits while another transaction holds the key.
Unserialized(c, k) == TRUE
Grantable(c, k) == keyLock[k] \in {Nobody, c}

TakeKey(c) ==
    /\ Looking(c) /\ HeadCap(c) > 0
    /\ Grantable(c, KeyOf(Head(c)))
    /\ keyLock' = [keyLock EXCEPT ![KeyOf(Head(c))] = c]
    /\ tx' = [tx EXCEPT ![c].pc = "count"]
    /\ UNCHANGED <<limit, status, key, cap>>

\* SELECT count(*) ... WHERE status = 'running' AND concurrency_key = $1: the
\* committed runs and this transaction's own flips that carry the key.
Busy(c, k) == {r \in Run : key[r] = k /\ (status[r] = "running" \/ r \in tx[c].taken)}

Count(c) ==
    /\ tx[c].pc = "count"
    /\ IF Cardinality(Busy(c, KeyOf(Head(c)))) >= HeadCap(c)
       THEN tx' = [tx EXCEPT ![c].pc = "next", ![c].todo = @ \ {Head(c)}]
       ELSE tx' = [tx EXCEPT ![c].pc = "flip"]
    /\ UNCHANGED <<limit, status, key, cap, keyLock>>

\* A task without a limit goes straight to the flip.
Flip(c) ==
    /\ \/ tx[c].pc = "flip"
       \/ Looking(c) /\ HeadCap(c) = 0
    /\ tx' = [tx EXCEPT ![c].pc = "next", ![c].todo = @ \ {Head(c)}, ![c].taken = @ \cup {Head(c)}]
    /\ UNCHANGED <<limit, status, key, cap, keyLock>>

\* COMMIT and ROLLBACK release the queue rows and the transaction's key locks.
KeptLocks(c) == keyLock
ReleasedLocks(c) == [k \in Key |-> IF keyLock[k] = c THEN Nobody ELSE keyLock[k]]

Commit(c) ==
    /\ tx[c].pc = "next" /\ ~Looking(c)
    /\ status' = [r \in Run |-> IF r \in tx[c].taken THEN "running" ELSE status[r]]
    /\ cap' = [r \in Run |-> IF r \in tx[c].taken THEN tx[c].caps[TaskOf[r]] ELSE cap[r]]
    /\ keyLock' = ReleasedLocks(c)
    /\ tx' = [tx EXCEPT ![c] = NoTx]
    /\ UNCHANGED <<limit, key>>

Rollback(c) ==
    /\ tx[c].pc # "idle"
    /\ keyLock' = ReleasedLocks(c)
    /\ tx' = [tx EXCEPT ![c] = NoTx]
    /\ UNCHANGED <<limit, status, key, cap>>

\* Two claims may lock two keys in opposite orders: a claim that found the first
\* key at its limit, or took a run of it, keeps that lock for the next candidate.
\* Postgres breaks the cycle by rolling one of them back.
WaitsFor(c, d) ==
    /\ Looking(c) /\ HeadCap(c) > 0
    /\ keyLock[KeyOf(Head(c))] = d
    /\ c # d

DeadlockVictim(c) ==
    /\ \E d \in Claimer : WaitsFor(c, d) /\ WaitsFor(d, c)
    /\ Rollback(c)

----------------------------------------------------------------------------
\* Everything else that moves a run takes its queue row first

RowTaken(r)   == RowFree(r)

\* cancelRun, or the reaper, on a queued run.
EndQueued(r) ==
    /\ status[r] = "queued"
    /\ RowTaken(r)
    /\ status' = [status EXCEPT ![r] = "ended"]
    /\ UNCHANGED <<limit, key, cap, keyLock, tx>>

\* A running run ends, or goes back to the queue (retry, reap, hand-back, or a
\* suspend and its resume).
StopRunning(r, next) ==
    /\ status[r] = "running"
    /\ status' = [status EXCEPT ![r] = next]
    /\ cap' = [cap EXCEPT ![r] = 0]
    /\ UNCHANGED <<limit, key, keyLock, tx>>

ClaimStep(c) == TakeKey(c) \/ Count(c) \/ Flip(c) \/ Commit(c) \/ DeadlockVictim(c)

Next ==
    \/ \E c \in Claimer : Scan(c) \/ ClaimStep(c) \/ Rollback(c)
    \/ \E t \in Task, n \in Limits : Register(t, n)
    \/ \E r \in Run : \/ Create(r) \/ EndQueued(r)
                      \/ \E next \in {"queued", "ended"} : StopRunning(r, next)

Spec == Init /\ [][Next]_vars

\* A claim call keeps executing its statements, and Postgres grants a lock in the
\* order it was asked for, so a waiter is not passed over for ever; nothing else
\* is owed.
FairSpec == Spec /\ \A c \in Claimer : WF_vars(ClaimStep(c)) /\ SF_vars(TakeKey(c))

----------------------------------------------------------------------------
\* Properties

\* The tables, the locks and the transactions have their shapes, a transaction
\* only flips rows it has locked, and an advisory lock belongs to an open
\* transaction: it is never held past the claim that took it.
TypeOK ==
    /\ limit \in [Task -> Nat]
    /\ status \in [Run -> {"absent", "queued", "running", "ended"}]
    /\ key \in [Run -> Key \cup {NoKey}]
    /\ cap \in [Run -> Nat]
    /\ keyLock \in [Key -> Claimer \cup {Nobody}]
    /\ tx \in [Claimer -> Tx]
    /\ \A c \in Claimer : tx[c].taken \cup tx[c].todo \subseteq tx[c].window
    /\ \A k \in Key, c \in Claimer : keyLock[k] = c => tx[c].pc # "idle"

\* The concurrency limit, over whatever tasks share the key: of the running runs
\* of a key that were claimed under a limit, one was granted a limit that covers
\* them all.  Two claims on different rows of the key would overshoot it without
\* the advisory lock (queue.ts tryClaimOne).
LimitHeld ==
    \A k \in Key :
        LET limited == {r \in Run : status[r] = "running" /\ KeyOf(r) = k /\ cap[r] > 0} IN
        limited # {} => \E r \in limited : Cardinality(limited) <= cap[r]

\* What lets a claim be read as one atomic step: from its scan to its commit no
\* other path moves a run whose queue row it holds, and no other claim does.
ClaimIsolated ==
    \A c \in Claimer : \A r \in tx[c].window :
        /\ status[r] = "queued"
        /\ \A d \in Claimer : r \in tx[d].window => c = d

\* A claim may be read as one atomic step; and every claim transaction ends, although it
\* may wait for a key behind another.
ClaimsEnd == []ClaimIsolated /\ \A c \in Claimer : []<>(tx[c].pc = "idle")

=============================================================================
