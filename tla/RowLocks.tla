------------------------------ MODULE RowLocks ------------------------------
(***************************************************************************)
(* The row locks of packages/kernel, statement by statement: which rows a  *)
(* kernel transaction takes FOR UPDATE, in which order, and on whom it     *)
(* waits.  runs-internal.ts prescribes queue row, then runs row, child     *)
(* before parent; the queue row may be absent, and then nothing is locked. *)
(* RunKernel takes each of these transactions as one step.                 *)
(*                                                                         *)
(* A run has a committed queue row exactly when it is queued or running    *)
(* (QueueMatchesStatus of RunKernel), so the row is read off the status.   *)
(* A waits row is only ever locked behind its run's runs row, and is left  *)
(* out.                                                                    *)
(***************************************************************************)
EXTENDS Naturals, FiniteSets

CONSTANTS
    Run,       \* run ids
    ParentOf,  \* the run that waits for a run's end, or NoRun
    NoRun,     \* no run
    Tx,        \* transactions that may be open at the same time
    Nobody,    \* a row nobody has locked
    Ops        \* the kernel operations explored

Fenced   == {"finish", "suspend", "retry"}  \* behind assertOwnedRunning
Blocking == Fenced \cup {"cancel", "resume"} \* start with lockQueueRow of one run
Scans    == {"claim", "reap"}                \* start with FOR UPDATE SKIP LOCKED
AllOps   == Blocking \cup Scans \cup {"release", "log"}

ASSUME LockAssumption ==
    /\ Ops \subseteq AllOps
    /\ NoRun \notin Run
    /\ ParentOf \in [Run -> Run \cup {NoRun}]
    /\ Nobody \notin Tx

\* Every step that waits for a child creates its own (waitForChildRun takes no
\* idempotency key) and suspends its run until that child ends: a run waits for one
\* child at a time, and never, over any number of runs, for its own end.
ASSUME FamilyAssumption ==
    /\ \A c, d \in Run : c # d /\ ParentOf[c] = ParentOf[d] => ParentOf[c] = NoRun
    /\ \A rs \in (SUBSET Run) \ {{}} : \E c \in rs : ParentOf[c] \notin rs

VARIABLES
    status,   \* runs.status as committed
    onChild,  \* runs with a pending wait on their child
    qlock,    \* per run, the transaction that holds its queue row
    rlock,    \* per run, the transaction that holds its runs row
    tx        \* per transaction, where it is

vars == <<status, onChild, qlock, rlock, tx>>

Status == {"queued", "running", "waiting", "ended"}
Point  == {"none", "claims", "queue", "run", "dequeue", "wakeQueue", "wakeRun", "enqueue", "commit"}

\* A transaction: its operation, the run it is at and its next statement,
\* whether lockQueueRow found a row, the runs still to visit, and the statuses it
\* decided on and will commit.
NoTx == [op |-> "none", on |-> NoRun, at |-> "none", found |-> FALSE, todo |-> {},
         seen |-> [r \in Run |-> "keep"], put |-> [r \in Run |-> "keep"]]

Init ==
    /\ status = [r \in Run |-> IF \E c \in Run : ParentOf[c] = r THEN "waiting" ELSE "queued"]
    /\ onChild = {ParentOf[c] : c \in Run} \ {NoRun}
    /\ qlock = [r \in Run |-> Nobody]
    /\ rlock = [r \in Run |-> Nobody]
    /\ tx = [t \in Tx |-> NoTx]

HasRow(r) == status[r] \in {"queued", "running"}

\* Whom a transaction's next statement waits for.
QueuedToRead(t) == tx[t].at \in {"claims", "queue", "wakeQueue", "enqueue"} /\ HasRow(tx[t].on)
Queued(t) == tx[t].at \in {"claims", "queue", "dequeue", "wakeQueue", "enqueue"} /\ HasRow(tx[t].on)
Blocker(t) ==
    IF Queued(t) THEN qlock[tx[t].on]
    ELSE IF tx[t].at \in {"run", "wakeRun"} THEN rlock[tx[t].on]
    ELSE Nobody
BlockedByQueue(t) == Queued(t) /\ Blocker(t) \notin {Nobody, t}
Blocked(t) == Blocker(t) \notin {Nobody, t}

----------------------------------------------------------------------------
\* BEGIN and the first statement

Open(t, op, r, at, todo) ==
    tx' = [tx EXCEPT ![t] = [NoTx EXCEPT !.op = op, !.on = r, !.at = at, !.todo = todo]]

\* cancelRun, the fenced operations of any executor, zombies included, and the
\* resume of a timer wait that was due in an unlocked scan.
Begin(t, op, r) ==
    /\ op \in Blocking \cap Ops
    /\ tx[t] = NoTx
    /\ status[r] # "ended"
    /\ op = "resume" => status[r] = "waiting" /\ r \notin onChild
    /\ Open(t, op, r, "queue", {})
    /\ UNCHANGED <<status, onChild, qlock, rlock>>

\* claimRuns and the reaper lock what they can get of their candidates.
Candidates(op) ==
    {r \in Run : status[r] = (IF op = "claim" THEN "queued" ELSE "running") /\ qlock[r] = Nobody}

ReapLocksNothing(op, rs) == IF op = "reap" THEN {} ELSE rs
ScanLocks(op, rs) == rs

Scan(t, op) ==
    /\ op \in Scans \cap Ops
    /\ tx[t] = NoTx
    /\ \E rs \in SUBSET Candidates(op) : \E r \in rs :
          /\ qlock' = [x \in Run |-> IF x \in ScanLocks(op, rs) THEN t ELSE qlock[x]]
          /\ Open(t, op, r, "run", rs \ {r})
    /\ UNCHANGED <<status, onChild, rlock>>

\* releaseClaims waits for the queue rows of a worker's claims, one after the
\* other, before it touches a run.  Two workers hold different claims, so one
\* hand-back at a time is enough.
BeginRelease(t, rs) ==
    /\ "release" \in Ops
    /\ tx[t] = NoTx
    /\ rs # {} /\ rs \subseteq {r \in Run : status[r] = "running"}
    /\ \A u \in Tx : tx[u].op # "release"
    /\ \E r \in rs : Open(t, "release", r, "claims", rs \ {r})
    /\ UNCHANGED <<status, onChild, qlock, rlock>>

\* appendLogs takes the runs row and nothing else.
BeginLog(t, r) ==
    /\ "log" \in Ops
    /\ tx[t] = NoTx
    /\ Open(t, "log", r, "run", {})
    /\ UNCHANGED <<status, onChild, qlock, rlock>>

----------------------------------------------------------------------------
\* The statements in between

\* Another candidate of a multi-row transaction, or the end of it.
Onward(me) ==
    IF me.todo = {} THEN [me EXCEPT !.at = "commit"]
    ELSE LET r == CHOOSE r \in me.todo : TRUE
         IN  [me EXCEPT !.on = r, !.at = "run", !.todo = @ \ {r}]

Locked(lock, t, r) == [lock EXCEPT ![r] = t]

\* The queue scan of releaseClaims: a claim that is gone when its turn comes is
\* not released.
LockClaims(t) ==
    LET me   == tx[t]
        mine == IF status[me.on] = "running" THEN Locked(qlock, t, me.on) ELSE qlock
        held == {r \in Run : mine[r] = t}
    IN  /\ me.at = "claims"
        /\ ~Blocked(t)
        /\ qlock' = mine
        /\ tx' = [tx EXCEPT ![t] =
                     IF me.todo # {}
                     THEN LET r == CHOOSE r \in me.todo : TRUE
                          IN  [me EXCEPT !.on = r, !.todo = @ \ {r}]
                     ELSE Onward([me EXCEPT !.todo = held])]
        /\ UNCHANGED <<status, onChild, rlock>>

\* lockQueueRow: an absent row locks nothing.
LockQueue(t) ==
    LET me == tx[t] IN
    /\ me.at = "queue"
    /\ ~Blocked(t)
    /\ qlock' = IF HasRow(me.on) THEN Locked(qlock, t, me.on) ELSE qlock
    /\ tx' = [tx EXCEPT ![t].found = HasRow(me.on), ![t].at = "run"]
    /\ UNCHANGED <<status, onChild, rlock>>

\* What the transaction makes of the run it has locked: statuses it may write.
Outcomes(me) ==
    LET st == status[me.on] IN
    CASE me.op = "cancel"  -> IF st = "ended" THEN {} ELSE {"ended"}
      [] me.op = "finish"  -> IF st = "running" /\ me.found THEN {"ended"} ELSE {}
      [] me.op = "suspend" -> IF st = "running" /\ me.found THEN {"waiting"} ELSE {}
      [] me.op = "retry"   -> IF st = "running" /\ me.found THEN {"queued"} ELSE {}
      [] me.op = "resume"  -> IF st = "waiting" THEN {"queued"} ELSE {}
      [] me.op = "claim"   -> IF st = "queued" THEN {"running"} ELSE {}
      [] me.op = "reap"    -> IF st = "running" THEN {"queued", "ended"} ELSE {}
      [] me.op = "release" -> IF st = "running" THEN {"queued"} ELSE {}
      [] OTHER             -> {}

\* lockRunRow, or the UPDATE of the runs row that takes it: the decision is made
\* on the row as it is under the lock.
LockRun(t) ==
    LET me == tx[t] IN
    /\ me.at = "run"
    /\ ~Blocked(t)
    /\ rlock' = Locked(rlock, t, me.on)
    /\ \/ /\ Outcomes(me) = {}
          /\ tx' = [tx EXCEPT ![t] = Onward(me)]
       \/ \E st \in Outcomes(me) :
             LET did == [me EXCEPT !.seen[me.on] = status[me.on], !.put[me.on] = st] IN
             tx' = [tx EXCEPT ![t] =
                 CASE st \in {"ended", "waiting"} -> [did EXCEPT !.at = "dequeue"]
                   [] me.op = "resume"            -> [did EXCEPT !.at = "enqueue"]
                   [] OTHER                       -> Onward(did)]
    /\ UNCHANGED <<status, onChild, qlock>>

\* resumeOneWait takes the runs row with SKIP LOCKED and gives up if it is held.
SkipRun(t) ==
    /\ tx[t].op = "resume" /\ tx[t].at = "run"
    /\ Blocked(t)
    /\ tx' = [tx EXCEPT ![t].at = "commit"]
    /\ UNCHANGED <<status, onChild, qlock, rlock>>

\* removeFromQueue, and then the wake of a parent that waits for this end.
Dequeue(t) ==
    LET me == tx[t] IN
    /\ me.at = "dequeue"
    /\ ~Blocked(t)
    /\ qlock' = IF HasRow(me.on) THEN Locked(qlock, t, me.on) ELSE qlock
    /\ tx' = [tx EXCEPT ![t] =
                 IF me.put[me.on] = "ended" /\ ParentOf[me.on] \in onChild
                 THEN [me EXCEPT !.on = ParentOf[me.on], !.at = "wakeQueue"]
                 ELSE Onward(me)]
    /\ UNCHANGED <<status, onChild, rlock>>

\* wakeParentIfWaiting: the parent's rows in the same order.
WakeQueue(t) ==
    LET me == tx[t] IN
    /\ me.at = "wakeQueue"
    /\ ~Blocked(t)
    /\ qlock' = IF HasRow(me.on) THEN Locked(qlock, t, me.on) ELSE qlock
    /\ tx' = [tx EXCEPT ![t].at = "wakeRun"]
    /\ UNCHANGED <<status, onChild, rlock>>

\* The wait is checked again under the lock: it may have been canceled.
WakeRun(t) ==
    LET me == tx[t] IN
    /\ me.at = "wakeRun"
    /\ ~Blocked(t)
    /\ rlock' = Locked(rlock, t, me.on)
    /\ tx' = [tx EXCEPT ![t] =
                 IF me.on \in onChild /\ status[me.on] = "waiting"
                 THEN [me EXCEPT !.seen[me.on] = "waiting", !.put[me.on] = "queued",
                                 !.at = "enqueue"]
                 ELSE Onward(me)]
    /\ UNCHANGED <<status, onChild, qlock>>

\* enqueue: INSERT ... ON CONFLICT waits for a row that is there.
Enqueue(t) ==
    /\ tx[t].at = "enqueue"
    /\ ~Blocked(t)
    /\ tx' = [tx EXCEPT ![t] = Onward(tx[t])]
    /\ UNCHANGED <<status, onChild, qlock, rlock>>

----------------------------------------------------------------------------
\* COMMIT and ROLLBACK

Unlocked(lock, t) == [r \in Run |-> IF lock[r] = t THEN Nobody ELSE lock[r]]

Close(t) ==
    /\ qlock' = Unlocked(qlock, t)
    /\ rlock' = Unlocked(rlock, t)
    /\ tx' = [tx EXCEPT ![t] = NoTx]

Commit(t) ==
    LET put == tx[t].put IN
    /\ tx[t].at = "commit"
    /\ status' = [r \in Run |-> IF put[r] = "keep" THEN status[r] ELSE put[r]]
    /\ onChild' = {r \in onChild : put[r] = "keep"}
    /\ Close(t)

\* Any statement may fail, the victim of a deadlock among them.
Rollback(t) ==
    /\ tx[t] # NoTx
    /\ Close(t)
    /\ UNCHANGED <<status, onChild>>

Step(t) == \/ LockClaims(t) \/ LockQueue(t) \/ LockRun(t) \/ SkipRun(t) \/ Dequeue(t) \/ WakeQueue(t)
           \/ WakeRun(t) \/ Enqueue(t) \/ Commit(t)

Next ==
    \E t \in Tx :
        \/ \E op \in Ops, r \in Run : Begin(t, op, r)
        \/ \E op \in Ops : Scan(t, op)
        \/ \E rs \in SUBSET Run : BeginRelease(t, rs)
        \/ \E r \in Run : BeginLog(t, r)
        \/ Step(t)
        \/ Rollback(t)

Spec == Init /\ [][Next]_vars

----------------------------------------------------------------------------
\* Properties

\* Statuses, locks and transactions have their shapes, and a lock belongs to an
\* open transaction that holds a row of a run.
TypeOK ==
    /\ status \in [Run -> Status]
    /\ onChild \subseteq Run
    /\ qlock \in [Run -> Tx \cup {Nobody}]
    /\ rlock \in [Run -> Tx \cup {Nobody}]
    /\ tx \in [Tx -> [op : AllOps \cup {"none"}, on : Run \cup {NoRun}, at : Point,
                      found : BOOLEAN, todo : SUBSET Run,
                      seen : [Run -> Status \cup {"keep"}], put : [Run -> Status \cup {"keep"}]]]
    /\ \A r \in Run : \A t \in {qlock[r], rlock[r]} \ {Nobody} : tx[t] # NoTx
    /\ \A r \in Run : qlock[r] # Nobody => HasRow(r)

\* "The runs row is the true serialization point" (runs-internal.ts): what a
\* transaction decided about a run is still so when it commits.
DecisionsHold ==
    \A t \in Tx, r \in Run : tx[t].put[r] # "keep" => status[r] = tx[t].seen[r]

\* "They all take the run's queue row before touching the run" (queue.ts,
\* tryClaimOne): while one transaction holds a queue row, no other commits a
\* change of that run, even one that found no queue row when it began.
QueueRowFreezesRun ==
    [][\A r \in Run : qlock[r] # Nobody /\ qlock'[r] = qlock[r] => status'[r] = status[r]]_vars

\* Transactions that wait for each other in a circle.
Stuck(ts) == ts # {} /\ \A t \in ts : Blocked(t) /\ Blocker(t) \in ts

\* "cross-run acquisition cannot cycle" (runs-internal.ts, lock order), and
\* "cancel can never AB-BA against a fenced op holding the claim" (cancelRun).
NoDeadlock == \A ts \in SUBSET Tx : ~Stuck(ts)

\* What is true of it: every circle has a cancel in it that began while its run
\* was waiting, found no queue row to lock, and now deletes one that a wake has
\* put there since.  Without such a cancel the lock order holds.
OnlyLateCancelDeadlocks ==
    \A ts \in SUBSET Tx : Stuck(ts) =>
        \E t \in ts : tx[t].op = "cancel" /\ ~tx[t].found /\ tx[t].at = "dequeue"

=============================================================================
