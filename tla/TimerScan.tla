----------------------------- MODULE TimerScan -----------------------------
(***************************************************************************)
(* The waits loop of the daemons (packages/kernel/src/orchestrator.ts      *)
(* scanWaits) in one namespace: a tick reads some of the timers that are   *)
(* due and some of the waits whose child is gone, without a lock, and then *)
(* settles them one transaction at a time.  The loops of all daemons read  *)
(* the same rows; RunKernel has what a transaction does to the run.        *)
(***************************************************************************)
EXTENDS Naturals, FiniteSets, Sequences, SequencesExt

CONSTANTS
    Timer,        \* runs that wait for a time, again and again
    Orphan,       \* waits for a child, named by the id of their row
    WaitLoop,     \* the daemons' loops
    TimerLimit,   \* LIMIT of the timer scan
    OrphanLimit,  \* and of the orphan scan
    MaxFailures   \* bound: transactions that fail

ASSUME TimerScanAssumption ==
    /\ Orphan \subseteq Nat /\ Timer \cap Orphan = {}
    /\ TimerLimit \in Nat \ {0} /\ OrphanLimit \in Nat \ {0} /\ MaxFailures \in Nat

VARIABLES
    overdue,   \* the pending timers that are due, ordered by resume_at
    bereft,    \* pending waits without a child
    vanished,  \* waits whose child is gone (history)
    batch,     \* per loop: what its tick has left to do
    holds,     \* loops that hold the run row of the first of it
    failures

timerVars == <<overdue, bereft, vanished, batch, holds, failures>>

TimerInit ==
    /\ overdue = <<>> /\ bereft = {} /\ vanished = {}
    /\ batch = [l \in WaitLoop |-> <<>>] /\ holds = {}
    /\ failures = 0

Pending(w) == Contains(overdue, w) \/ w \in bereft
SettledWait(w) == overdue' = SelectSeq(overdue, LAMBDA t : t # w) /\ bereft' = bereft \ {w}
Holder(w)  == {l \in holds : Head(batch[l]) = w}

\* A time passes.  The next wait of a run is another row, so that it is not the one a
\* batch may still name.
TimerDue(t) ==
    /\ ~Pending(t) /\ \A l \in WaitLoop : ~Contains(batch[l], t)
    /\ overdue' = Append(overdue, t)
    /\ UNCHANGED <<bereft, vanished, batch, holds, failures>>

\* Retention or the user deletes the child.
ChildVanishes(o) ==
    /\ o \notin vanished /\ vanished' = vanished \cup {o}
    /\ bereft' = bereft \cup {o}
    /\ UNCHANGED <<overdue, batch, holds, failures>>

\* The run is canceled, and its waits with it.
CanceledWait(w) ==
    /\ Pending(w) /\ Holder(w) = {} /\ SettledWait(w)
    /\ UNCHANGED <<vanished, batch, holds, failures>>

----------------------------------------------------------------------------
\* Phase 1.  Postgres puts the waits without a resume_at last: one scan for both kinds
\* would never come to them.
FirstOf(rows, n) == SubSeq(rows, 1, IF n < Len(rows) THEN n ELSE Len(rows))
ById(S) == SetToSortSeq(S, <)
OneWindow  == FirstOf(overdue \o ById(bereft), TimerLimit)
DueWaits == FirstOf(overdue, TimerLimit) \o FirstOf(ById(bereft), OrphanLimit)

WaitTick(l) ==
    /\ batch[l] = <<>> /\ DueWaits # <<>>
    /\ batch' = [batch EXCEPT ![l] = DueWaits]
    /\ UNCHANGED <<overdue, bereft, vanished, holds, failures>>

\* Phase 2: a row that another loop holds, or a wait that is no longer pending, is left.
TakeWait(l) ==
    /\ batch[l] # <<>> /\ l \notin holds
    /\ LET w == Head(batch[l])
       IN  IF Pending(w) /\ Holder(w) = {}
           THEN holds' = holds \cup {l} /\ UNCHANGED batch
           ELSE batch' = [batch EXCEPT ![l] = Tail(@)] /\ UNCHANGED holds
    /\ UNCHANGED <<overdue, bereft, vanished, failures>>

SettleWait(l) ==
    /\ l \in holds
    /\ SettledWait(Head(batch[l]))
    /\ batch' = [batch EXCEPT ![l] = Tail(@)] /\ holds' = holds \ {l}
    /\ UNCHANGED <<vanished, failures>>

\* A transaction that fails rolls back, and ends the tick: the rest of the batch is left
\* to the next one.  A daemon that dies leaves no more behind.
TickFails(l) ==
    /\ batch[l] # <<>> /\ failures < MaxFailures
    /\ failures' = failures + 1
    /\ batch' = [batch EXCEPT ![l] = <<>>] /\ holds' = holds \ {l}
    /\ UNCHANGED <<overdue, bereft, vanished>>

TimerNext ==
    \/ \E t \in Timer : TimerDue(t)
    \/ \E o \in Orphan : ChildVanishes(o)
    \/ \E w \in Timer \cup Orphan : CanceledWait(w)
    \/ \E l \in WaitLoop : WaitTick(l) \/ TakeWait(l) \/ SettleWait(l) \/ TickFails(l)

\* The interval fires again, and a tick that has begun goes on.
WaitLoopStep(l) == WaitTick(l) \/ TakeWait(l) \/ SettleWait(l)
TimerFairness == \A l \in WaitLoop : WF_timerVars(WaitLoopStep(l))

TimerSpec == TimerInit /\ [][TimerNext]_timerVars /\ TimerFairness

----------------------------------------------------------------------------
\* Every due timer, and every wait that lost its child, is settled, although timers keep
\* falling due, ticks hold some rows only, the loops of the daemons skip each other's
\* rows and transactions fail; it takes failures that cease, for a wait that fails
\* at every tick keeps the ones behind it waiting.  (orchestrator.ts scanDueWaits: "Each
\* scan gets its own LIMIT", resumeOneWait: "Skipping cannot lose a resume".)
DueWaitsSettle == \A w \in Timer \cup Orphan : []<>~Pending(w)
=============================================================================
