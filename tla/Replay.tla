------------------------------- MODULE Replay -------------------------------
(***************************************************************************)
(* apps/worker/src/executor.ts: how one claim of a run is executed.  A     *)
(* task's code calls durable primitives; each takes the next position of   *)
(* the ledger, is answered from the snapshot when that position is already *)
(* recorded, and otherwise does its work and reports it.  The execution is *)
(* suspended, and ended, by exceptions thrown into the task's own code,    *)
(* which may catch them; it may also call primitives concurrently, and     *)
(* leave some of them behind when it returns.                              *)
(*                                                                         *)
(* One run; RunKernel has the many.  Kernel transactions are one step each *)
(* and their answers another, so that everybody else moves in between.     *)
(***************************************************************************)
EXTENDS Naturals, FiniteSets, Sequences

CONSTANTS
    Exec,         \* executions, one per claim
    Branch,       \* bound: concurrent branches of the task's code, in all executions together
    Legacy,       \* those whose rows may be there from before fingerprints existed
    Calls,        \* call sites the task's code can reach: kind, label, input
    MaxPos,       \* bound: positions of the ledger
    MaxAttempts,  \* runs.max_attempts
    MaxTold,      \* bound: executions that are told to stop
    None          \* no execution, no label, no fingerprint

Kind == {"step", "now", "wait", "child", "batch"}

ASSUME ReplayAssumption ==
    /\ \A c \in Calls : c.kind \in Kind
    /\ MaxPos \in Nat /\ MaxAttempts \in Nat \ {0} /\ MaxTold \in Nat
    /\ None \notin Exec

VARIABLES
    status,   \* of the run, in the kernel
    holder,   \* the execution whose claim is the current one
    attempt,
    ledger,   \* run_steps: per position its completed row
    parked,   \* the position and call the run waits at
    main,     \* per execution: where execute() is: validating, in run(), wrapping up
    branch,   \* per execution and branch: what that part of the task's code does
    mind,     \* per execution: what the executor knows
    ends      \* per execution: the ends the kernel accepted from it (history)

replayVars == <<status, holder, attempt, ledger, parked, main, branch, mind, ends>>
kernelVars == <<status, holder, attempt, ledger, parked, ends>>

Pos == 0 .. (MaxPos - 1)

\* Only a step and a batch store their label; every row stores what its call
\* hashes to.
RecordedLabel(c) == IF c.kind \in {"step", "batch"} THEN c.label ELSE None
Fingerprint(c, label) == <<c.kind, label, c.input>>

\* A failed row is told apart from no row by nobody here: it is not replayed, and
\* the next report overwrites it.
NoRow == [kind |-> None, label |-> None, fp |-> None]
RowOf(c) == [kind |-> c.kind, label |-> RecordedLabel(c), fp |-> Fingerprint(c, RecordedLabel(c))]
\* A row from before fingerprints existed.
LegacyRow(c) == [RowOf(c) EXCEPT !.fp = None]

NoErr    == "none"
Idle     == [at |-> "off", op |-> "none", pos |-> 0, call |-> None, err |-> NoErr]
UserCode == [Idle EXCEPT !.at = "user"]
Left     == [Idle EXCEPT !.at = "left"]
Unborn   == [seq |-> 0, view |-> [q \in Pos |-> NoRow], abandoned |-> FALSE, signal |-> "none",
             canceled |-> FALSE, told |-> FALSE, result |-> "none"]

Nowhere  == [pos |-> 0, call |-> None]

ReplayInit ==
    /\ status = "queued" /\ holder = None /\ attempt = 1
    /\ ledger \in {[q \in Pos |-> NoRow]} \cup
                  {[q \in Pos |-> IF q = 0 THEN LegacyRow(c) ELSE NoRow] : c \in Legacy}
    /\ parked = Nowhere
    /\ main = [e \in Exec |-> Idle]
    /\ branch = [e \in Exec |-> [b \in Branch |-> Idle]]
    /\ mind = [e \in Exec |-> Unborn]
    /\ ends = [e \in Exec |-> <<>>]

----------------------------------------------------------------------------
\* The rest of the deployment, as RunKernel has it

AnyRunning(e) == status = "running"
Accepted(e) == status = "running" /\ holder = e

\* Branches no execution has had yet.
Fresh == {b \in Branch : \A e \in Exec : branch[e][b] = Idle}

\* The claim and its snapshot.  A truncated ledger fails the run at once.
Start(e) ==
    /\ status = "queued" /\ main[e] = Idle /\ mind[e] = Unborn
    /\ status' = "running" /\ holder' = e
    /\ mind' = [mind EXCEPT ![e].view = ledger]
    /\ \E first \in {[Idle EXCEPT !.at = "validate"], [Idle EXCEPT !.at = "call", !.op = "refuse"]} :
          main' = [main EXCEPT ![e] = first]
    /\ UNCHANGED <<attempt, ledger, parked, branch, ends>>

Cancel ==
    /\ status \in {"queued", "running", "waiting"}
    /\ status' = "canceled" /\ holder' = None
    /\ UNCHANGED <<attempt, ledger, parked, main, branch, mind, ends>>

\* (bound: while an execution is left to take the run)
Reap ==
    /\ status = "running" /\ \E e \in Exec : main[e] = Idle
    /\ status' = "queued" /\ holder' = None
    /\ UNCHANGED <<attempt, ledger, parked, main, branch, mind, ends>>

\* A timer falls due or the child ends: the wait's row is written with the
\* fingerprint that the suspend left on the waits row.
Resume ==
    /\ status = "waiting"
    /\ status' = "queued"
    /\ ledger' = [ledger EXCEPT ![parked.pos] = RowOf(parked.call)]
    /\ parked' = Nowhere
    /\ UNCHANGED <<holder, attempt, main, branch, mind, ends>>

\* markCanceled, when a heartbeat says so; markShuttingDown, at any time, and
\* markLost do no more than ctx.signal does.  The worker has the execution at hand
\* until execute() returns: while it validates and reports as well.
Told(e, canceled) ==
    /\ main[e].at \notin {"off", "over"}
    /\ mind[e].told \/ Cardinality({x \in Exec : mind[x].told}) < MaxTold
    /\ canceled => status = "canceled"
    /\ mind' = [mind EXCEPT ![e].canceled = @ \/ canceled, ![e].told = TRUE]
    /\ mind' # mind
    /\ UNCHANGED <<kernelVars, main, branch>>

----------------------------------------------------------------------------
\* A durable primitive is called

\* cached: what the snapshot may say of this position and this call site.  A
\* row that only its label tells apart is drift to a strict task and a hit to a
\* lenient one.
Verdicts(row, c) ==
    IF row = NoRow THEN {"miss"}
    ELSE IF row.kind # c.kind THEN {"drift"}
    ELSE IF row.fp = None THEN {"hit"}
    ELSE IF row.fp # Fingerprint(c, row.label) THEN {"drift"}
    ELSE IF row.label # RecordedLabel(c) THEN {"drift", "hit"}
    ELSE {"hit"}

Throw(e, b, err) ==
    branch' = [branch EXCEPT ![e][b] = [Idle EXCEPT !.at = "thrown", !.err = err]]
Await(e, b, at, op, q, c) ==
    branch' = [branch EXCEPT ![e][b] = [Idle EXCEPT !.at = at, !.op = op, !.pos = q, !.call = c]]

\* endExecution: the signal is noted as it is thrown.
Ended(e) == [mind[e] EXCEPT !.abandoned = TRUE, !.signal = "done"]

\* A fan-out and a clock reading are recorded as a step is, by the transaction
\* that does the work or by a report.
OpOf(c) == IF c.kind \in {"wait", "child"} THEN "wait" ELSE "report"

\* beginPrimitive, cached and checkCanceled run without giving way.
Unnoticed(e) == FALSE
Swallowed(e) == mind[e].signal # "none"
Primitive(e, b, c) ==
    LET me == mind[e] IN
    /\ branch[e][b].at = "user"
    /\ \/ /\ Swallowed(e)
          /\ Throw(e, b, "abort")
          /\ UNCHANGED mind
       \/ /\ ~Swallowed(e) /\ me.abandoned
          /\ Throw(e, b, "done")
          /\ mind' = [mind EXCEPT ![e] = Ended(e)]
       \/ /\ ~Swallowed(e) /\ ~me.abandoned
          /\ me.seq < MaxPos
          /\ LET next == [me EXCEPT !.seq = @ + 1] IN
             \E verdict \in Verdicts(me.view[me.seq], c) :
                 \/ /\ verdict = "drift"
                    /\ Throw(e, b, "abort")
                    /\ mind' = [mind EXCEPT ![e] = next]
                 \/ /\ verdict = "hit"
                    /\ mind' = [mind EXCEPT ![e] = next]
                    /\ UNCHANGED branch
                 \/ /\ verdict = "miss" /\ me.canceled
                    /\ Throw(e, b, "done")
                    /\ mind' = [mind EXCEPT ![e] = [Ended(e) EXCEPT !.seq = @ + 1]]
                 \/ /\ verdict = "miss" /\ ~me.canceled
                    /\ Await(e, b, IF c.kind = "step" THEN "body" ELSE "call", OpOf(c), me.seq, c)
                    /\ mind' = [mind EXCEPT ![e] = next]
    /\ UNCHANGED <<kernelVars, main>>

\* The body of a step returns, or throws: an error of its own, an AbortError, a
\* primitive nested in it (an AbortError too), or the abort of ctx.signal.
Body(e, b) ==
    LET me == branch[e][b] IN
    /\ me.at = "body"
    /\ \/ /\ Await(e, b, "call", "report", me.pos, me.call)
          /\ UNCHANGED mind
       \/ /\ mind[e].told              \* abandonIfAborted
          /\ Throw(e, b, "done")
          /\ mind' = [mind EXCEPT ![e] = Ended(e)]
       \/ /\ ~mind[e].told
          /\ \E err \in {"plain", "abort"} :
                branch' = [branch EXCEPT ![e][b] = [me EXCEPT !.at = "call", !.op = "reportFailed",
                                                              !.err = err]]
          /\ UNCHANGED mind
    /\ UNCHANGED <<kernelVars, main>>

----------------------------------------------------------------------------
\* The kernel

\* upsertStep: a completed row is never overwritten; a report of other code is
\* refused, of the same code it is a no-op.
Clashes(q, c) == ledger[q].fp \notin {None, RowOf(c).fp}

Put(q, c) == ledger' = IF ledger[q] = NoRow THEN [ledger EXCEPT ![q] = RowOf(c)] ELSE ledger

End(e, st, how) ==
    /\ status' = st /\ holder' = IF st = "running" THEN holder ELSE None
    /\ ends' = [ends EXCEPT ![e] = Append(@, how)]

\* failRun: a retry while attempts are left, unless the failure is an AbortError.
Fail(e, abort) ==
    IF ~abort /\ attempt < MaxAttempts
    THEN End(e, "queued", "failed") /\ attempt' = attempt + 1
    ELSE End(e, "failed", "failed") /\ UNCHANGED attempt

\* What a transaction of an accepted execution does, and what it answers.
Effect(e, me, ans) ==
    CASE me.op = "report" ->
            /\ \/ ans = "ok" /\ ~Clashes(me.pos, me.call) /\ Put(me.pos, me.call)
               \/ ans = "unfixable" /\ UNCHANGED ledger
            /\ UNCHANGED <<status, holder, attempt, parked, ends>>
      [] me.op = "reportFailed" ->
            ans = "ok" /\ UNCHANGED <<status, holder, attempt, ledger, parked, ends>>
      [] me.op = "wait" ->
            \/ /\ ans = "resumed" /\ me.call.kind = "wait" /\ Put(me.pos, me.call)
               /\ UNCHANGED <<status, holder, attempt, parked, ends>>
            \/ /\ ans = "ok" /\ End(e, "waiting", "suspended")
               /\ parked' = [pos |-> me.pos, call |-> me.call]
               /\ UNCHANGED <<attempt, ledger>>
            \/ /\ ans = "unfixable" /\ me.call.kind = "child"
               /\ UNCHANGED <<status, holder, attempt, ledger, parked, ends>>
      [] me.op = "complete" ->
            \/ /\ ans = "ok" /\ End(e, "completed", "completed")
               /\ UNCHANGED <<attempt, ledger, parked>>
            \/ ans = "unfixable" /\ UNCHANGED <<status, holder, attempt, ledger, parked, ends>>
      [] me.op \in {"fail", "failAbort", "refuse"} ->
            ans = "ok" /\ Fail(e, me.op # "fail") /\ UNCHANGED <<ledger, parked>>
      [] OTHER -> FALSE

Answers == {"ok", "resumed", "unfixable", "refused", "error"}

\* The transaction of whoever calls: refused when the claim is gone; the answer
\* may be lost, and the transaction with it or not.
Transaction(e, me, ans) ==
    /\ me.at = "call"
    /\ \/ /\ ~Accepted(e)
          /\ ans \in {"refused", "error"}
          /\ UNCHANGED kernelVars
       \/ /\ Accepted(e)
          /\ \/ ans # "error" /\ Effect(e, me, ans)
             \/ ans = "error" /\ \/ UNCHANGED kernelVars
                                 \/ \E done \in {"ok", "resumed"} : Effect(e, me, done)

Commit(e, b) ==
    /\ \E ans \in Answers :
          /\ Transaction(e, branch[e][b], ans)
          /\ branch' = [branch EXCEPT ![e][b].at = ans]
    /\ UNCHANGED <<main, mind>>

MainCommit(e) ==
    /\ \E ans \in Answers :
          /\ Transaction(e, main[e], ans)
          /\ main' = [main EXCEPT ![e].at = ans]
    /\ UNCHANGED <<branch, mind>>

----------------------------------------------------------------------------
\* The answer reaches the primitive that waits for it

Continue(e, b) == branch' = [branch EXCEPT ![e][b] = UserCode]

Answered(e, b) ==
    LET me == branch[e][b]
        lost == me.at = "refused" /\ Throw(e, b, "done") /\ mind' = [mind EXCEPT ![e] = Ended(e)]
    IN
    /\ CASE me.op = "report" ->
               \/ me.at = "ok" /\ Continue(e, b) /\ UNCHANGED mind
               \/ lost
               \/ me.at = "unfixable" /\ Throw(e, b, "abort") /\ UNCHANGED mind
               \/ me.at = "error" /\ Throw(e, b, "plain") /\ UNCHANGED mind
         [] me.op = "wait" ->
               \/ me.at = "resumed" /\ Continue(e, b) /\ UNCHANGED mind
               \/ /\ me.at = "ok" /\ Throw(e, b, "suspend")
                  /\ mind' = [mind EXCEPT ![e].signal = "suspend"]
               \/ lost
               \/ me.at = "unfixable" /\ Throw(e, b, "abort") /\ UNCHANGED mind
               \/ me.at = "error" /\ Throw(e, b, "plain") /\ UNCHANGED mind
         [] me.op = "reportFailed" ->                        \* onStepError
               \/ lost
               \/ /\ me.at \in {"ok", "error"}
                  /\ branch' = [branch EXCEPT ![e][b].at = "call",
                                   ![e][b].op = IF me.err = "abort" THEN "failAbort" ELSE "fail"]
                  /\ UNCHANGED mind
         [] me.op \in {"fail", "failAbort"} ->
               /\ me.at \in {"ok", "error", "refused"}
               /\ Throw(e, b, "done")
               /\ mind' = [mind EXCEPT ![e].signal = "done",
                                       ![e].abandoned = @ \/ me.at = "refused"]
         [] OTHER -> FALSE
    /\ UNCHANGED <<kernelVars, main>>

----------------------------------------------------------------------------
\* The task's own code

\* It throws an error of its own, or catches what was thrown at it and goes on.
OwnError(e, b) ==
    /\ branch[e][b].at = "user"
    /\ \E err \in {"plain", "abort"} : Throw(e, b, err)
    /\ UNCHANGED <<kernelVars, main, mind>>

Catch(e, b) ==
    /\ branch[e][b].at = "thrown"
    /\ Continue(e, b)
    /\ UNCHANGED <<kernelVars, main, mind>>

\* A branch whose end nobody awaits.
Leave(e, b) ==
    /\ branch[e][b].at \in {"user", "thrown"}
    /\ main[e].at # "run"
    /\ branch' = [branch EXCEPT ![e][b] = Left]
    /\ UNCHANGED <<kernelVars, main, mind>>

Over(e, result) ==
    /\ main' = [main EXCEPT ![e] = [Idle EXCEPT !.at = "over"]]
    /\ mind' = [mind EXCEPT ![e].result = result,
                            ![e].abandoned = @ \/ (main[e].op # "complete" /\ main[e].at = "refused")]
Report(e, op) ==
    /\ main' = [main EXCEPT ![e] = [Idle EXCEPT !.at = "call", !.op = op]]
    /\ UNCHANGED mind

OrFailed(e) == IF mind[e].abandoned THEN "abandoned" ELSE "failed"

\* task.validate, awaited, lets the task's code begin or throws at the payload.  Nobody
\* looks at the signal in between.
Validated(e) ==
    /\ main[e].at = "validate"
    /\ \/ \E S \in (SUBSET Fresh) \ {{}} :
             /\ main' = [main EXCEPT ![e] = [Idle EXCEPT !.at = "run"]]
             /\ branch' = [branch EXCEPT ![e] = [b \in Branch |-> IF b \in S THEN UserCode ELSE Idle]]
             /\ UNCHANGED mind
       \/ Report(e, "refuse") /\ UNCHANGED branch
    /\ UNCHANGED kernelVars

\* run() returns.  After a signal its value is worth nothing (endedWithoutUs).
ReturnOf(e) ==
    \/ mind[e].signal = "suspend" /\ Over(e, "suspended")
    \/ mind[e].signal = "done" /\ Over(e, OrFailed(e))
    \/ mind[e].signal = "none" /\ mind[e].abandoned /\ Over(e, "abandoned")
    \/ mind[e].signal = "none" /\ ~mind[e].abandoned /\ Report(e, "complete")

Return(e, b) ==
    /\ main[e].at = "run" /\ branch[e][b].at = "user"
    /\ ReturnOf(e)
    /\ branch' = [branch EXCEPT ![e][b] = Left]
    /\ UNCHANGED kernelVars

\* handleThrown: an exception leaves run().
BlameTask(e, err) ==
    \/ err = "suspend" /\ Over(e, "suspended")
    \/ err = "done" /\ Over(e, OrFailed(e))
    \/ err \in {"plain", "abort"} /\ Report(e, IF err = "abort" THEN "failAbort" ELSE "fail")
VerdictOnError(e, err) ==
    \/ err = "suspend" /\ Over(e, "suspended")
    \/ err = "done" /\ Over(e, OrFailed(e))
    \/ err \in {"plain", "abort"} /\ (mind[e].abandoned \/ mind[e].told) /\ Over(e, "abandoned")
    \/ /\ err \in {"plain", "abort"} /\ ~mind[e].abandoned /\ ~mind[e].told
       /\ Report(e, IF err = "abort" THEN "failAbort" ELSE "fail")

HandleThrown(e, b) ==
    /\ main[e].at = "run" /\ branch[e][b].at = "thrown"
    /\ VerdictOnError(e, branch[e][b].err)
    /\ branch' = [branch EXCEPT ![e][b] = Left]
    /\ UNCHANGED kernelVars

\* The answer to completeRun or failRun.  An output that cannot be stored fails
\* the run instead; an unclassified error leaves the run to the reaper.
MainAnswered(e) ==
    LET me == main[e] IN
    /\ \/ me.op = "complete" /\ me.at = "ok" /\ Over(e, "completed")
       \/ me.op = "complete" /\ me.at = "refused" /\ Over(e, "abandoned")
       \/ me.op = "complete" /\ me.at = "unfixable" /\ Report(e, "refuse")
       \/ me.op = "complete" /\ me.at = "error" /\ Over(e, "thrown")
       \/ /\ me.op \in {"fail", "failAbort"} /\ me.at \in {"ok", "error", "refused"}
          /\ Over(e, IF me.at = "refused" THEN "abandoned" ELSE OrFailed(e))
       \/ /\ me.op = "refuse" /\ me.at \in {"ok", "error", "refused"}
          /\ Over(e, "failed")
    /\ UNCHANGED <<kernelVars, branch>>

Code(e, b) == \/ \E c \in Calls : Primitive(e, b, c)
              \/ Body(e, b) \/ OwnError(e, b) \/ Catch(e, b) \/ Leave(e, b)
              \/ Return(e, b) \/ HandleThrown(e, b)
Kernel(e) == \/ \E b \in Branch : Commit(e, b) \/ Answered(e, b)
             \/ MainCommit(e) \/ MainAnswered(e)

ReplayNext ==
    \/ \E e \in Exec :
          \/ Start(e) \/ Validated(e)
          \/ \E canceled \in BOOLEAN : Told(e, canceled)
          \/ \E b \in Branch : Code(e, b)
          \/ Kernel(e)
    \/ Cancel \/ Reap \/ Resume

ReplaySpec == ReplayInit /\ [][ReplayNext]_replayVars

----------------------------------------------------------------------------
\* A branch that does the work of a position, or reports it.
Working(x) == x.at = "body" \/ (x.at = "call" /\ x.op \in {"report", "wait"})

\* What a claim has done is done once.  While its holder is inside the body of a step,
\* or reports it, the ledger has no completed row at that position; it ends its run
\* at most once, whatever its branches report beside run() itself; and the end that
\* execute() answers with is that one, also when the task's code swallowed the signal.
\* (executor.ts doStep and cached, on the snapshot of the claim, with the kernel's
\* fencing; endedWithoutUs, endSignal.)
RecordedNeverReruns ==
    \A e \in Exec, b \in Branch :
        Accepted(e) /\ Working(branch[e][b]) => ledger[branch[e][b].pos] = NoRow
OneEndPerClaim ==
    \A e \in Exec :
        /\ Len(ends[e]) <= 1
        /\ mind[e].result \in {"completed", "suspended"} => ends[e] = <<mind[e].result>>
NothingDoneTwice == RecordedNeverReruns /\ OneEndPerClaim

\* An execution told to stop (canceled, drained, lease lost) fails neither a step nor
\* the run any more for what its code throws, wherever run(), a branch or a step's body
\* throws it: it ends the report it had begun, and abandons.  Two failures it may still
\* begin, because execute() does not look at abortReason there, and both are verdicts
\* on data and not on an exception of run(): task.validate threw at the payload, and
\* completeRun could not record the output.  Those never cost an attempt: they end the run.
\* (executor.ts abandonIfAborted, handleThrown and the two exceptions in execute.)
Blames(x) == x.op \in {"reportFailed", "fail", "failAbort", "refuse"}
DataRefused(e) == \/ main[e].at = "validate"
                  \/ main[e].op = "complete" /\ main[e].at = "unfixable"
AbortIsNotAFailure ==
    [][\A e \in Exec : mind[e].told =>
          /\ Blames(main'[e]) => Blames(main[e]) \/ (main'[e].op = "refuse" /\ DataRefused(e))
          /\ \A b \in Branch : Blames(branch'[e][b]) => Blames(branch[e][b])]_replayVars

\* Once the executor knows that its run is suspended, ended or lost, no further
\* body of a step starts and no further durable call is made, whatever the task's
\* code catches.  (executor.ts assertSignalNotSwallowed, beginPrimitive.)
NothingAfterSignal ==
    [][\A e \in Exec, b \in Branch :
          mind[e].signal # "none" \/ mind[e].abandoned =>
              \/ branch'[e][b].at \notin {"body", "call"}
              \/ branch[e][b].at \in {"body", "call"}
              \/ branch'[e][b].op \in {"fail", "failAbort"}]_replayVars
=============================================================================
