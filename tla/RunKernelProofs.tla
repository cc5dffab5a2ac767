-------------------------- MODULE RunKernelProofs --------------------------
(***************************************************************************)
(* Theorems about RunKernel, for every set of runs, workers, slots and     *)
(* step positions and every limit the assumptions admit.                   *)
(***************************************************************************)
EXTENDS RunKernel, TLAPS

----------------------------------------------------------------------------
\* What the helpers over the tables return

\* A wake writes step rows and nothing else.
LEMMA LedgerAfterWakeType ==
    ASSUME NEW c \in Run, NEW ok \in BOOLEAN, ledger \in [Run -> [Seq -> StepRow]]
    PROVE  LedgerAfterWake(c, ok) \in [Run -> [Seq -> StepRow]]
<1>1. AnswerOf(c, ok) \in StepRow
  BY DEF AnswerOf, StepRow
<1>2. ASSUME NEW p \in Run, NEW q \in Seq
      PROVE  Upsert(ledger[p][q], AnswerOf(c, ok)) \in StepRow
  BY <1>1 DEF Upsert
<1> QED BY <1>2 DEF LedgerAfterWake

\* The terminal wrap-up keeps every table it writes well typed.
LEMMA FinishType ==
    ASSUME TypeOK, NEW r \in Run, NEW final \in Terminal, Finish(r, final)
    PROVE  /\ status' \in [Run -> Status]
           /\ queueRow' \in [Run -> Worker \cup {Free, NoRow}]
           /\ expired' \subseteq Run
           /\ ledger' \in [Run -> [Seq -> StepRow]]
           /\ waits' \subseteq Wait
<1>1. AnswersOk(final) \in BOOLEAN
  BY DEF AnswersOk
<1>2. ledger' \in [Run -> [Seq -> StepRow]]
  BY <1>1, LedgerAfterWakeType DEF Finish, TypeOK
<1>3. status' \in [Run -> Status]
  BY DEF Finish, TypeOK, Status, Terminal, Live
<1>4. /\ queueRow' \in [Run -> Worker \cup {Free, NoRow}]
      /\ expired' \subseteq Run
      /\ waits' \subseteq Wait
  BY DEF Finish, TypeOK
<1> QED BY <1>2, <1>3, <1>4

\* The slot of an executor whose writes are accepted holds a real claim.
LEMMA AcceptedJob ==
    ASSUME TypeOK, NEW s \in Slot, Accepted(s)
    PROVE  /\ job[s].run \in Run
           /\ job[s].loaded
           /\ status[job[s].run] = "running"
           /\ queueRow[job[s].run] = WorkerOf[s]
           /\ WorkerOf[s] \in Worker
           /\ token[job[s].run] = job[s].tok
  BY KernelAssumption DEF TypeOK, Job, Idle, Accepted, HoldsRow

----------------------------------------------------------------------------
\* Type correctness

LEMMA InitType == Init => TypeOK
  BY KernelAssumption DEF Init, TypeOK, Status, Live, Terminal, StepOf, StepRow, Idle, Job, Wait

LEMMA RecordStepType ==
    ASSUME TypeOK, NEW s \in Slot, NEW q \in Seq, NEW row \in StepRow, RecordStep(s, q, row)
    PROVE  /\ ledger' \in [Run -> [Seq -> StepRow]]
           /\ job' \in [Slot -> Job]
           /\ \A t \in Slot : job'[t].run = NoRun => job'[t] = Idle
<1> DEFINE r == job[s].run
<1>1. r \in Run
  BY AcceptedJob DEF RecordStep
<1>2. Upsert(ledger[r][q], row) \in StepRow
  BY <1>1 DEF TypeOK, Upsert
<1>3. ledger' \in [Run -> [Seq -> StepRow]]
  BY <1>1, <1>2 DEF RecordStep, TypeOK
<1>4. job' \in [Slot -> Job]
  BY DEF RecordStep, TypeOK, Job
<1>5. \A t \in Slot : job'[t].run = NoRun => job'[t] = Idle
  BY <1>1, KernelAssumption DEF RecordStep, TypeOK, Job
<1> QED BY <1>3, <1>4, <1>5

\* Every action keeps the tables well typed.
LEMMA TypeStep == TypeOK /\ [Next]_vars => TypeOK'
<1> SUFFICES ASSUME TypeOK, [Next]_vars PROVE TypeOK'
  OBVIOUS
<1> USE KernelAssumption
<1>1. ASSUME NEW r \in Run, CreateRun(r) PROVE TypeOK'
  BY <1>1 DEF TypeOK, CreateRun, Created, history, Status, Live
<1>2. ASSUME NEW r \in Run, CancelRun(r) PROVE TypeOK'
  <2>1. Finish(r, "canceled")
    BY <1>2 DEF CancelRun
  <2> QED BY <1>2, <2>1, FinishType DEF CancelRun, TypeOK, history, Terminal
<1>3. ASSUME NEW r \in Run, PruneRun(r) PROVE TypeOK'
  <2>1. ASSUME NEW w \in WaitersOf(r) PROVE [w EXCEPT !.child = NoRun] \in Wait
    <3>1. w \in Wait
      BY DEF TypeOK, WaitersOf
    <3> QED BY <3>1 DEF Wait
  <2>2. waits' \subseteq Wait
    BY <1>3, <2>1 DEF PruneRun, TypeOK
  <2>3. StepOf("none") \in StepRow
    BY DEF StepOf, StepRow
  <2>4. ledger' \in [Run -> [Seq -> StepRow]]
    BY <1>3, <2>3 DEF PruneRun, TypeOK
  <2> QED BY <1>3, <2>2, <2>4 DEF PruneRun, TypeOK, history, Status
<1>4. ASSUME NEW s \in Slot, NEW r \in Run, ClaimTx(s, r) PROVE TypeOK'
  <2>1. NextToken(r) \in Nat
    BY DEF NextToken, TypeOK
  <2>2. job' \in [Slot -> Job] /\ \A t \in Slot : job'[t].run = NoRun => job'[t] = Idle
    BY <1>4, <2>1 DEF ClaimTx, TypeOK, Job
  <2> QED BY <1>4, <2>1, <2>2 DEF ClaimTx, TypeOK, history, Status, Live
<1>5. ASSUME NEW s \in Slot, ReadLedger(s) PROVE TypeOK'
  <2>1. CompletedSeqs(job[s].run) \in SUBSET Seq
    BY DEF CompletedSeqs
  <2>2. job' \in [Slot -> Job] /\ \A t \in Slot : job'[t].run = NoRun => job'[t] = Idle
    BY <1>5, <2>1, ZenonT(40) DEF ReadLedger, TypeOK, Job
  <2> QED BY <1>5, <2>2 DEF ReadLedger, TypeOK, kernelVars, history
<1>6. ASSUME NEW w \in Worker, Heartbeat(w) PROVE TypeOK'
  BY <1>6 DEF Heartbeat, TypeOK, history
<1>7. ASSUME NEW w \in Worker, NEW rs \in SUBSET Run, ReleaseClaims(w, rs) PROVE TypeOK'
  BY <1>7 DEF ReleaseClaims, TypeOK, Status, Live
<1>8. ASSUME NEW s \in Slot, EndExecution(s) PROVE TypeOK'
  BY <1>8 DEF EndExecution, TypeOK, kernelVars, history, Job, Idle
<1>9. ASSUME NEW s \in Slot, NEW q \in Seq, NEW st \in {"failed", "completed"},
             ReportStep(s, q, st)
      PROVE TypeOK'
  <2>1. StepOf(st) \in StepRow
    BY DEF StepOf, StepRow
  <2> QED BY <1>9, <2>1, RecordStepType DEF ReportStep, TypeOK, history
<1>10. ASSUME NEW s \in Slot, NEW q \in Seq, NEW kids \in SUBSET Run,
              NEW st \in {"failed", "completed"}, BatchTriggerChild(s, q, kids, st)
       PROVE TypeOK'
  <2>1. StepOf(st) \in StepRow
    BY DEF StepOf, StepRow
  <2> QED BY <1>10, <2>1, RecordStepType
          DEF BatchTriggerChild, Created, TypeOK, history, Status, Live
<1>11. ASSUME NEW s \in Slot, NEW q \in Seq, SuspendRun(s, q) PROVE TypeOK'
  <2>1. job[s].run \in Run
    BY <1>11, AcceptedJob DEF SuspendRun
  <2>2. [run |-> job[s].run, seq |-> q, kind |-> "timer", child |-> NoRun] \in Wait
    BY <2>1 DEF Wait
  <2> QED BY <1>11, <2>1, <2>2 DEF SuspendRun, Park, TypeOK, Status, Live
<1>12. ASSUME NEW s \in Slot, NEW q \in Seq, NEW c \in Run, WaitForChildRun(s, q, c)
       PROVE TypeOK'
  <2>1. job[s].run \in Run
    BY <1>12, AcceptedJob DEF WaitForChildRun
  <2>2. [run |-> job[s].run, seq |-> q, kind |-> "run", child |-> c] \in Wait
    BY <2>1 DEF Wait
  <2>3. status' \in [Run -> Status]
    BY <1>12, <2>1 DEF WaitForChildRun, TypeOK, Status, Live
  <2>4. queueRow' \in [Run -> Worker \cup {Free, NoRow}]
    BY <1>12, <2>1 DEF WaitForChildRun, TypeOK
  <2>5. suspended' \in [Run -> Nat]
    BY <1>12, <2>1 DEF WaitForChildRun, Park, TypeOK
  <2> QED BY <1>12, <2>2, <2>3, <2>4, <2>5 DEF WaitForChildRun, Park, TypeOK
<1>13. ASSUME NEW s \in Slot, CompleteRun(s) PROVE TypeOK'
  <2>1. job[s].run \in Run /\ Finish(job[s].run, "completed")
    BY <1>13, AcceptedJob DEF CompleteRun
  <2> QED BY <1>13, <2>1, FinishType DEF CompleteRun, TypeOK, history, Terminal
<1>14. ASSUME NEW s \in Slot, NEW limit \in RetryLimits, FailRunRetry(s, limit) PROVE TypeOK'
  <2>1. job[s].run \in Run
    BY <1>14, AcceptedJob DEF FailRunRetry
  <2> QED BY <1>14, <2>1 DEF FailRunRetry, Unlock, TypeOK, history, Status, Live
<1>15. ASSUME NEW s \in Slot, NEW limit \in RetryLimits, NEW abort \in BOOLEAN,
              FailRunTerminal(s, limit, abort)
       PROVE TypeOK'
  <2>1. job[s].run \in Run /\ Finish(job[s].run, "failed")
    BY <1>15, AcceptedJob DEF FailRunTerminal
  <2> QED BY <1>15, <2>1, FinishType DEF FailRunTerminal, TypeOK, history, Terminal
<1>16. ASSUME NEW r \in Run, LeaseExpires(r) PROVE TypeOK'
  BY <1>16 DEF LeaseExpires, TypeOK, history
<1>17. ASSUME NEW r \in Run, ReapRequeue(r) PROVE TypeOK'
  BY <1>17 DEF ReapRequeue, Recoverable, Unlock, TypeOK, history, Status, Live
<1>18. ASSUME NEW r \in Run, ReapExhausted(r) PROVE TypeOK'
  <2>1. Finish(r, "failed")
    BY <1>18 DEF ReapExhausted
  <2> QED BY <1>18, <2>1, FinishType DEF ReapExhausted, TypeOK, history, Terminal
<1>19. ASSUME NEW r \in Run, ReapDesynced(r) PROVE TypeOK'
  BY <1>19 DEF ReapDesynced, TypeOK, history
<1>20. ASSUME NEW w \in Wait, ResumeTimer(w) PROVE TypeOK'
  <2>1. w.run \in Run /\ w.seq \in Seq
    BY DEF Wait
  <2>2. Upsert(ledger[w.run][w.seq], StepOf("completed")) \in StepRow
    BY <2>1 DEF TypeOK, Upsert, StepOf, StepRow
  <2>3. ledger' \in [Run -> [Seq -> StepRow]]
    BY <1>20, <2>1, <2>2 DEF ResumeTimer, TypeOK
  <2> QED BY <1>20, <2>1, <2>3 DEF ResumeTimer, Unlock, TypeOK, history, Status, Live
<1>21. ASSUME NEW w \in Wait, ResumeStaleTimer(w) PROVE TypeOK'
  BY <1>21 DEF ResumeStaleTimer, TypeOK, history
<1>22. ASSUME NEW w \in Wait, FailOrphan(w) PROVE TypeOK'
  <2>1. w.run \in Run /\ Finish(w.run, "failed")
    BY <1>22 DEF FailOrphan, Wait
  <2> QED BY <1>22, <2>1, FinishType DEF FailOrphan, TypeOK, history, Terminal
<1>23. ASSUME NEW w \in Wait, RetireOrphan(w) PROVE TypeOK'
  BY <1>23 DEF RetireOrphan, TypeOK, history
<1>24. ASSUME NEW c \in Run, HealStuckWaits(c) PROVE TypeOK'
  <2>1. AnswersOk(status[c]) \in BOOLEAN
    BY DEF AnswersOk
  <2>2. ledger' \in [Run -> [Seq -> StepRow]]
    BY <1>24, <2>1, LedgerAfterWakeType DEF HealStuckWaits, TypeOK
  <2> QED BY <1>24, <2>2 DEF HealStuckWaits, TypeOK, history, Status, Live
<1>25. CASE UNCHANGED vars
  BY <1>25 DEF vars, TypeOK
<1> QED
  BY <1>1, <1>2, <1>3, <1>4, <1>5, <1>6, <1>7, <1>8, <1>9, <1>10, <1>11, <1>12, <1>13,
     <1>14, <1>15, <1>16, <1>17, <1>18, <1>19, <1>20, <1>21, <1>22, <1>23, <1>24, <1>25
  DEF Next, ClientNext, ClaimNext, ExecutorNext, FencedNext, WorkerNext, OrchestratorNext,
      ReapNext, WaitNext, RetryRun, SuspendDue

\* The tables and the executors' snapshots always have the shape the schema and
\* the executor give them; recoveries never exceed max_recoveries.
THEOREM TypeCorrect == Spec => []TypeOK
  BY InitType, TypeStep, PTL DEF Spec

----------------------------------------------------------------------------
\* The queue and the runs table

\* Ending a run that may end leaves its row and its woken parents' rows right.
LEMMA FinishQueue ==
    ASSUME TypeOK, QueueMatchesStatus, NEW r \in Run, NEW final \in Terminal, Finish(r, final)
    PROVE  QueueMatchesStatus'
<1>1. ASSUME NEW p \in Run
      PROVE  /\ queueRow'[p] = Free <=> status'[p] = "queued"
             /\ queueRow'[p] \in Worker <=> status'[p] = "running"
             /\ p \in expired' => status'[p] = "running"
  BY KernelAssumption DEF Finish, TypeOK, QueueMatchesStatus, Terminal
<1> QED BY <1>1 DEF QueueMatchesStatus

LEMMA QueueStep == TypeOK /\ QueueMatchesStatus /\ [Next]_vars => QueueMatchesStatus'
<1> SUFFICES ASSUME TypeOK, QueueMatchesStatus, [Next]_vars PROVE QueueMatchesStatus'
  OBVIOUS
<1> USE KernelAssumption
<1>1. ASSUME NEW r \in Run, CreateRun(r) PROVE QueueMatchesStatus'
  BY <1>1 DEF TypeOK, QueueMatchesStatus, CreateRun, Created
<1>2. ASSUME NEW r \in Run, CancelRun(r) PROVE QueueMatchesStatus'
  BY <1>2, FinishQueue DEF CancelRun, Terminal
<1>3. ASSUME NEW r \in Run, PruneRun(r) PROVE QueueMatchesStatus'
  BY <1>3 DEF PruneRun, TypeOK, QueueMatchesStatus
<1>4. ASSUME NEW s \in Slot, NEW r \in Run, ClaimTx(s, r) PROVE QueueMatchesStatus'
  BY <1>4 DEF ClaimTx, TypeOK, QueueMatchesStatus
<1>5. ASSUME NEW w \in Worker, Heartbeat(w) PROVE QueueMatchesStatus'
  BY <1>5 DEF Heartbeat, QueueMatchesStatus
<1>6. ASSUME NEW w \in Worker, NEW rs \in SUBSET Run, ReleaseClaims(w, rs)
      PROVE  QueueMatchesStatus'
  BY <1>6 DEF ReleaseClaims, TypeOK, QueueMatchesStatus
<1>7. ASSUME NEW s \in Slot, NEW q \in Seq, NEW kids \in SUBSET Run,
             NEW st \in {"failed", "completed"}, BatchTriggerChild(s, q, kids, st)
      PROVE QueueMatchesStatus'
  BY <1>7 DEF BatchTriggerChild, Created, TypeOK, QueueMatchesStatus
<1>8. ASSUME NEW s \in Slot, NEW q \in Seq, SuspendRun(s, q) PROVE QueueMatchesStatus'
  <2>1. job[s].run \in Run
    BY <1>8, AcceptedJob DEF SuspendRun
  <2> QED BY <1>8, <2>1 DEF SuspendRun, Park, TypeOK, QueueMatchesStatus
<1>9. ASSUME NEW s \in Slot, NEW q \in Seq, NEW c \in Run, WaitForChildRun(s, q, c)
      PROVE QueueMatchesStatus'
  <2>1. job[s].run \in Run /\ status[job[s].run] = "running"
    BY <1>9, AcceptedJob DEF WaitForChildRun
  <2> QED BY <1>9, <2>1 DEF WaitForChildRun, Park, TypeOK, QueueMatchesStatus
<1>10. ASSUME NEW s \in Slot, CompleteRun(s) PROVE QueueMatchesStatus'
  BY <1>10, AcceptedJob, FinishQueue DEF CompleteRun, Terminal
<1>11. ASSUME NEW s \in Slot, NEW limit \in RetryLimits, FailRunRetry(s, limit)
       PROVE QueueMatchesStatus'
  <2>1. job[s].run \in Run
    BY <1>11, AcceptedJob DEF FailRunRetry
  <2> QED BY <1>11, <2>1 DEF FailRunRetry, Unlock, TypeOK, QueueMatchesStatus
<1>12. ASSUME NEW s \in Slot, NEW limit \in RetryLimits, NEW abort \in BOOLEAN,
              FailRunTerminal(s, limit, abort)
       PROVE QueueMatchesStatus'
  BY <1>12, AcceptedJob, FinishQueue DEF FailRunTerminal, Terminal
<1>13. ASSUME NEW r \in Run, LeaseExpires(r) PROVE QueueMatchesStatus'
  BY <1>13 DEF LeaseExpires, QueueMatchesStatus
<1>14. ASSUME NEW r \in Run, ReapRequeue(r) PROVE QueueMatchesStatus'
  BY <1>14 DEF ReapRequeue, Unlock, TypeOK, QueueMatchesStatus
<1>15. ASSUME NEW r \in Run, ReapExhausted(r) PROVE QueueMatchesStatus'
  BY <1>15, FinishQueue DEF ReapExhausted, Terminal
<1>16. ASSUME NEW r \in Run, ReapDesynced(r) PROVE QueueMatchesStatus'
  BY <1>16 DEF ReapDesynced, QueueMatchesStatus
<1>17. ASSUME NEW w \in Wait, ResumeTimer(w) PROVE QueueMatchesStatus'
  <2>1. w.run \in Run
    BY DEF Wait
  <2> QED BY <1>17, <2>1 DEF ResumeTimer, Unlock, TypeOK, QueueMatchesStatus
<1>18. ASSUME NEW w \in Wait, ResumeStaleTimer(w) PROVE QueueMatchesStatus'
  <2>1. w.run \in Run
    BY DEF Wait
  <2> QED BY <1>18, <2>1 DEF ResumeStaleTimer, TypeOK, QueueMatchesStatus, Terminal
<1>19. ASSUME NEW w \in Wait, FailOrphan(w) PROVE QueueMatchesStatus'
  <2>1. w.run \in Run
    BY DEF Wait
  <2> QED BY <1>19, <2>1, FinishQueue DEF FailOrphan, Terminal
<1>20. ASSUME NEW w \in Wait, RetireOrphan(w) PROVE QueueMatchesStatus'
  BY <1>20 DEF RetireOrphan, QueueMatchesStatus
<1>21. ASSUME NEW c \in Run, HealStuckWaits(c) PROVE QueueMatchesStatus'
  BY <1>21 DEF HealStuckWaits, WokenBy, TypeOK, QueueMatchesStatus
<1>22. ASSUME UNCHANGED <<status, queueRow, expired>> PROVE QueueMatchesStatus'
  BY <1>22 DEF QueueMatchesStatus
<1>23. ASSUME NEW s \in Slot, ReadLedger(s) \/ EndExecution(s) PROVE QueueMatchesStatus'
  BY <1>22, <1>23 DEF ReadLedger, EndExecution, kernelVars
<1>24. ASSUME NEW s \in Slot, NEW q \in Seq, NEW st \in {"failed", "completed"},
              ReportStep(s, q, st)
       PROVE QueueMatchesStatus'
  BY <1>22, <1>24 DEF ReportStep
<1>25. CASE UNCHANGED vars
  BY <1>22, <1>25 DEF vars
<1> QED
  BY <1>1, <1>2, <1>3, <1>4, <1>5, <1>6, <1>7, <1>8, <1>9, <1>10, <1>11, <1>12, <1>13,
     <1>14, <1>15, <1>16, <1>17, <1>18, <1>19, <1>20, <1>21, <1>23, <1>24, <1>25
  DEF Next, ClientNext, ClaimNext, ExecutorNext, FencedNext, WorkerNext, OrchestratorNext,
      ReapNext, WaitNext, RetryRun, SuspendDue

\* Whichever path moved a run, its queue row agrees with its status: it is
\* claimable exactly when 'queued' and held exactly when 'running'.
THEOREM QueueAgrees == Spec => []QueueMatchesStatus
<1>1. Init => QueueMatchesStatus
  BY KernelAssumption DEF Init, QueueMatchesStatus
<1> QED BY <1>1, QueueStep, TypeCorrect, PTL DEF Spec

----------------------------------------------------------------------------
\* Fencing

\* Why fencing works.  No executor holds a token beyond its run's, and no two
\* executors that ever claimed the same run hold the same one, whether their
\* worker is the same or not: the claim is the only writer of the token and
\* always moves it.
Fenced ==
    /\ \A s \in Slot : job[s].run # NoRun => job[s].tok <= token[job[s].run]
    /\ \A s, t \in Slot :
          s # t /\ job[s].run = job[t].run /\ job[s].run # NoRun => job[s].tok # job[t].tok

\* Fenced speaks of the tokens alone.
LEMMA FencedFrame ==
    ASSUME Fenced, token' = token,
           \A s \in Slot : job'[s].run = job[s].run /\ job'[s].tok = job[s].tok
    PROVE  Fenced'
  BY DEF Fenced

LEMMA FencedStep == TypeOK /\ Fenced /\ [Next]_vars => Fenced'
<1> SUFFICES ASSUME TypeOK, Fenced, [Next]_vars PROVE Fenced'
  OBVIOUS
<1> USE KernelAssumption
<1>1. ASSUME NEW s \in Slot, NEW r \in Run, ClaimTx(s, r) PROVE Fenced'
  <2>1. /\ job' = [job EXCEPT ![s] = [run |-> r, tok |-> token[r] + 1,
                                     loaded |-> FALSE, view |-> {}]]
        /\ token' = [token EXCEPT ![r] = token[r] + 1]
    BY <1>1 DEF ClaimTx, NextToken
  <2>2. \A t \in Slot : t # s => job'[t] = job[t]
    BY <2>1 DEF TypeOK
  <2>3. job'[s].run = r /\ job'[s].tok = token[r] + 1 /\ token'[r] = token[r] + 1
    BY <2>1 DEF TypeOK
  <2>4. \A x \in Run : token[x] \in Nat /\ token'[x] \in Nat /\ token[x] <= token'[x]
    BY <2>1 DEF TypeOK
  <2>5. \A t \in Slot : job[t].tok \in Nat /\ job[t].run \in Run \cup {NoRun}
    BY DEF TypeOK, Job
  <2>6. \A t \in Slot : job'[t].run # NoRun => job'[t].tok <= token'[job'[t].run]
    BY <2>2, <2>3, <2>4, <2>5 DEF Fenced
  <2>7. \A t \in Slot : t # s /\ job'[t].run = r => job'[t].tok # job'[s].tok
    BY <2>2, <2>3, <2>4, <2>5 DEF Fenced
  <2>8. \A t, u \in Slot : t # u /\ job'[t].run = job'[u].run /\ job'[t].run # NoRun
                             => job'[t].tok # job'[u].tok
    BY <2>2, <2>3, <2>7 DEF Fenced
  <2> QED BY <2>6, <2>8 DEF Fenced
<1>2. ASSUME NEW s \in Slot, ReadLedger(s) PROVE Fenced'
  <2>1. token' = token
    BY <1>2 DEF ReadLedger, kernelVars
  <2>2. \A t \in Slot : job'[t].run = job[t].run /\ job'[t].tok = job[t].tok
    BY <1>2 DEF ReadLedger, TypeOK, Job
  <2> QED BY <2>1, <2>2, FencedFrame
<1>3. ASSUME NEW s \in Slot, EndExecution(s) PROVE Fenced'
  <2>1. token' = token /\ job' = [job EXCEPT ![s] = Idle]
    BY <1>3 DEF EndExecution, kernelVars
  <2>2. /\ job'[s].run = NoRun
        /\ \A t \in Slot : t # s => job'[t] = job[t]
    BY <2>1 DEF TypeOK, Idle
  <2> QED BY <2>1, <2>2 DEF Fenced
<1>4. ASSUME NEW s \in Slot, NEW q \in Seq, NEW row \in StepRow, RecordStep(s, q, row),
             token' = token
      PROVE  Fenced'
  <2>1. \A t \in Slot : job'[t].run = job[t].run /\ job'[t].tok = job[t].tok
    BY <1>4 DEF RecordStep, TypeOK, Job
  <2> QED BY <1>4, <2>1, FencedFrame
<1>5. ASSUME NEW s \in Slot, NEW q \in Seq, NEW st \in {"failed", "completed"},
             ReportStep(s, q, st)
      PROVE Fenced'
  BY <1>4, <1>5 DEF ReportStep, StepOf, StepRow
<1>6. ASSUME NEW s \in Slot, NEW q \in Seq, NEW kids \in SUBSET Run,
             NEW st \in {"failed", "completed"}, BatchTriggerChild(s, q, kids, st)
      PROVE Fenced'
  BY <1>4, <1>6 DEF BatchTriggerChild, StepOf, StepRow
<1>7. ASSUME UNCHANGED <<token, job>> PROVE Fenced'
  BY <1>7, FencedFrame
<1>8. ASSUME NEW r \in Run,
             \/ CreateRun(r) \/ CancelRun(r) \/ PruneRun(r) \/ LeaseExpires(r)
             \/ ReapRequeue(r) \/ ReapExhausted(r) \/ ReapDesynced(r) \/ HealStuckWaits(r)
      PROVE  Fenced'
  BY <1>7, <1>8 DEF history, CreateRun, CancelRun, PruneRun, LeaseExpires, ReapRequeue, ReapExhausted,
                    ReapDesynced, HealStuckWaits
<1>9. ASSUME NEW w \in Wait,
             ResumeTimer(w) \/ ResumeStaleTimer(w) \/ FailOrphan(w) \/ RetireOrphan(w)
      PROVE  Fenced'
  BY <1>7, <1>9 DEF ResumeTimer, ResumeStaleTimer, FailOrphan, RetireOrphan
<1>10. ASSUME NEW w \in Worker,
              Heartbeat(w) \/ \E rs \in SUBSET Run : ReleaseClaims(w, rs)
       PROVE  Fenced'
  BY <1>7, <1>10 DEF Heartbeat, ReleaseClaims
<1>11. ASSUME NEW s \in Slot, NEW q \in Seq,
              SuspendRun(s, q) \/ \E c \in Run : WaitForChildRun(s, q, c)
       PROVE  Fenced'
  BY <1>7, <1>11 DEF SuspendRun, WaitForChildRun, Park
<1>12. ASSUME NEW s \in Slot, CompleteRun(s) PROVE Fenced'
  BY <1>7, <1>12 DEF CompleteRun
<1>13. ASSUME NEW s \in Slot, NEW limit \in RetryLimits,
              FailRunRetry(s, limit) \/ \E abort \in BOOLEAN : FailRunTerminal(s, limit, abort)
       PROVE  Fenced'
  BY <1>7, <1>13 DEF FailRunRetry, FailRunTerminal
<1>14. CASE UNCHANGED vars
  BY <1>7, <1>14 DEF vars
<1> QED
  BY <1>1, <1>2, <1>3, <1>5, <1>6, <1>8, <1>9, <1>10, <1>11, <1>12, <1>13, <1>14
  DEF Next, ClientNext, ClaimNext, ExecutorNext, FencedNext, WorkerNext, OrchestratorNext,
      ReapNext, WaitNext, RetryRun, SuspendDue

LEMMA FencedAlways == Spec => []Fenced
<1>1. Init => Fenced
  BY DEF Init, Fenced, Idle
<1> QED BY <1>1, FencedStep, TypeCorrect, PTL DEF Spec

LEMMA FencedSingleWriter == TypeOK /\ Fenced => SingleWriter
  BY AcceptedJob, KernelAssumption DEF SingleWriter, Fenced

\* Of all the executors that ever held a run, zombies of the same worker
\* included, at most one can still write to it.
THEOREM AtMostOneWriter == Spec => []SingleWriter
  BY TypeCorrect, FencedAlways, FencedSingleWriter, PTL

----------------------------------------------------------------------------
\* The accounts of a run's claims

Charged(r) == (attempt[r] - 1) + recoveries[r] + released[r] + suspended[r]

\* The account of one run, over the state it depends on.
Accounted(r) ==
    /\ attempt[r] >= 1
    /\ status[r] \in {"absent", "queued", "waiting"} => token[r] = Charged(r)
    /\ status[r] = "running" => token[r] = Charged(r) + 1
    /\ status[r] \in Terminal \cup {"pruned"} => token[r] \in {Charged(r), Charged(r) + 1}

LEMMA AccountsByRun == EveryClaimAccounted <=> \A r \in Run : Accounted(r)
  BY DEF EveryClaimAccounted, Accounted, Charged

\* The counters of a run are numbers.
LEMMA CounterTypes ==
    ASSUME TypeOK, NEW r \in Run
    PROVE  /\ attempt[r] \in Nat /\ recoveries[r] \in Nat /\ token[r] \in Nat
           /\ released[r] \in Nat /\ suspended[r] \in Nat /\ status[r] \in Status
  BY KernelAssumption DEF TypeOK

\* A run is still accounted for when its counters stay and its status moves
\* without a claim being taken or given up.
LEMMA AccountsFrame ==
    ASSUME TypeOK, NEW p \in Run, Accounted(p),
           attempt' = attempt, recoveries' = recoveries, token' = token,
           released' = released, suspended' = suspended,
           \/ status'[p] = status[p]
           \/ status[p] \in {"absent", "waiting"} /\ status'[p] = "queued"
           \/ status'[p] \in Terminal \cup {"pruned"}
    PROVE  Accounted(p)'
<1>1. status[p] \in Status
  BY CounterTypes
<1>2. Charged(p)' = Charged(p)
  BY DEF Charged
<1> QED BY <1>1, <1>2 DEF Accounted, Status, Live, Terminal

LEMMA AccountsStep ==
    TypeOK /\ QueueMatchesStatus /\ EveryClaimAccounted /\ [Next]_vars => EveryClaimAccounted'
<1> SUFFICES ASSUME TypeOK, QueueMatchesStatus, EveryClaimAccounted, [Next]_vars
             PROVE  EveryClaimAccounted'
  OBVIOUS
<1>a. \A p \in Run : Accounted(p)
  BY AccountsByRun
<1>b. ASSUME \A p \in Run : Accounted(p)' PROVE EveryClaimAccounted'
  BY <1>b DEF EveryClaimAccounted, Accounted, Charged
<1> USE KernelAssumption
\* Steps that take no claim and give none up.
<1>1. ASSUME UNCHANGED <<attempt, recoveries, token, released, suspended>>,
             \A p \in Run :
               \/ status'[p] = status[p]
               \/ status[p] \in {"absent", "waiting"} /\ status'[p] = "queued"
               \/ status'[p] \in Terminal \cup {"pruned"}
      PROVE  EveryClaimAccounted'
  BY <1>a, <1>b, <1>1, AccountsFrame
<1>2. ASSUME NEW r \in Run, NEW final \in Terminal, Finish(r, final),
             UNCHANGED <<attempt, recoveries, token, released, suspended>>
      PROVE  EveryClaimAccounted'
  BY <1>1, <1>2 DEF Finish, WokenBy
<1>3. ASSUME NEW r \in Run,
             CreateRun(r) \/ PruneRun(r) \/ LeaseExpires(r) \/ ReapDesynced(r) \/ HealStuckWaits(r)
      PROVE  EveryClaimAccounted'
  BY <1>1, <1>3 DEF CreateRun, Created, PruneRun, LeaseExpires, ReapDesynced, HealStuckWaits,
                    WokenBy, history, TypeOK
<1>4. ASSUME NEW r \in Run, CancelRun(r) \/ ReapExhausted(r) PROVE EveryClaimAccounted'
  BY <1>2, <1>4 DEF CancelRun, ReapExhausted, history, Terminal
<1>5. ASSUME NEW w \in Wait, ResumeTimer(w) \/ ResumeStaleTimer(w) \/ RetireOrphan(w)
      PROVE  EveryClaimAccounted'
  <2>1. w.run \in Run
    BY DEF Wait
  <2> QED BY <1>1, <1>5, <2>1
          DEF ResumeTimer, ResumeStaleTimer, RetireOrphan, Unlock, history, TypeOK
<1>6. ASSUME NEW w \in Wait, FailOrphan(w) PROVE EveryClaimAccounted'
  <2>1. w.run \in Run
    BY DEF Wait
  <2> QED BY <1>2, <1>6, <2>1 DEF FailOrphan, history, Terminal
<1>7. ASSUME NEW s \in Slot, CompleteRun(s) PROVE EveryClaimAccounted'
  BY <1>2, <1>7, AcceptedJob DEF CompleteRun, history, Terminal
<1>8. ASSUME NEW s \in Slot, NEW limit \in RetryLimits, NEW abort \in BOOLEAN,
             FailRunTerminal(s, limit, abort)
      PROVE EveryClaimAccounted'
  BY <1>2, <1>8, AcceptedJob DEF FailRunTerminal, history, Terminal
<1>9. ASSUME NEW s \in Slot, ReadLedger(s) \/ EndExecution(s) PROVE EveryClaimAccounted'
  BY <1>1, <1>9 DEF ReadLedger, EndExecution, kernelVars, history
<1>10. ASSUME NEW s \in Slot, NEW q \in Seq, NEW st \in {"failed", "completed"},
              ReportStep(s, q, st)
       PROVE EveryClaimAccounted'
  BY <1>1, <1>10 DEF ReportStep, history
<1>11. ASSUME NEW s \in Slot, NEW q \in Seq, NEW kids \in SUBSET Run,
              NEW st \in {"failed", "completed"}, BatchTriggerChild(s, q, kids, st)
       PROVE EveryClaimAccounted'
  BY <1>1, <1>11 DEF BatchTriggerChild, Created, history, TypeOK
<1>12. ASSUME NEW w \in Worker, Heartbeat(w) PROVE EveryClaimAccounted'
  BY <1>1, <1>12 DEF Heartbeat, history
\* Steps that move one account.
<1>13. ASSUME NEW s \in Slot, NEW r \in Run, ClaimTx(s, r) PROVE EveryClaimAccounted'
  <2>1. ASSUME NEW p \in Run PROVE Accounted(p)'
    BY <1>a, <1>13, <2>1, CounterTypes
    DEF ClaimTx, NextToken, Accounted, Charged, history, TypeOK, Terminal
  <2> QED BY <1>b, <2>1
<1>14. ASSUME NEW w \in Worker, NEW rs \in SUBSET Run, ReleaseClaims(w, rs)
       PROVE  EveryClaimAccounted'
  <2>1. ASSUME NEW p \in Run PROVE Accounted(p)'
    <3>1. CASE p \in rs
      <4>1. status[p] = "running" /\ status'[p] = "queued"
        BY <1>14, <3>1 DEF ReleaseClaims, QueueMatchesStatus
      <4>2. released'[p] = released[p] + 1
        BY <1>14, <3>1 DEF ReleaseClaims
      <4> QED BY <1>a, <1>14, <4>1, <4>2, CounterTypes
              DEF ReleaseClaims, Accounted, Charged, Terminal
    <3>2. CASE p \notin rs
      BY <1>a, <1>14, <3>2 DEF ReleaseClaims, Accounted, Charged
    <3> QED BY <3>1, <3>2
  <2> QED BY <1>b, <2>1
<1>15. ASSUME NEW s \in Slot, NEW q \in Seq, SuspendRun(s, q) PROVE EveryClaimAccounted'
  <2>1. ASSUME NEW p \in Run PROVE Accounted(p)'
    BY <1>a, <1>15, <2>1, CounterTypes, AcceptedJob
    DEF SuspendRun, Park, Accounted, Charged, TypeOK, Terminal
  <2> QED BY <1>b, <2>1
<1>16. ASSUME NEW s \in Slot, NEW q \in Seq, NEW c \in Run, WaitForChildRun(s, q, c)
       PROVE EveryClaimAccounted'
  <2>1. /\ job[s].run \in Run /\ status[job[s].run] = "running"
        /\ status[c] = "absent"
        /\ status' = [status EXCEPT ![c] = "queued", ![job[s].run] = "waiting"]
        /\ suspended' = [suspended EXCEPT ![job[s].run] = @ + 1]
        /\ UNCHANGED <<attempt, recoveries, token, released>>
    BY <1>16, AcceptedJob DEF WaitForChildRun, Park
  <2>2. \A p \in Run : status'[p] = IF p = job[s].run THEN "waiting"
                                    ELSE IF p = c THEN "queued" ELSE status[p]
    BY <2>1 DEF TypeOK
  <2>3. ASSUME NEW p \in Run PROVE Accounted(p)'
    <3>a. /\ attempt'[p] = attempt[p] /\ recoveries'[p] = recoveries[p]
          /\ released'[p] = released[p] /\ token'[p] = token[p]
      BY <2>1
    <3>b. Accounted(p)
      BY <1>a
    <3>1. CASE p = job[s].run
      <4>1. /\ status[p] = "running" /\ status'[p] = "waiting"
            /\ suspended'[p] = suspended[p] + 1
        BY <2>1, <2>2, <3>1 DEF TypeOK
      <4> QED BY <3>a, <3>b, <4>1, CounterTypes DEF Accounted, Charged, Terminal
    <3>2. CASE p # job[s].run
      <4>1. suspended'[p] = suspended[p]
        BY <2>1, <3>2 DEF TypeOK
      <4>2. \/ status'[p] = status[p]
            \/ status[p] = "absent" /\ status'[p] = "queued"
        <5>1. CASE p = c
          BY <2>1, <2>2, <3>2, <5>1
        <5>2. CASE p # c
          BY <2>2, <3>2, <5>2
        <5> QED BY <5>1, <5>2
      <4> QED BY <3>a, <3>b, <4>1, <4>2 DEF Accounted, Charged, Terminal
    <3> QED BY <3>1, <3>2
  <2> QED BY <1>b, <2>3
<1>17. ASSUME NEW s \in Slot, NEW limit \in RetryLimits, FailRunRetry(s, limit)
       PROVE EveryClaimAccounted'
  <2>1. /\ job[s].run \in Run /\ status[job[s].run] = "running"
        /\ status' = [status EXCEPT ![job[s].run] = "queued"]
        /\ attempt' = [attempt EXCEPT ![job[s].run] = @ + 1]
        /\ UNCHANGED <<recoveries, token, released, suspended>>
    BY <1>17, AcceptedJob DEF FailRunRetry, Unlock, history
  <2>2. ASSUME NEW p \in Run PROVE Accounted(p)'
    <3>a. /\ recoveries'[p] = recoveries[p] /\ released'[p] = released[p]
          /\ suspended'[p] = suspended[p] /\ token'[p] = token[p]
      BY <2>1
    <3>b. Accounted(p)
      BY <1>a
    <3>1. CASE p = job[s].run
      <4>1. /\ status[p] = "running" /\ status'[p] = "queued"
            /\ attempt'[p] = attempt[p] + 1
        BY <2>1, <3>1 DEF TypeOK
      <4> QED BY <3>a, <3>b, <4>1, CounterTypes DEF Accounted, Charged, Terminal
    <3>2. CASE p # job[s].run
      <4>1. attempt'[p] = attempt[p] /\ status'[p] = status[p]
        BY <2>1, <3>2 DEF TypeOK
      <4> QED BY <3>a, <3>b, <4>1 DEF Accounted, Charged, Terminal
    <3> QED BY <3>1, <3>2
  <2> QED BY <1>b, <2>2
<1>18. ASSUME NEW r \in Run, ReapRequeue(r) PROVE EveryClaimAccounted'
  <2>1. ASSUME NEW p \in Run PROVE Accounted(p)'
    BY <1>a, <1>18, <2>1, CounterTypes
    DEF ReapRequeue, Recoverable, Unlock, Accounted, Charged, history, TypeOK, Terminal
  <2> QED BY <1>b, <2>1
<1>19. CASE UNCHANGED vars
  BY <1>1, <1>19 DEF vars
<1> QED
  BY <1>3, <1>4, <1>5, <1>6, <1>7, <1>8, <1>9, <1>10, <1>11, <1>12, <1>13, <1>14, <1>15,
     <1>16, <1>17, <1>18, <1>19
  DEF Next, ClientNext, ClaimNext, ExecutorNext, FencedNext, WorkerNext, OrchestratorNext,
      ReapNext, WaitNext, RetryRun, SuspendDue

\* Every claim of every run is charged to exactly one account: its holder, a
\* retry, a recovery, a hand-back, a suspend or the end of the run.
THEOREM ClaimsAccounted == Spec => []EveryClaimAccounted
<1>1. Init => EveryClaimAccounted
  BY KernelAssumption DEF Init, EveryClaimAccounted, Terminal
<1> QED BY <1>1, AccountsStep, TypeCorrect, QueueAgrees, PTL DEF Spec

=============================================================================
