----------------------- MODULE RunKernelLedgerProofs -----------------------
(***************************************************************************)
(* Theorems about the waits of RunKernel and about what rests on them: the *)
(* wait graph, the executors' snapshots, the answers of children; that a   *)
(* run that has ended keeps its ledger, its counters and its end, and that *)
(* it stays ended from disturbed tables too; and that the tables implement *)
(* the durable run of DurableRun.                                          *)
(***************************************************************************)
EXTENDS RunKernelRepair, RunKernelProofs

----------------------------------------------------------------------------
\* The wait graph

\* WaitGraph does not say that a timer names no child, nor that no run waits
\* for itself; a step that adds or resolves a wait needs both.
WaitShape ==
    \A w \in waits : /\ w.kind = "timer" => w.child = NoRun
                     /\ w.child # w.run
WaitInv == WaitGraph /\ WaitShape

\* Steps that leave the waits alone may move any run that is not waiting, as
\* long as no live run ends.
LEMMA WaitFrame ==
    ASSUME TypeOK, WaitInv, waits' = waits,
           \A p \in Run : /\ status'[p] = "waiting" <=> status[p] = "waiting"
                          /\ status[p] \in Live => status'[p] \in Live
    PROVE  WaitInv'
<1>1. \A w \in waits : w.run \in Run
  BY DEF TypeOK, Wait
<1> QED BY <1>1 DEF WaitInv, WaitGraph, WaitShape

\* The end of a live run: every parent that waits for it is woken, its own
\* waits go with it, and nobody is left with a wait on a run that has ended.
LEMMA FinishWaits ==
    ASSUME TypeOK, WaitInv, NEW r \in Run, NEW final \in Terminal, Finish(r, final),
           final = "completed" => status[r] # "waiting"
    PROVE  WaitInv'
<1> USE KernelAssumption
<1>1. \A w \in waits : w \in Wait /\ w.run \in Run
  BY DEF TypeOK, Wait
<1>2. \A w \in waits' : w \in waits /\ w \notin WaitersOf(r) /\ w.run # r
  BY <1>1 DEF Finish, Retired, OwnWaits, WaitInv, WaitGraph
<1>3. \A p \in WokenBy(r) : \A w \in waits : w.run = p => w \in WaitersOf(r)
  BY DEF WokenBy, WaitersOf, WaitInv, WaitGraph
<1>4. \A w \in waits' : status'[w.run] = "waiting"
  BY <1>1, <1>2, <1>3 DEF Finish, TypeOK, WaitInv, WaitGraph
<1>5. ASSUME NEW p \in Run, status'[p] = "waiting" PROVE \E w \in waits' : w.run = p
  <2>1. p # r /\ p \notin WokenBy(r) /\ status[p] = "waiting"
    BY <1>5 DEF Finish, TypeOK, Terminal
  <2>2. PICK w \in waits : w.run = p
    BY <2>1 DEF WaitInv, WaitGraph
  <2>3. w \notin WaitersOf(r)
    BY <2>1, <2>2 DEF WokenBy
  <2>4. w \notin Retired(r, final)
    BY <2>1, <2>2 DEF Retired, OwnWaits
  <2> QED BY <2>2, <2>3, <2>4 DEF Finish
<1>6. \A w \in waits' : w.kind = "run" => w.child \in Run /\ status'[w.child] \in Live
  <2>1. \A w \in waits' : w.kind = "run" => w.child \in Run /\ w.child # r /\ status[w.child] \in Live
    BY <1>2 DEF WaitersOf, WaitInv, WaitGraph
  <2> QED BY <2>1 DEF Finish, Live
<1>7. /\ \A v, w \in waits' : v.run = w.run => v = w
      /\ \A v, w \in waits' : v.child = w.child /\ v.child # NoRun => v = w
  BY <1>2 DEF WaitInv, WaitGraph
<1>8. WaitShape'
  BY <1>2 DEF WaitInv, WaitShape
<1> QED BY <1>4, <1>5, <1>6, <1>7, <1>8 DEF WaitInv, WaitGraph

\* A running run parks on a new wait, on a timer or on a child that nobody
\* waits for.
LEMMA ParkWaits ==
    ASSUME TypeOK, WaitInv, NEW w \in Wait, waits' = waits \cup {w},
           status[w.run] = "running", status'[w.run] = "waiting",
           \A p \in Run \ {w.run} : /\ status'[p] = "waiting" <=> status[p] = "waiting"
                                    /\ status[p] \in Live => status'[p] \in Live,
           \/ w.kind = "timer" /\ w.child = NoRun
           \/ /\ w.kind = "run" /\ w.child \in Run
              /\ status[w.child] \notin Live /\ status'[w.child] \in Live
    PROVE  WaitInv'
<1> USE KernelAssumption
<1>1. \A v \in waits : v.run \in Run /\ v.run # w.run
  BY DEF TypeOK, Wait, WaitInv, WaitGraph
<1>2. w.run \in Run /\ w.child # w.run
  BY DEF Wait, Live
<1>3. \A v \in waits : v.child = w.child => v.child = NoRun
  BY DEF TypeOK, Wait, WaitInv, WaitGraph, WaitShape
<1>4. \A v \in waits' : status'[v.run] = "waiting"
  BY <1>1, <1>2 DEF WaitInv, WaitGraph
<1>5. \A p \in Run : status'[p] = "waiting" => \E v \in waits' : v.run = p
  BY <1>1, <1>2 DEF WaitInv, WaitGraph
<1>6. \A v \in waits' : v.kind = "run" => v.child \in Run /\ status'[v.child] \in Live
  BY <1>1, <1>2 DEF WaitInv, WaitGraph, Live
<1>7. /\ \A u, v \in waits' : u.run = v.run => u = v
      /\ \A u, v \in waits' : u.child = v.child /\ u.child # NoRun => u = v
  BY <1>1, <1>3 DEF WaitInv, WaitGraph
<1>8. WaitShape'
  BY <1>2 DEF WaitInv, WaitShape
<1> QED BY <1>4, <1>5, <1>6, <1>7, <1>8 DEF WaitInv, WaitGraph

\* With the wait graph intact, the repairs of orphans and lost wakes and the
\* stale branch of a timer have nothing to do.
LEMMA NothingToRepair ==
    ASSUME TypeOK, WaitInv
    PROVE  /\ \A w \in Wait : ~(ResumeStaleTimer(w) \/ FailOrphan(w) \/ RetireOrphan(w))
           /\ \A c \in Run : ~HealStuckWaits(c)
           /\ \A r \in Run : Prunable(r) => OwnWaits(r) = {} /\ WaitersOf(r) = {}
<1> USE KernelAssumption
<1>1. \A w \in Wait : ~(ResumeStaleTimer(w) \/ FailOrphan(w) \/ RetireOrphan(w))
  BY DEF ResumeStaleTimer, FailOrphan, RetireOrphan, WaitInv, WaitGraph
<1>2. \A r \in Run : status[r] \in Terminal => OwnWaits(r) = {} /\ WaitersOf(r) = {}
  BY DEF OwnWaits, WaitersOf, WaitInv, WaitGraph, Terminal, Live
<1> QED BY <1>1, <1>2 DEF HealStuckWaits, Prunable

LEMMA WaitStep == TypeOK /\ WaitInv /\ [Next]_vars => WaitInv'
<1> SUFFICES ASSUME TypeOK, WaitInv, [Next]_vars PROVE WaitInv'
  OBVIOUS
<1> USE KernelAssumption
<1>1. ASSUME NEW r \in Run, CreateRun(r) PROVE WaitInv'
  BY <1>1, WaitFrame DEF CreateRun, Created, TypeOK, Live
<1>2. ASSUME NEW r \in Run, CancelRun(r) PROVE WaitInv'
  BY <1>2, FinishWaits DEF CancelRun, Terminal
<1>3. ASSUME NEW r \in Run, PruneRun(r) PROVE WaitInv'
  <2>1. OwnWaits(r) = {} /\ WaitersOf(r) = {}
    BY <1>3, NothingToRepair DEF PruneRun
  <2>2. waits' = waits
    BY <1>3, <2>1 DEF PruneRun
  <2> QED BY <1>3, <2>2, WaitFrame DEF PruneRun, Prunable, TypeOK, Live, Terminal
<1>4. ASSUME NEW s \in Slot, NEW r \in Run, ClaimTx(s, r) PROVE WaitInv'
  BY <1>4, WaitFrame DEF ClaimTx, TypeOK, Live
<1>5. ASSUME NEW w \in Worker, NEW rs \in SUBSET Run, ReleaseClaims(w, rs) PROVE WaitInv'
  BY <1>5, WaitFrame DEF ReleaseClaims, TypeOK, Live
<1>6. ASSUME NEW s \in Slot, NEW q \in Seq, NEW kids \in SUBSET Run,
             NEW st \in {"failed", "completed"}, BatchTriggerChild(s, q, kids, st)
      PROVE WaitInv'
  BY <1>6, WaitFrame DEF BatchTriggerChild, Created, TypeOK, Live
<1>7. ASSUME NEW s \in Slot, NEW q \in Seq, SuspendRun(s, q) PROVE WaitInv'
  <2> DEFINE w == [run |-> job[s].run, seq |-> q, kind |-> "timer", child |-> NoRun]
  <2>1. job[s].run \in Run /\ status[job[s].run] = "running"
    BY <1>7, AcceptedJob DEF SuspendRun
  <2>2. w \in Wait /\ waits' = waits \cup {w}
    BY <1>7, <2>1 DEF SuspendRun, Park, Wait
  <2>3. status' = [status EXCEPT ![w.run] = "waiting"]
    BY <1>7 DEF SuspendRun
  <2> QED BY <2>1, <2>2, <2>3, ParkWaits DEF TypeOK
<1>8. ASSUME NEW s \in Slot, NEW q \in Seq, NEW c \in Run, WaitForChildRun(s, q, c)
      PROVE WaitInv'
  <2> DEFINE w == [run |-> job[s].run, seq |-> q, kind |-> "run", child |-> c]
  <2>1. job[s].run \in Run /\ status[job[s].run] = "running" /\ status[c] = "absent"
    BY <1>8, AcceptedJob DEF WaitForChildRun
  <2>2. w \in Wait /\ waits' = waits \cup {w}
    BY <1>8, <2>1 DEF WaitForChildRun, Park, Wait
  <2>3. status' = [status EXCEPT ![c] = "queued", ![w.run] = "waiting"]
    BY <1>8 DEF WaitForChildRun
  <2> QED BY <2>1, <2>2, <2>3, ParkWaits DEF TypeOK, Live
<1>9. ASSUME NEW s \in Slot, CompleteRun(s) PROVE WaitInv'
  BY <1>9, AcceptedJob, FinishWaits DEF CompleteRun, Terminal
<1>10. ASSUME NEW s \in Slot, NEW limit \in RetryLimits, FailRunRetry(s, limit)
       PROVE WaitInv'
  BY <1>10, AcceptedJob, WaitFrame DEF FailRunRetry, Unlock, TypeOK, Live
<1>11. ASSUME NEW s \in Slot, NEW limit \in RetryLimits, NEW abort \in BOOLEAN,
              FailRunTerminal(s, limit, abort)
       PROVE WaitInv'
  BY <1>11, AcceptedJob, FinishWaits DEF FailRunTerminal, Terminal
<1>12. ASSUME NEW r \in Run, ReapRequeue(r) PROVE WaitInv'
  BY <1>12, WaitFrame DEF ReapRequeue, Unlock, TypeOK, Live
<1>13. ASSUME NEW r \in Run, ReapExhausted(r) PROVE WaitInv'
  BY <1>13, FinishWaits DEF ReapExhausted, Terminal
<1>14. ASSUME NEW w \in Wait, ResumeTimer(w) PROVE WaitInv'
  <2>1. /\ w \in waits /\ w.run \in Run
        /\ waits' = waits \ {w}
        /\ status' = [status EXCEPT ![w.run] = "queued"]
    BY <1>14 DEF ResumeTimer, Unlock, Wait
  <2>2. \A v \in waits' : v \in waits /\ v.run # w.run /\ v.run \in Run
    BY <2>1 DEF WaitInv, WaitGraph, TypeOK, Wait
  <2>3. \A p \in Run : status'[p] = (IF p = w.run THEN "queued" ELSE status[p])
    BY <2>1 DEF TypeOK
  <2>4. \A v \in waits' : v.kind = "run" => v.child \in Run /\ status'[v.child] \in Live
    BY <2>2, <2>3 DEF WaitInv, WaitGraph, Live
  <2> QED BY <2>1, <2>2, <2>3, <2>4 DEF WaitInv, WaitGraph, WaitShape
<1>15. ASSUME NEW w \in Wait, ResumeStaleTimer(w) \/ FailOrphan(w) \/ RetireOrphan(w)
       PROVE  WaitInv'
  BY <1>15, NothingToRepair
<1>16. ASSUME NEW c \in Run, HealStuckWaits(c) PROVE WaitInv'
  BY <1>16, NothingToRepair
<1>17. ASSUME UNCHANGED <<status, waits>> PROVE WaitInv'
  BY <1>17, WaitFrame
<1>18. ASSUME NEW s \in Slot, ReadLedger(s) \/ EndExecution(s) PROVE WaitInv'
  BY <1>17, <1>18 DEF ReadLedger, EndExecution, kernelVars
<1>19. ASSUME NEW s \in Slot, NEW q \in Seq, NEW st \in {"failed", "completed"},
              ReportStep(s, q, st)
       PROVE WaitInv'
  BY <1>17, <1>19 DEF ReportStep
<1>20. ASSUME NEW w \in Worker, Heartbeat(w) PROVE WaitInv'
  BY <1>17, <1>20 DEF Heartbeat
<1>21. ASSUME NEW r \in Run, LeaseExpires(r) \/ ReapDesynced(r) PROVE WaitInv'
  BY <1>17, <1>21 DEF LeaseExpires, ReapDesynced
<1>22. CASE UNCHANGED vars
  BY <1>17, <1>22 DEF vars
<1> QED
  BY <1>1, <1>2, <1>3, <1>4, <1>5, <1>6, <1>7, <1>8, <1>9, <1>10, <1>11, <1>12, <1>13,
     <1>14, <1>15, <1>16, <1>18, <1>19, <1>20, <1>21, <1>22
  DEF Next, ClientNext, ClaimNext, ExecutorNext, FencedNext, WorkerNext, OrchestratorNext,
      ReapNext, WaitNext, RetryRun, SuspendDue

LEMMA WaitInvAlways == Spec => []WaitInv
<1>1. Init => WaitInv
  BY DEF Init, WaitInv, WaitGraph, WaitShape
<1> QED BY <1>1, WaitStep, TypeCorrect, PTL DEF Spec

\* No wake is ever lost and none reaches the wrong run: a waiting run has
\* exactly one pending wait, nobody else has any, and a pending run-wait names
\* a child of its own that can still end.
THEOREM WaitsAgree == Spec => []WaitGraph
<1>1. WaitInv => WaitGraph
  BY DEF WaitInv
<1> QED BY <1>1, WaitInvAlways, PTL

----------------------------------------------------------------------------
\* Who writes a ledger

\* A wake writes only into the ledgers of waiting runs.
LEMMA WakeWritesWaiting ==
    ASSUME TypeOK, WaitInv, NEW c \in Run, NEW ok \in BOOLEAN, NEW p \in Run,
           status[p] # "waiting"
    PROVE  LedgerAfterWake(c, ok)[p] = ledger[p]
<1>1. \A w \in WaitersOf(c) : w.run # p
  BY DEF WaitersOf, WaitInv, WaitGraph
<1>2. LedgerAfterWake(c, ok)[p] = [q \in Seq |-> ledger[p][q]]
  BY <1>1 DEF LedgerAfterWake
<1>3. ledger[p] = [q \in Seq |-> ledger[p][q]]
  BY DEF TypeOK
<1> QED BY <1>2, <1>3

\* What the end of a live run leaves alone: every other run that is not
\* waiting for it.
LEMMA FinishLeaves ==
    ASSUME TypeOK, WaitInv, NEW r \in Run, NEW final \in Terminal, Finish(r, final),
           NEW p \in Run, p # r, status[p] # "waiting"
    PROVE  /\ status'[p] = status[p]
           /\ queueRow'[p] = queueRow[p]
           /\ ledger'[p] = ledger[p]
<1>1. p \notin WokenBy(r)
  BY DEF WokenBy
<1>2. AnswersOk(final) \in BOOLEAN
  BY DEF AnswersOk
<1> QED BY <1>1, <1>2, WakeWritesWaiting DEF Finish

----------------------------------------------------------------------------
\* The snapshot of an executor that can still write

\* A step after which an executor is accepted, its snapshot and its run's ledger
\* being what they were, and its claim having been accepted before.
LEMMA ReplayFrame ==
    ASSUME ReplaySeesLedger,
           \A s \in Slot : Accepted(s)' => /\ Accepted(s)
                                           /\ job'[s] = job[s]
                                           /\ ledger'[job[s].run] = ledger[job[s].run]
    PROVE  ReplaySeesLedger'
  BY DEF ReplaySeesLedger, CompletedSeqs

\* Steps that move no run into 'running' and write the ledger of no running run.
LEMMA ReplayIdle ==
    ASSUME TypeOK, ReplaySeesLedger, token' = token, job' = job,
           \A p \in Run : status'[p] = "running" => /\ status[p] = "running"
                                                    /\ queueRow'[p] = queueRow[p]
                                                    /\ ledger'[p] = ledger[p]
    PROVE  ReplaySeesLedger'
<1>1. ASSUME NEW s \in Slot, Accepted(s)'
      PROVE  Accepted(s) /\ ledger'[job[s].run] = ledger[job[s].run]
  <2>1. job[s].loaded /\ job[s].run \in Run
    BY <1>1, KernelAssumption DEF Accepted, HoldsRow, TypeOK, Job, Idle
  <2> QED BY <1>1, <2>1 DEF Accepted, HoldsRow
<1> QED BY <1>1, ReplayFrame

LEMMA FinishReplay ==
    ASSUME TypeOK, WaitInv, ReplaySeesLedger, NEW r \in Run, NEW final \in Terminal,
           Finish(r, final), token' = token, job' = job
    PROVE  ReplaySeesLedger'
<1>1. ASSUME NEW p \in Run, status'[p] = "running"
      PROVE  p # r /\ status[p] = "running"
  BY <1>1 DEF Finish, TypeOK, Terminal
<1> QED BY <1>1, FinishLeaves, ReplayIdle

\* Only the holder itself writes the ledger of a running run, and it keeps its
\* snapshot in step.
LEMMA RecordReplay ==
    ASSUME TypeOK, Fenced, ReplaySeesLedger, NEW s \in Slot, NEW q \in Seq,
           NEW row \in {StepOf("failed"), StepOf("completed")}, RecordStep(s, q, row),
           token' = token,
           \A p \in Run : status'[p] = "running" => status[p] = "running" /\ queueRow'[p] = queueRow[p]
    PROVE  ReplaySeesLedger'
<1> DEFINE r == job[s].run
<1> USE KernelAssumption
<1>1. Accepted(s) /\ r \in Run /\ job[s].view = CompletedSeqs(r) /\ q \notin job[s].view
  BY AcceptedJob DEF RecordStep, ReplaySeesLedger
<1>2. ASSUME NEW t \in Slot
      PROVE  /\ job'[t].run = job[t].run /\ job'[t].loaded = job[t].loaded
             /\ job'[t].tok = job[t].tok
             /\ t # s => job'[t] = job[t]
  BY DEF RecordStep, TypeOK, Job
<1>3. ASSUME NEW t \in Slot, Accepted(t)' PROVE Accepted(t)
  <2>1. job[t].loaded /\ job[t].run \in Run
    BY <1>2, <1>3 DEF Accepted, HoldsRow, TypeOK, Job, Idle
  <2> QED BY <1>2, <1>3, <2>1 DEF Accepted, HoldsRow
<1>4. job'[s].view = (IF row.st = "completed" THEN job[s].view \cup {q} ELSE job[s].view)
  BY DEF RecordStep, TypeOK, Job
<1>5. \A x \in Seq : ledger'[r][x] = (IF x = q THEN Upsert(ledger[r][x], row) ELSE ledger[r][x])
  BY <1>1 DEF RecordStep, TypeOK
<1>6. ledger[r][q].st # "completed"
  BY <1>1 DEF CompletedSeqs
<1>7. CompletedSeqs(r)' = (IF row.st = "completed" THEN CompletedSeqs(r) \cup {q} ELSE CompletedSeqs(r))
  BY <1>2, <1>5, <1>6 DEF CompletedSeqs, Upsert, StepOf
<1>8. ASSUME NEW t \in Slot, Accepted(t)' PROVE job'[t].view = CompletedSeqs(job[t].run)'
  <2>1. CASE t = s
    BY <1>1, <1>4, <1>7, <2>1
  <2>2. CASE t # s
    <3>1. job[t].run # r /\ job[t].run \in Run
      BY <1>1, <1>3, <1>8, <2>2, FencedSingleWriter, AcceptedJob DEF SingleWriter
    <3>2. ledger'[job[t].run] = ledger[job[t].run]
      BY <3>1 DEF RecordStep, TypeOK
    <3> QED BY <1>2, <1>3, <1>8, <2>2, <3>2 DEF ReplaySeesLedger, CompletedSeqs
  <2> QED BY <2>1, <2>2
<1> QED BY <1>2, <1>8 DEF ReplaySeesLedger

LEMMA ReplayStep ==
    TypeOK /\ Fenced /\ WaitInv /\ ReplaySeesLedger /\ [Next]_vars => ReplaySeesLedger'
<1> SUFFICES ASSUME TypeOK, Fenced, WaitInv, ReplaySeesLedger, [Next]_vars
             PROVE  ReplaySeesLedger'
  OBVIOUS
<1> USE KernelAssumption
<1>1. ASSUME NEW r \in Run, CreateRun(r) PROVE ReplaySeesLedger'
  BY <1>1, ReplayIdle DEF CreateRun, Created, TypeOK
<1>2. ASSUME NEW r \in Run, CancelRun(r) PROVE ReplaySeesLedger'
  BY <1>2, FinishReplay DEF CancelRun, Terminal
<1>3. ASSUME NEW r \in Run, PruneRun(r) PROVE ReplaySeesLedger'
  BY <1>3, ReplayIdle DEF PruneRun, TypeOK
<1>4. ASSUME NEW s \in Slot, NEW r \in Run, ClaimTx(s, r) PROVE ReplaySeesLedger'
  <2>1. ASSUME NEW t \in Slot, Accepted(t)' PROVE Accepted(t) /\ job'[t] = job[t]
    <3>1. t # s
      BY <1>4, <2>1 DEF ClaimTx, Accepted, HoldsRow, TypeOK
    <3>2. job'[t] = job[t] /\ job[t].run \in Run
      BY <1>4, <2>1, <3>1 DEF ClaimTx, Accepted, HoldsRow, TypeOK, Job, Idle
    <3>3. job[t].run # r
      <4>1. token[r] \in Nat /\ job[t].tok \in Nat /\ token'[r] = token[r] + 1
        BY <1>4 DEF ClaimTx, NextToken, TypeOK, Job
      <4>2. job[t].run = r => job[t].tok <= token[r] /\ job[t].tok = token'[r]
        BY <2>1, <3>2 DEF Fenced, Accepted
      <4> QED BY <4>1, <4>2
    <3> QED BY <1>4, <2>1, <3>2, <3>3 DEF ClaimTx, Accepted, HoldsRow, TypeOK
  <2> QED BY <1>4, <2>1, ReplayFrame DEF ClaimTx
<1>5. ASSUME NEW s \in Slot, ReadLedger(s) PROVE ReplaySeesLedger'
  <2>1. job'[s].view = CompletedSeqs(job[s].run) /\ job'[s].run = job[s].run
    BY <1>5 DEF ReadLedger, TypeOK, Job
  <2>2. ASSUME NEW t \in Slot, t # s, Accepted(t)' PROVE Accepted(t) /\ job'[t] = job[t]
    <3>1. job'[t] = job[t]
      BY <1>5, <2>2 DEF ReadLedger, TypeOK
    <3> QED BY <1>5, <2>2, <3>1 DEF ReadLedger, kernelVars, Accepted, HoldsRow
  <2>3. ledger' = ledger
    BY <1>5 DEF ReadLedger, kernelVars
  <2> QED BY <2>1, <2>2, <2>3 DEF ReplaySeesLedger, CompletedSeqs
<1>6. ASSUME NEW s \in Slot, EndExecution(s) PROVE ReplaySeesLedger'
  <2>1. ASSUME NEW t \in Slot, Accepted(t)' PROVE Accepted(t) /\ job'[t] = job[t]
    <3>1. t # s
      BY <1>6, <2>1 DEF EndExecution, Accepted, HoldsRow, TypeOK, Idle
    <3>2. job'[t] = job[t]
      BY <1>6, <3>1 DEF EndExecution, TypeOK
    <3> QED BY <1>6, <2>1, <3>2 DEF EndExecution, kernelVars, Accepted, HoldsRow
  <2> QED BY <1>6, <2>1, ReplayFrame DEF EndExecution, kernelVars
<1>7. ASSUME NEW w \in Worker, NEW rs \in SUBSET Run, ReleaseClaims(w, rs)
      PROVE  ReplaySeesLedger'
  BY <1>7, ReplayIdle DEF ReleaseClaims, TypeOK
<1>8. ASSUME NEW s \in Slot, NEW q \in Seq, NEW st \in {"failed", "completed"},
             ReportStep(s, q, st)
      PROVE ReplaySeesLedger'
  BY <1>8, RecordReplay DEF ReportStep
<1>9. ASSUME NEW s \in Slot, NEW q \in Seq, NEW kids \in SUBSET Run,
             NEW st \in {"failed", "completed"}, BatchTriggerChild(s, q, kids, st)
      PROVE ReplaySeesLedger'
  BY <1>9, RecordReplay DEF BatchTriggerChild, Created, TypeOK
<1>10. ASSUME NEW s \in Slot, NEW q \in Seq, SuspendRun(s, q) PROVE ReplaySeesLedger'
  <2>1. job[s].run \in Run
    BY <1>10, AcceptedJob DEF SuspendRun
  <2> QED BY <1>10, <2>1, ReplayIdle DEF SuspendRun, Park, TypeOK
<1>11. ASSUME NEW s \in Slot, NEW q \in Seq, NEW c \in Run, WaitForChildRun(s, q, c)
       PROVE ReplaySeesLedger'
  <2>1. job[s].run \in Run
    BY <1>11, AcceptedJob DEF WaitForChildRun
  <2> QED BY <1>11, <2>1, ReplayIdle DEF WaitForChildRun, Park, TypeOK
<1>12. ASSUME NEW s \in Slot, CompleteRun(s) PROVE ReplaySeesLedger'
  BY <1>12, AcceptedJob, FinishReplay DEF CompleteRun, Terminal
<1>13. ASSUME NEW s \in Slot, NEW limit \in RetryLimits, FailRunRetry(s, limit)
       PROVE ReplaySeesLedger'
  BY <1>13, AcceptedJob, ReplayIdle DEF FailRunRetry, Unlock, TypeOK
<1>14. ASSUME NEW s \in Slot, NEW limit \in RetryLimits, NEW abort \in BOOLEAN,
              FailRunTerminal(s, limit, abort)
       PROVE ReplaySeesLedger'
  BY <1>14, AcceptedJob, FinishReplay DEF FailRunTerminal, Terminal
<1>15. ASSUME NEW r \in Run, ReapRequeue(r) PROVE ReplaySeesLedger'
  BY <1>15, ReplayIdle DEF ReapRequeue, Unlock, TypeOK
<1>16. ASSUME NEW r \in Run, ReapExhausted(r) PROVE ReplaySeesLedger'
  BY <1>16, FinishReplay DEF ReapExhausted, Terminal
<1>17. ASSUME NEW r \in Run, ReapDesynced(r) PROVE ReplaySeesLedger'
  BY <1>17, ReplayIdle DEF ReapDesynced, TypeOK
<1>18. ASSUME NEW w \in Wait, ResumeTimer(w) PROVE ReplaySeesLedger'
  <2>1. w.run \in Run
    BY DEF Wait
  <2> QED BY <1>18, <2>1, ReplayIdle DEF ResumeTimer, Unlock, TypeOK
<1>19. ASSUME NEW w \in Wait, ResumeStaleTimer(w) \/ FailOrphan(w) \/ RetireOrphan(w)
       PROVE  ReplaySeesLedger'
  BY <1>19, NothingToRepair
<1>20. ASSUME NEW c \in Run, HealStuckWaits(c) PROVE ReplaySeesLedger'
  BY <1>20, NothingToRepair
<1>21. ASSUME UNCHANGED <<status, queueRow, token, ledger, job>> PROVE ReplaySeesLedger'
  BY <1>21, ReplayIdle
<1>22. ASSUME NEW w \in Worker, Heartbeat(w) PROVE ReplaySeesLedger'
  BY <1>21, <1>22 DEF Heartbeat
<1>23. ASSUME NEW r \in Run, LeaseExpires(r) PROVE ReplaySeesLedger'
  BY <1>21, <1>23 DEF LeaseExpires
<1>24. CASE UNCHANGED vars
  BY <1>21, <1>24 DEF vars
<1> QED
  BY <1>1, <1>2, <1>3, <1>4, <1>5, <1>6, <1>7, <1>8, <1>9, <1>10, <1>11, <1>12, <1>13,
     <1>14, <1>15, <1>16, <1>17, <1>18, <1>19, <1>20, <1>22, <1>23, <1>24
  DEF Next, ClientNext, ClaimNext, ExecutorNext, FencedNext, WorkerNext, OrchestratorNext,
      ReapNext, WaitNext, RetryRun, SuspendDue

\* An executor that can still write has replayed from the ledger as it is now,
\* although its claim committed before the ledger was read.
THEOREM ReplayIsCurrent == Spec => []ReplaySeesLedger
<1>1. Init => ReplaySeesLedger
  BY DEF Init, ReplaySeesLedger, Accepted, HoldsRow, Idle
<1> QED BY <1>1, ReplayStep, TypeCorrect, FencedAlways, WaitInvAlways, PTL DEF Spec

----------------------------------------------------------------------------
\* Runs that have ended

\* The step that TerminalFrozen allows.
Frozen ==
    \A r \in Run : status[r] \in Terminal =>
          \/ status'[r] = "pruned"
          \/ /\ status'[r] = status[r] /\ ledger'[r] = ledger[r]
             /\ attempt'[r] = attempt[r] /\ recoveries'[r] = recoveries[r]
             /\ token'[r] = token[r] /\ queueRow'[r] = queueRow[r]

\* The end of another run, live until now, does not touch one that has ended.
LEMMA FinishFrozen ==
    ASSUME TypeOK, WaitInv, NEW r \in Run, NEW final \in Terminal, Finish(r, final),
           status[r] \in Live, UNCHANGED <<attempt, recoveries, token>>
    PROVE  Frozen
<1>1. ASSUME NEW p \in Run, status[p] \in Terminal PROVE p # r /\ status[p] # "waiting"
  BY <1>1 DEF Terminal, Live
<1> QED BY <1>1, FinishLeaves DEF Frozen

LEMMA FrozenStep ==
    TypeOK /\ QueueMatchesStatus /\ WaitInv /\ [Next]_vars => [Frozen]_vars
<1> SUFFICES ASSUME TypeOK, QueueMatchesStatus, WaitInv, Next PROVE Frozen
  OBVIOUS
<1> USE KernelAssumption
<1>1. ASSUME NEW r \in Run, CreateRun(r) PROVE Frozen
  BY <1>1 DEF CreateRun, Created, Frozen, Terminal
<1>2. ASSUME NEW r \in Run, CancelRun(r) PROVE Frozen
  BY <1>2, FinishFrozen DEF CancelRun, Cancelable, Terminal
<1>3. ASSUME NEW r \in Run, PruneRun(r) PROVE Frozen
  BY <1>3 DEF PruneRun, TypeOK, Frozen
<1>4. ASSUME NEW s \in Slot, NEW r \in Run, ClaimTx(s, r) PROVE Frozen
  BY <1>4 DEF ClaimTx, TypeOK, Frozen, Terminal
<1>5. ASSUME NEW w \in Worker, NEW rs \in SUBSET Run, ReleaseClaims(w, rs) PROVE Frozen
  <2>1. \A r \in rs : status[r] = "running"
    BY <1>5 DEF ReleaseClaims, QueueMatchesStatus
  <2> QED BY <1>5, <2>1 DEF ReleaseClaims, Frozen, Terminal
<1>6. ASSUME NEW s \in Slot, NEW q \in Seq, NEW row \in StepRow, RecordStep(s, q, row),
             UNCHANGED <<attempt, recoveries, token>>,
             \A r \in Run : status[r] # "absent" => status'[r] = status[r] /\ queueRow'[r] = queueRow[r]
      PROVE  Frozen
  <2>1. job[s].run \in Run /\ status[job[s].run] = "running"
    BY <1>6, AcceptedJob DEF RecordStep
  <2>2. \A r \in Run : r # job[s].run => ledger'[r] = ledger[r]
    BY <1>6, <2>1 DEF RecordStep, TypeOK
  <2> QED BY <1>6, <2>1, <2>2 DEF Frozen, Terminal
<1>7. ASSUME NEW s \in Slot, NEW q \in Seq, NEW st \in {"failed", "completed"},
             ReportStep(s, q, st)
      PROVE Frozen
  BY <1>6, <1>7 DEF ReportStep, StepOf, StepRow
<1>8. ASSUME NEW s \in Slot, NEW q \in Seq, NEW kids \in SUBSET Run,
             NEW st \in {"failed", "completed"}, BatchTriggerChild(s, q, kids, st)
      PROVE Frozen
  BY <1>6, <1>8 DEF BatchTriggerChild, Created, StepOf, StepRow
<1>9. ASSUME NEW s \in Slot, NEW q \in Seq, SuspendRun(s, q) PROVE Frozen
  <2>1. job[s].run \in Run /\ status[job[s].run] = "running"
    BY <1>9, AcceptedJob DEF SuspendRun
  <2> QED BY <1>9, <2>1 DEF SuspendRun, Park, TypeOK, Frozen, Terminal
<1>10. ASSUME NEW s \in Slot, NEW q \in Seq, NEW c \in Run, WaitForChildRun(s, q, c)
       PROVE Frozen
  <2>1. job[s].run \in Run /\ status[job[s].run] = "running"
    BY <1>10, AcceptedJob DEF WaitForChildRun
  <2> QED BY <1>10, <2>1 DEF WaitForChildRun, Park, TypeOK, Frozen, Terminal
<1>11. ASSUME NEW s \in Slot, CompleteRun(s) PROVE Frozen
  BY <1>11, AcceptedJob, FinishFrozen DEF CompleteRun, Terminal, Live
<1>12. ASSUME NEW s \in Slot, NEW limit \in RetryLimits, FailRunRetry(s, limit) PROVE Frozen
  <2>1. job[s].run \in Run /\ status[job[s].run] = "running"
    BY <1>12, AcceptedJob DEF FailRunRetry
  <2> QED BY <1>12, <2>1 DEF FailRunRetry, Unlock, TypeOK, Frozen, Terminal
<1>13. ASSUME NEW s \in Slot, NEW limit \in RetryLimits, NEW abort \in BOOLEAN,
              FailRunTerminal(s, limit, abort)
       PROVE Frozen
  BY <1>13, AcceptedJob, FinishFrozen DEF FailRunTerminal, Terminal, Live
<1>14. ASSUME NEW r \in Run, ReapRequeue(r) PROVE Frozen
  BY <1>14 DEF ReapRequeue, Unlock, TypeOK, Frozen, Terminal
<1>15. ASSUME NEW r \in Run, ReapExhausted(r) PROVE Frozen
  BY <1>15, FinishFrozen DEF ReapExhausted, Terminal, Live
<1>16. ASSUME NEW r \in Run, ReapDesynced(r) PROVE Frozen
  BY <1>16 DEF ReapDesynced, QueueMatchesStatus
<1>17. ASSUME NEW w \in Wait, ResumeTimer(w) PROVE Frozen
  <2>1. w.run \in Run
    BY DEF Wait
  <2> QED BY <1>17, <2>1 DEF ResumeTimer, Unlock, TypeOK, Frozen, Terminal
<1>18. ASSUME NEW w \in Wait, ResumeStaleTimer(w) \/ FailOrphan(w) \/ RetireOrphan(w)
       PROVE  Frozen
  BY <1>18, NothingToRepair
<1>19. ASSUME NEW c \in Run, HealStuckWaits(c) PROVE Frozen
  BY <1>19, NothingToRepair
<1>20. ASSUME UNCHANGED <<status, attempt, recoveries, token, queueRow, ledger>> PROVE Frozen
  BY <1>20 DEF Frozen
<1>21. ASSUME NEW s \in Slot, ReadLedger(s) \/ EndExecution(s) PROVE Frozen
  BY <1>20, <1>21 DEF ReadLedger, EndExecution, kernelVars
<1>22. ASSUME NEW w \in Worker, Heartbeat(w) PROVE Frozen
  BY <1>20, <1>22 DEF Heartbeat
<1>23. ASSUME NEW r \in Run, LeaseExpires(r) PROVE Frozen
  BY <1>20, <1>23 DEF LeaseExpires
<1> QED
  BY <1>1, <1>2, <1>3, <1>4, <1>5, <1>7, <1>8, <1>9, <1>10, <1>11, <1>12, <1>13,
     <1>14, <1>15, <1>16, <1>17, <1>18, <1>19, <1>21, <1>22, <1>23
  DEF Next, ClientNext, ClaimNext, ExecutorNext, FencedNext, WorkerNext, OrchestratorNext,
      ReapNext, WaitNext, RetryRun, SuspendDue

\* A run that ended stays as it ended until retention deletes it: no late
\* executor, reaper, timer, wake or cancel moves it, its counters or its ledger.
THEOREM EndsAreFinal == Spec => TerminalFrozen
  BY TypeCorrect, QueueAgrees, WaitInvAlways, FrozenStep, PTL
  DEF Spec, TerminalFrozen, Frozen

----------------------------------------------------------------------------
\* What a parent's ledger says of its children

\* A step that records no answer and brings no ended run back.
LEMMA AnswersFrame ==
    ASSUME TypeOK, ChildAnswersAreTrue,
           \A p \in Run, q \in Seq : ledger'[p][q] = ledger[p][q] \/ ledger'[p][q].child = NoRun,
           \A p \in Run : status[p] \in Terminal \cup {"pruned"} =>
                          status'[p] = status[p] \/ status'[p] = "pruned"
    PROVE  ChildAnswersAreTrue'
<1>1. \A p \in Run, q \in Seq : ledger[p][q].child \in Run \cup {NoRun}
  BY DEF TypeOK, StepRow
<1>2. ASSUME NEW p \in Run, NEW q \in Seq, ledger'[p][q].child # NoRun
      PROVE  /\ status'[ledger'[p][q].child] \in
                   (IF ledger'[p][q].ok THEN {"completed"} ELSE {"failed", "canceled"})
                   \cup {"pruned"}
             /\ \A p2 \in Run, q2 \in Seq :
                   ledger'[p2][q2].child = ledger'[p][q].child => p2 = p /\ q2 = q
  <2> DEFINE c == ledger[p][q].child
  <2>1. ledger'[p][q] = ledger[p][q] /\ c \in Run /\ c # NoRun
    BY <1>1, <1>2
  <2>2. status[c] \in (IF ledger[p][q].ok THEN {"completed"} ELSE {"failed", "canceled"})
                      \cup {"pruned"}
    BY <2>1 DEF ChildAnswersAreTrue
  <2>3. \A p2 \in Run, q2 \in Seq : ledger[p2][q2].child = c => p2 = p /\ q2 = q
    BY <2>1 DEF ChildAnswersAreTrue
  <2>4. \A p2 \in Run, q2 \in Seq : ledger'[p2][q2].child = c => ledger[p2][q2].child = c
    BY <2>1
  <2>5. status'[c] = status[c] \/ status'[c] = "pruned"
    BY <2>1, <2>2 DEF Terminal
  <2> QED BY <2>1, <2>2, <2>3, <2>4, <2>5
<1> QED BY <1>2 DEF ChildAnswersAreTrue

\* The end of a run answers the one step that waits for it, truly; no step was
\* answered before, because the run was live.
LEMMA FinishAnswers ==
    ASSUME TypeOK, WaitInv, ChildAnswersAreTrue, NEW r \in Run, NEW final \in Terminal,
           Finish(r, final), status[r] \in Live
    PROVE  ChildAnswersAreTrue'
<1> DEFINE Answered(p, q) == \E w \in WaitersOf(r) : w.run = p /\ w.seq = q
<1> DEFINE answer == AnswerOf(r, AnswersOk(final))
<1> USE KernelAssumption
<1>1. ASSUME NEW p \in Run, NEW q \in Seq
      PROVE  ledger[p][q].child \in Run \cup {NoRun} /\ ledger[p][q].child # r
  <2>1. ledger[p][q].child \in Run \cup {NoRun}
    BY DEF TypeOK, StepRow
  <2>2. ledger[p][q].child # NoRun =>
           status[ledger[p][q].child] \in {"completed", "failed", "canceled", "pruned"}
    BY DEF ChildAnswersAreTrue
  <2> QED BY <2>1, <2>2 DEF Live
<1>2. ASSUME NEW p \in Run, NEW q \in Seq
      PROVE  \/ ledger'[p][q] = ledger[p][q]
             \/ ledger'[p][q] = answer /\ Answered(p, q)
  BY DEF Finish, LedgerAfterWake, Upsert
<1>3. answer.child = r /\ (answer.ok <=> final = "completed")
  BY DEF AnswerOf, AnswersOk
<1>4. \A p, p2 \in Run, q, q2 \in Seq : Answered(p, q) /\ Answered(p2, q2) => p2 = p /\ q2 = q
  BY DEF WaitersOf, WaitInv, WaitGraph
<1>5. /\ status'[r] = final
      /\ \A c \in Run : status[c] \in Terminal \cup {"pruned"} => status'[c] = status[c]
  BY DEF Finish, WokenBy, TypeOK, Terminal, Live
<1>6. ASSUME NEW p \in Run, NEW q \in Seq, ledger'[p][q].child # NoRun
      PROVE  /\ status'[ledger'[p][q].child] \in
                   (IF ledger'[p][q].ok THEN {"completed"} ELSE {"failed", "canceled"})
                   \cup {"pruned"}
             /\ \A p2 \in Run, q2 \in Seq :
                   ledger'[p2][q2].child = ledger'[p][q].child => p2 = p /\ q2 = q
  <2>1. CASE ledger'[p][q] = ledger[p][q]
    <3> DEFINE c == ledger[p][q].child
    <3>1. c \in Run /\ c # r /\ c # NoRun
      BY <1>1, <1>6, <2>1
    <3>2. status[c] \in (IF ledger[p][q].ok THEN {"completed"} ELSE {"failed", "canceled"})
                        \cup {"pruned"}
      BY <3>1 DEF ChildAnswersAreTrue
    <3>3. \A p2 \in Run, q2 \in Seq : ledger'[p2][q2].child = c => ledger[p2][q2].child = c
      BY <1>2, <1>3, <3>1
    <3>4. \A p2 \in Run, q2 \in Seq : ledger[p2][q2].child = c => p2 = p /\ q2 = q
      BY <3>1 DEF ChildAnswersAreTrue
    <3> QED BY <1>5, <2>1, <3>1, <3>2, <3>3, <3>4 DEF Terminal
  <2>2. CASE ledger'[p][q] = answer /\ Answered(p, q)
    <3>1. \A p2 \in Run, q2 \in Seq : ledger'[p2][q2].child = r => Answered(p2, q2)
      BY <1>1, <1>2
    <3>2. \A p2 \in Run, q2 \in Seq : ledger'[p2][q2].child = r => p2 = p /\ q2 = q
      BY <1>4, <2>2, <3>1
    <3> QED BY <1>3, <1>5, <2>2, <3>2 DEF Terminal
  <2> QED BY <1>2, <2>1, <2>2
<1> QED BY <1>6 DEF ChildAnswersAreTrue

LEMMA AnswersStep ==
    TypeOK /\ QueueMatchesStatus /\ WaitInv /\ ChildAnswersAreTrue /\ [Next]_vars
    => ChildAnswersAreTrue'
<1> SUFFICES ASSUME TypeOK, QueueMatchesStatus, WaitInv, ChildAnswersAreTrue, [Next]_vars
             PROVE  ChildAnswersAreTrue'
  OBVIOUS
<1> USE KernelAssumption
<1>1. ASSUME NEW r \in Run, CancelRun(r) PROVE ChildAnswersAreTrue'
  BY <1>1, FinishAnswers DEF CancelRun, Cancelable, Terminal
<1>2. ASSUME NEW s \in Slot, CompleteRun(s) PROVE ChildAnswersAreTrue'
  BY <1>2, AcceptedJob, FinishAnswers DEF CompleteRun, Terminal, Live
<1>3. ASSUME NEW s \in Slot, NEW limit \in RetryLimits, NEW abort \in BOOLEAN,
             FailRunTerminal(s, limit, abort)
      PROVE ChildAnswersAreTrue'
  BY <1>3, AcceptedJob, FinishAnswers DEF FailRunTerminal, Terminal, Live
<1>4. ASSUME NEW r \in Run, ReapExhausted(r) PROVE ChildAnswersAreTrue'
  BY <1>4, FinishAnswers DEF ReapExhausted, Terminal, Live
<1>5. ASSUME NEW r \in Run, PruneRun(r) PROVE ChildAnswersAreTrue'
  <2>1. \A p \in Run, q \in Seq : ledger'[p][q] = ledger[p][q] \/ ledger'[p][q].child = NoRun
    BY <1>5 DEF PruneRun, StepOf, TypeOK
  <2> QED BY <1>5, <2>1, AnswersFrame DEF PruneRun, TypeOK
<1>6. ASSUME NEW s \in Slot, NEW q \in Seq, NEW row \in {StepOf("failed"), StepOf("completed")},
             RecordStep(s, q, row)
      PROVE  \A p \in Run, x \in Seq : ledger'[p][x] = ledger[p][x] \/ ledger'[p][x].child = NoRun
  <2>1. job[s].run \in Run /\ row.child = NoRun
    BY <1>6, AcceptedJob DEF RecordStep, StepOf
  <2> QED BY <1>6, <2>1 DEF RecordStep, Upsert, TypeOK
<1>7. ASSUME NEW s \in Slot, NEW q \in Seq, NEW st \in {"failed", "completed"},
             ReportStep(s, q, st)
      PROVE ChildAnswersAreTrue'
  BY <1>6, <1>7, AnswersFrame DEF ReportStep
<1>8. ASSUME NEW s \in Slot, NEW q \in Seq, NEW kids \in SUBSET Run,
             NEW st \in {"failed", "completed"}, BatchTriggerChild(s, q, kids, st)
      PROVE ChildAnswersAreTrue'
  <2>1. \A p \in Run : status[p] \in Terminal \cup {"pruned"} => status'[p] = status[p]
    BY <1>8 DEF BatchTriggerChild, Created, Terminal
  <2> QED BY <1>6, <1>8, <2>1, AnswersFrame DEF BatchTriggerChild
<1>9. ASSUME NEW w \in Wait, ResumeTimer(w) PROVE ChildAnswersAreTrue'
  <2>1. w.run \in Run /\ w.seq \in Seq
    BY DEF Wait
  <2>2. \A p \in Run, q \in Seq : ledger'[p][q] = ledger[p][q] \/ ledger'[p][q].child = NoRun
    BY <1>9, <2>1 DEF ResumeTimer, Upsert, StepOf, TypeOK
  <2> QED BY <1>9, <2>1, <2>2, AnswersFrame DEF ResumeTimer, Unlock, TypeOK, Terminal
<1>10. ASSUME ledger' = ledger, Frozen,
              \A p \in Run : status[p] = "pruned" => status'[p] = "pruned"
       PROVE  ChildAnswersAreTrue'
  BY <1>10, AnswersFrame DEF Frozen
<1>11. ASSUME Next PROVE Frozen
  BY <1>11, FrozenStep DEF Frozen, vars
<1>12. ASSUME NEW r \in Run,
              CreateRun(r) \/ ReapRequeue(r) \/ ReapDesynced(r) \/ LeaseExpires(r)
       PROVE  /\ ledger' = ledger
              /\ \A p \in Run : status[p] = "pruned" => status'[p] = "pruned"
  BY <1>12 DEF CreateRun, Created, ReapRequeue, Unlock, ReapDesynced, LeaseExpires, TypeOK
<1>13. ASSUME NEW s \in Slot, NEW r \in Run, ClaimTx(s, r)
       PROVE  /\ ledger' = ledger
              /\ \A p \in Run : status[p] = "pruned" => status'[p] = "pruned"
  BY <1>13 DEF ClaimTx, TypeOK
<1>14. ASSUME NEW w \in Worker, Heartbeat(w) \/ \E rs \in SUBSET Run : ReleaseClaims(w, rs)
       PROVE  /\ ledger' = ledger
              /\ \A p \in Run : status[p] = "pruned" => status'[p] = "pruned"
  BY <1>14 DEF Heartbeat, ReleaseClaims, TypeOK
<1>15. ASSUME NEW s \in Slot,
              \/ ReadLedger(s) \/ EndExecution(s)
              \/ \E q \in Seq : SuspendRun(s, q) \/ \E c \in Run : WaitForChildRun(s, q, c)
              \/ \E limit \in RetryLimits : FailRunRetry(s, limit)
       PROVE  /\ ledger' = ledger
              /\ \A p \in Run : status[p] = "pruned" => status'[p] = "pruned"
  BY <1>15, AcceptedJob
  DEF ReadLedger, EndExecution, kernelVars, SuspendRun, WaitForChildRun, Park, FailRunRetry,
      Unlock, TypeOK
<1>16. ASSUME NEW w \in Wait, ResumeStaleTimer(w) \/ FailOrphan(w) \/ RetireOrphan(w)
       PROVE  ChildAnswersAreTrue'
  BY <1>16, NothingToRepair
<1>17. ASSUME NEW c \in Run, HealStuckWaits(c) PROVE ChildAnswersAreTrue'
  BY <1>17, NothingToRepair
<1>18. CASE UNCHANGED vars
  BY <1>18, AnswersFrame DEF vars
<1> QED
  BY <1>1, <1>2, <1>3, <1>4, <1>5, <1>7, <1>8, <1>9, <1>10, <1>11, <1>12, <1>13, <1>14,
     <1>15, <1>16, <1>17, <1>18
  DEF Next, ClientNext, ClaimNext, ExecutorNext, FencedNext, WorkerNext, OrchestratorNext,
      ReapNext, WaitNext, RetryRun, SuspendDue

\* What a parent's ledger says of a child is how that child ended, and no two
\* steps of any run share a child.
THEOREM AnswersAgree == Spec => []ChildAnswersAreTrue
<1>1. Init => ChildAnswersAreTrue
  BY DEF Init, ChildAnswersAreTrue, StepOf
<1> QED BY <1>1, AnswersStep, TypeCorrect, QueueAgrees, WaitInvAlways, PTL DEF Spec

----------------------------------------------------------------------------
\* From disturbed tables the invariants of RunKernel do not hold, so what keeps an
\* ended run ended is each transaction's own guard.

\* The step that NeverResurrected allows.
Buried ==
    \A r \in Run : status[r] \in Terminal =>
          /\ status'[r] \in {status[r], "pruned"}
          /\ token'[r] = token[r]

LEMMA DisturbedType == DisturbedInit => TypeOK
<1> SUFFICES ASSUME DisturbedInit PROVE TypeOK
  OBVIOUS
<1>1. waits \subseteq Wait
  BY DEF DisturbedInit, DisturbedWaits
<1>2. /\ ledger \in [Run -> [Seq -> StepRow]]
      /\ job \in [Slot -> Job]
      /\ \A s \in Slot : job[s] = Idle
  BY DEF DisturbedInit, StepOf, StepRow, Idle, Job
<1>3. status \in [Run -> Status] /\ expired \subseteq Run
  BY DEF DisturbedInit, Status, Terminal, Live
<1> QED BY <1>1, <1>2, <1>3, KernelAssumption DEF DisturbedInit, TypeOK

\* Steps that keep every token and move only runs that are live.
LEMMA BuriedFrame ==
    ASSUME token' = token,
           \A r \in Run : status[r] \in Terminal => status'[r] = status[r]
    PROVE  Buried
  BY DEF Buried

\* No transaction ends, wakes, requeues or claims a run that has ended.
LEMMA BuriedStep == TypeOK /\ [Next]_vars => [Buried]_vars
<1> SUFFICES ASSUME TypeOK, Next PROVE Buried
  OBVIOUS
<1> USE KernelAssumption
<1>1. ASSUME NEW r \in Run, NEW final \in Terminal, Finish(r, final), status[r] \in Live,
             token' = token
      PROVE  Buried
  BY <1>1, BuriedFrame DEF Finish, WokenBy, Live, Terminal
<1>2. ASSUME NEW r \in Run, CreateRun(r) PROVE Buried
  BY <1>2, BuriedFrame DEF CreateRun, Created, Terminal
<1>3. ASSUME NEW r \in Run, CancelRun(r) PROVE Buried
  BY <1>1, <1>3 DEF CancelRun, Cancelable, Terminal
<1>4. ASSUME NEW r \in Run, PruneRun(r) PROVE Buried
  BY <1>4 DEF PruneRun, TypeOK, Buried
<1>5. ASSUME NEW s \in Slot, NEW r \in Run, ClaimTx(s, r) PROVE Buried
  BY <1>5 DEF ClaimTx, TypeOK, Buried, Terminal
<1>6. ASSUME NEW w \in Worker, NEW rs \in SUBSET Run, ReleaseClaims(w, rs) PROVE Buried
  BY <1>6, BuriedFrame DEF ReleaseClaims, Terminal
<1>7. ASSUME NEW s \in Slot, NEW q \in Seq, NEW kids \in SUBSET Run,
             NEW st \in {"failed", "completed"}, BatchTriggerChild(s, q, kids, st)
      PROVE Buried
  BY <1>7, BuriedFrame DEF BatchTriggerChild, Created, Terminal
<1>8. ASSUME NEW s \in Slot, NEW q \in Seq,
             SuspendRun(s, q) \/ \E c \in Run : WaitForChildRun(s, q, c)
      PROVE Buried
  <2>1. job[s].run \in Run /\ status[job[s].run] = "running"
    BY <1>8, AcceptedJob DEF SuspendRun, WaitForChildRun
  <2> QED BY <1>8, <2>1, BuriedFrame DEF SuspendRun, WaitForChildRun, Park, TypeOK, Terminal
<1>9. ASSUME NEW s \in Slot, CompleteRun(s) PROVE Buried
  BY <1>1, <1>9, AcceptedJob DEF CompleteRun, Terminal, Live
<1>10. ASSUME NEW s \in Slot, NEW limit \in RetryLimits, FailRunRetry(s, limit) PROVE Buried
  BY <1>10, AcceptedJob, BuriedFrame DEF FailRunRetry, Unlock, TypeOK, Terminal
<1>11. ASSUME NEW s \in Slot, NEW limit \in RetryLimits, NEW abort \in BOOLEAN,
              FailRunTerminal(s, limit, abort)
       PROVE Buried
  BY <1>1, <1>11, AcceptedJob DEF FailRunTerminal, Terminal, Live
<1>12. ASSUME NEW r \in Run, ReapRequeue(r) PROVE Buried
  BY <1>12, BuriedFrame DEF ReapRequeue, Unlock, TypeOK, Terminal
<1>13. ASSUME NEW r \in Run, ReapExhausted(r) PROVE Buried
  BY <1>1, <1>13 DEF ReapExhausted, Terminal, Live
<1>14. ASSUME NEW w \in Wait, ResumeTimer(w) PROVE Buried
  <2>1. w.run \in Run
    BY DEF Wait
  <2> QED BY <1>14, <2>1, BuriedFrame DEF ResumeTimer, Unlock, TypeOK, Terminal
<1>15. ASSUME NEW w \in Wait, FailOrphan(w) PROVE Buried
  <2>1. w.run \in Run
    BY DEF Wait
  <2> QED BY <1>1, <1>15, <2>1 DEF FailOrphan, Terminal, Live
<1>16. ASSUME NEW c \in Run, HealStuckWaits(c) PROVE Buried
  BY <1>16, BuriedFrame DEF HealStuckWaits, WokenBy, Terminal
<1>17. ASSUME UNCHANGED <<status, token>> PROVE Buried
  BY <1>17, BuriedFrame
<1>18. ASSUME NEW s \in Slot,
              \/ ReadLedger(s) \/ EndExecution(s)
              \/ \E q \in Seq, st \in {"failed", "completed"} : ReportStep(s, q, st)
       PROVE  Buried
  BY <1>17, <1>18 DEF ReadLedger, EndExecution, kernelVars, ReportStep
<1>19. ASSUME NEW w \in Worker, Heartbeat(w) PROVE Buried
  BY <1>17, <1>19 DEF Heartbeat
<1>20. ASSUME NEW r \in Run, LeaseExpires(r) \/ ReapDesynced(r) PROVE Buried
  BY <1>17, <1>20 DEF LeaseExpires, ReapDesynced
<1>21. ASSUME NEW w \in Wait, ResumeStaleTimer(w) \/ RetireOrphan(w) PROVE Buried
  BY <1>17, <1>21 DEF ResumeStaleTimer, RetireOrphan
<1> QED
  BY <1>2, <1>3, <1>4, <1>5, <1>6, <1>7, <1>8, <1>9, <1>10, <1>11, <1>12, <1>13, <1>14,
     <1>15, <1>16, <1>18, <1>19, <1>20, <1>21
  DEF Next, ClientNext, ClaimNext, ExecutorNext, FencedNext, WorkerNext, OrchestratorNext,
      ReapNext, WaitNext, RetryRun, SuspendDue

\* Whatever leftovers point at it, a run that has ended is never brought back,
\* from any repairable state of the tables.
THEOREM EndedStaysEnded == RepairSpec => NeverResurrected
  BY DisturbedType, TypeStep, BuriedStep, PTL DEF RepairSpec, NeverResurrected, Buried

----------------------------------------------------------------------------
\* The tables of RunKernel implement the durable run of DurableRun: every transaction
\* is one of its steps or none.

\* How RunKernel shows the phase of a run.
PhaseOf(r) == IF status[r] \in Live THEN "live" ELSE status[r]

LEMMA StutterStep ==
    ASSUME \A p \in Run : PhaseOf(p)' = PhaseOf(p),
           \A p \in Run, q \in Seq : Entry(ledger'[p][q]) = Entry(ledger[p][q])
    PROVE  UNCHANGED Durable!vars
<1>1. [r \in Run |-> PhaseOf(r)]' = [r \in Run |-> PhaseOf(r)]
  OBVIOUS
<1>2. [r \in Run |-> [q \in Seq |-> Entry(ledger[r][q])]]'
        = [r \in Run |-> [q \in Seq |-> Entry(ledger[r][q])]]
  BY DEF Entry
<1> QED BY <1>1, <1>2 DEF Durable!vars, PhaseOf

\* New runs, and nothing else that a task can see.
LEMMA CreateStep ==
    ASSUME NEW kids \in SUBSET Run, \A c \in kids : status[c] = "absent",
           \A p \in Run : PhaseOf(p)' = (IF p \in kids THEN "live" ELSE PhaseOf(p)),
           \A p \in Run, q \in Seq : Entry(ledger'[p][q]) = Entry(ledger[p][q])
    PROVE  Durable!Next
<1>1. \A c \in kids : PhaseOf(c) = "absent"
  BY DEF PhaseOf, Live
<1>2. [r \in Run |-> PhaseOf(r)]'
        = [p \in Run |-> IF p \in kids THEN "live" ELSE [r \in Run |-> PhaseOf(r)][p]]
  OBVIOUS
<1>3. [r \in Run |-> [q \in Seq |-> Entry(ledger[r][q])]]'
        = [r \in Run |-> [q \in Seq |-> Entry(ledger[r][q])]]
  BY DEF Entry
<1>4. Durable!Create(kids)
  BY <1>1, <1>2, <1>3 DEF Durable!Create, Durable!Begin, PhaseOf
<1> QED BY <1>4 DEF Durable!Next

\* A live run records one position of its own, with or without new runs.
LEMMA RecordMaps ==
    ASSUME NEW r \in Run, NEW x \in Seq, NEW kids \in SUBSET Run,
           status[r] \in Live, ledger[r][x].st # "completed",
           \A c \in kids : status[c] = "absent",
           \A p \in Run : PhaseOf(p)' = (IF p \in kids THEN "live" ELSE PhaseOf(p)),
           \A p \in Run, q \in Seq :
              Entry(ledger'[p][q]) = (IF p = r /\ q = x THEN Entry(StepOf("completed"))
                                      ELSE Entry(ledger[p][q]))
    PROVE  Durable!Next
<1>1. /\ \A c \in kids : PhaseOf(c) = "absent"
      /\ PhaseOf(r) = "live"
  BY DEF PhaseOf, Live
<1>2. [p \in Run |-> PhaseOf(p)]'
        = [p \in Run |-> IF p \in kids THEN "live" ELSE [c \in Run |-> PhaseOf(c)][p]]
  OBVIOUS
<1>3. Entry(StepOf("completed")) = Durable!Own /\ ~Entry(ledger[r][x]).rec
  BY DEF Entry, StepOf, Durable!Own
<1> DEFINE J == [p \in Run |-> [q \in Seq |-> Entry(ledger[p][q])]]
<1>4. J' = [J EXCEPT ![r][x] = Durable!Own]
  <2>1. \A p \in Run, q \in Seq :
           J'[p][q] = (IF p = r /\ q = x THEN Durable!Own ELSE J[p][q])
    BY <1>3 DEF Entry
  <2>2. \A p \in Run : J'[p] = [q \in Seq |-> IF p = r /\ q = x THEN Durable!Own ELSE J[p][q]]
    BY <2>1
  <2>3. [J[r] EXCEPT ![x] = Durable!Own] = [q \in Seq |-> IF q = x THEN Durable!Own ELSE J[r][q]]
    OBVIOUS
  <2>4. \A p \in Run : J'[p] = (IF p = r THEN [J[r] EXCEPT ![x] = Durable!Own] ELSE J[p])
    BY <2>2, <2>3
  <2>5. J' = [p \in Run |-> J'[p]]
    OBVIOUS
  <2> HIDE DEF J
  <2>6. [J EXCEPT ![r] = [J[r] EXCEPT ![x] = Durable!Own]]
          = [p \in Run |-> IF p = r THEN [J[r] EXCEPT ![x] = Durable!Own] ELSE J[p]]
    BY DEF J
  <2> QED BY <2>4, <2>5, <2>6
<1>5. ~J[r][x].rec
  BY <1>3
<1>6. Durable!Record(r, x, kids)
  BY <1>1, <1>2, <1>4, <1>5 DEF Durable!Record, Durable!Begin, PhaseOf
<1> QED BY <1>6 DEF Durable!Next

\* A live run ends, and its end is written down at some steps of live runs.
LEMMA EndStep ==
    ASSUME NEW r \in Run, NEW final \in Terminal, NEW at \in SUBSET (Run \X Seq),
           PhaseOf(r) = "live",
           \A x \in at : /\ PhaseOf(x[1]) = "live"
                         /\ x[1] # r
                         /\ ~Entry(ledger[x[1]][x[2]]).rec,
           \A p \in Run : PhaseOf(p)' = (IF p = r THEN final ELSE PhaseOf(p)),
           \A p \in Run, q \in Seq :
              Entry(ledger'[p][q]) = (IF <<p, q>> \in at THEN Durable!Answer(r, final)
                                      ELSE Entry(ledger[p][q]))
    PROVE  Durable!Next
<1> DEFINE J == [p \in Run |-> [q \in Seq |-> Entry(ledger[p][q])]]
<1> DEFINE P == [p \in Run |-> PhaseOf(p)]
<1>1. P' = [P EXCEPT ![r] = final]
  OBVIOUS
<1>2. J' = [p \in Run |-> [q \in Seq |->
              IF <<p, q>> \in at THEN Durable!Answer(r, final) ELSE J[p][q]]]
  BY DEF Entry
<1>3. \A x \in at : x[1] \in Run /\ x[2] \in Seq
  OBVIOUS
<1>4. P[r] = "live" /\ \A x \in at : P[x[1]] = "live" /\ x[1] # r /\ ~J[x[1]][x[2]].rec
  BY <1>3
<1>5. Durable!End(r, final, at)
  BY <1>1, <1>2, <1>4 DEF Durable!End, PhaseOf
<1> QED BY <1>5 DEF Durable!Next, Durable!Ends, Terminal

\* The end of a live run is recorded wherever it was waited for.
LEMMA EndMaps ==
    ASSUME TypeOK, WaitInv, NEW r \in Run, NEW final \in Terminal, Finish(r, final),
           status[r] \in Live
    PROVE  Durable!Next
<1> DEFINE Awaited(p, q) == \E w \in WaitersOf(r) : w.run = p /\ w.seq = q
<1> DEFINE at == {x \in Run \X Seq : Awaited(x[1], x[2]) /\ ledger[x[1]][x[2]].st # "completed"}
<1>1. \A p \in Run, q \in Seq : Awaited(p, q) => p # r /\ status[p] = "waiting"
  BY DEF WaitersOf, WaitInv, WaitGraph, WaitShape
<1>2. \A x \in at : /\ PhaseOf(x[1]) = "live"
                    /\ x[1] # r
                    /\ ~Entry(ledger[x[1]][x[2]]).rec
  BY <1>1 DEF PhaseOf, Live, Entry
<1>3. ASSUME NEW p \in Run PROVE PhaseOf(p)' = (IF p = r THEN final ELSE PhaseOf(p))
  BY DEF Finish, WokenBy, PhaseOf, Live, Terminal, TypeOK
<1>4. ASSUME NEW p \in Run, NEW q \in Seq
      PROVE  Entry(ledger'[p][q]) = (IF <<p, q>> \in at THEN Durable!Answer(r, final)
                                     ELSE Entry(ledger[p][q]))
  <2>1. <<p, q>> \in at <=> Awaited(p, q) /\ ledger[p][q].st # "completed"
    OBVIOUS
  <2>2. ledger'[p][q] = (IF Awaited(p, q)
                         THEN Upsert(ledger[p][q], AnswerOf(r, AnswersOk(final)))
                         ELSE ledger[p][q])
    BY DEF Finish, LedgerAfterWake
  <2>3. Entry(AnswerOf(r, AnswersOk(final))) = Durable!Answer(r, final)
    BY DEF Entry, AnswerOf, AnswersOk, Durable!Answer
  <2> HIDE DEF at, Awaited
  <2> QED BY <2>1, <2>2, <2>3 DEF Upsert
<1>5. PhaseOf(r) = "live" /\ at \in SUBSET (Run \X Seq)
  BY DEF PhaseOf
<1> HIDE DEF at
<1> QED BY <1>2, <1>3, <1>4, <1>5, EndStep

\* A step that records nothing, or one position of a live run's own.
LEMMA UpsertMaps ==
    ASSUME TypeOK, NEW r \in Run, NEW x \in Seq, NEW kids \in SUBSET Run, status[r] \in Live,
           NEW row \in {StepOf("failed"), StepOf("completed")},
           ledger' = [ledger EXCEPT ![r][x] = Upsert(@, row)],
           \A c \in kids : status[c] = "absent",
           \A p \in Run : PhaseOf(p)' = (IF p \in kids THEN "live" ELSE PhaseOf(p))
    PROVE  Durable!Next
<1>1. \A p \in Run, q \in Seq :
         ledger'[p][q] = (IF p = r /\ q = x THEN Upsert(ledger[r][x], row) ELSE ledger[p][q])
  BY DEF TypeOK
<1>2. CASE ledger[r][x].st = "completed" \/ row.st # "completed"
  <2>1. Entry(Upsert(ledger[r][x], row)) = Entry(ledger[r][x])
    BY <1>2 DEF Upsert, Entry
  <2>2. \A p \in Run, q \in Seq : Entry(ledger'[p][q]) = Entry(ledger[p][q])
    BY <1>1, <2>1
  <2> QED BY <2>2, CreateStep
<1>3. CASE ledger[r][x].st # "completed" /\ row.st = "completed"
  <2>1. row = StepOf("completed")
    BY <1>3 DEF StepOf
  <2>2. \A p \in Run, q \in Seq :
           Entry(ledger'[p][q]) = (IF p = r /\ q = x THEN Entry(StepOf("completed"))
                                   ELSE Entry(ledger[p][q]))
    BY <1>1, <1>3, <2>1 DEF Upsert
  <2> QED BY <1>3, <2>2, RecordMaps
<1> QED BY <1>2, <1>3

----------------------------------------------------------------------------
\* Every transaction is a step of the durable run, or none

LEMMA InitMaps == Init => Durable!Init
<1>1. Entry(StepOf("none")) = Durable!Blank
  BY DEF Entry, StepOf, Durable!Blank
<1> QED BY <1>1 DEF Init, Durable!Init, Live

LEMMA StepMaps ==
    TypeOK /\ QueueMatchesStatus /\ WaitInv /\ [Next]_vars => [Durable!Next]_Durable!vars
<1> SUFFICES ASSUME TypeOK, QueueMatchesStatus, WaitInv, [Next]_vars
             PROVE  Durable!Next \/ UNCHANGED Durable!vars
  OBVIOUS
<1> USE KernelAssumption
<1>1. ASSUME NEW r \in Run, CreateRun(r) PROVE Durable!Next
  <2>1. \A p \in Run : PhaseOf(p)' = (IF p \in {r} THEN "live" ELSE PhaseOf(p))
    BY <1>1 DEF CreateRun, Created, PhaseOf, Live
  <2>2. \A c \in {r} : status[c] = "absent"
    BY <1>1 DEF CreateRun
  <2> QED BY <1>1, <2>1, <2>2, CreateStep DEF CreateRun
<1>2. ASSUME NEW r \in Run, CancelRun(r) PROVE Durable!Next
  BY <1>2, EndMaps DEF CancelRun, Cancelable, Terminal
<1>3. ASSUME NEW r \in Run, PruneRun(r) PROVE Durable!Next
  <2> DEFINE J == [p \in Run |-> [q \in Seq |-> Entry(ledger[p][q])]]
  <2> DEFINE P == [p \in Run |-> PhaseOf(p)]
  <2>1. status[r] \in Terminal /\ P[r] \in Durable!Ends
    BY <1>3 DEF PruneRun, Prunable, PhaseOf, Terminal, Live, Durable!Ends
  <2>2. P' = [P EXCEPT ![r] = "pruned"]
    BY <1>3 DEF PruneRun, TypeOK, PhaseOf, Live
  <2>3. Entry(StepOf("none")) = Durable!Blank
    BY DEF Entry, StepOf, Durable!Blank
  <2>4. \A p \in Run, q \in Seq :
           ledger'[p][q] = (IF p = r THEN StepOf("none") ELSE ledger[p][q])
    BY <1>3 DEF PruneRun, TypeOK
  <2>5. J' = [J EXCEPT ![r] = [q \in Seq |-> Durable!Blank]]
    BY <2>3, <2>4, ZenonT(40) DEF Entry
  <2>6. Durable!Forget(r)
    BY <2>1, <2>2, <2>5 DEF Durable!Forget, PhaseOf
  <2> QED BY <2>6 DEF Durable!Next
<1>4. ASSUME ledger' = ledger, \A p \in Run : PhaseOf(p)' = PhaseOf(p)
      PROVE  UNCHANGED Durable!vars
  BY <1>4, StutterStep
<1>5. ASSUME NEW s \in Slot, NEW r \in Run, ClaimTx(s, r) PROVE UNCHANGED Durable!vars
  BY <1>4, <1>5 DEF ClaimTx, TypeOK, PhaseOf, Live
<1>6. ASSUME NEW w \in Worker, Heartbeat(w) \/ \E rs \in SUBSET Run : ReleaseClaims(w, rs)
      PROVE  UNCHANGED Durable!vars
  BY <1>4, <1>6 DEF Heartbeat, ReleaseClaims, TypeOK, PhaseOf, Live
<1>7. ASSUME NEW s \in Slot, ReadLedger(s) \/ EndExecution(s) PROVE UNCHANGED Durable!vars
  BY <1>4, <1>7 DEF ReadLedger, EndExecution, kernelVars, PhaseOf
<1>8. ASSUME NEW s \in Slot, NEW q \in Seq, NEW st \in {"failed", "completed"},
             ReportStep(s, q, st)
      PROVE Durable!Next \/ UNCHANGED Durable!vars
  <2>1. job[s].run \in Run /\ status[job[s].run] \in Live
    BY <1>8, AcceptedJob DEF ReportStep, RecordStep, Live
  <2>2. /\ ledger' = [ledger EXCEPT ![job[s].run][q] = Upsert(@, StepOf(st))]
        /\ \A p \in Run : PhaseOf(p)' = (IF p \in {} THEN "live" ELSE PhaseOf(p))
    BY <1>8 DEF ReportStep, RecordStep, PhaseOf
  <2>3. {} \in SUBSET Run /\ StepOf(st) \in {StepOf("failed"), StepOf("completed")}
    OBVIOUS
  <2> QED BY <2>1, <2>2, <2>3, UpsertMaps
<1>9. ASSUME NEW s \in Slot, NEW q \in Seq, NEW kids \in SUBSET Run,
             NEW st \in {"failed", "completed"}, BatchTriggerChild(s, q, kids, st)
      PROVE Durable!Next \/ UNCHANGED Durable!vars
  <2>1. job[s].run \in Run /\ status[job[s].run] \in Live
    BY <1>9, AcceptedJob DEF BatchTriggerChild, RecordStep, Live
  <2>2. /\ ledger' = [ledger EXCEPT ![job[s].run][q] = Upsert(@, StepOf(st))]
        /\ kids # {} /\ \A c \in kids : status[c] = "absent"
        /\ \A p \in Run : PhaseOf(p)' = (IF p \in kids THEN "live" ELSE PhaseOf(p))
    BY <1>9 DEF BatchTriggerChild, Created, RecordStep, PhaseOf, Live
  <2>3. StepOf(st) \in {StepOf("failed"), StepOf("completed")}
    OBVIOUS
  <2> QED BY <2>1, <2>2, <2>3, UpsertMaps
<1>10. ASSUME NEW s \in Slot, NEW q \in Seq, SuspendRun(s, q) PROVE UNCHANGED Durable!vars
  BY <1>4, <1>10, AcceptedJob DEF SuspendRun, Park, TypeOK, PhaseOf, Live
<1>11. ASSUME NEW s \in Slot, NEW q \in Seq, NEW c \in Run, WaitForChildRun(s, q, c)
       PROVE  Durable!Next
  <2>1. job[s].run \in Run /\ status[job[s].run] = "running"
    BY <1>11, AcceptedJob DEF WaitForChildRun
  <2>2. /\ \A p \in Run : PhaseOf(p)' = (IF p \in {c} THEN "live" ELSE PhaseOf(p))
        /\ \A x \in {c} : status[x] = "absent"
        /\ ledger' = ledger
    BY <1>11, <2>1 DEF WaitForChildRun, Park, TypeOK, PhaseOf, Live
  <2> QED BY <2>2, CreateStep
<1>12. ASSUME NEW s \in Slot, CompleteRun(s) PROVE Durable!Next
  BY <1>12, AcceptedJob, EndMaps DEF CompleteRun, Terminal, Live
<1>13. ASSUME NEW s \in Slot, NEW limit \in RetryLimits, FailRunRetry(s, limit)
       PROVE  UNCHANGED Durable!vars
  BY <1>4, <1>13, AcceptedJob DEF FailRunRetry, Unlock, TypeOK, PhaseOf, Live
<1>14. ASSUME NEW s \in Slot, NEW limit \in RetryLimits, NEW abort \in BOOLEAN,
              FailRunTerminal(s, limit, abort)
       PROVE  Durable!Next
  BY <1>14, AcceptedJob, EndMaps DEF FailRunTerminal, Terminal, Live
<1>15. ASSUME NEW r \in Run, ReapRequeue(r) \/ ReapDesynced(r) \/ LeaseExpires(r)
       PROVE  UNCHANGED Durable!vars
  BY <1>4, <1>15 DEF ReapRequeue, Unlock, ReapDesynced, LeaseExpires, TypeOK, PhaseOf, Live
<1>16. ASSUME NEW r \in Run, ReapExhausted(r) PROVE Durable!Next
  BY <1>16, EndMaps DEF ReapExhausted, Terminal, Live
<1>17. ASSUME NEW w \in Wait, ResumeTimer(w) PROVE Durable!Next \/ UNCHANGED Durable!vars
  <2>1. w.run \in Run /\ w.seq \in Seq /\ status[w.run] \in Live
    BY <1>17 DEF ResumeTimer, Wait, Live
  <2>2. /\ ledger' = [ledger EXCEPT ![w.run][w.seq] = Upsert(@, StepOf("completed"))]
        /\ \A p \in Run : PhaseOf(p)' = (IF p \in {} THEN "live" ELSE PhaseOf(p))
    BY <1>17, <2>1 DEF ResumeTimer, Unlock, TypeOK, PhaseOf, Live
  <2>3. {} \in SUBSET Run
    OBVIOUS
  <2> QED BY <2>1, <2>2, <2>3, UpsertMaps
<1>18. ASSUME NEW w \in Wait, ResumeStaleTimer(w) \/ FailOrphan(w) \/ RetireOrphan(w)
       PROVE  FALSE
  BY <1>18, NothingToRepair
<1>19. ASSUME NEW c \in Run, HealStuckWaits(c) PROVE FALSE
  BY <1>19, NothingToRepair
<1>20. CASE UNCHANGED vars
  BY <1>4, <1>20 DEF vars, PhaseOf
<1> QED
  BY <1>1, <1>2, <1>3, <1>5, <1>6, <1>7, <1>8, <1>9, <1>10, <1>11, <1>12, <1>13, <1>14,
     <1>15, <1>16, <1>17, <1>18, <1>19, <1>20
  DEF Next, ClientNext, ClaimNext, ExecutorNext, FencedNext, WorkerNext, OrchestratorNext,
      ReapNext, WaitNext, RetryRun, SuspendDue

\* The tables, the queue, the leases and the zombies implement the durable run:
\* recorded steps never change, ends are final, and the answer of a child is
\* recorded in the very step in which the child ends.
THEOREM KernelIsDurable == Spec => ImplementsDurableRun
  BY InitMaps, StepMaps, TypeCorrect, QueueAgrees, WaitInvAlways, PTL
  DEF Spec, ImplementsDurableRun, Durable!Spec
=============================================================================
