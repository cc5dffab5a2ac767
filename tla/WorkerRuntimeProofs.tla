------------------------ MODULE WorkerRuntimeProofs ------------------------
(***************************************************************************)
(* Theorems about WorkerRuntime, for any number of runs, workers and       *)
(* slots.  The worker process moves the tables of RunKernel in two ways    *)
(* that RunKernel has no single step for: a claim that arrives late is     *)
(* handed back and forgotten at once, and a process forgets all its        *)
(* executors when it dies.  What RunKernel promises survives both, and     *)
(* what the process itself promises of a graceful stop follows.            *)
(***************************************************************************)
EXTENDS WorkerRuntime, RunKernelLedgerProofs

KernelInv ==
    TypeOK /\ QueueMatchesStatus /\ Fenced /\ WaitInv /\ ReplaySeesLedger /\ EveryClaimAccounted

\* Executors are forgotten, leases are renewed; no row moves otherwise.
Forgets ==
    /\ UNCHANGED <<status, attempt, recoveries, token, queueRow, waits, ledger, history>>
    /\ expired' \subseteq expired
    /\ job' \in [Slot -> Job]
    /\ \A s \in Slot : job'[s] \in {job[s], Idle}

LEMMA KernelInvNext == KernelInv /\ [Next]_vars => KernelInv'
  BY TypeStep, QueueStep, FencedStep, WaitStep, ReplayStep, AccountsStep DEF KernelInv

LEMMA ForgetsKeeps ==
    ASSUME KernelInv, Forgets
    PROVE  KernelInv'
<1> USE KernelAssumption
<1>1. TypeOK'
  BY DEF KernelInv, Forgets, TypeOK, history, Idle
<1>2. QueueMatchesStatus'
  BY DEF KernelInv, Forgets, QueueMatchesStatus
<1>3. Fenced'
  BY DEF KernelInv, Forgets, Fenced, Idle
<1>4. WaitInv'
  BY WaitFrame DEF KernelInv, Forgets
<1>5. ReplaySeesLedger'
  <2>1. ASSUME NEW s \in Slot, Accepted(s)' PROVE Accepted(s) /\ job'[s] = job[s]
    <3>1. job'[s] = job[s]
      BY <2>1 DEF Forgets, Accepted, HoldsRow, Idle
    <3> QED BY <2>1, <3>1 DEF Forgets, Accepted, HoldsRow
  <2> QED BY <2>1, ReplayFrame DEF KernelInv, Forgets
<1>6. EveryClaimAccounted'
  BY DEF KernelInv, Forgets, EveryClaimAccounted, history
<1> QED BY <1>1, <1>2, <1>3, <1>4, <1>5, <1>6 DEF KernelInv

\* A claim that arrives after stop() began: by its worker and run id the run is given
\* back to the queue, and the loop forgets it.
LEMMA HandBackLateKeeps ==
    ASSUME KernelInv, NEW s \in Slot, HandBackLate(s)
    PROVE  KernelInv'
<1> DEFINE r == job[s].run
<1> USE KernelAssumption
<1>1. /\ r \in Run
      /\ UNCHANGED <<attempt, recoveries, token, waits, ledger, suspended>>
      /\ job' = [job EXCEPT ![s] = Idle]
  BY DEF HandBackLate, KernelInv, TypeOK, Job
<1>2. /\ job' \in [Slot -> Job] /\ \A t \in Slot : job'[t] \in {job[t], Idle}
      /\ \A t \in Slot : job'[t].run = NoRun => job'[t] = Idle
  BY <1>1 DEF KernelInv, TypeOK, Job, Idle
<1>3. CASE queueRow[r] # WorkerOf[s]
  <2>1. Forgets
    BY <1>1, <1>2, <1>3 DEF HandBackLate, Forgets, history
  <2> QED BY <2>1, ForgetsKeeps
<1>4. CASE queueRow[r] = WorkerOf[s]
  <2>1. /\ status[r] = "running" /\ status' = [status EXCEPT ![r] = "queued"]
        /\ queueRow' = [queueRow EXCEPT ![r] = Free] /\ expired' = expired \ {r}
        /\ released' = [released EXCEPT ![r] = @ + 1]
    <3>1. status[r] = "running"
      BY <1>1, <1>4 DEF KernelInv, QueueMatchesStatus
    <3> QED BY <1>4, <3>1 DEF HandBackLate
  <2>2. TypeOK'
    <3>1. /\ status' \in [Run -> Status]
          /\ queueRow' \in [Run -> Worker \cup {Free, NoRow}]
          /\ released' \in [Run -> Nat]
      BY <1>1, <2>1 DEF KernelInv, TypeOK, Status, Live
    <3> QED BY <1>1, <1>2, <2>1, <3>1 DEF KernelInv, TypeOK
  <2>3. QueueMatchesStatus'
    BY <1>1, <2>1 DEF KernelInv, TypeOK, QueueMatchesStatus
  <2>4. Fenced'
    BY <1>1, <1>2 DEF KernelInv, Fenced, Idle
  <2>5. WaitInv'
    BY <1>1, <2>1, WaitFrame DEF KernelInv, TypeOK, Live
  <2>6. ReplaySeesLedger'
    <3>1. ASSUME NEW t \in Slot, Accepted(t)' PROVE Accepted(t) /\ job'[t] = job[t]
      <4>1. job'[t] = job[t]
        BY <1>2, <3>1 DEF Accepted, HoldsRow, Idle
      <4>2. job[t].run # r
        BY <1>1, <2>1, <3>1, <4>1 DEF Accepted, HoldsRow, KernelInv, TypeOK
      <4>3. job[t].run \in Run
        BY <3>1, <4>1 DEF Accepted, HoldsRow, KernelInv, TypeOK, Job, Idle
      <4> QED BY <1>1, <2>1, <3>1, <4>1, <4>2, <4>3 DEF Accepted, HoldsRow, KernelInv, TypeOK
    <3> QED BY <1>1, <3>1, ReplayFrame DEF KernelInv
  <2>7. EveryClaimAccounted'
    <3>1. ASSUME NEW p \in Run PROVE Accounted(p)'
      <4>1. Accounted(p) /\ UNCHANGED <<attempt, recoveries, token, suspended>>
        BY <1>1, AccountsByRun DEF KernelInv
      <4>2. CASE p = r
        <5>1. status'[p] = "queued" /\ released'[p] = released[p] + 1
          BY <1>1, <2>1, <4>2 DEF KernelInv, TypeOK
        <5> QED BY <2>1, <4>1, <4>2, <5>1, CounterTypes DEF KernelInv, Accounted, Charged, Terminal
      <4>3. CASE p # r
        <5>1. status'[p] = status[p] /\ released'[p] = released[p]
          BY <2>1, <4>3 DEF KernelInv, TypeOK
        <5> QED BY <4>1, <5>1 DEF Accounted, Charged
      <4> QED BY <4>2, <4>3
    <3> QED BY <3>1 DEF EveryClaimAccounted, Accounted, Charged
  <2> QED BY <2>2, <2>3, <2>4, <2>5, <2>6, <2>7 DEF KernelInv
<1> QED BY <1>3, <1>4

\* Every step of the process is a step of the kernel, forgets executors, or hands a
\* late claim back.
LEMMA RuntimeStepKinds ==
    ASSUME TypeOK, [RuntimeNext]_allVars
    PROVE  [Next]_vars \/ Forgets \/ \E s \in Slot : HandBackLate(s)
<1> USE KernelAssumption
<1>1. ASSUME UNCHANGED vars PROVE [Next]_vars
  BY <1>1
<1>2. ASSUME NEW s \in Slot,
             Poll(s) \/ PollEmpty(s) \/ Start(s) \/ ClaimAnswerLost(s) \/ Leave(s) \/ Execute(s)
      PROVE  [Next]_vars
  BY <1>1, <1>2 DEF Poll, PollEmpty, Start, ClaimAnswerLost, Leave, Execute, Next, ExecutorNext
<1>3. ASSUME NEW s \in Slot, NEW r \in Run, ClaimCommits(s, r) PROVE [Next]_vars
  BY <1>3 DEF ClaimCommits, Next, ClaimNext
<1>4. ASSUME NEW w \in Worker,
             \/ BeatSend(w) \/ BeatAnswer(w) \/ BeatApply(w) \/ BeatFail(w) \/ StopBegin(w)
             \/ DrainEnds(w) \/ HandBackFails(w)
      PROVE  [Next]_vars
  BY <1>1, <1>4 DEF BeatSend, BeatAnswer, BeatApply, BeatFail, StopBegin, DrainEnds, HandBackFails
<1>5. ASSUME NEW w \in Worker, BeatRenew(w) PROVE Forgets
  BY <1>5 DEF BeatRenew, Forgets, TypeOK, history
<1>6. ASSUME NEW w \in Worker, HandBack(w) PROVE [Next]_vars
  <2>1. {r \in Run : queueRow[r] = w} \in SUBSET Run
    OBVIOUS
  <2> QED BY <1>1, <1>6, <2>1 DEF HandBack, Next, WorkerNext
<1>7. ASSUME NEW w \in Worker, Die(w) PROVE Forgets
  <2>1. Idle \in Job
    BY DEF Idle, Job
  <2> QED BY <1>7, <2>1 DEF Die, Forgets, TypeOK, kernelVars, history
<1>8. CASE Elsewhere
  BY <1>8 DEF Elsewhere, Next
<1>9. CASE UNCHANGED allVars
  BY <1>1, <1>9 DEF allVars
<1> QED BY <1>2, <1>3, <1>4, <1>5, <1>6, <1>7, <1>8, <1>9 DEF RuntimeNext

LEMMA KernelInvAlways == RuntimeSpec => []KernelInv
<1>1. RuntimeInit => KernelInv
  <2>1. Init => TypeOK
    BY InitType
  <2>2. Init => QueueMatchesStatus /\ EveryClaimAccounted
    BY KernelAssumption DEF Init, QueueMatchesStatus, EveryClaimAccounted, Terminal
  <2>3. Init => Fenced /\ WaitInv /\ ReplaySeesLedger
    BY DEF Init, Fenced, Idle, WaitInv, WaitGraph, WaitShape, ReplaySeesLedger, Accepted, HoldsRow
  <2> QED BY <2>1, <2>2, <2>3 DEF RuntimeInit, KernelInv
<1>2. KernelInv /\ [RuntimeNext]_allVars => KernelInv'
  <2> SUFFICES ASSUME KernelInv, [RuntimeNext]_allVars PROVE KernelInv'
    OBVIOUS
  <2>1. [Next]_vars \/ Forgets \/ \E s \in Slot : HandBackLate(s)
    BY RuntimeStepKinds DEF KernelInv
  <2> QED BY <2>1, KernelInvNext, ForgetsKeeps, HandBackLateKeeps
<1> QED BY <1>1, <1>2, PTL DEF RuntimeSpec

\* Fencing holds whatever the process does beside the kernel: a claim forgotten, a
\* stop that hands runs back, a process that dies with its executors.
\* With it the tables agree with each other and every claim is charged once.
\* (runs-internal.ts assertOwnedRunning, under runtime.ts)
THEOREM RuntimeIsFenced ==
    RuntimeSpec => [](/\ TypeOK /\ QueueMatchesStatus /\ WaitGraph
                      /\ SingleWriter /\ ReplaySeesLedger /\ EveryClaimAccounted)
<1>1. KernelInv => /\ TypeOK /\ QueueMatchesStatus /\ WaitGraph
                   /\ SingleWriter /\ ReplaySeesLedger /\ EveryClaimAccounted
  BY FencedSingleWriter DEF KernelInv, WaitInv
<1> QED BY <1>1, KernelInvAlways, PTL

\* Behind the process, too, the tables implement the durable run.
LEMMA RuntimeStepMaps == KernelInv /\ [RuntimeNext]_allVars => [Durable!Next]_Durable!vars
<1> SUFFICES ASSUME KernelInv, [RuntimeNext]_allVars PROVE [Durable!Next]_Durable!vars
  OBVIOUS
<1>1. [Next]_vars \/ Forgets \/ \E s \in Slot : HandBackLate(s)
  BY RuntimeStepKinds DEF KernelInv
<1>2. CASE [Next]_vars
  BY <1>2, StepMaps DEF KernelInv
<1>3. CASE Forgets
  BY <1>3, StutterStep DEF Forgets, PhaseOf
<1>4. ASSUME NEW s \in Slot, HandBackLate(s) PROVE UNCHANGED Durable!vars
  <2>1. \A r \in Run : PhaseOf(r)' = PhaseOf(r)
    BY <1>4 DEF HandBackLate, PhaseOf, KernelInv, TypeOK, Live
  <2>2. ledger' = ledger
    BY <1>4 DEF HandBackLate
  <2> QED BY <2>1, <2>2, StutterStep
<1> QED BY <1>1, <1>2, <1>3, <1>4

\* With the claim loops, the heartbeats, the stop and the death of its workers around
\* it, the kernel still keeps the durable run: whatever their executors ask of it, child
\* waits and batches included, and whatever clients, retention and repairs do beside
\* them, nothing recorded changes, no end is undone, and a parent's answer is recorded
\* with its child's end.  (runs-*.ts under runtime.ts)
THEOREM RuntimeIsDurable == RuntimeSpec => ImplementsDurableRun
<1>1. RuntimeInit => Durable!Init
  BY InitMaps DEF RuntimeInit
<1> QED BY <1>1, RuntimeStepMaps, KernelInvAlways, PTL DEF RuntimeSpec, ImplementsDurableRun, Durable!Spec

----------------------------------------------------------------------------
\* The process

\* A heartbeat knows of no cancel before it has asked.
BeatsInOrder == \A w \in Worker : beat[w].step # "answered" => beat[w].canceled = {}

\* A claim under the name of a stopped worker is on its way to a loop that will hand
\* it back.
StopKept ==
    \A w \in Worker \ dbFailed, r \in Run :
        phase[w] = "stopped" /\ queueRow[r] = w =>
            \E s \in SlotsOf(w) : s \in calling /\ job[s].run = r

ProcessInv == RuntimeTypeOK /\ BeatsInOrder /\ StopKept

LEMMA ProcessInvInit == RuntimeInit => ProcessInv
<1> SUFFICES ASSUME RuntimeInit PROVE ProcessInv
  OBVIOUS
<1>1. RuntimeTypeOK
  BY RuntimeAssumption DEF RuntimeInit, RuntimeTypeOK, Reason, Phase, NoBeat, Beat
<1>2. BeatsInOrder /\ StopKept
  BY DEF RuntimeInit, BeatsInOrder, StopKept, NoBeat
<1> QED BY <1>1, <1>2 DEF ProcessInv

\* No step but a claim puts a run under a worker's name.
LEMMA FinishHolders ==
    ASSUME NEW r \in Run, NEW final, Finish(r, final), NEW p \in Run
    PROVE  queueRow'[p] \in Worker => queueRow'[p] = queueRow[p]
  BY KernelAssumption DEF Finish

NewHolderFor(p) == queueRow'[p] \in Worker /\ queueRow'[p] # queueRow[p]

LEMMA ElsewhereHolders ==
    ASSUME TypeOK, Elsewhere
    PROVE  job' = job /\ \A p \in Run : ~NewHolderFor(p)
<1> USE KernelAssumption
<1>1. ASSUME NEW r \in Run,
             CreateRun(r) \/ PruneRun(r) \/ LeaseExpires(r) \/ ReapRequeue(r) \/ ReapDesynced(r)
      PROVE  job' = job /\ \A p \in Run : ~NewHolderFor(p)
  BY <1>1 DEF CreateRun, Created, PruneRun, LeaseExpires, ReapRequeue, ReapDesynced, Unlock, TypeOK,
              NewHolderFor
<1>2. ASSUME NEW r \in Run, CancelRun(r) \/ ReapExhausted(r)
      PROVE  job' = job /\ \A p \in Run : ~NewHolderFor(p)
  BY <1>2, FinishHolders DEF CancelRun, ReapExhausted, NewHolderFor
<1>3. ASSUME NEW w \in Wait, ResumeTimer(w) \/ ResumeStaleTimer(w) \/ RetireOrphan(w)
      PROVE  job' = job /\ \A p \in Run : ~NewHolderFor(p)
  BY <1>3 DEF ResumeTimer, ResumeStaleTimer, RetireOrphan, Unlock, TypeOK, NewHolderFor
<1>4. ASSUME NEW w \in Wait, FailOrphan(w)
      PROVE  job' = job /\ \A p \in Run : ~NewHolderFor(p)
  <2>1. w.run \in Run
    BY DEF Wait
  <2> QED BY <1>4, <2>1, FinishHolders DEF FailOrphan, NewHolderFor
<1>5. ASSUME NEW c \in Run, HealStuckWaits(c)
      PROVE  job' = job /\ \A p \in Run : ~NewHolderFor(p)
  BY <1>5 DEF HealStuckWaits, NewHolderFor
<1>6. ASSUME NEW r \in Run, NEW src \in Run, RetryRun(src, r) PROVE CreateRun(r)
  BY <1>6 DEF RetryRun
<1> QED BY <1>1, <1>2, <1>3, <1>4, <1>5, <1>6
        DEF Elsewhere, ClientNext, OrchestratorNext, ReapNext, WaitNext

LEMMA ExecuteHolders ==
    ASSUME TypeOK, NEW s \in Slot, Execute(s)
    PROVE  (\A t \in Slot \ {s} : job'[t] = job[t]) /\ \A p \in Run : ~NewHolderFor(p)
<1> USE KernelAssumption
<1>1. ASSUME NEW q \in Seq, NEW row, RecordStep(s, q, row)
      PROVE  \A t \in Slot \ {s} : job'[t] = job[t]
  BY <1>1 DEF RecordStep, TypeOK
<1>2. ASSUME NEW q \in Seq, NEW st, ReportStep(s, q, st)
      PROVE  (\A t \in Slot \ {s} : job'[t] = job[t]) /\ \A p \in Run : ~NewHolderFor(p)
  BY <1>1, <1>2 DEF ReportStep, NewHolderFor
<1>3. ASSUME NEW q \in Seq, NEW kids, NEW st, BatchTriggerChild(s, q, kids, st)
      PROVE  (\A t \in Slot \ {s} : job'[t] = job[t]) /\ \A p \in Run : ~NewHolderFor(p)
  BY <1>1, <1>3 DEF BatchTriggerChild, Created, NewHolderFor
<1>4. ASSUME NEW q \in Seq, SuspendRun(s, q) \/ \E c \in Run : WaitForChildRun(s, q, c)
      PROVE  (\A t \in Slot \ {s} : job'[t] = job[t]) /\ \A p \in Run : ~NewHolderFor(p)
  BY <1>4 DEF SuspendRun, WaitForChildRun, Park, TypeOK, NewHolderFor
<1>5. CASE CompleteRun(s)
  BY <1>5, AcceptedJob, FinishHolders DEF CompleteRun, NewHolderFor
<1>6. ASSUME NEW limit \in RetryLimits, FailRunRetry(s, limit)
      PROVE  (\A t \in Slot \ {s} : job'[t] = job[t]) /\ \A p \in Run : ~NewHolderFor(p)
  BY <1>6 DEF FailRunRetry, Unlock, TypeOK, NewHolderFor
<1>7. ASSUME NEW limit \in RetryLimits, NEW abort \in BOOLEAN, FailRunTerminal(s, limit, abort)
      PROVE  (\A t \in Slot \ {s} : job'[t] = job[t]) /\ \A p \in Run : ~NewHolderFor(p)
  BY <1>7, AcceptedJob, FinishHolders DEF FailRunTerminal, NewHolderFor
<1> QED BY <1>2, <1>3, <1>4, <1>5, <1>6, <1>7 DEF Execute, FencedNext, SuspendDue

LEMMA StopStep == KernelInv /\ ProcessInv /\ [RuntimeNext]_allVars => StopKept'
<1> SUFFICES ASSUME KernelInv, ProcessInv, [RuntimeNext]_allVars,
                    NEW w \in Worker, NEW r \in Run,
                    w \notin dbFailed', phase'[w] = "stopped", queueRow'[r] = w
             PROVE  \E s \in SlotsOf(w) : s \in calling' /\ job'[s].run = r
  BY DEF StopKept, SlotsOf
<1> USE KernelAssumption DEF SlotsOf
\* Wherever the worker was already stopped and held the run, a loop is on its way.
<1>1. ASSUME phase[w] = "stopped", queueRow[r] = w, w \notin dbFailed
      PROVE  \E s \in SlotsOf(w) : s \in calling /\ job[s].run = r
  BY <1>1 DEF ProcessInv, StopKept
<1>2. phase \in [Worker -> Phase] /\ job \in [Slot -> Job]
  BY DEF ProcessInv, RuntimeTypeOK, KernelInv, TypeOK
<1>3. ASSUME NEW s \in Slot, Poll(s) \/ PollEmpty(s)
      PROVE  \E t \in SlotsOf(w) : t \in calling' /\ job'[t].run = r
  BY <1>1, <1>3 DEF Poll, PollEmpty, vars, Idle
<1>4. ASSUME NEW s \in Slot, NEW p \in Run, ClaimCommits(s, p)
      PROVE  \E t \in SlotsOf(w) : t \in calling' /\ job'[t].run = r
  <2>1. /\ s \in calling /\ job[s] = Idle /\ calling' = calling /\ phase' = phase
        /\ dbFailed' = dbFailed
        /\ job'[s].run = p /\ \A t \in Slot \ {s} : job'[t] = job[t]
        /\ queueRow'[p] = WorkerOf[s] /\ \A q \in Run \ {p} : queueRow'[q] = queueRow[q]
    BY <1>2, <1>4 DEF ClaimCommits, ClaimTx, runtimeVars, KernelInv, TypeOK
  <2>2. CASE r = p
    BY <2>1, <2>2
  <2>3. CASE r # p
    BY <1>1, <2>1, <2>3 DEF Idle
  <2> QED BY <2>2, <2>3
<1>5. ASSUME NEW s \in Slot, Start(s)
      PROVE  \E t \in SlotsOf(w) : t \in calling' /\ job'[t].run = r
  <2>1. /\ phase[WorkerOf[s]] = "serving" /\ calling' = calling \ {s}
        /\ UNCHANGED <<queueRow, phase, dbFailed>>
        /\ \A t \in Slot \ {s} : job'[t] = job[t]
    BY <1>2, <1>5 DEF Start, Stopping, ReadLedger, kernelVars
  <2> QED BY <1>1, <2>1
<1>6. ASSUME NEW s \in Slot, HandBackLate(s)
      PROVE  \E t \in SlotsOf(w) : t \in calling' /\ job'[t].run = r
  <2>1. /\ calling' = calling \ {s} /\ UNCHANGED <<phase, dbFailed>>
        /\ \A t \in Slot \ {s} : job'[t] = job[t]
        /\ queueRow'[r] = queueRow[r]
        /\ job[s].run = r => queueRow[r] # WorkerOf[s]
    BY <1>2, <1>6 DEF HandBackLate, KernelInv, TypeOK
  <2> QED BY <1>1, <2>1
<1>7. ASSUME NEW s \in Slot, ClaimAnswerLost(s)
      PROVE  \E t \in SlotsOf(w) : t \in calling' /\ job'[t].run = r
  <2>1. /\ calling' = calling \ {s} /\ dbFailed' = dbFailed \cup {WorkerOf[s]}
        /\ UNCHANGED <<queueRow, phase>> /\ \A t \in Slot \ {s} : job'[t] = job[t]
    BY <1>2, <1>7 DEF ClaimAnswerLost, EndExecution, kernelVars
  <2> QED BY <1>1, <2>1
<1>8. ASSUME NEW s \in Slot, Leave(s)
      PROVE  \E t \in SlotsOf(w) : t \in calling' /\ job'[t].run = r
  <2>1. /\ s \notin calling /\ UNCHANGED <<calling, queueRow, phase, dbFailed>>
        /\ \A t \in Slot \ {s} : job'[t] = job[t]
    BY <1>2, <1>8 DEF Leave, EndExecution, kernelVars
  <2> QED BY <1>1, <2>1
<1>9. ASSUME NEW s \in Slot, Execute(s)
      PROVE  \E t \in SlotsOf(w) : t \in calling' /\ job'[t].run = r
  <2>1. s \notin calling /\ UNCHANGED <<calling, phase, dbFailed>>
    BY <1>9 DEF Execute, runtimeVars
  <2>2. /\ \A t \in Slot \ {s} : job'[t] = job[t]
        /\ queueRow[r] = w
    BY <1>9, ExecuteHolders DEF KernelInv, NewHolderFor
  <2> QED BY <1>1, <2>1, <2>2
<1>10. ASSUME NEW u \in Worker,
              BeatSend(u) \/ BeatRenew(u) \/ BeatAnswer(u) \/ BeatApply(u) \/ BeatFail(u)
       PROVE  \E t \in SlotsOf(w) : t \in calling' /\ job'[t].run = r
  <2>1. UNCHANGED <<calling, queueRow, job, phase, dbFailed>>
    BY <1>10 DEF BeatSend, BeatRenew, BeatAnswer, BeatApply, BeatFail, vars
  <2> QED BY <1>1, <2>1
<1>11. ASSUME NEW u \in Worker, StopBegin(u) \/ DrainEnds(u) \/ HandBackFails(u)
       PROVE  \E t \in SlotsOf(w) : t \in calling' /\ job'[t].run = r
  <2>1. /\ UNCHANGED <<calling, queueRow, job>> /\ dbFailed \subseteq dbFailed'
        /\ phase[w] = "stopped"
    BY <1>2, <1>11 DEF StopBegin, DrainEnds, HandBackFails, vars
  <2> QED BY <1>1, <2>1
<1>12. ASSUME NEW u \in Worker, HandBack(u)
       PROVE  \E t \in SlotsOf(w) : t \in calling' /\ job'[t].run = r
  <2>1. UNCHANGED <<calling, dbFailed, job>> /\ phase' = [phase EXCEPT ![u] = "stopped"]
    BY <1>12 DEF HandBack, ReleaseClaims, vars
  <2>2. queueRow[r] = w /\ u # w
    BY <1>12 DEF HandBack, ReleaseClaims, vars
  <2> QED BY <1>1, <1>2, <2>1, <2>2
<1>13. ASSUME NEW u \in Worker, Die(u)
       PROVE  \E t \in SlotsOf(w) : t \in calling' /\ job'[t].run = r
  <2>1. /\ u # w /\ phase[w] = "stopped" /\ UNCHANGED <<queueRow, dbFailed>>
        /\ calling' = calling \ SlotsOf(u)
        /\ \A t \in SlotsOf(w) : job'[t] = job[t]
    BY <1>2, <1>13 DEF Die, kernelVars
  <2> QED BY <1>1, <2>1
<1>14. CASE Elsewhere
  <2>1. UNCHANGED <<calling, phase, dbFailed>>
    BY <1>14 DEF Elsewhere, runtimeVars
  <2>2. job' = job /\ queueRow[r] = w
    BY <1>14, ElsewhereHolders DEF KernelInv, NewHolderFor
  <2> QED BY <1>1, <2>1, <2>2
<1>15. CASE UNCHANGED allVars
  BY <1>1, <1>15 DEF allVars, vars, runtimeVars
<1> QED
  BY <1>3, <1>4, <1>5, <1>6, <1>7, <1>8, <1>9, <1>10, <1>11, <1>12, <1>13, <1>14, <1>15
  DEF RuntimeNext

\* The shape of the process, over the parts of it that one step may touch.
MapsTyped  == inFlight \in [Worker -> [Run -> Slot \cup {NoSlot}]] /\ aborted \in [Slot -> Reason]
BeatsTyped ==
    /\ beat \in [Worker -> Beat]
    /\ \A w \in Worker : beat[w].lost \cap beat[w].canceled = {}
DeadOwnsNothing ==
    \A w \in Worker : phase[w] = "dead" =>
        Keys(w) = {} /\ \A s \in SlotsOf(w) : job[s] = Idle /\ s \notin calling

LEMMA ProcessTypeParts ==
    RuntimeTypeOK <=> /\ calling \subseteq Slot /\ phase \in [Worker -> Phase]
                      /\ MapsTyped /\ BeatsTyped /\ DeadOwnsNothing
  BY DEF RuntimeTypeOK, MapsTyped, BeatsTyped, DeadOwnsNothing

LEMMA CallingStep ==
    KernelInv /\ ProcessInv /\ [RuntimeNext]_allVars => calling' \subseteq Slot /\ phase' \in [Worker -> Phase]
<1> SUFFICES ASSUME KernelInv, ProcessInv, [RuntimeNext]_allVars
             PROVE  calling' \subseteq Slot /\ phase' \in [Worker -> Phase]
  OBVIOUS
<1>1. calling \subseteq Slot /\ phase \in [Worker -> Phase]
  BY DEF ProcessInv, RuntimeTypeOK
<1>2. calling' \subseteq Slot
  BY <1>1 DEF RuntimeNext, Poll, PollEmpty, Start, HandBackLate, ClaimAnswerLost, Leave, Execute,
              ClaimCommits, BeatSend, BeatRenew, BeatAnswer, BeatApply, BeatFail, StopBegin,
              DrainEnds, HandBack, HandBackFails, Die, Elsewhere, allVars, runtimeVars
<1>3. phase' = phase \/ \E w \in Worker, p \in Phase : phase' = [phase EXCEPT ![w] = p]
  BY DEF RuntimeNext, Poll, PollEmpty, Start, HandBackLate, ClaimAnswerLost, Leave, Execute,
         ClaimCommits, BeatSend, BeatRenew, BeatAnswer, BeatApply, BeatFail, StopBegin,
         DrainEnds, HandBack, HandBackFails, Die, Elsewhere, allVars, runtimeVars, Phase
<1> QED BY <1>1, <1>2, <1>3

LEMMA MapsStep == KernelInv /\ ProcessInv /\ [RuntimeNext]_allVars => MapsTyped'
<1> SUFFICES ASSUME KernelInv, ProcessInv, [RuntimeNext]_allVars PROVE MapsTyped'
  OBVIOUS
<1> USE KernelAssumption
<1>1. inFlight \in [Worker -> [Run -> Slot \cup {NoSlot}]] /\ aborted \in [Slot -> Reason]
  BY DEF ProcessInv, RuntimeTypeOK
<1>2. \A old, reason \in Reason : Relabel(old, reason) \in Reason
  BY DEF Relabel
<1>3. \A s \in Slot : job[s].run # NoRun => job[s].run \in Run
  BY DEF KernelInv, TypeOK, Job
<1>4. CASE UNCHANGED <<inFlight, aborted>>
  BY <1>1, <1>4 DEF MapsTyped
<1>5. ASSUME NEW s \in Slot, Start(s) PROVE MapsTyped'
  <2>1. job[s].run \in Run
    BY <1>3, <1>5 DEF Start, ReadLedger
  <2>2. /\ inFlight' = [inFlight EXCEPT ![WorkerOf[s]][job[s].run] = s]
        /\ aborted' = [aborted EXCEPT ![s] = "none"]
    BY <1>5 DEF Start, Register
  <2> QED BY <1>1, <2>1, <2>2 DEF MapsTyped, Reason
<1>6. ASSUME NEW s \in Slot, Leave(s) PROVE MapsTyped'
  BY <1>1, <1>6 DEF Leave, Delete, MapsTyped
<1>7. ASSUME NEW w \in Worker, BeatApply(w) PROVE MapsTyped'
  <2>1. /\ inFlight' = inFlight
        /\ aborted' = [s \in Slot |->
               IF \E r \in beat[w].canceled : inFlight[w][r] = s THEN Relabel(aborted[s], "canceled")
               ELSE IF \E r \in beat[w].lost : inFlight[w][r] = s
                    THEN Relabel(aborted[s], "lease_lost") ELSE aborted[s]]
    BY <1>7 DEF BeatApply
  <2>2. \A s \in Slot : Relabel(aborted[s], "canceled") \in Reason
                        /\ Relabel(aborted[s], "lease_lost") \in Reason
    BY <1>1, <1>2 DEF Reason
  <2> QED BY <1>1, <2>1, <2>2 DEF MapsTyped
<1>9. ASSUME NEW w \in Worker, StopBegin(w) PROVE MapsTyped'
  <2>1. /\ inFlight' = inFlight
        /\ aborted' = [s \in Slot |-> IF \E r \in Run : inFlight[w][r] = s
                                      THEN Relabel(aborted[s], "shutting_down") ELSE aborted[s]]
    BY <1>9 DEF StopBegin
  <2>2. \A s \in Slot : Relabel(aborted[s], "shutting_down") \in Reason
    BY <1>1, <1>2 DEF Reason
  <2> QED BY <1>1, <2>1, <2>2 DEF MapsTyped
<1>8. ASSUME NEW w \in Worker, Die(w) PROVE MapsTyped'
  BY <1>1, <1>8 DEF Die, MapsTyped, Reason
<1> QED
  BY <1>4, <1>5, <1>6, <1>7, <1>8, <1>9
  DEF RuntimeNext, Poll, PollEmpty, HandBackLate, ClaimAnswerLost, Execute, ClaimCommits, BeatSend,
      BeatRenew, BeatAnswer, BeatFail, DrainEnds, HandBack, HandBackFails, Elsewhere, allVars,
      runtimeVars

LEMMA BeatsStep ==
    KernelInv /\ ProcessInv /\ [RuntimeNext]_allVars => BeatsTyped' /\ BeatsInOrder'
<1> SUFFICES ASSUME KernelInv, ProcessInv, [RuntimeNext]_allVars PROVE BeatsTyped' /\ BeatsInOrder'
  OBVIOUS
<1>1. BeatsTyped /\ BeatsInOrder
  BY DEF ProcessInv, RuntimeTypeOK, BeatsTyped
\* One heartbeat moves, to a state whose answers name different runs.
<1>2. ASSUME NEW w \in Worker, NEW b \in Beat, beat' = [beat EXCEPT ![w] = b],
             b.lost \cap b.canceled = {}, b.step # "answered" => b.canceled = {}
      PROVE  BeatsTyped' /\ BeatsInOrder'
  BY <1>1, <1>2 DEF BeatsTyped, BeatsInOrder
<1>3. NoBeat \in Beat /\ NoBeat.lost = {} /\ NoBeat.canceled = {}
  BY DEF NoBeat, Beat
<1>4. ASSUME NEW w \in Worker, BeatSend(w) PROVE BeatsTyped' /\ BeatsInOrder'
  <2> DEFINE b == [NoBeat EXCEPT !.step = "sent", !.ids = Keys(w)]
  <2>1. b \in Beat /\ b.lost = {} /\ b.canceled = {}
    BY DEF NoBeat, Beat, Keys
  <2>2. beat' = [beat EXCEPT ![w] = b]
    BY <1>4 DEF BeatSend
  <2> HIDE DEF b
  <2> QED BY <1>2, <2>1, <2>2
<1>5. ASSUME NEW w \in Worker, BeatRenew(w) PROVE BeatsTyped' /\ BeatsInOrder'
  <2> DEFINE b == [beat[w] EXCEPT !.step = "renewed", !.lost = beat[w].ids \ Held(w)]
  <2>1. beat[w] \in Beat /\ beat[w].canceled = {}
    BY <1>1, <1>5 DEF BeatRenew, BeatsTyped, BeatsInOrder
  <2>2. b \in Beat /\ b.canceled = {}
    BY <2>1 DEF Beat, Held
  <2>3. beat' = [beat EXCEPT ![w] = b]
    BY <1>1, <1>5, <2>1 DEF BeatRenew, BeatsTyped, Beat
  <2> HIDE DEF b
  <2> QED BY <1>2, <2>2, <2>3
<1>6. ASSUME NEW w \in Worker, BeatAnswer(w) PROVE BeatsTyped' /\ BeatsInOrder'
  <2> DEFINE canceled == {r \in beat[w].ids : status[r] = "canceled"}
             b == [beat[w] EXCEPT !.step = "answered", !.canceled = canceled,
                                  !.lost = OnlyLost(@, canceled)]
  <2>1. beat[w] \in Beat
    BY <1>1 DEF BeatsTyped
  <2>2. b \in Beat /\ b.step = "answered" /\ b.canceled = canceled /\ b.lost = beat[w].lost \ canceled
    BY <2>1 DEF Beat, OnlyLost
  <2>3. beat' = [beat EXCEPT ![w] = b]
    BY <1>1, <1>6, <2>1 DEF BeatAnswer, BeatsTyped, Beat
  <2> HIDE DEF b, canceled
  <2> QED BY <1>2, <2>2, <2>3
<1>7. ASSUME NEW w \in Worker, BeatApply(w) \/ BeatFail(w) \/ Die(w)
      PROVE  BeatsTyped' /\ BeatsInOrder'
  BY <1>2, <1>3, <1>7 DEF BeatApply, BeatFail, Die
<1>8. CASE UNCHANGED beat
  BY <1>1, <1>8 DEF BeatsTyped, BeatsInOrder
<1> QED
  BY <1>4, <1>5, <1>6, <1>7, <1>8
  DEF RuntimeNext, Poll, PollEmpty, Start, HandBackLate, ClaimAnswerLost, Leave, Execute,
      ClaimCommits, StopBegin, DrainEnds, HandBack, HandBackFails, Elsewhere, allVars, runtimeVars

LEMMA DeadStep == KernelInv /\ ProcessInv /\ [RuntimeNext]_allVars => DeadOwnsNothing'
<1> SUFFICES ASSUME KernelInv, ProcessInv, [RuntimeNext]_allVars,
                    NEW w \in Worker, phase'[w] = "dead"
             PROVE  Keys(w)' = {} /\ \A s \in SlotsOf(w) : job'[s] = Idle /\ s \notin calling'
  BY DEF DeadOwnsNothing, SlotsOf
<1> USE KernelAssumption, RuntimeAssumption DEF SlotsOf
<1>1. /\ phase \in [Worker -> Phase] /\ job \in [Slot -> Job] /\ calling \subseteq Slot
      /\ inFlight \in [Worker -> [Run -> Slot \cup {NoSlot}]]
  BY DEF ProcessInv, RuntimeTypeOK, KernelInv, TypeOK
<1>2. ASSUME phase[w] = "dead"
      PROVE  /\ \A r \in Run : inFlight[w][r] = NoSlot
             /\ \A s \in SlotsOf(w) : job[s] = Idle /\ s \notin calling
  BY <1>2 DEF ProcessInv, RuntimeTypeOK, Keys
\* The worker was dead, and nothing of what it owns moves.
<1>3. ASSUME phase'[w] = phase[w], inFlight'[w] = inFlight[w],
             \A s \in SlotsOf(w) : job[s] = Idle /\ s \notin calling =>
                                       job'[s] = Idle /\ s \notin calling'
      PROVE  Keys(w)' = {} /\ \A s \in SlotsOf(w) : job'[s] = Idle /\ s \notin calling'
  BY <1>2, <1>3 DEF Keys
<1>4. ASSUME NEW s \in Slot, Poll(s) \/ PollEmpty(s)
      PROVE  Keys(w)' = {} /\ \A t \in SlotsOf(w) : job'[t] = Idle /\ t \notin calling'
  <2>1. UNCHANGED <<phase, inFlight, job>>
    BY <1>4 DEF Poll, PollEmpty, vars
  <2>2. CASE Poll(s)
    BY <1>3, <2>1, <2>2 DEF Poll
  <2>3. CASE PollEmpty(s)
    BY <1>3, <2>1, <2>3 DEF PollEmpty
  <2> QED BY <1>4, <2>2, <2>3
<1>5. ASSUME NEW s \in Slot, NEW r \in Run, ClaimCommits(s, r)
      PROVE  Keys(w)' = {} /\ \A t \in SlotsOf(w) : job'[t] = Idle /\ t \notin calling'
  <2>1. UNCHANGED <<phase, inFlight, calling>> /\ s \in calling /\ \A t \in Slot \ {s} : job'[t] = job[t]
    BY <1>1, <1>5 DEF ClaimCommits, ClaimTx, runtimeVars
  <2> QED BY <1>3, <2>1
<1>6. ASSUME NEW s \in Slot, Start(s)
      PROVE  Keys(w)' = {} /\ \A t \in SlotsOf(w) : job'[t] = Idle /\ t \notin calling'
  <2>1. /\ phase' = phase /\ calling' \subseteq calling /\ phase[WorkerOf[s]] = "serving"
        /\ inFlight'[w] = inFlight[w] \/ w = WorkerOf[s]
        /\ \A t \in Slot \ {s} : job'[t] = job[t]
    BY <1>1, <1>6 DEF Start, Stopping, ReadLedger, Register
  <2> QED BY <1>3, <2>1
<1>7. ASSUME NEW s \in Slot, HandBackLate(s) \/ ClaimAnswerLost(s) \/ Leave(s)
      PROVE  Keys(w)' = {} /\ \A t \in SlotsOf(w) : job'[t] = Idle /\ t \notin calling'
  <2>1. /\ phase' = phase /\ calling' \subseteq calling
        /\ job' = [job EXCEPT ![s] = Idle]
    BY <1>7 DEF HandBackLate, ClaimAnswerLost, Leave, EndExecution
  <2>2. \A t \in Slot : job'[t] \in {job[t], Idle}
    BY <1>1, <2>1
  <2>3. inFlight' = inFlight \/ inFlight' = Delete(WorkerOf[s], job[s].run)
    BY <1>7 DEF HandBackLate, ClaimAnswerLost, Leave
  <2>4. \A r \in Run : inFlight[w][r] = NoSlot => inFlight'[w][r] = NoSlot
    BY <1>1, <2>3 DEF Delete
  <2> QED BY <1>2, <2>1, <2>2, <2>4 DEF Keys
<1>8. ASSUME NEW s \in Slot, Execute(s)
      PROVE  Keys(w)' = {} /\ \A t \in SlotsOf(w) : job'[t] = Idle /\ t \notin calling'
  <2>1. UNCHANGED <<phase, inFlight, calling>> /\ phase[WorkerOf[s]] # "dead"
    BY <1>8 DEF Execute, runtimeVars
  <2>2. \A t \in Slot \ {s} : job'[t] = job[t]
    BY <1>8, ExecuteHolders DEF KernelInv
  <2> QED BY <1>3, <2>1, <2>2
<1>9. ASSUME NEW u \in Worker,
             \/ BeatSend(u) \/ BeatRenew(u) \/ BeatAnswer(u) \/ BeatApply(u) \/ BeatFail(u)
             \/ StopBegin(u) \/ DrainEnds(u) \/ HandBack(u) \/ HandBackFails(u)
      PROVE  Keys(w)' = {} /\ \A t \in SlotsOf(w) : job'[t] = Idle /\ t \notin calling'
  <2>1. UNCHANGED <<calling, inFlight, job>>
    BY <1>9 DEF BeatSend, BeatRenew, BeatAnswer, BeatApply, BeatFail, StopBegin, DrainEnds,
                HandBack, HandBackFails, ReleaseClaims, vars
  <2>2. phase'[w] = phase[w]
    BY <1>1, <1>9 DEF BeatSend, BeatRenew, BeatAnswer, BeatApply, BeatFail, StopBegin, DrainEnds,
                HandBack, HandBackFails
  <2> QED BY <1>3, <2>1, <2>2
<1>10. ASSUME NEW u \in Worker, Die(u)
       PROVE  Keys(w)' = {} /\ \A t \in SlotsOf(w) : job'[t] = Idle /\ t \notin calling'
  <2>1. CASE u = w
    BY <1>1, <1>10, <2>1 DEF Die, Keys
  <2>2. CASE u # w
    BY <1>1, <1>3, <1>10, <2>2 DEF Die
  <2> QED BY <2>1, <2>2
<1>11. CASE Elsewhere
  <2>1. UNCHANGED <<phase, inFlight, calling>>
    BY <1>11 DEF Elsewhere, runtimeVars
  <2>2. job' = job
    BY <1>11, ElsewhereHolders DEF KernelInv
  <2> QED BY <1>3, <2>1, <2>2
<1>12. CASE UNCHANGED allVars
  BY <1>3, <1>12 DEF allVars, vars, runtimeVars
<1> QED
  BY <1>4, <1>5, <1>6, <1>7, <1>8, <1>9, <1>10, <1>11, <1>12 DEF RuntimeNext

LEMMA ProcessInvStep == KernelInv /\ ProcessInv /\ [RuntimeNext]_allVars => ProcessInv'
<1> SUFFICES ASSUME KernelInv, ProcessInv, [RuntimeNext]_allVars PROVE ProcessInv'
  OBVIOUS
<1>1. RuntimeTypeOK'
  BY CallingStep, MapsStep, BeatsStep, DeadStep
  DEF RuntimeTypeOK, MapsTyped, BeatsTyped, DeadOwnsNothing
<1> QED BY <1>1, BeatsStep, StopStep DEF ProcessInv

\* After a graceful stop nothing waits for the lease reaper, unless the database failed
\* a call, and no claim handed back is charged to anybody.  (runtime.ts stop, handBack)
THEOREM StopLeavesNothing == RuntimeSpec => []StoppedHoldsNothing
<1>1. KernelInv /\ ProcessInv => StoppedHoldsNothing
  BY DEF KernelInv, ProcessInv, StopKept, StoppedHoldsNothing
<1> QED BY <1>1, ProcessInvInit, ProcessInvStep, KernelInvAlways, PTL DEF RuntimeSpec

=============================================================================
