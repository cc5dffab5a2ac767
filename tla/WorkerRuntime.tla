--------------------------- MODULE WorkerRuntime ---------------------------
(***************************************************************************)
(* The worker process around the kernel (apps/worker/src/runtime.ts): its  *)
(* claim loops, the inFlight map, the heartbeat chain and the graceful     *)
(* stop, interleaved with the tables of RunKernel.                         *)
(*                                                                         *)
(* JavaScript runs to the next await without interruption, so one action   *)
(* is what happens between two awaits: a claim call, its transaction and   *)
(* its answer are three steps, a heartbeat is four.                        *)
(***************************************************************************)
EXTENDS RunKernel

CONSTANT NoSlot     \* no entry in an inFlight map

ASSUME RuntimeAssumption == NoSlot \notin Slot

VARIABLES
    calling,   \* slots with a claimRuns call under way
    inFlight,  \* per worker, the map from run id to executor (named by its slot)
    aborted,   \* per slot, executor.abortReason
    beat,      \* per worker, the heartbeat under way
    phase,     \* per worker: serving, draining, quiescing, stopped, dead
    dbFailed   \* history: workers that lost an answer or a hand-back to a database error

runtimeVars == <<calling, inFlight, aborted, beat, phase, dbFailed>>
allVars     == <<vars, runtimeVars>>

Reason == {"none", "lease_lost", "canceled", "shutting_down"}
Phase  == {"serving", "draining", "quiescing", "stopped", "dead"}
NoBeat == [step |-> "idle", ids |-> {}, lost |-> {}, canceled |-> {}]
Beat   == [step : {"idle", "sent", "renewed", "answered"},
           ids : SUBSET Run, lost : SUBSET Run, canceled : SUBSET Run]

Stopping(w) == phase[w] # "serving"
SlotsOf(w)  == {s \in Slot : WorkerOf[s] = w}
Keys(w)     == {r \in Run : inFlight[w][r] # NoSlot}

\* executor.abort: the first reason wins.
Relabel(old, reason) == IF old = "none" THEN reason ELSE old

RuntimeInit ==
    /\ Init
    /\ calling = {}
    /\ inFlight = [w \in Worker |-> [r \in Run |-> NoSlot]]
    /\ aborted = [s \in Slot |-> "none"]
    /\ beat = [w \in Worker |-> NoBeat]
    /\ phase = [w \in Worker |-> "serving"]
    /\ dbFailed = {}

----------------------------------------------------------------------------
\* claimLoop

\* while (!stopping): call claimRuns.
Poll(s) ==
    /\ phase[WorkerOf[s]] = "serving"
    /\ job[s] = Idle
    /\ s \notin calling
    /\ calling' = calling \cup {s}
    /\ UNCHANGED <<vars, inFlight, aborted, beat, phase, dbFailed>>

\* The call found nothing, or failed before its commit.
PollEmpty(s) ==
    /\ s \in calling
    /\ job[s] = Idle
    /\ calling' = calling \ {s}
    /\ UNCHANGED <<vars, inFlight, aborted, beat, phase, dbFailed>>

\* The claim transaction commits: possibly after stop() began.
ClaimCommits(s, r) ==
    /\ s \in calling
    /\ ClaimTx(s, r)
    /\ UNCHANGED runtimeVars

\* The answer arrives at a serving worker: register the executor and run it.
Register(w, r, s) == [inFlight EXCEPT ![w][r] = s]

Start(s) ==
    LET w == WorkerOf[s] IN
    /\ s \in calling
    /\ ~Stopping(w)
    /\ ReadLedger(s)
    /\ calling' = calling \ {s}
    /\ inFlight' = Register(w, job[s].run, s)
    /\ aborted' = [aborted EXCEPT ![s] = "none"]
    /\ UNCHANGED <<beat, phase, dbFailed>>

\* The answer arrives after stop() began: never execute, hand the run back by
\* (worker, run id); the slot's loop ends.
DroppedLate(s) ==
    /\ s \in calling
    /\ Stopping(WorkerOf[s])
    /\ EndExecution(s)
    /\ calling' = calling \ {s}
    /\ UNCHANGED <<inFlight, aborted, beat, phase, dbFailed>>
HandBackLate(s) ==
    LET w == WorkerOf[s]
        r == job[s].run
    IN  /\ s \in calling
        /\ Stopping(w) /\ phase[w] # "dead"
        /\ r # NoRun
        /\ IF queueRow[r] = w
           THEN /\ released[r] < MaxReleases
                /\ status' = [status EXCEPT ![r] = IF @ = "running" THEN "queued" ELSE @]
                /\ queueRow' = [queueRow EXCEPT ![r] = Free]
                /\ expired' = expired \ {r}
                /\ released' = [released EXCEPT ![r] = @ + 1]
           ELSE UNCHANGED <<status, queueRow, expired, released>>
        /\ job' = [job EXCEPT ![s] = Idle]
        /\ calling' = calling \ {s}
        /\ UNCHANGED <<attempt, recoveries, token, waits, ledger, suspended,
                       inFlight, aborted, beat, phase, dbFailed>>

\* The ledger read after the commit, or the late hand-back, failed: the loop
\* forgets the claim and leaves it to the reaper.
ClaimAnswerLost(s) ==
    /\ s \in calling
    /\ EndExecution(s)
    /\ calling' = calling \ {s}
    /\ dbFailed' = dbFailed \cup {WorkerOf[s]}
    /\ UNCHANGED <<inFlight, aborted, beat, phase>>

\* execute() settled: finally { inFlight.delete(run.id) }.
Delete(w, r) == [inFlight EXCEPT ![w][r] = NoSlot]

Leave(s) ==
    /\ s \notin calling
    /\ EndExecution(s)
    /\ inFlight' = Delete(WorkerOf[s], job[s].run)
    /\ UNCHANGED <<calling, aborted, beat, phase, dbFailed>>

\* The fenced writes of a registered executor.  Its abortReason keeps none of them
\* away: it is read when something is thrown, before the last log flush and the report,
\* and not at all on the other ways through execute() (Replay has what it may begin).
Execute(s) ==
    /\ s \notin calling
    /\ phase[WorkerOf[s]] # "dead"
    /\ FencedNext(s)
    /\ UNCHANGED runtimeVars

----------------------------------------------------------------------------
\* heartbeatOnce: one at a time, kept alive through the drain

BeatSend(w) ==
    /\ phase[w] \in {"serving", "draining"}
    /\ beat[w].step = "idle"
    /\ beat' = [beat EXCEPT ![w] = [NoBeat EXCEPT !.step = "sent", !.ids = Keys(w)]]
    /\ UNCHANGED <<vars, calling, inFlight, aborted, phase, dbFailed>>

\* UPDATE queue SET lease_until ... RETURNING run_id.
Held(w) == {r \in beat[w].ids : queueRow[r] = w}

BeatRenew(w) ==
    /\ beat[w].step = "sent"
    /\ expired' = expired \ Held(w)
    /\ beat' = [beat EXCEPT ![w].step = "renewed", ![w].lost = beat[w].ids \ Held(w)]
    /\ UNCHANGED <<status, attempt, recoveries, token, queueRow, waits, ledger, job, history,
                   calling, inFlight, aborted, phase, dbFailed>>

\* SELECT the canceled ones; the two answers are disjoint.
OnlyLost(lost, canceled) == lost \ canceled

BeatAnswer(w) ==
    LET canceled == {r \in beat[w].ids : status[r] = "canceled"} IN
    /\ beat[w].step = "renewed"
    /\ beat' = [beat EXCEPT ![w].step = "answered", ![w].canceled = canceled,
                            ![w].lost = OnlyLost(@, canceled)]
    /\ UNCHANGED <<vars, calling, inFlight, aborted, phase, dbFailed>>

\* markCanceled / markLost on whatever executor the map names NOW.
BeatApply(w) ==
    /\ beat[w].step = "answered"
    /\ aborted' = [s \in Slot |->
          IF \E r \in beat[w].canceled : inFlight[w][r] = s THEN Relabel(aborted[s], "canceled")
          ELSE IF \E r \in beat[w].lost : inFlight[w][r] = s THEN Relabel(aborted[s], "lease_lost")
          ELSE aborted[s]]
    /\ beat' = [beat EXCEPT ![w] = NoBeat]
    /\ UNCHANGED <<vars, calling, inFlight, phase, dbFailed>>

\* A heartbeat whose query fails is only counted.
BeatFail(w) ==
    /\ beat[w].step \in {"sent", "renewed"}
    /\ beat' = [beat EXCEPT ![w] = NoBeat]
    /\ UNCHANGED <<vars, calling, inFlight, aborted, phase, dbFailed>>

----------------------------------------------------------------------------
\* stop, and the death of the process

\* stopping = true; every registered executor is told.
StopBegin(w) ==
    /\ phase[w] = "serving"
    /\ phase' = [phase EXCEPT ![w] = "draining"]
    /\ aborted' = [s \in Slot |-> IF \E r \in Run : inFlight[w][r] = s
                                  THEN Relabel(aborted[s], "shutting_down") ELSE aborted[s]]
    /\ UNCHANGED <<vars, calling, inFlight, beat, dbFailed>>

\* The loops drained, or SHUTDOWN_DRAIN_MS passed: no further heartbeat.
DrainEnds(w) ==
    /\ phase[w] = "draining"
    /\ phase' = [phase EXCEPT ![w] = "quiescing"]
    /\ UNCHANGED <<vars, calling, inFlight, aborted, beat, dbFailed>>

\* await heartbeatTick, then handBack: release every claim still held.
\* Best-effort: if the release fails the stop still completes.
HandBack(w) ==
    LET mine == {r \in Run : queueRow[r] = w} IN
    /\ phase[w] = "quiescing"
    /\ beat[w].step = "idle"
    /\ phase' = [phase EXCEPT ![w] = "stopped"]
    /\ IF mine = {} THEN UNCHANGED vars ELSE ReleaseClaims(w, mine)
    /\ UNCHANGED <<calling, inFlight, aborted, beat, dbFailed>>

HandBackFails(w) ==
    /\ phase[w] = "quiescing"
    /\ beat[w].step = "idle"
    /\ phase' = [phase EXCEPT ![w] = "stopped"]
    /\ dbFailed' = dbFailed \cup {w}
    /\ UNCHANGED <<vars, calling, inFlight, aborted, beat>>

\* The process is gone with everything it held in memory; its worker id never
\* comes back.
Die(w) ==
    /\ phase[w] # "dead"
    /\ phase' = [phase EXCEPT ![w] = "dead"]
    /\ job' = [s \in Slot |-> IF WorkerOf[s] = w THEN Idle ELSE job[s]]
    /\ calling' = calling \ SlotsOf(w)
    /\ inFlight' = [inFlight EXCEPT ![w] = [r \in Run |-> NoSlot]]
    /\ aborted' = [s \in Slot |-> IF WorkerOf[s] = w THEN "none" ELSE aborted[s]]
    /\ beat' = [beat EXCEPT ![w] = NoBeat]
    /\ UNCHANGED <<kernelVars, history, dbFailed>>

----------------------------------------------------------------------------
\* The rest of the deployment: clients and any daemon's orchestrator.
Elsewhere == (ClientNext \/ OrchestratorNext) /\ UNCHANGED runtimeVars

RuntimeNext ==
    \/ \E s \in Slot : \/ Poll(s) \/ PollEmpty(s) \/ Start(s) \/ HandBackLate(s)
                       \/ ClaimAnswerLost(s) \/ Leave(s) \/ Execute(s)
                       \/ \E r \in Run : ClaimCommits(s, r)
    \/ \E w \in Worker : \/ BeatSend(w) \/ BeatRenew(w) \/ BeatAnswer(w) \/ BeatApply(w)
                         \/ BeatFail(w) \/ StopBegin(w) \/ DrainEnds(w) \/ HandBack(w)
                         \/ HandBackFails(w) \/ Die(w)
    \/ Elsewhere

RuntimeSpec == RuntimeInit /\ [][RuntimeNext]_allVars

----------------------------------------------------------------------------
\* Properties

\* The process-side state has its shape; a heartbeat's two answers name
\* different runs (a canceled run is never also reported lost), and a dead
\* worker owns nothing.
RuntimeTypeOK ==
    /\ calling \subseteq Slot
    /\ inFlight \in [Worker -> [Run -> Slot \cup {NoSlot}]]
    /\ aborted \in [Slot -> Reason]
    /\ beat \in [Worker -> Beat]
    /\ \A w \in Worker : beat[w].lost \cap beat[w].canceled = {}
    /\ phase \in [Worker -> Phase]
    /\ \A w \in Worker : phase[w] = "dead" =>
          Keys(w) = {} /\ \A s \in SlotsOf(w) : job[s] = Idle /\ s \notin calling

\* "Runs currently executing, keyed by run id -> their Executor" (runtime.ts):
\* an executor that holds its run's claim is the one the map names, so the
\* heartbeat renews its lease and a cancel reaches it.
InFlightNamesHolder ==
    \A s \in Slot : Accepted(s) => inFlight[WorkerOf[s]][job[s].run] = s

\* An executor aborted as 'lease_lost' works on "a result doomed to be rejected
\* by fencing" (docs/backend-contract.md): it holds no claim any more.
LostIsLost ==
    \A s \in Slot : Accepted(s) => aborted[s] # "lease_lost"

\* After a graceful stop nothing waits for the lease reaper, unless the database
\* failed a call: the only claims left under the worker's name are those whose
\* answer is still on its way to a loop that will hand them back.  A claim handed back
\* is claimable at once and charged to nobody.  (runtime.ts stop.)
StoppedHoldsNothing ==
    /\ RuntimeTypeOK
    /\ \A w \in Worker \ dbFailed, r \in Run :
          phase[w] = "stopped" /\ queueRow[r] = w =>
              \E s \in SlotsOf(w) : s \in calling /\ job[s].run = r
    /\ EveryClaimAccounted /\ QueueMatchesStatus
=============================================================================
