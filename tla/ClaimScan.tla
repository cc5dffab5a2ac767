------------------------------ MODULE ClaimScan ------------------------------
(***************************************************************************)
(* Which runs a claim looks at: the window of the queue's head that        *)
(* claimRuns scans in each namespace, the budget the namespaces share, and *)
(* the rotation the claim loops give them (packages/kernel/src/queue.ts,   *)
(* apps/worker/src/runtime.ts); and which it may not take at all, because  *)
(* they are pinned to the code of another build, with the scan that        *)
(* reports those nobody serves (orchestrator.ts scanStranded).  A worker   *)
(* that found nothing sleeps, until its timer or a note wakes it.  One     *)
(* claim is one step here; claims that overlap are the subject of          *)
(* ClaimGate.                                                              *)
(***************************************************************************)
EXTENDS Naturals, FiniteSets, Sequences, SequencesExt

CONSTANTS
    ScanRun,      \* runs, each triggered again after it ends
    Spaces,       \* the namespaces a worker serves, in its order
    SpaceOf,      \* the namespace of a run
    CapOf,        \* its task, if that has a concurrency limit of one, or NoCap
    UrgencyOf,    \* its priority
    NoCap,
    Build,        \* the builds of the fleet's workers, each with its version of the code
    PinOf,        \* code_version of a run, or AnyBuild
    AnyBuild,
    ClaimLimit,   \* limit
    WindowFloor,  \* the floor of claimWindow
    MaxDeploys    \* bound: workers that come or go

ASSUME ScanAssumption ==
    /\ SpaceOf \in [ScanRun -> ToSet(Spaces)] /\ UrgencyOf \in [ScanRun -> Nat]
    /\ PinOf \in [ScanRun -> Build \cup {AnyBuild}] /\ AnyBuild \notin Build
    /\ ClaimLimit \in Nat \ {0} /\ WindowFloor \in Nat /\ MaxDeploys \in Nat

VARIABLES
    order,    \* per namespace: its queue, by priority and then by age
    started,  \* runs claimed and not ended
    rotation, \* per build: claimRotation of its worker
    asleep,   \* builds whose worker sleeps off a claim that found nothing
    fleet,    \* the builds that have an online worker
    stranded, \* counters.stranded
    deploys

scanVars == <<order, started, rotation, asleep, fleet, stranded, deploys>>

ScanInit ==
    /\ order = [s \in ToSet(Spaces) |-> <<>>] /\ started = {}
    /\ rotation = [b \in Build |-> 1] /\ asleep = {}
    /\ \E b \in Build : fleet = {b}
    /\ stranded = {} /\ deploys = 0

\* notifyWork, with the transaction that enqueues a run or frees a concurrency slot.
\* It wakes the sleeps it reaches: none whose daemon does not LISTEN at that moment,
\* nor one that begins after it.
Noted == \E reached \in SUBSET asleep : asleep' = asleep \ reached

\* enqueue: ORDER BY priority DESC, id ASC.
Enqueue(r) ==
    /\ r \notin started /\ ~Contains(order[SpaceOf[r]], r)
    /\ LET q     == order[SpaceOf[r]]
           ahead == Len(SelectSeq(q, LAMBDA x : UrgencyOf[x] >= UrgencyOf[r]))
       IN  order' = [order EXCEPT ![SpaceOf[r]] = InsertAt(q, ahead + 1, r)]
    /\ Noted
    /\ UNCHANGED <<started, rotation, fleet, stranded, deploys>>

Ends(r) ==
    /\ r \in started /\ started' = started \ {r}
    /\ IF CapOf[r] # NoCap THEN Noted ELSE UNCHANGED asleep
    /\ UNCHANGED <<order, rotation, fleet, stranded, deploys>>

----------------------------------------------------------------------------
\* The fleet: a worker registers; its row ceases to be online as it deregisters, or,
\* if it died, once its last heartbeat is old enough.
Deploy(next) ==
    /\ deploys < MaxDeploys /\ deploys' = deploys + 1
    /\ fleet' = next
    /\ UNCHANGED <<order, started, rotation, asleep, stranded>>
Joins(b) == b \notin fleet /\ Deploy(fleet \cup {b})
Leaves(b) == b \in fleet /\ Deploy(fleet \ {b})

\* scanStrandedRuns: due and unclaimed, and no online worker has that version.
Unserved(r) == PinOf[r] # AnyBuild /\ PinOf[r] \notin fleet
ScanStranded ==
    /\ stranded' = {r \in ScanRun : Contains(order[SpaceOf[r]], r) /\ Unserved(r)}
    /\ UNCHANGED <<order, started, rotation, asleep, fleet, deploys>>

----------------------------------------------------------------------------
\* Pinning: a run that was never pinned is anybody's.
Serves(b, r) == PinOf[r] \in {b, AnyBuild}

\* claimWindow, and one scan: rows whose task is at its limit are left in place.
NoWider(budget) == budget
ClaimWindow(budget) == IF 2 * budget > WindowFloor THEN 2 * budget ELSE WindowFloor

Capped(r, taken) == CapOf[r] # NoCap /\ \E x \in started \cup taken : CapOf[x] = CapOf[r]

\* The filter is in the query, before its LIMIT.
Window(b, rows, n) ==
    LET mine == SelectSeq(rows, LAMBDA r : Serves(b, r))
    IN  SubSeq(mine, 1, IF n < Len(mine) THEN n ELSE Len(mine))

Scanned(b, space, taken, budget) ==
    LET window == Window(b, order[space], ClaimWindow(budget))
        free   == {i \in DOMAIN window :
                      /\ ~Capped(window[i], taken)
                      /\ CapOf[window[i]] # NoCap =>
                            \A j \in 1 .. i - 1 : CapOf[window[j]] # CapOf[window[i]]}
    IN  {window[i] : i \in {x \in free : Cardinality({y \in free : y < x}) < budget}}

\* scanCandidates: the budget that the namespaces before have left.
InRotation(b) == [i \in DOMAIN Spaces |-> Spaces[((rotation[b] + i - 2) % Len(Spaces)) + 1]]

ClaimedRuns(b) ==
    FoldLeft(LAMBDA before, space :
                 before \cup Scanned(b, space, before, ClaimLimit - Cardinality(before)),
             {}, InRotation(b))

ClaimRound(b) ==
    /\ b \in fleet /\ b \notin asleep
    /\ rotation' = [rotation EXCEPT ![b] = (@ % Len(Spaces)) + 1]
    /\ UNCHANGED <<fleet, stranded, deploys>>
    /\ \E claimed \in {ClaimedRuns(b)} :
           /\ started' = started \cup claimed
           /\ order' = [s \in DOMAIN order |-> SelectSeq(order[s], LAMBDA r : r \notin claimed)]
           /\ asleep' = IF claimed = {} THEN asleep \cup {b} ELSE asleep

\* sleepWithWake: the idle back-off ends, noted or not.
SleepEnds(b) ==
    /\ b \in asleep /\ asleep' = asleep \ {b}
    /\ UNCHANGED <<order, started, rotation, fleet, stranded, deploys>>

ScanNext ==
    \/ \E r \in ScanRun : Enqueue(r) \/ Ends(r)
    \/ \E b \in Build : ClaimRound(b) \/ SleepEnds(b) \/ Joins(b) \/ Leaves(b)
    \/ ScanStranded

\* The loops of the daemons go on; no run need ever end.
ScanFairness ==
    /\ \A b \in Build : WF_scanVars(ClaimRound(b) \/ SleepEnds(b))
    /\ WF_scanVars(ScanStranded)

ScanSpec == ScanInit /\ [][ScanNext]_scanVars /\ ScanFairness

----------------------------------------------------------------------------
AheadOf(r) ==
    LET q == order[SpaceOf[r]]
    IN  {q[i] : i \in {j \in DOMAIN q : \E k \in DOMAIN q : q[k] = r /\ j < k}}

\* The runs at their limit before r fill the window.
Crowded(b, r) ==
    Cardinality({x \in AheadOf(r) : CapOf[x] # NoCap /\ Serves(b, x)}) >= WindowFloor

\* A run whose task has no limit is claimed, however busy the namespaces before its
\* own are and however long the runs at its head stay at their limit, unless those
\* fill the window, or more urgent runs keep arriving, and although the notification
\* that it is there is lost; and if its build has left the fleet for good it is reported
\* instead.  (queue.ts claimWindow, rotateFrom, scanStrandedRuns: "This is what turns
\* that into a number and a log line".)
EveryRunServedOrReported ==
    \A r \in {x \in ScanRun : CapOf[x] = NoCap} :
        []<>\/ ~Contains(order[SpaceOf[r]], r)
            \/ r \in stranded
            \/ \E b \in fleet : Serves(b, r) /\ Crowded(b, r)
            \/ \E x \in AheadOf(r), b \in fleet :
                  UrgencyOf[x] > UrgencyOf[r] /\ Serves(b, r) /\ Serves(b, x)
            \/ PinOf[r] = AnyBuild /\ fleet = {}
=============================================================================
