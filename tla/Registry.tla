------------------------------ MODULE Registry ------------------------------
(***************************************************************************)
(* One task in one namespace: the registration of workers                  *)
(* (packages/kernel/src/workers.ts), its metadata row and its schedule,    *)
(* the cron loop of every daemon (orchestrator.ts scanCron) and the        *)
(* dashboard's switch (apps/worker/src/routes/dashboard.ts).               *)
(*                                                                         *)
(* Transactions overlap at READ COMMITTED: a row they write is locked to   *)
(* their end, a statement sees what was committed when it began, and a     *)
(* statement that waited for a row sees that row as it is then, but        *)
(* everything else as it was.                                              *)
(***************************************************************************)
EXTENDS Naturals, FiniteSets

CONSTANTS
    Worker,       \* processes that register
    Daemon,       \* daemons that run the cron loop
    VersionOf,    \* the code version of a process
    PatternOf,    \* the cron pattern of the task in a version, NoPattern if none
    NoPattern, NoDaemon, NoVersion,
    MaxRegistrations, \* bound
    MaxDue,           \* bound: times the schedule falls due
    MaxPatches        \* bound

ASSUME RegistryAssumption ==
    /\ Worker \cap Daemon = {} /\ NoDaemon \notin Worker \cup Daemon
    /\ \A w \in Worker : VersionOf[w] # NoVersion
    /\ MaxRegistrations \in Nat /\ MaxDue \in Nat /\ MaxPatches \in Nat

VARIABLES
    version,  \* tasks.latest_code_version
    sched,    \* schedules: pattern, enabled, next_run_at
    row,      \* workers: "none", "online" within the window, "silent" beyond it, then
              \* "marked" offline, or "left"
    reg,      \* per process: its registration, and what its statement sees
    scan,     \* per daemon: its cron tick
    patch,    \* the PATCH that is under way: the pattern it read
    taskLock, schedLock,  \* who holds the two rows
    dueTimes, fires,      \* how often the schedule fell due, and fired (history)
    registrations, patches

regVars == <<version, sched, row, reg, scan, patch, taskLock, schedLock, dueTimes, fires,
             registrations, patches>>

NoSchedule == [pattern |-> NoPattern, enabled |-> FALSE, next |-> "never"]
NoPatch    == NoPattern
Off        == [at |-> "off", served |-> {}, owner |-> FALSE]

RegInit ==
    /\ version = NoVersion /\ sched = NoSchedule
    /\ row = [w \in Worker |-> "none"]
    /\ reg = [w \in Worker |-> Off]
    /\ scan = [d \in Daemon |-> "idle"]
    /\ patch = NoPatch
    /\ taskLock = NoDaemon /\ schedLock = NoDaemon
    /\ dueTimes = 0 /\ fires = 0 /\ registrations = 0 /\ patches = 0

Served == {VersionOf[w] : w \in {x \in Worker : row[x] = "online"}}

----------------------------------------------------------------------------
\* registerWorker

\* The worker's row, then the upsert: its snapshot has the committed workers and
\* this one.
Upsert(w) ==
    /\ reg[w].at = "off" /\ row[w] \in {"none", "left"}
    /\ registrations < MaxRegistrations
    /\ registrations' = registrations + 1
    /\ reg' = [reg EXCEPT ![w] = [Off EXCEPT !.at = "upsert",
                                       !.served = Served \cup {VersionOf[w]}]]
    /\ UNCHANGED <<version, sched, row, scan, patch, taskLock, schedLock, dueTimes, fires, patches>>

\* upsertTask: the conflicting row is locked, and the guard judges it as it is
\* now, by the workers as they were.
MayOwn(w) == version \in {NoVersion, VersionOf[w]} \/ version \notin reg[w].served

UpsertApplies(w) ==
    /\ reg[w].at = "upsert" /\ taskLock = NoDaemon
    /\ taskLock' = w
    /\ reg' = [reg EXCEPT ![w].at = "judged", ![w].owner = MayOwn(w)]
    /\ UNCHANGED <<version, sched, row, scan, patch, schedLock, dueTimes, fires, registrations, patches>>

\* syncSchedules, for the owner alone.
EveryoneSyncs(w) == reg[w].at = "judged"
MustSync(w) == reg[w].at = "judged" /\ reg[w].owner

SyncSchedule(w) ==
    /\ MustSync(w) /\ schedLock = NoDaemon
    /\ schedLock' = w
    /\ reg' = [reg EXCEPT ![w].at = "synced"]
    /\ UNCHANGED <<version, sched, row, scan, patch, taskLock, dueTimes, fires, registrations, patches>>

\* The rows it wrote become visible together.  A schedule keeps its enabled flag,
\* and its next fire unless its pattern changes.
SyncedSchedule(pattern) ==
    IF pattern = NoPattern THEN NoSchedule
    ELSE IF sched = NoSchedule THEN [pattern |-> pattern, enabled |-> TRUE, next |-> "ahead"]
    ELSE IF sched.pattern = pattern THEN sched
    ELSE [sched EXCEPT !.pattern = pattern, !.next = "ahead"]

Release(x) ==
    /\ taskLock' = IF taskLock = x THEN NoDaemon ELSE taskLock
    /\ schedLock' = IF schedLock = x THEN NoDaemon ELSE schedLock

RegisterCommit(w) ==
    /\ \/ reg[w].at = "synced"
       \/ reg[w].at = "judged" /\ ~MustSync(w)
    /\ version' = IF reg[w].owner THEN VersionOf[w] ELSE version
    /\ sched' = IF reg[w].at = "synced" THEN SyncedSchedule(PatternOf[VersionOf[w]]) ELSE sched
    /\ row' = [row EXCEPT ![w] = "online"]
    /\ reg' = [reg EXCEPT ![w] = Off]
    /\ Release(w)
    \* A PATCH of a schedule that is deleted meanwhile updates nothing.
    /\ patch' = IF sched' = NoSchedule THEN NoPatch ELSE patch
    /\ UNCHANGED <<scan, dueTimes, fires, registrations, patches>>

RegisterFails(w) ==
    /\ reg[w].at # "off"
    /\ reg' = [reg EXCEPT ![w] = Off]
    /\ Release(w)
    /\ UNCHANGED <<version, sched, row, scan, patch, dueTimes, fires, registrations, patches>>

\* A heartbeat is missed for the window; a tick of any daemon says so in the row; it
\* comes back, if the row is still there; or the process deregisters.
Becomes(w, was, is) ==
    /\ row[w] \in was /\ row' = [row EXCEPT ![w] = is]
    /\ UNCHANGED <<version, sched, reg, scan, patch, taskLock, schedLock, dueTimes, fires, registrations, patches>>
Silent(w)      == Becomes(w, {"online"}, "silent")
MarkOffline(w) == Becomes(w, {"silent"}, "marked")
Beat(w)        == Becomes(w, {"silent", "marked"}, "online")
Deregister(w)  == Becomes(w, {"online", "silent", "marked"}, "left")

\* Retention: only of rows that say offline.
PruneWorker(w) == Becomes(w, {"marked", "left"}, "none")

----------------------------------------------------------------------------
\* scanCron

FallsDue ==
    /\ sched.next = "ahead" /\ sched.enabled
    /\ dueTimes < MaxDue
    /\ dueTimes' = dueTimes + 1
    /\ sched' = [sched EXCEPT !.next = "due"]
    /\ UNCHANGED <<version, row, reg, scan, patch, taskLock, schedLock, fires, registrations, patches>>

\* FOR UPDATE SKIP LOCKED: a row another tick has moved on meanwhile is judged again.
DueThoughTaken == sched.enabled /\ sched.next = "due"
DueAndFree == sched.enabled /\ sched.next = "due" /\ schedLock = NoDaemon

CronLock(d) ==
    /\ scan[d] = "idle"
    /\ DueAndFree
    /\ schedLock' = d
    /\ scan' = [scan EXCEPT ![d] = "locked"]
    /\ UNCHANGED <<version, sched, row, reg, patch, taskLock, dueTimes, fires, registrations, patches>>

\* servedTaskIds.
CronServed(d) ==
    /\ scan[d] = "locked"
    /\ scan' = [scan EXCEPT ![d] = IF Served # {} THEN "fire" ELSE "skip"]
    /\ UNCHANGED <<version, sched, row, reg, patch, taskLock, schedLock, dueTimes, fires, registrations, patches>>

\* The run and the next fire time, in one transaction; a pattern or a time zone
\* that no longer parses is put to rest.
CronCommit(d) ==
    /\ scan[d] \in {"fire", "skip"}
    /\ fires' = IF scan[d] = "fire" THEN fires + 1 ELSE fires
    /\ \E next \in {"ahead", "never"} : sched' = [sched EXCEPT !.next = next]
    /\ scan' = [scan EXCEPT ![d] = "idle"]
    /\ Release(d)
    /\ UNCHANGED <<version, row, reg, patch, dueTimes, registrations, patches>>

CronFails(d) ==
    /\ scan[d] # "idle"
    /\ scan' = [scan EXCEPT ![d] = "idle"]
    /\ Release(d)
    /\ UNCHANGED <<version, sched, row, reg, patch, dueTimes, fires, registrations, patches>>

----------------------------------------------------------------------------
\* PATCH /schedules/:id reads the pattern, then updates without a transaction.
PatchRead ==
    /\ sched # NoSchedule /\ patch = NoPatch
    /\ patches < MaxPatches
    /\ patches' = patches + 1
    /\ patch' = sched.pattern
    /\ UNCHANGED <<version, sched, row, reg, scan, taskLock, schedLock, dueTimes, fires, registrations>>

PatchWrite ==
    /\ patch # NoPatch /\ schedLock = NoDaemon
    /\ \E enabled \in BOOLEAN :
          sched' = [sched EXCEPT !.enabled = enabled, !.next = IF enabled THEN "ahead" ELSE "never"]
    /\ patch' = NoPatch
    /\ UNCHANGED <<version, row, reg, scan, taskLock, schedLock, dueTimes, fires, registrations, patches>>

RegNext ==
    \/ \E w \in Worker :
          \/ Upsert(w) \/ UpsertApplies(w) \/ SyncSchedule(w) \/ RegisterCommit(w) \/ RegisterFails(w)
          \/ Silent(w) \/ MarkOffline(w) \/ Beat(w) \/ Deregister(w) \/ PruneWorker(w)
    \/ \E d \in Daemon : CronLock(d) \/ CronServed(d) \/ CronCommit(d) \/ CronFails(d)
    \/ FallsDue \/ PatchRead \/ PatchWrite

RegSpec == RegInit /\ [][RegNext]_regVars

----------------------------------------------------------------------------
\* The schedule is that of the version the task's row names, whoever registers
\* beside whom: a registration that was refused leaves it alone.  (workers.ts:
\* only the owner syncs.)
OwnersSchedule == version # NoVersion => sched.pattern = PatternOf[version]

\* Each time the schedule falls due it fires at most once, however many daemons look,
\* while registrations rewrite it; and a fire that is due is taken off it by a tick, by
\* a new pattern or by the dashboard, never by a registration of the same pattern:
\* deploys skip no fire.  (orchestrator.ts scanCron, workers.ts syncSchedules.)
DueIsKept ==
    [][sched.next = "due" /\ sched'.next # "due" =>
          \/ \E d \in Daemon : schedLock = d
          \/ sched'.pattern # sched.pattern
          \/ patch # NoPatch /\ patch' = NoPatch]_regVars
OneFirePerDueTime == [](fires <= dueTimes) /\ DueIsKept

\* A version that an online worker serves is not replaced by another one.
\* (workers.ts: "one atomic statement, no check-then-write race".)
ServedVersionStays ==
    [][version # NoVersion /\ version' # version => version \notin Served]_regVars
=============================================================================
