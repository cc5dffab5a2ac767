-------------------------------- MODULE Exit --------------------------------
(***************************************************************************)
(* The life of a daemon process: main() putting its pieces together        *)
(* (apps/worker/src/main.ts) and the exit paths that take them apart       *)
(* (apps/worker/src/shutdown.ts): signals, crashes, a failed boot, the one *)
(* hand-off they share and the timers that bound it.                       *)
(*                                                                         *)
(* JavaScript runs to the next await: main's awaits are the stages of      *)
(* `boot`, the hand-off's those of `handoff`, and the two interleave when  *)
(* a signal comes during boot.  The worker's own stop is WorkerRuntime's;  *)
(* here it is its marks, its drain and its release.  One run stands for    *)
(* those the worker executes.                                              *)
(***************************************************************************)
EXTENDS Naturals, FiniteSets

CONSTANT MaxEvents    \* bound: signals, crashes and failures

ASSUME ExitAssumption == MaxEvents \in Nat

VARIABLES
    boot,       \* "tasks", "migrate", "storage", "register" ("refused" by an ending pool),
                \* "registered", "up", "failed"
    daemon,     \* the record of pieces: subset of Piece
    going,      \* of waiters and worker, those that run though the record may not hold them
    workersRow, \* "none", "online", "offline"
    work,       \* a run: "free", "held", "waiting" (for a result in process), "refused", "billed"
    marked,     \* its executor is aborted: shutting_down
    handoff,    \* "none", the piece it awaits, "done"
    closed,     \* how often each piece's stop, end or close was called: [Piece -> Nat]
    exiting, fatal,
    waiting,    \* exits that await the hand-off: subset of {"signal", "crash", "boot"}
    backstop,   \* those of them that armed a timer
    code,       \* the exit code, or Running
    faulted,    \* history: a crash or a failed boot
    prompt,     \* history: an exit began while boot was under way
    unreleased, \* history: the database refused the release
    exitEvents

exitVars == <<boot, daemon, going, workersRow, work, marked, handoff, closed, exiting, fatal,
              waiting, backstop, code, faulted, prompt, unreleased, exitEvents>>

Piece   == {"server", "waiters", "worker", "notify", "pool", "probePool"}
Running == 9

ExitInit ==
    /\ boot = "tasks" /\ daemon = {} /\ going = {} /\ workersRow = "none"
    /\ work = "free" /\ marked = FALSE
    /\ handoff = "none" /\ closed = [p \in Piece |-> 0]
    /\ exiting = FALSE /\ fatal = FALSE /\ waiting = {} /\ backstop = {}
    /\ code = Running /\ faulted = FALSE /\ prompt = FALSE /\ unreleased = FALSE /\ exitEvents = 0

\* Once the hand-off is done its continuations exit before anything else runs.
Alive == code = Running /\ handoff # "done"
Event == exitEvents < MaxEvents /\ exitEvents' = exitEvents + 1
PoolEnding == closed["pool"] > 0

----------------------------------------------------------------------------
\* main, one action per await

ExitSide == UNCHANGED <<handoff, closed, exiting, fatal, waiting, backstop, code, faulted,
                        prompt, unreleased, exitEvents>>

TasksLoaded ==
    /\ Alive /\ boot = "tasks"
    /\ boot' = "migrate"
    /\ daemon' = daemon \cup {"pool", "probePool"}
    /\ UNCHANGED <<going, workersRow, work, marked>> /\ ExitSide
Migrated ==
    /\ Alive /\ boot = "migrate"
    /\ boot' = "storage"
    /\ daemon' = daemon \cup {"waiters", "notify"} /\ going' = going \cup {"waiters"}
    /\ UNCHANGED <<workersRow, work, marked>> /\ ExitSide
StorageLoaded ==
    /\ Alive /\ boot = "storage"
    /\ boot' = IF PoolEnding THEN "refused" ELSE "register"
    /\ UNCHANGED <<daemon, going, workersRow, work, marked>> /\ ExitSide
RegistrationCommits ==
    /\ Alive /\ boot = "register"
    /\ boot' = "registered" /\ workersRow' = "online"
    /\ UNCHANGED <<daemon, going, work, marked>> /\ ExitSide
\* Its answer: the claim loops start, the handle enters the record, the server listens.
WorkerStarts ==
    /\ Alive /\ boot = "registered"
    /\ boot' = "up"
    /\ going' = going \cup {"worker"}
    /\ daemon' = daemon \cup {"worker", "server"}
    /\ UNCHANGED <<workersRow, work, marked>> /\ ExitSide

\* The hand-off: everybody awaits the same one.  It runs to its first await: the
\* server and the waiters stop, and the worker's own stop marks its executors.
Order == <<"worker", "notify", "pool", "probePool">>
Awaited(from) ==
    LET left == {i \in from .. 4 : Order[i] \in daemon}
    IN  IF left = {} THEN "done" ELSE Order[CHOOSE i \in left : \A j \in left : i <= j]
Called(pieces) == [p \in Piece |-> IF p \in pieces \cap daemon THEN closed[p] + 1 ELSE closed[p]]

HandoffBegins ==
    /\ handoff' = Awaited(1)
    /\ closed' = Called({"server", "waiters", Awaited(1)})
    /\ going' = going \ (daemon \cap {"waiters", "worker"})
    /\ work' = IF work = "waiting" THEN "refused" ELSE work
    /\ marked' = (marked \/ "worker" \in daemon)
HandoffStays == UNCHANGED <<handoff, closed, going, work, marked>>
HandoffOnce == IF handoff = "none" THEN HandoffBegins ELSE HandoffStays

\* A task module that does not load, a migration or a registration that fails.
\* main().catch: markFatal, then the hand-off like everybody else.
BootFails ==
    /\ Alive /\ boot \in {"tasks", "migrate", "register", "refused"}
    /\ IF boot = "refused" THEN UNCHANGED exitEvents ELSE Event
    /\ boot' = "failed" /\ faulted' = TRUE
    /\ fatal' = TRUE /\ exiting' = TRUE
    /\ waiting' = waiting \cup {"boot"}
    /\ HandoffOnce
    /\ UNCHANGED <<daemon, workersRow, backstop, code, prompt, unreleased>>

----------------------------------------------------------------------------
\* shutdown(signal) and crash(kind, err)

UnlessCrash(who) == IF who = "crash" THEN backstop ELSE backstop \cup {who}
Armed(who) == backstop \cup {who}

ExitBegins(who) ==
    /\ exiting' = TRUE
    /\ waiting' = waiting \cup {who} /\ backstop' = Armed(who)
    /\ prompt' = (boot # "up")
    /\ HandoffOnce
ExitGoesOn == UNCHANGED <<exiting, waiting, backstop, prompt>> /\ HandoffStays

\* A second signal does not wait.
Signal ==
    /\ Alive /\ Event
    /\ \/ exiting /\ code' = 1 /\ ExitGoesOn
       \/ ~exiting /\ ExitBegins("signal") /\ UNCHANGED code
    /\ UNCHANGED <<boot, daemon, workersRow, fatal, faulted, unreleased>>

\* uncaughtException; unhandledRejection only when it is configured to be fatal.
ForgetWhenExiting == fatal' = (fatal \/ ~exiting)
RememberFault == fatal' = TRUE
Crash ==
    /\ Alive /\ Event
    /\ faulted' = TRUE
    /\ RememberFault
    /\ \/ exiting /\ ExitGoesOn
       \/ ~exiting /\ ExitBegins("crash")
    /\ UNCHANGED <<boot, daemon, workersRow, code, unreleased>>

\* Whoever awaited the hand-off leaves, before any timer; a timer does not wait.
LeaveCode(who) == IF who = "signal" /\ ~fatal THEN 0 ELSE 1
Leave(who) ==
    /\ code = Running /\ handoff = "done" /\ who \in waiting
    /\ code' = LeaveCode(who)
    /\ UNCHANGED <<boot, daemon, going, workersRow, work, marked, handoff, closed, exiting, fatal,
                   waiting, backstop, faulted, prompt, unreleased, exitEvents>>
BackstopFires(who) ==
    /\ Alive /\ who \in backstop
    /\ code' = 1
    /\ UNCHANGED <<boot, daemon, going, workersRow, work, marked, handoff, closed, exiting, fatal,
                   waiting, backstop, faulted, prompt, unreleased, exitEvents>>

----------------------------------------------------------------------------
\* runHandoff, from one await to the next.  None of them need ever answer.

HandoffSide == UNCHANGED <<boot, daemon, going, marked, exiting, fatal, waiting, backstop,
                           code, faulted, prompt>>

Moves(i) ==
    /\ Alive /\ handoff = Order[i]
    /\ handoff' = Awaited(i + 1) /\ closed' = Called({Awaited(i + 1)})
    /\ HandoffSide

\* worker.stop: what it still holds is released and its row goes offline, if the
\* database takes it.  A failure costs the other pieces nothing.
WorkerStopped ==
    /\ Moves(1)
    /\ workersRow' = "offline"
    /\ work' = IF work = "billed" THEN work ELSE "free"
    /\ UNCHANGED <<unreleased, exitEvents>>
WorkerNotReleased ==
    /\ Moves(1) /\ Event
    /\ unreleased' = TRUE
    /\ UNCHANGED <<workersRow, work>>
NotifyStopped == Moves(2) /\ UNCHANGED <<workersRow, work, unreleased, exitEvents>>
\* pool.end waits for the connections that are out.
PoolEnded ==
    /\ Moves(3) /\ boot \notin {"migrate", "register"}
    /\ UNCHANGED <<workersRow, work, unreleased, exitEvents>>
ProbePoolEnded == Moves(4) /\ UNCHANGED <<workersRow, work, unreleased, exitEvents>>

----------------------------------------------------------------------------
\* The run, in the worker's hands

RunSide == UNCHANGED <<boot, daemon, going, workersRow, marked, handoff, closed, exiting, fatal,
                       waiting, backstop, code, faulted, prompt, unreleased, exitEvents>>
Claims ==
    /\ Alive /\ "worker" \in going /\ work = "free" /\ ~PoolEnding
    /\ work' = "held" /\ RunSide
\* handle.result() in process: refused outright once the registry has stopped.
AwaitsResult ==
    /\ Alive /\ work = "held"
    /\ work' = IF "waiters" \in going THEN "waiting" ELSE "refused"
    /\ RunSide
ResultComes ==
    /\ Alive /\ work = "waiting"
    /\ work' = "held" /\ RunSide
\* The refusal reaches user code, and what it throws the executor: an aborted one
\* abandons, any other reports a failed attempt.
RefusalThrown ==
    /\ Alive /\ work = "refused"
    /\ work' = IF marked \/ PoolEnding THEN "held" ELSE "billed"
    /\ RunSide

ExitNext ==
    \/ TasksLoaded \/ Migrated \/ StorageLoaded \/ RegistrationCommits \/ WorkerStarts \/ BootFails
    \/ Signal \/ Crash
    \/ \E who \in {"signal", "crash", "boot"} : Leave(who) \/ BackstopFires(who)
    \/ WorkerStopped \/ WorkerNotReleased \/ NotifyStopped \/ PoolEnded \/ ProbePoolEnded
    \/ Claims \/ AwaitsResult \/ ResultComes \/ RefusalThrown

\* Timers fire and continuations run; the database may never answer again.
ExitFairness == WF_exitVars(\E who \in {"signal", "crash", "boot"} : Leave(who) \/ BackstopFires(who))

ExitSpec == ExitInit /\ [][ExitNext]_exitVars /\ ExitFairness

----------------------------------------------------------------------------
\* No piece is ended twice, though crashes, signals and a failing boot meet (pool.end
\* would throw).  Exit code 0 says that nothing crashed, boot did not fail, the hand-off
\* ran to its end and, unless boot was under way or the database refused, nothing is
\* left of this process: no claim, no online row, no failed attempt, not even of a run
\* that waited for a result in process.  (shutdown.ts handoffOnce, fatal, runHandoff.)
CleanExit ==
    /\ \A p \in Piece : closed[p] <= 1
    /\ code = 0 =>
          /\ ~faulted /\ handoff = "done"
          /\ ~prompt => /\ \A p \in Piece : closed[p] = 1
                         /\ work # "billed"
                         /\ ~unreleased => workersRow = "offline" /\ work = "free"

\* A signal or a crash ends the process though the hand-off never ends, whatever
\* comes second.  (shutdown.ts, the two backstops.)
AlwaysLeaves == (exiting /\ boot # "failed") ~> (code # Running)

\* "main() fills the `daemon` record in as each piece comes up, so a fault at any
\* point during boot still hands back whatever already exists" (shutdown.ts).
BootHandsBack == code = 0 /\ ~unreleased => workersRow # "online" /\ work = "free"
=============================================================================
