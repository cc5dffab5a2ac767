------------------------------ MODULE MCDaemon ------------------------------
(***************************************************************************)
(* The parts of a daemon that must come to an end, one instance of each in *)
(* one run.  They share no state: the initial state chooses the part that  *)
(* moves, and only its own fairness is assumed.                            *)
(***************************************************************************)
EXTENDS LogFlush, ResultDelivery, Listener, Exit, ClaimScan, TimerScan, Migration,
        TLC

CONSTANTS busy, quiet, a1, k1, k2, q1, capped, oldCode, newCode, t1, t2, l1, l2,
          oldDaemon, newDaemon, newestDaemon

VARIABLE part

daemonVars == <<logVars, delVars, lsnVars, exitVars, scanVars, timerVars, migVars, part>>

\* Two namespaces: in the busy one two runs under a limit, pinned to the old code, of
\* which one is urgent, and one that is neither; in the quiet one a run of the new code.
MCSpaces == <<busy, quiet>>
MCSpaceOf == [r \in ScanRun |-> IF r = q1 THEN quiet ELSE busy]
MCCapOf == [r \in ScanRun |-> IF r \in {k1, k2} THEN capped ELSE NoCap]
MCUrgencyOf == [r \in ScanRun |-> IF r = k1 THEN 1 ELSE 0]
MCPinOf == k1 :> oldCode @@ k2 :> oldCode @@ a1 :> AnyBuild @@ q1 :> newCode

\* One old build and two new ones, with a migration more.
MCFolderOf == oldDaemon :> 1 @@ newDaemon :> 2 @@ newestDaemon :> 2

\* A listener that is over: there is none to come back to.
NoListener ==
    /\ generation = 1 /\ client = 1 /\ life = "gone" /\ stopping = TRUE /\ timer = FALSE
    /\ attempt = [g \in Generation |-> "none"]
    /\ socket = [g \in Generation |-> "none"]
    /\ handled = {} /\ events = {}

\* Only the callers in S call; the calls of the others are over.
Calling(S) ==
    /\ run = "queued" /\ ended = FALSE
    /\ up = [d \in Daemon |-> TRUE] /\ listens = [d \in Daemon |-> FALSE]
    /\ notes = [d \in Daemon |-> FALSE] /\ look = [d \in Daemon |-> NotRead]
    /\ sweep = [d \in Daemon |-> NoSweep]
    /\ asking = [c \in Client |-> [at |-> IF c \in S THEN "idle" ELSE "aborted",
                                   daemon |-> Nowhere, expired |-> FALSE]]
    /\ entry = [c \in Client |-> NoEntry] /\ answer = [c \in Client |-> "none"]
    /\ faults = 0

DaemonInit ==
    /\ part \in {"log", "delivery", "listener", "exit", "scan", "timers", "migration"}
    /\ LogInit /\ ExitInit /\ TimerInit /\ MigInit
    /\ ScanInit /\ (part # "scan" => fleet = {oldCode})
    /\ IF part = "listener" THEN LsnInit ELSE NoListener
    /\ IF part = "delivery" THEN Calling(Client \ Polling) \/ Calling(Polling) ELSE Calling({})

DaemonNext ==
    /\ UNCHANGED part
    /\ \/ /\ part = "log" /\ LogNext
          /\ UNCHANGED <<delVars, lsnVars, exitVars, scanVars, timerVars, migVars>>
       \/ /\ part = "delivery" /\ DelNext
          /\ UNCHANGED <<logVars, lsnVars, exitVars, scanVars, timerVars, migVars>>
       \/ /\ part = "listener" /\ LsnNext
          /\ UNCHANGED <<logVars, delVars, exitVars, scanVars, timerVars, migVars>>
       \/ /\ part = "exit" /\ ExitNext
          /\ UNCHANGED <<logVars, delVars, lsnVars, scanVars, timerVars, migVars>>
       \/ /\ part = "scan" /\ ScanNext
          /\ UNCHANGED <<logVars, delVars, lsnVars, exitVars, timerVars, migVars>>
       \/ /\ part = "timers" /\ TimerNext
          /\ UNCHANGED <<logVars, delVars, lsnVars, exitVars, scanVars, migVars>>
       \/ /\ part = "migration" /\ MigNext
          /\ UNCHANGED <<logVars, delVars, lsnVars, exitVars, scanVars, timerVars>>

\* A part that stands still must owe nothing: of these initial states only the scan's
\* has a fair action enabled.
ClaimsGoOn(b) == part = "scan" /\ (ClaimRound(b) \/ SleepEnds(b))
DaemonFairness ==
    /\ DelFairness /\ LsnFairness /\ ExitFairness /\ TimerFairness
    /\ \A b \in Build : WF_scanVars(ClaimsGoOn(b))
    /\ WF_scanVars(ScanStranded)

DaemonSpec == DaemonInit /\ [][DaemonNext]_daemonVars /\ DaemonFairness
=============================================================================
