--------------------------- MODULE ResultDelivery ---------------------------
(***************************************************************************)
(* How a caller learns the end of a run: the SDK's polling loop            *)
(* (packages/sdk/src/instance.ts waitForResult over client.ts request),    *)
(* GET /runs/:id/result, and the registry of result waiters in each daemon *)
(* (apps/worker/src/waiters.ts), which reads the run when a waiter comes,  *)
(* when a notification says it ended, and in a sweep of its own; and the   *)
(* kernel's own polling (packages/kernel/src/runs-read.ts waitForResult)   *)
(* where there is no registry.                                             *)
(*                                                                         *)
(* One run.  A read of the database is one step and what is done with the  *)
(* row another.  Notifications are lost while a daemon does not listen,    *)
(* answers are lost on their way, daemons stop.                            *)
(***************************************************************************)
EXTENDS Naturals, FiniteSets

CONSTANTS
    Client,    \* callers of waitForResult, one request at a time each
    Local,     \* those inside a daemon: they register themselves, with no deadline
    Polling,   \* those that wait in the kernel, without a registry
    Daemon,
    Nowhere,
    MaxFaults  \* bound: failed reads, lost answers, stops, moves of the run back

ASSUME DeliveryAssumption ==
    /\ Local \subseteq Client /\ Polling \subseteq Client \ Local /\ MaxFaults \in Nat
    /\ Nowhere \notin Daemon

VARIABLES
    run,     \* its row: "queued", "running", "completed", "gone"
    ended,   \* whether it ever completed (history)
    up,      \* per daemon
    listens, \* per daemon: its LISTEN connection is there
    notes,   \* per daemon: a terminal notification it has not looked at
    look,    \* per daemon: the row a notification made it read
    sweep,   \* per daemon: the entries a sweep began with, and the row it read
    asking,  \* per caller: where its call is, and its deadline passed
    entry,   \* per caller: the waiter of its request in the registry
    answer,  \* per caller: the answer on its way
    faults

delVars == <<run, ended, up, listens, notes, look, sweep, asking, entry, answer, faults>>

Terminal == {"completed"}
NotRead  == "not read"
NoEntry  == [at |-> "none", row |-> NotRead]
NoSweep  == [who |-> {}, row |-> NotRead]

DelInit ==
    /\ run = "queued" /\ ended = FALSE
    /\ up = [d \in Daemon |-> TRUE] /\ listens = [d \in Daemon |-> FALSE]
    /\ notes = [d \in Daemon |-> FALSE] /\ look = [d \in Daemon |-> NotRead]
    /\ sweep = [d \in Daemon |-> NoSweep]
    /\ asking = [c \in Client |-> [at |-> "idle", daemon |-> Nowhere, expired |-> FALSE]]
    /\ entry = [c \in Client |-> NoEntry]
    /\ answer = [c \in Client |-> "none"]
    /\ faults = 0

Fault == faults < MaxFaults /\ faults' = faults + 1

At(d) == {c \in Client : asking[c].daemon = d /\ asking[c].at = "request"}
Waiting(d) == {c \in At(d) : entry[c].at = "pending"}
Active(d) == {c \in At(d) : entry[c].at # "none"}

----------------------------------------------------------------------------
\* The run, and what the kernel's transactions say of it

RunMoves ==
    /\ \/ run = "queued" /\ run' = "running" /\ UNCHANGED <<ended, notes, faults>>
       \/ run = "running" /\ run' = "queued" /\ Fault /\ UNCHANGED <<ended, notes>>
       \/ /\ run \in {"queued", "running"}
          /\ run' = "completed" /\ ended' = TRUE          \* notifyTerminal
          /\ notes' = [d \in Daemon |-> notes[d] \/ (up[d] /\ listens[d])]
          /\ UNCHANGED faults
       \/ run = "completed" /\ run' = "gone" /\ Fault /\ UNCHANGED <<ended, notes>>
    /\ UNCHANGED <<up, listens, look, sweep, asking, entry, answer>>

Listening(d) ==
    /\ up[d]
    /\ listens' = [listens EXCEPT ![d] = ~@]
    /\ notes' = [notes EXCEPT ![d] = @ /\ ~listens[d]]
    /\ (IF listens[d] THEN Fault ELSE UNCHANGED faults)
    /\ UNCHANGED <<run, ended, up, look, sweep, asking, entry, answer>>

----------------------------------------------------------------------------
\* The registry.  The first to remove an entry settles it.

\* Every entry of S is settled with what the row says, but for those that stay.
Told(row) == IF row = "gone" THEN "not_found" ELSE row
SettleAll(S, row) ==
    /\ entry' = [c \in Client |-> IF c \notin S THEN entry[c]
                                  ELSE IF row \in Terminal \cup {"gone"} THEN NoEntry
                                  ELSE [entry[c] EXCEPT !.row = row]]
    /\ answer' = [c \in Client |-> IF c \in S /\ row \in Terminal \cup {"gone"}
                                   THEN Told(row) ELSE answer[c]]

Reject(S, err) ==
    /\ entry' = [c \in Client |-> IF c \in S THEN NoEntry ELSE entry[c]]
    /\ answer' = [c \in Client |-> IF c \in S THEN err ELSE answer[c]]

RegistryOnly == UNCHANGED <<run, ended, up, listens, asking>>

\* register, initialize: one read, then the entry joins the pending ones, unless it
\* was removed meanwhile.  A request with no time left is answered from that read.
InitialRead(c) ==
    /\ c \notin Polling
    /\ entry[c] = [at |-> "reading", row |-> NotRead]
    /\ entry' = [entry EXCEPT ![c].row = run]
    /\ UNCHANGED <<answer, notes, look, sweep, faults>> /\ RegistryOnly

InitialApply(c) ==
    LET row == entry[c].row IN
    /\ c \notin Polling
    /\ entry[c].at = "reading" /\ row # NotRead
    /\ IF row \in Terminal \cup {"gone"} THEN SettleAll({c}, row)
       ELSE IF asking[c].expired THEN Reject({c}, row)
       ELSE entry' = [entry EXCEPT ![c].at = "pending"] /\ UNCHANGED answer
    /\ UNCHANGED <<notes, look, sweep, faults>> /\ RegistryOnly

InitialFails(c) ==
    /\ c \notin Polling
    /\ entry[c].at = "reading" /\ Fault
    /\ Reject({c}, "error")
    /\ UNCHANGED <<notes, look, sweep>> /\ RegistryOnly

\* armDeadline, settleTimeout: the slice of this request is over.
SliceEnds(c) ==
    /\ c \notin Local \cup Polling /\ entry[c].at = "pending"
    /\ Reject({c}, entry[c].row)
    /\ UNCHANGED <<notes, look, sweep, faults>> /\ RegistryOnly

\* resolve, after a terminal notification.
LookRead(d) ==
    /\ up[d] /\ notes[d] /\ look[d] = NotRead
    /\ notes' = [notes EXCEPT ![d] = FALSE]
    /\ look' = IF Waiting(d) = {} THEN look ELSE [look EXCEPT ![d] = run]
    /\ UNCHANGED <<entry, answer, sweep, faults>> /\ RegistryOnly
LookApply(d) ==
    /\ look[d] # NotRead
    /\ SettleAll(Waiting(d), look[d])
    /\ look' = [look EXCEPT ![d] = NotRead]
    /\ UNCHANGED <<notes, sweep, faults>> /\ RegistryOnly
LookFails(d) ==
    /\ look[d] # NotRead /\ Fault
    /\ look' = [look EXCEPT ![d] = NotRead]
    /\ UNCHANGED <<notes, entry, answer, sweep>> /\ RegistryOnly

\* sweep: one at a time, of those pending as it began and still pending as it ends.
SweepRead(d) ==
    /\ up[d] /\ sweep[d] = NoSweep /\ Waiting(d) # {}
    /\ sweep' = [sweep EXCEPT ![d] = [who |-> Waiting(d), row |-> run]]
    /\ UNCHANGED <<entry, answer, notes, look, faults>> /\ RegistryOnly

NeverAgain(d) == [sweep EXCEPT ![d].who = {}]
Finally(d) == [sweep EXCEPT ![d] = NoSweep]
SweepApply(d) ==
    /\ sweep[d] # NoSweep
    /\ SettleAll(sweep[d].who \cap Waiting(d), sweep[d].row)
    /\ sweep' = Finally(d)
    /\ UNCHANGED <<notes, look, faults>> /\ RegistryOnly
SweepFails(d) ==
    /\ sweep[d] # NoSweep /\ Fault
    /\ sweep' = Finally(d)
    /\ UNCHANGED <<notes, look, entry, answer>> /\ RegistryOnly

\* stop: every active waiter is rejected, with an error the SDK may retry.
EveryActive(d) == Active(d)
Stop(d) ==
    /\ up[d] /\ Fault
    /\ up' = [up EXCEPT ![d] = FALSE]
    /\ listens' = [listens EXCEPT ![d] = FALSE]
    /\ notes' = [notes EXCEPT ![d] = FALSE]
    /\ Reject(EveryActive(d), "error")
    /\ UNCHANGED <<run, ended, look, sweep, asking>>

Restart(d) ==
    /\ ~up[d]
    /\ up' = [up EXCEPT ![d] = TRUE]
    /\ look' = [look EXCEPT ![d] = NotRead] /\ sweep' = [sweep EXCEPT ![d] = NoSweep]
    /\ UNCHANGED <<run, ended, listens, notes, asking, entry, answer, faults>>

----------------------------------------------------------------------------
\* waitForResult in the SDK

ClientOnly == UNCHANGED <<run, ended, up, listens, notes, look>>

\* The next hop; a daemon that is down is a transport error.
Hop(c, d) ==
    /\ c \notin Polling
    /\ asking[c].at \in {"idle", "backoff"}
    /\ IF up[d]
       THEN /\ asking' = [asking EXCEPT ![c].at = "request", ![c].daemon = d]
            /\ entry' = [entry EXCEPT ![c] = [at |-> "reading", row |-> NotRead]]
            \* It is not the entry that a sweep under way began with.
            /\ sweep' = [x \in Daemon |-> IF sweep[x] = NoSweep THEN NoSweep
                                           ELSE [sweep[x] EXCEPT !.who = @ \ {c}]]
            /\ UNCHANGED answer
       ELSE /\ c \notin Local
            /\ asking' = [asking EXCEPT ![c].at = "request", ![c].daemon = Nowhere]
            /\ answer' = [answer EXCEPT ![c] = "error"]
            /\ UNCHANGED <<entry, sweep>>
    /\ UNCHANGED faults /\ ClientOnly

Expire(c) ==
    /\ c \notin Local /\ asking[c].at \in {"request", "backoff"} /\ ~asking[c].expired
    /\ asking' = [asking EXCEPT ![c].expired = TRUE]
    /\ UNCHANGED <<entry, answer, sweep, faults>> /\ ClientOnly

\* An answer reaches the caller.  A live one, or an error worth another hop, ends
\* the call only when its time is over.
AnySlice(c, a) ==
    CASE a \in Terminal \cup {"not_found"} -> a
      [] a = "error" -> IF asking[c].expired \/ c \in Local THEN "error" ELSE "backoff"
      [] OTHER -> "timeout"
Outcome(c, a) ==
    CASE a \in Terminal \cup {"not_found"} -> a
      [] a = "error" -> IF asking[c].expired \/ c \in Local THEN "error" ELSE "backoff"
      [] OTHER -> IF asking[c].expired THEN "timeout" ELSE "backoff"

Hear(c) ==
    /\ asking[c].at = "request" /\ answer[c] # "none"
    /\ asking' = [asking EXCEPT ![c].at = Outcome(c, answer[c]), ![c].daemon = Nowhere]
    /\ answer' = [answer EXCEPT ![c] = "none"]
    /\ UNCHANGED <<entry, sweep, faults>> /\ ClientOnly

\* The answer is lost, or the request is cut before there is one: the daemon sees
\* the disconnect and drops the waiter.
Cut(c) ==
    /\ asking[c].at = "request" /\ asking[c].daemon # Nowhere /\ c \notin Local /\ Fault
    /\ Reject({c}, "error")
    /\ UNCHANGED <<asking, sweep>> /\ ClientOnly

\* The caller's own signal.
Abort(c) ==
    /\ asking[c].at \in {"request", "backoff"}
    /\ Fault
    /\ asking' = [asking EXCEPT ![c].at = "aborted", ![c].daemon = Nowhere]
    /\ Reject({c}, "none")
    /\ UNCHANGED sweep /\ ClientOnly

----------------------------------------------------------------------------
\* waitForResult in the kernel: one promise that a poll, the deadline or the caller's
\* signal settles (Expire and Abort above).  entry.at is "first" before a status is
\* known, then "pending" while the poll timer runs and "reading" while a query does.

PollOnly == UNCHANGED <<run, ended, up, listens, notes, look, sweep, answer>>
Finish(c, outcome) ==
    /\ asking' = [asking EXCEPT ![c].at = outcome]
    /\ entry' = [entry EXCEPT ![c] = NoEntry]

PollBegins(c) ==
    /\ c \in Polling /\ asking[c].at = "idle"
    /\ asking' = [asking EXCEPT ![c].at = "request"]
    /\ entry' = [entry EXCEPT ![c] = [at |-> "first", row |-> NotRead]]
    /\ UNCHANGED faults /\ PollOnly

PollReads(c) ==
    /\ c \in Polling /\ entry[c].at \in {"first", "reading"} /\ entry[c].row = NotRead
    /\ entry' = [entry EXCEPT ![c].row = run]
    /\ UNCHANGED <<asking, faults>> /\ PollOnly

\* A live status after the budget is over is the timeout, if it is the first.
PollApplies(c) ==
    LET row == entry[c].row IN
    /\ c \in Polling /\ entry[c].at \in {"first", "reading"} /\ row # NotRead
    /\ IF row \in Terminal \cup {"gone"} THEN Finish(c, Told(row))
       ELSE IF entry[c].at = "first" /\ asking[c].expired THEN Finish(c, "timeout")
       ELSE entry' = [entry EXCEPT ![c] = [at |-> "pending", row |-> NotRead]] /\ UNCHANGED asking
    /\ UNCHANGED faults /\ PollOnly
PollFails(c) ==
    /\ c \in Polling /\ entry[c].at \in {"first", "reading"} /\ Fault
    /\ Finish(c, "error")
    /\ PollOnly

PollTimer(c) ==
    /\ c \in Polling /\ entry[c].at = "pending"
    /\ IF asking[c].expired THEN Finish(c, "timeout")
       ELSE entry' = [entry EXCEPT ![c].at = "reading"] /\ UNCHANGED asking
    /\ UNCHANGED faults /\ PollOnly

\* deadlineTimer, armed once a status is known: it does not wait for a slow query.
PollDeadline(c) ==
    /\ c \in Polling /\ entry[c].at \in {"pending", "reading"} /\ asking[c].expired
    /\ Finish(c, "timeout")
    /\ UNCHANGED faults /\ PollOnly

PollGoesOn(c) == PollReads(c) \/ PollApplies(c) \/ PollTimer(c)

DelNext ==
    \/ RunMoves
    \/ \E d \in Daemon :
          \/ Listening(d) \/ LookRead(d) \/ LookApply(d) \/ LookFails(d)
          \/ SweepRead(d) \/ SweepApply(d) \/ SweepFails(d) \/ Stop(d) \/ Restart(d)
    \/ \E c \in Client :
          \/ InitialRead(c) \/ InitialApply(c) \/ InitialFails(c) \/ SliceEnds(c)
          \/ \E d \in Daemon : Hop(c, d)
          \/ Expire(c) \/ Hear(c) \/ Cut(c) \/ Abort(c)
          \/ PollBegins(c) \/ PollGoesOn(c) \/ PollFails(c) \/ PollDeadline(c)

\* Queries return, timers fire and clients go on; notifications need not come, and
\* slices need not end before the sweep.
RegistryGoesOn(d) == SweepRead(d) \/ SweepApply(d) \/ Restart(d)
CallGoesOn(c) ==
    \/ InitialRead(c) \/ InitialApply(c) \/ SliceEnds(c) \/ Hear(c) \/ \E d \in Daemon : Hop(c, d)
    \/ PollGoesOn(c)

DelFairness ==
    /\ \A d \in Daemon : WF_delVars(RegistryGoesOn(d))
    /\ \A c \in Client : WF_delVars(CallGoesOn(c))
    /\ WF_delVars(\E c \in Client : Expire(c))

DelSpec == DelInit /\ [][DelNext]_delVars /\ DelFairness

----------------------------------------------------------------------------
\* A caller is told an end only when the run ended so, and that there is no such
\* run only when retention deleted it; a stop, a lost answer or a late row never
\* becomes an outcome.  And a stopped daemon holds no waiter, not even one whose first
\* read is under way: none comes back when that read answers.  (waiters.ts stop,
\* WaiterRegistryStoppedError, instance.ts.)
OutcomeIsTrue ==
    /\ \A c \in Client : /\ asking[c].at \in Terminal => ended
                         /\ asking[c].at = "not_found" => run = "gone"
                         /\ asking[c].at = "timeout" => asking[c].expired
    /\ \A d \in Daemon : ~up[d] => Active(d) = {}

Over == {"completed", "not_found", "timeout", "error", "aborted"}

\* Every call ends: one with a deadline always, though daemons stop and answers
\* are lost, and though its polls fail; one without, inside a daemon, once the run
\* has ended, though its notification is lost.  (instance.ts: the retried hop;
\* waiters.ts: the sweep; runs-read.ts: the deadline.)
EveryCallEnds ==
    /\ \A c \in Client \ Local : []<>(asking[c].at \in Over \cup {"idle"})
    /\ \A c \in Local : []<>(asking[c].at \in Over \cup {"idle"} \/ ~ended)
=============================================================================
