-------------------------- MODULE RunKernelRepair --------------------------
(***************************************************************************)
(* The engine started on tables that something outside it has disturbed: a *)
(* hand edit, a replication glitch, a run deleted in psql.  The public API *)
(* cannot commit these rows (RunKernel's invariants say so), but the code  *)
(* carries guards and repairs for them: the reaper's expected-old-state    *)
(* guard, the stale-timer and orphan branches of resumeOneWait, and the    *)
(* lost-wake heal.                                                         *)
(***************************************************************************)
EXTENDS RunKernel

\* The disturbances the code says it repairs.  It reports, and does not
\* repair, a waiting run without any wait; it has no path for a queued run
\* without a queue row, a running run without a lease, or a free queue row on
\* a terminal run that no timer points at.
Repairable(r) ==
    /\ status[r] = "absent"  => queueRow[r] = NoRow
    /\ status[r] = "queued"  => queueRow[r] = Free \/ r \in expired
    /\ status[r] = "running" => queueRow[r] \in Worker
    /\ status[r] = "waiting" => OwnWaits(r) # {}
    /\ status[r] \in Terminal /\ queueRow[r] = Free => \E w \in OwnWaits(r) : w.kind = "timer"
    /\ queueRow[r] \in Worker => r \in expired
    /\ r \in expired => queueRow[r] \in Worker

\* At most one wait, on a child that exists or has been deleted.
DisturbedWaits ==
    {{}} \cup {{w} : w \in {v \in Wait : /\ v.kind = "timer" => v.child = NoRun
                                         /\ v.child # v.run}}

DisturbedInit ==
    /\ status \in [Run -> {"absent"} \cup Live \cup {"completed", "canceled"}]
    /\ queueRow \in [Run -> Worker \cup {Free, NoRow}]
    /\ expired = {r \in Run : queueRow[r] \in Worker}
    /\ waits \in DisturbedWaits
    /\ \A w \in waits : /\ status[w.run] # "absent"
                        /\ w.child # NoRun => status[w.child] # "absent"
    /\ \A r \in Run : Repairable(r)
    /\ attempt = [r \in Run |-> 1]
    /\ recoveries = [r \in Run |-> 0]
    /\ token = [r \in Run |-> 1]
    /\ ledger = [r \in Run |-> [q \in Seq |-> StepOf("none")]]
    /\ job = [s \in Slot |-> Idle]
    /\ released = [r \in Run |-> 0]
    /\ suspended = [r \in Run |-> 0]

RepairSpec == DisturbedInit /\ [][Next]_vars /\ Fairness

\* Whatever leftovers point at it, a run that has ended is never brought back:
\* not by a wake, a timer, a stale lease, a claim or a repair.
NeverResurrected ==
    [][\A r \in Run : status[r] \in Terminal =>
          /\ status'[r] \in {status[r], "pruned"}
          /\ token'[r] = token[r]]_vars

\* The repairs finish the job: from some moment on queue, runs and waits agree
\* again for good.
RepairsStick == <>[](QueueMatchesStatus /\ WaitGraph)

=============================================================================
