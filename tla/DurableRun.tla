----------------------------- MODULE DurableRun -----------------------------
(***************************************************************************)
(* What the engine promises a task, with no queue, worker, lease or token: *)
(* a run is created once, records each step at most once while it lives,   *)
(* and ends once.  The promises are those of docs/architecture.md and of   *)
(* docs/backend-contract.md section 3.                                     *)
(***************************************************************************)
CONSTANTS Run, Seq, NoRun

VARIABLES
    phase,    \* absent, live, an end, or pruned
    journal   \* per run and position, the recorded entry

vars == <<phase, journal>>

Ends  == {"completed", "failed", "canceled"}
Blank == [rec |-> FALSE, child |-> NoRun, ok |-> TRUE]
Own   == [rec |-> TRUE, child |-> NoRun, ok |-> TRUE]
Answer(c, end) == [rec |-> TRUE, child |-> c, ok |-> end = "completed"]

Init ==
    /\ phase = [r \in Run |-> "absent"]
    /\ journal = [r \in Run |-> [q \in Seq |-> Blank]]

\* New runs, together or one by one.
Begin(kids) ==
    /\ \A r \in kids : phase[r] = "absent"
    /\ phase' = [r \in Run |-> IF r \in kids THEN "live" ELSE phase[r]]

Create(kids) == Begin(kids) /\ UNCHANGED journal

\* A live run records one position, and may create runs in the same step.
Record(r, q, kids) ==
    /\ phase[r] = "live"
    /\ ~journal[r][q].rec
    /\ journal' = [journal EXCEPT ![r][q] = Own]
    /\ Begin(kids)

\* A live run ends.  In the same step the end is recorded, once, at every
\* position of a live run that was waiting for it.
End(r, end, at) ==
    /\ phase[r] = "live"
    /\ \A x \in at : /\ phase[x[1]] = "live"
                     /\ x[1] # r
                     /\ ~journal[x[1]][x[2]].rec
    /\ phase' = [phase EXCEPT ![r] = end]
    /\ journal' = [p \in Run |-> [q \in Seq |->
                     IF <<p, q>> \in at THEN Answer(r, end) ELSE journal[p][q]]]

\* Retention forgets a run that has ended.
Forget(r) ==
    /\ phase[r] \in Ends
    /\ phase' = [phase EXCEPT ![r] = "pruned"]
    /\ journal' = [journal EXCEPT ![r] = [q \in Seq |-> Blank]]

Next ==
    \/ \E kids \in SUBSET Run : Create(kids)
    \/ \E r \in Run, q \in Seq, kids \in SUBSET Run : Record(r, q, kids)
    \/ \E r \in Run, end \in Ends, at \in SUBSET (Run \X Seq) : End(r, end, at)
    \/ \E r \in Run : Forget(r)

Spec == Init /\ [][Next]_vars

=============================================================================
