------------------------------ MODULE MCReplay ------------------------------
(* A step and a wait. *)
EXTENDS Replay, TLC, Functions

Call(kind, label, input) == [kind |-> kind, label |-> label, input |-> input]

MCCalls == {Call("step", "a", 1), Call("wait", None, 1)}

MCLegacy == {Call("wait", None, 1)}

\* Bound: where there are two executions and one was told to stop, nothing is explored
\* beyond a branch for each and two positions between them.
Branches(e) == {b \in Branch : branch[e][b] # Idle}
StoppedBesideAnother ==
    (\E e \in Exec : mind[e].told) /\ (\A e \in Exec : mind[e] # Unborn) =>
        /\ \A e \in Exec : Cardinality(Branches(e)) <= 1
        /\ FoldFunction(LAMBDA me, n : me.seq + n, 0, mind) <= 2

Symmetry == Permutations(Exec) \cup Permutations(Branch)
=============================================================================
