-------------------------- MODULE MCWorkerRuntime --------------------------
(* Instances of WorkerRuntime for TLC: one worker process with two slots. *)
EXTENDS WorkerRuntime, TLC

CONSTANTS r1, r2, w1, s1, s2

WorkerOfOne == s1 :> w1 @@ s2 :> w1

\* Bounds: nothing is explored beyond a third claim or a second suspension, of the two
\* runs together, nor beyond a third claim where a call has failed.
Claims == token[r1] + token[r2]
ThreeClaims ==
    /\ Claims <= (IF dbFailed = {} THEN 3 ELSE 2)
    /\ suspended[r1] + suspended[r2] <= 1

Interchangeable == Permutations(Run) \cup Permutations(Slot)
=============================================================================
