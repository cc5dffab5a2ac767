---------------------------- MODULE MCRunKernel ----------------------------
(* Instances of RunKernel for TLC. *)
EXTENDS RunKernel, TLC

CONSTANTS r1, r2, r3, w1, w2, s1, s2, s3

\* One worker with two slots beside a second worker: a zombie executor can
\* share its worker with the next holder of the run, or not.
WorkerOfThree == s1 :> w1 @@ s2 :> w1 @@ s3 :> w2
WorkerOfTwo   == s1 :> w1 @@ s2 :> w2
WorkerOfOne   == s1 :> w1 @@ s2 :> w1
WorkerOfSingle == s1 :> w1

RunSymmetry == Permutations(Run)
=============================================================================
