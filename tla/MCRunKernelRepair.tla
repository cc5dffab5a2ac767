------------------------- MODULE MCRunKernelRepair -------------------------
(* An instance of RunKernelRepair for TLC. *)
EXTENDS RunKernelRepair, TLC

CONSTANTS r1, r2, w1, s1

WorkerOfSingle == s1 :> w1
=============================================================================
