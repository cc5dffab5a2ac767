---------------------------- MODULE MCClaimGate ----------------------------
(* Instances of ClaimGate for TLC. *)
EXTENDS ClaimGate, TLC

CONSTANTS t1, t2, k1, k2, c1, c2

\* Two tasks that share two keys, every trigger naming its key.
TaskOfMixed == 1 :> t1 @@ 2 :> t2 @@ 3 :> t1 @@ 4 :> t2
NamedKeys   == 1 :> k1 @@ 2 :> k2 @@ 3 :> k2 @@ 4 :> k1
Defaults    == t1 :> k1 @@ t2 :> k2
OneEach     == t1 :> 1 @@ t2 :> 1

\* One task, triggered without a key, whose limit is declared later.
TaskOfSame == 1 :> t1 @@ 2 :> t1
NoKeys     == 1 :> NoKey @@ 2 :> NoKey
Unlimited  == t1 :> 0
DefaultOne == t1 :> k1
=============================================================================
