----------------------------- MODULE MCRegistry -----------------------------
(* Two processes of an old and a new build, and one of a build without cron. *)
EXTENDS Registry, TLC

CONSTANTS old, new, gone, p1, p2

MCVersionOf == [w \in Worker |-> IF w = old THEN "v1" ELSE IF w = new THEN "v2" ELSE "v3"]
MCPatternOf == [v1 |-> p1, v2 |-> p2, v3 |-> NoPattern]

Symmetry == Permutations(Daemon)
=============================================================================
