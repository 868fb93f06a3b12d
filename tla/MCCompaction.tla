----------------------------- MODULE MCCompaction -----------------------------
(* Instances of Compaction for TLC. *)
EXTENDS Compaction, TLC

(* Values are interchangeable. *)
Symmetric == Permutations(Val)

(* No property here looks at past, claimed or breaks, and no action does. *)
JobView == <<live, audit, storage, idSeq, clock, release, bypassed, jobVars, jobGhosts, hashFrom>>
==============================================================================
