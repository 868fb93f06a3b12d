----------------------------- MODULE MCRetention -----------------------------
(* Instances of Retention for TLC. *)
EXTENDS Retention, TLC

(* Sessions, values and objects are interchangeable. *)
Symmetric == Permutations(Txn) \cup Permutations(Val) \cup Permutations(Obj)

(* The properties look at the calm tables from the cutoff on only; what    *)
(* was claimed and what broke follows from the audit log until the first   *)
(* purge, and is not looked at after it.  The partition of the last month  *)
(* is never dropped, and nothing but a drop depends on it.                 *)
CalmView ==
    <<live, audit, storage, idSeq, clock, cutoff, release, bypassed,
      parts \cap (1..MaxClock - 1),
      {s \in past : s.calm /\ s.at >= cutoff}>>
=============================================================================
