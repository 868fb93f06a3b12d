----------------------------- MODULE MCAuditLog -----------------------------
(* Instances of AuditLog and AuditReaders for TLC. *)
EXTENDS AuditReaders, TLC

(* Sessions, values, objects and tracked columns are interchangeable. *)
Symmetric == Permutations(Txn) \cup Permutations(Val) \cup
             Permutations(Obj) \cup Permutations(Tracked)

(* Every instant asked about is the first or later, and the tables looked  *)
(* at are those after it.                                                  *)
LaterView ==
    <<live, dirty, audit, pending, begun, storage, idSeq, clock, cutoff, {s \in past : s.at > 1}>>
==============================================================================
