---------------------------- MODULE MCHashChain ----------------------------
(* Instances of HashChain for TLC.  Sessions are interchangeable, except   *)
(* for the refinement AppendsOnly, which is a temporal property.           *)
EXTENDS HashChain, TLC

Symmetric == Permutations(Txn)
=============================================================================
