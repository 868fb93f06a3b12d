--------------------------- MODULE MCTriggerManager ---------------------------
(* Instances of TriggerManager for TLC.  Bodies and deploys would be        *)
(* interchangeable, but the run also checks a liveness property, with which *)
(* symmetry is unsound.                                                     *)
EXTENDS TriggerManager, TLC

Symmetric == Permutations(Deploy) \cup Permutations(Body)
==============================================================================
