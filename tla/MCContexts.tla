----------------------------- MODULE MCContexts -----------------------------
(* Instances of RuntimeContext and AuditContext for TLC.  The two share    *)
(* nothing but the transaction, and neither reads what the other sets in   *)
(* it, so that a behaviour has one of them.                                *)
EXTENDS RuntimeContext, AuditContext, TLC

VARIABLE part   \* the context a behaviour is about

ContextsInit ==
    /\ part \in {"runtime", "variables"}
    /\ Init /\ (part = "variables" => style = "blocks")
    /\ ContextInit /\ (part = "runtime" => data = Silent)

ContextsNext ==
    /\ UNCHANGED part
    /\ \/ part = "runtime" /\ Next /\ UNCHANGED contextVars
       \/ part = "variables" /\ ContextNext /\ UNCHANGED vars

ContextsSpec == ContextsInit /\ [][ContextsNext]_<<part, vars, contextVars>>

(* Tasks, metadata values and the texts of variables are interchangeable. *)
Symmetric == Permutations(Task) \cup Permutations(Val) \cup Permutations(Text)

(* Once the session was not told something, nothing is asked of it before  *)
(* the transaction ends, and a failed transaction forgets its variables.   *)
AskedView ==
    <<part, vars, data, stack, frames, atomic, loose,
      IF loose THEN <<>> ELSE <<emptied>>,
      IF loose \/ atomic = "failed" THEN <<>> ELSE <<session>>>>
=============================================================================
