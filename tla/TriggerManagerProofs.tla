------------------------- MODULE TriggerManagerProofs -------------------------
(***************************************************************************)
(* Theorems about TriggerManager, for every number of deploys and calls.   *)
(***************************************************************************)
EXTENDS TriggerManager, TLAPS

(* What the assumptions on the constants give the proofs below. *)
LEMMA ManagerFacts ==
    /\ None \notin Body /\ None \notin Deploy
    /\ Modes \subseteq BOOLEAN
    /\ MaxCalls \in Nat
BY ManagerAssumption

(* The end of a transaction moves its own session to idle and the sessions *)
(* it blocked on to their next step.                                       *)
LEMMA WakeUpMoves ==
    ASSUME TypeOK, NEW d \in Deploy, NEW committed \in BOOLEAN, WakeUp(d, committed)
    PROVE  /\ pc' \in [Deploy -> Steps] /\ error' \in [Deploy -> BOOLEAN]
           /\ pc'[d] = "idle" /\ ~ error'[d]
           /\ \A e \in Deploy \ {d} :
                 \/ pc'[e] = pc[e] /\ error'[e] = error[e]
                 \/ pc[e] = "blocked" /\ pc'[e] = "ddl" /\ error'[e] = error[e]
                 \/ pc[e] = "blocked" /\ pc'[e] = "unlock" /\ error'[e]
<1> DEFINE fails(e) == committed /\ target[e] # None
           woken == {e \in Deploy \ {d} : pc[e] = "blocked" /\ "trigger" \in wrote[d]}
<1>1. /\ pc' = [e \in Deploy |->
                  IF e = d THEN "idle"
                  ELSE IF e \notin woken THEN pc[e]
                  ELSE IF fails(e) THEN "unlock" ELSE "ddl"]
      /\ error' = [e \in Deploy |->
                     IF e = d THEN FALSE ELSE error[e] \/ (e \in woken /\ fails(e))]
  BY DEF WakeUp
<1>2. pc \in [Deploy -> Steps] /\ error \in [Deploy -> BOOLEAN]
  BY DEF TypeOK
<1>3. \A e \in woken : e # d /\ pc[e] = "blocked"
  OBVIOUS
<1> HIDE DEF fails, woken
<1>4. pc' \in [Deploy -> Steps]
  BY <1>1, <1>2 DEF Steps
<1>5. error' \in [Deploy -> BOOLEAN]
  BY <1>1, <1>2
<1>6. pc'[d] = "idle" /\ ~ error'[d]
  BY <1>1
<1>7. ASSUME NEW e \in Deploy \ {d}
      PROVE  \/ pc'[e] = pc[e] /\ error'[e] = error[e]
             \/ pc[e] = "blocked" /\ pc'[e] = "ddl" /\ error'[e] = error[e]
             \/ pc[e] = "blocked" /\ pc'[e] = "unlock" /\ error'[e]
  <2>1. /\ pc'[e] = IF e \notin woken THEN pc[e] ELSE IF fails(e) THEN "unlock" ELSE "ddl"
        /\ error'[e] = (error[e] \/ (e \in woken /\ fails(e)))
    BY <1>1, <1>7
  <2>2. error[e] \in BOOLEAN
    BY <1>2
  <2>3. CASE e \notin woken
    BY <2>1, <2>2, <2>3
  <2>4. CASE e \in woken /\ fails(e)
    BY <2>1, <2>4, <1>3
  <2>5. CASE e \in woken /\ ~ fails(e)
    BY <2>1, <2>2, <2>5, <1>3
  <2> QED
    BY <2>3, <2>4, <2>5
<1> QED
  BY <1>4, <1>5, <1>6, <1>7

(* What every step that ends a transaction or a session does to the state  *)
(* of deploys.                                                             *)
LEMMA EndKeepsTypes ==
    ASSUME TypeOK, NEW d \in Deploy, NEW committed \in BOOLEAN, WakeUp(d, committed),
           wrote' = [wrote EXCEPT ![d] = {}], inTx' = inTx,
           lock' = lock \/ lock = d
    PROVE  /\ pc' \in [Deploy -> Steps] /\ error' \in [Deploy -> BOOLEAN]
           /\ wrote' \in [Deploy -> SUBSET {"trigger", "registry"}]
           /\ \A e \in Deploy :
                 /\ wrote'[e] # {} => inTx'[e] /\ pc'[e] \in {"upsert", "unlock", "done"}
                 /\ error'[e] => pc'[e] \in {"unlock", "done"}
                 /\ pc'[e] \in Critical => lock' = e
<1>1. /\ pc' \in [Deploy -> Steps] /\ error' \in [Deploy -> BOOLEAN]
      /\ pc'[d] = "idle" /\ ~ error'[d]
      /\ \A e \in Deploy \ {d} :
            \/ pc'[e] = pc[e] /\ error'[e] = error[e]
            \/ pc[e] = "blocked" /\ pc'[e] = "ddl" /\ error'[e] = error[e]
            \/ pc[e] = "blocked" /\ pc'[e] = "unlock" /\ error'[e]
  BY WakeUpMoves
<1>2. wrote' \in [Deploy -> SUBSET {"trigger", "registry"}]
  BY DEF TypeOK
<1>3. wrote'[d] = {} /\ \A e \in Deploy \ {d} : wrote'[e] = wrote[e]
  BY DEF TypeOK
<1>4. ASSUME NEW e \in Deploy \ {d}
      PROVE  /\ wrote'[e] # {} => inTx'[e] /\ pc'[e] \in {"upsert", "unlock", "done"}
             /\ error'[e] => pc'[e] \in {"unlock", "done"}
             /\ pc'[e] \in Critical => lock' = e
  <2>1. /\ wrote[e] # {} => inTx[e] /\ pc[e] \in {"upsert", "unlock", "done"}
        /\ error[e] => pc[e] \in {"unlock", "done"}
        /\ pc[e] \in Critical => lock = e
    BY DEF TypeOK
  <2>2. wrote'[e] = wrote[e] /\ (pc[e] \in Critical => lock' = e)
    BY <1>3, <2>1
  <2>3. CASE pc'[e] = pc[e] /\ error'[e] = error[e]
    BY <2>1, <2>2, <2>3
  <2>4. CASE pc[e] = "blocked" /\ pc'[e] = "ddl" /\ error'[e] = error[e]
    BY <2>1, <2>2, <2>4 DEF Critical
  <2>5. CASE pc[e] = "blocked" /\ pc'[e] = "unlock" /\ error'[e]
    BY <2>1, <2>2, <2>5 DEF Critical
  <2> QED
    BY <1>1, <2>3, <2>4, <2>5
<1>5. d \in Deploy /\ pc'[d] \notin Critical /\ wrote'[d] = {} /\ ~ error'[d]
  BY <1>1, <1>3 DEF Critical
<1> QED
  BY <1>1, <1>2, <1>4, <1>5

(***************************************************************************)
(* Type correctness, with the discipline of the lock: only the session     *)
(* holding it is between acquire and release, and only transactions past   *)
(* their DDL hold uncommitted changes.                                     *)
(***************************************************************************)
THEOREM TypeCorrect == Spec => []TypeOK
<1>1. Init => TypeOK
  <2> SUFFICES ASSUME Init PROVE TypeOK
    OBVIOUS
  <2>1. /\ pc \in [Deploy -> Steps] /\ op \in [Deploy -> Installs \cup Removals]
        /\ \A d \in Deploy : pc[d] \notin Critical
    BY DEF Init, Steps, Installs, Removals, Critical
  <2>2. /\ wrote \in [Deploy -> SUBSET {"trigger", "registry"}]
        /\ error \in [Deploy -> BOOLEAN] /\ target \in [Deploy -> Body \cup {None}]
        /\ \A d \in Deploy : wrote[d] = {} /\ ~ error[d]
    BY DEF Init
  <2>3. /\ {trigger, registry} \subseteq Body \cup {None}
        /\ lock \in Deploy \cup {None} /\ lock = None
        /\ inTx \in [Deploy -> Modes]
    BY DEF Init
  <2>4. depth \in Nat /\ depth = 0 /\ calls \in 0..MaxCalls
    BY ManagerFacts, SMT DEF Init
  <2>5. torn \in BOOLEAN /\ refused \subseteq Deploy
    BY DEF Init
  <2> QED
    BY <2>1, <2>2, <2>3, <2>4, <2>5 DEF TypeOK
<1>2. TypeOK /\ [Next]_vars => TypeOK'
  <2> SUFFICES ASSUME TypeOK, [Next]_vars PROVE TypeOK'
    OBVIOUS
  <2> USE ManagerFacts
  <2>1. ASSUME NEW d \in Deploy, NEW o \in Installs \cup Removals, NEW body \in Body,
               Call(d, o, body)
        PROVE  TypeOK'
    BY <2>1 DEF Call, Goto, TypeOK, Steps, Critical
  <2>2. ASSUME NEW d \in Deploy, Plan(d) PROVE TypeOK'
    BY <2>2 DEF Plan, Goto, TypeOK, Steps, Critical
  <2>3. ASSUME NEW d \in Deploy, Acquire(d) PROVE TypeOK'
    BY <2>3 DEF Acquire, AcquireIf, Goto, TypeOK, Steps, Critical
  <2>4. ASSUME NEW d \in Deploy, Check(d) PROVE TypeOK'
    BY <2>4 DEF Check, Goto, TypeOK, Steps, Critical
  <2>5. ASSUME NEW d \in Deploy, Ddl(d) PROVE TypeOK'
    BY <2>5 DEF Ddl, Goto, TypeOK, Steps, Critical
  <2>6. ASSUME NEW d \in Deploy, DdlWaits(d) PROVE TypeOK'
    BY <2>6 DEF DdlWaits, Goto, TypeOK, Steps, Critical
  <2>7. ASSUME NEW d \in Deploy, Upsert(d) PROVE TypeOK'
    BY <2>7 DEF Upsert, Goto, TypeOK, Steps, Critical
  <2>8. ASSUME NEW d \in Deploy, Unlock(d) PROVE TypeOK'
    BY <2>8 DEF Unlock, Release, Goto, TypeOK, Steps, Critical
  <2>9. ASSUME NEW d \in Deploy, Fail(d) PROVE TypeOK'
    BY <2>9 DEF Fail, Goto, TypeOK, Steps, Critical
  <2>10. ASSUME NEW d \in Deploy, Commit(d) PROVE TypeOK'
    <3>1. {trigger', registry'} \subseteq Body \cup {None}
      BY <2>10 DEF Commit, TypeOK
    <3> QED
      BY <2>10, <3>1, EndKeepsTypes DEF Commit, TypeOK
  <2>11. ASSUME NEW d \in Deploy, Rollback(d) PROVE TypeOK'
    BY <2>11, EndKeepsTypes DEF Rollback, TypeOK
  <2>12. ASSUME NEW d \in Deploy, Disconnect(d) PROVE TypeOK'
    <3>1. lock' = lock \/ lock = d
      BY <2>12 DEF Disconnect
    <3>2. torn' \in BOOLEAN /\ refused' \subseteq Deploy
      BY <2>12 DEF Disconnect, TypeOK
    <3>3. depth' \in Nat /\ (depth' = 0 <=> lock' = None) /\ lock' \in Deploy \cup {None}
      BY <2>12 DEF Disconnect, TypeOK
    <3> QED
      BY <2>12, <3>1, <3>2, <3>3, EndKeepsTypes DEF Disconnect, TypeOK
  <2>13. CASE UNCHANGED vars
    BY <2>13 DEF vars, TypeOK, Critical
  <2> QED
    BY <2>1, <2>2, <2>3, <2>4, <2>5, <2>6, <2>7, <2>8, <2>9, <2>10, <2>11, <2>12, <2>13 DEF Next, Step
<1> QED
  BY <1>1, <1>2, PTL DEF Spec

(* A session ending its transaction leaves the others' writes alone. *)
LEMMA EndKeepsOthers ==
    ASSUME TypeOK, DeployInv, NEW d \in Deploy, NEW committed \in BOOLEAN,
           WakeUp(d, committed), wrote' = [wrote EXCEPT ![d] = {}],
           inTx' = inTx, target' = target
    PROVE  /\ WritesBoth'
           /\ \A e \in Deploy : Halfway(e)' <=> (Halfway(e) /\ e # d)
           /\ \A e \in Deploy : wrote'[e] \subseteq wrote[e]
<1>1. /\ pc'[d] = "idle" /\ ~ error'[d]
      /\ \A e \in Deploy \ {d} :
            \/ pc'[e] = pc[e] /\ error'[e] = error[e]
            \/ pc[e] = "blocked" /\ pc'[e] = "ddl" /\ error'[e] = error[e]
            \/ pc[e] = "blocked" /\ pc'[e] = "unlock" /\ error'[e]
  BY WakeUpMoves
<1>2. wrote'[d] = {} /\ \A e \in Deploy \ {d} : wrote'[e] = wrote[e]
  BY DEF TypeOK
<1>3. ASSUME NEW e \in Deploy \ {d}, pc[e] = "blocked"
      PROVE  wrote[e] = {}
  BY <1>3 DEF TypeOK
<1>4. WritesBoth'
  <2>1. ASSUME NEW e \in Deploy \ {d}
        PROVE  /\ "registry" \in wrote'[e] => "trigger" \in wrote'[e]
               /\ "trigger" \in wrote'[e] /\ pc'[e] # "upsert" /\ ~ error'[e] =>
                     "registry" \in wrote'[e]
               /\ pc'[e] = "upsert" /\ inTx'[e] => "trigger" \in wrote'[e]
    <3>1. CASE pc'[e] = pc[e] /\ error'[e] = error[e]
      BY <1>2, <3>1 DEF DeployInv, WritesBoth
    <3>2. CASE pc[e] = "blocked" /\ pc'[e] \in {"ddl", "unlock"}
      BY <1>2, <1>3, <3>2
    <3> QED
      BY <1>1, <3>1, <3>2
  <2>2. wrote'[d] = {} /\ pc'[d] = "idle"
    BY <1>1, <1>2
  <2> QED
    BY <2>1, <2>2 DEF WritesBoth
<1>5. \A e \in Deploy : Halfway(e)' <=> (Halfway(e) /\ e # d)
  BY <1>1 DEF Halfway
<1> QED
  BY <1>2, <1>4, <1>5

(***************************************************************************)
(* The registry agrees with the trigger, however deploys interleave and    *)
(* fail: the two can differ only while an autocommit deploy is between its *)
(* two statements, or after one died there.                                *)
(***************************************************************************)
THEOREM RegistryAgrees == Spec => []Agreement
<1>1. Init => DeployInv
  BY DEF Init, DeployInv, WritesBoth, HalfwayOwnsTrigger, Halfway, Agreement
<1>2. TypeOK /\ DeployInv /\ [Next]_vars => DeployInv'
  <2> SUFFICES ASSUME TypeOK, DeployInv, [Next]_vars PROVE DeployInv'
    OBVIOUS
  <2> USE ManagerFacts
  (* Steps that change neither body and touch no session that is halfway. *)
  <2>1. ASSUME NEW d \in Deploy,
               UNCHANGED <<trigger, registry, inTx, wrote, torn>>,
               \A e \in Deploy \ {d} : UNCHANGED <<pc[e], target[e], error[e]>>,
               pc[d] # "upsert", pc'[d] # "upsert",
               error[d] => error'[d] \/ wrote[d] = {}
        PROVE  DeployInv'
    <3>1. WritesBoth'
      BY <2>1 DEF DeployInv, WritesBoth
    <3>2. \A e \in Deploy : Halfway(e)' <=> Halfway(e)
      BY <2>1 DEF Halfway
    <3>3. HalfwayOwnsTrigger'
      BY <2>1, <3>2 DEF DeployInv, HalfwayOwnsTrigger, Halfway
    <3>4. Agreement'
      BY <2>1, <3>2 DEF DeployInv, Agreement
    <3> QED
      BY <3>1, <3>3, <3>4 DEF DeployInv
  <2>2. ASSUME NEW d \in Deploy,
               \/ \E o \in Installs \cup Removals, body \in Body : Call(d, o, body)
               \/ Plan(d) \/ Acquire(d) \/ Check(d) \/ DdlWaits(d) \/ Unlock(d)
        PROVE  DeployInv'
    <3>1. /\ UNCHANGED <<trigger, registry, inTx, wrote, torn, error>>
          /\ \A e \in Deploy \ {d} : UNCHANGED <<pc[e], target[e]>>
          /\ pc[d] # "upsert" /\ pc'[d] # "upsert"
      BY <2>2 DEF Call, Plan, Acquire, AcquireIf, Check, DdlWaits, Unlock, Goto, TypeOK
    <3> QED
      BY <2>1, <3>1
  <2>3. ASSUME NEW d \in Deploy, Ddl(d) PROVE DeployInv'
    <3>1. /\ pc[d] = "ddl" /\ lock = d /\ pc' = [pc EXCEPT ![d] = "upsert"]
          /\ wrote[d] = {} /\ ~ error[d]
          /\ \A e \in Deploy : "trigger" \notin wrote[e]
      BY <2>3 DEF Ddl, Goto, Conflict, TypeOK, Critical
    <3>2. \A e \in Deploy : ~ Halfway(e)
      BY <3>1 DEF Halfway, TypeOK, Critical
    <3>3. \A e \in Deploy : Halfway(e)' <=> (e = d /\ ~ inTx[d])
      BY <2>3, <3>1, <3>2 DEF Ddl, Halfway, TypeOK
    <3>4. CASE inTx[d]
      <4>1. /\ wrote' = [wrote EXCEPT ![d] = wrote[d] \cup {"trigger"}]
            /\ UNCHANGED <<trigger, registry, inTx, torn, error>>
        BY <2>3, <3>4 DEF Ddl
      <4>2. WritesBoth'
        BY <3>1, <4>1 DEF DeployInv, WritesBoth, TypeOK
      <4> QED
        BY <3>2, <3>3, <3>4, <4>1, <4>2 DEF DeployInv, HalfwayOwnsTrigger, Agreement
    <3>5. CASE ~ inTx[d]
      <4>1. /\ trigger' = target[d] /\ target' = target
            /\ UNCHANGED <<wrote, inTx, error>>
        BY <2>3, <3>5 DEF Ddl
      <4>2. WritesBoth'
        BY <3>1, <3>5, <4>1 DEF DeployInv, WritesBoth, TypeOK
      <4>3. HalfwayOwnsTrigger' /\ Agreement'
        BY <3>1, <3>3, <3>5, <4>1 DEF HalfwayOwnsTrigger, Agreement
      <4> QED
        BY <4>2, <4>3 DEF DeployInv
    <3> QED
      BY <3>4, <3>5
  <2>4. ASSUME NEW d \in Deploy, Upsert(d) PROVE DeployInv'
    <3>1. /\ pc[d] = "upsert" /\ lock = d /\ pc' = [pc EXCEPT ![d] = "unlock"]
          /\ UNCHANGED <<trigger, inTx, error, target>>
      BY <2>4 DEF Upsert, Goto, TypeOK, Critical
    <3>2. \A e \in Deploy : ~ Halfway(e)'
      BY <3>1 DEF Halfway, TypeOK, Critical
    <3>3. CASE inTx[d]
      <4>1. /\ wrote' = [wrote EXCEPT ![d] = wrote[d] \cup {"registry"}]
            /\ UNCHANGED <<registry, torn>>
        BY <2>4, <3>3 DEF Upsert
      <4>2. "trigger" \in wrote[d]
        BY <3>1, <3>3 DEF DeployInv, WritesBoth
      <4>3. WritesBoth'
        BY <3>1, <4>1, <4>2 DEF DeployInv, WritesBoth, TypeOK
      <4>4. \A e \in Deploy : ~ Halfway(e)
        BY <3>1, <3>3 DEF Halfway, TypeOK, Critical
      <4> QED
        BY <3>1, <3>2, <4>1, <4>3, <4>4 DEF DeployInv, HalfwayOwnsTrigger, Agreement
    <3>4. CASE ~ inTx[d]
      <4>1. registry' = target[d] /\ wrote' = wrote
        BY <2>4, <3>4 DEF Upsert
      <4>2. trigger = target[d] /\ \A e \in Deploy : "trigger" \notin wrote[e]
        BY <3>1, <3>4 DEF DeployInv, HalfwayOwnsTrigger, Halfway
      <4>3. WritesBoth'
        BY <3>1, <4>1, <4>2 DEF DeployInv, WritesBoth, TypeOK
      <4> QED
        BY <3>1, <3>2, <4>1, <4>2, <4>3 DEF DeployInv, HalfwayOwnsTrigger, Agreement
    <3> QED
      BY <3>3, <3>4
  <2>5. ASSUME NEW d \in Deploy, Fail(d) PROVE DeployInv'
    <3>1. /\ pc' = [pc EXCEPT ![d] = IF pc[d] \in {"plan", "lock"} THEN "done" ELSE "unlock"]
          /\ error' = [error EXCEPT ![d] = TRUE]
          /\ UNCHANGED <<trigger, registry, inTx, wrote, target>>
          /\ torn' = (torn \/ Halfway(d))
      BY <2>5 DEF Fail, Goto, Halfway
    <3>2. WritesBoth'
      BY <3>1 DEF DeployInv, WritesBoth, TypeOK
    <3>3. \A e \in Deploy : Halfway(e)' <=> (Halfway(e) /\ e # d)
      BY <3>1 DEF Halfway, TypeOK
    <3>4. HalfwayOwnsTrigger'
      BY <3>1, <3>3 DEF DeployInv, HalfwayOwnsTrigger
    <3>5. Agreement'
      BY <3>1, <3>3 DEF DeployInv, Agreement
    <3> QED
      BY <3>2, <3>4, <3>5 DEF DeployInv
  <2>6. ASSUME NEW d \in Deploy, Commit(d) PROVE DeployInv'
    <3>1. /\ pc[d] = "done" /\ UNCHANGED <<inTx, target, torn>>
          /\ WakeUp(d, TRUE) /\ wrote' = [wrote EXCEPT ![d] = {}]
          /\ trigger' = IF "trigger" \in wrote[d] THEN target[d] ELSE trigger
          /\ registry' = IF "registry" \in wrote[d] THEN target[d] ELSE registry
          /\ ~ (error[d] /\ inTx[d])
      BY <2>6 DEF Commit
    <3>2. /\ WritesBoth'
          /\ \A e \in Deploy : Halfway(e)' <=> (Halfway(e) /\ e # d)
          /\ \A e \in Deploy : wrote'[e] \subseteq wrote[e]
      BY <3>1, EndKeepsOthers
    <3>3. ~ Halfway(d)
      BY <3>1 DEF Halfway
    <3>4. "trigger" \in wrote[d] <=> "registry" \in wrote[d]
      BY <3>1 DEF DeployInv, WritesBoth, TypeOK
    <3>5. HalfwayOwnsTrigger'
      BY <3>1, <3>2 DEF DeployInv, HalfwayOwnsTrigger
    <3>6. Agreement'
      BY <3>1, <3>2, <3>3, <3>4 DEF DeployInv, Agreement
    <3> QED
      BY <3>2, <3>5, <3>6 DEF DeployInv
  <2>7. ASSUME NEW d \in Deploy, Rollback(d) \/ Disconnect(d) PROVE DeployInv'
    <3>1. /\ UNCHANGED <<trigger, registry, inTx, target>>
          /\ WakeUp(d, FALSE) /\ wrote' = [wrote EXCEPT ![d] = {}]
          /\ torn' = (torn \/ Halfway(d))
      <4>1. CASE Rollback(d)
        BY <4>1 DEF Rollback, Halfway, TypeOK
      <4>2. CASE Disconnect(d)
        BY <4>2 DEF Disconnect, Halfway
      <4> QED
        BY <2>7, <4>1, <4>2
    <3>2. /\ WritesBoth'
          /\ \A e \in Deploy : Halfway(e)' <=> (Halfway(e) /\ e # d)
          /\ \A e \in Deploy : wrote'[e] \subseteq wrote[e]
      BY <3>1, EndKeepsOthers
    <3>3. HalfwayOwnsTrigger'
      BY <3>1, <3>2 DEF DeployInv, HalfwayOwnsTrigger
    <3>4. Agreement'
      BY <3>1, <3>2 DEF DeployInv, Agreement
    <3> QED
      BY <3>2, <3>3, <3>4 DEF DeployInv
  <2>8. CASE UNCHANGED vars
    BY <2>8 DEF vars, DeployInv, WritesBoth, HalfwayOwnsTrigger, Halfway, Agreement
  <2> QED
    BY <2>2, <2>3, <2>4, <2>5, <2>6, <2>7, <2>8 DEF Next, Step
<1>3. DeployInv => Agreement
  BY DEF DeployInv
<1> QED
  BY <1>1, <1>2, <1>3, TypeCorrect, PTL DEF Spec
=============================================================================
