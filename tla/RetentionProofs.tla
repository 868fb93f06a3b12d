---------------------------- MODULE RetentionProofs ----------------------------
(***************************************************************************)
(* Proofs about verify_diff_chain, retention and the partitions.           *)
(*                                                                         *)
(* Three arguments.  VerifyExact: Basis and ClaimsKept tie the ghosts to   *)
(* the log, and a finding is an event that breaks the claims before it, or *)
(* a last claim the row does not meet.  ShortcutSound: what the snapshot   *)
(* body skips repeats what the event before it said.  UntouchedClean,      *)
(* RetentionExact and CleanMeansExact: the events since a calm instant are *)
(* a Window, a stretch of the log that leads from the row of that instant  *)
(* to the live one, whatever releases wrote the events.                    *)
(***************************************************************************)
EXTENDS Retention, AuditLogProofs

------------------------------------------------------------------------------
(* What the log claims *)

(* The value the last event of U that names c gave it.                     *)
Said(U, c) == NewSide(LastEvent(Naming(U, c)).diff[c])

(* Event e of log A was written over a row other than the one the events   *)
(* before it describe.                                                     *)
BreaksAt(A, e) ==
    \/ Before(A, e) # {} /\ (e.operation = "INSERT") #
                            (LastEvent(Before(A, e)).operation = "DELETE")
    \/ \E c \in DOMAIN e.diff :
          /\ Naming(Before(A, e), c) # {} /\ Paired(e.diff[c])
          /\ e.diff[c].old # Said(Before(A, e), c)

(* Until something is purged, the claims and the breaks can be read off    *)
(* the log.                                                                *)
ClaimsKept ==
    cutoff = 0 =>
        /\ \A o \in Obj :
              /\ DOMAIN claimed[o] = {c \in Tracked : Naming(Of(audit, o), c) # {}}
              /\ \A c \in DOMAIN claimed[o] : claimed[o][c] = Said(Of(audit, o), c)
        /\ breaks = {[object_id |-> e.object_id, at |-> e.changed_at] :
                         e \in {f \in audit : BreaksAt(audit, f)}}

(* Retention starts from the basis,                                        *)
LEMMA BasisStart == RetentionInit => Basis
BY BasisInit DEF RetentionInit

(* and keeps it.                                                           *)
LEMMA BasisStep == Basis /\ [RetentionNext]_retentionVars => Basis'
<1> SUFFICES ASSUME Basis, [RetentionNext]_retentionVars PROVE Basis'
  OBVIOUS
<1>1. ASSUME UNCHANGED <<claimed, bypassed, idSeq, live, clock>>,
             cutoff' \in Nat, audit' \subseteq audit
      PROVE  Basis'
  BY <1>1, BasisFrame, BasisFacts
<1>2. CASE UNCHANGED retentionVars
  BY <1>1, <1>2 DEF Basis, retentionVars, chainVars, vars
<1>3. CASE ChainNext
  BY <1>3, BasisChain
<1>4. ASSUME NEW at \in 2..clock, Purge(at), UNCHANGED ghosts
      PROVE  Basis'
  BY <1>1, <1>4 DEF Basis, Purge, ghosts
<1>5. ASSUME NEW months \in MonthsAhead, CreatePartitions(months)
      PROVE  Basis'
  BY <1>1, <1>5 DEF Basis, CreatePartitions, chainVars, vars
<1>6. ASSUME NEW at \in 2..clock, DropOldPartitions(at)
      PROVE  Basis'
  BY <1>1, <1>6 DEF Basis, DropOldPartitions, ghosts
<1> QED
  BY <1>2, <1>3, <1>4, <1>5, <1>6 DEF RetentionNext, PurgeStep

(* An empty log claims nothing.                                            *)
LEMMA ClaimsInit == RetentionInit => ClaimsKept
<1> SUFFICES ASSUME RetentionInit PROVE ClaimsKept
  OBVIOUS
<1>1. audit = {} /\ claimed = [o \in Obj |-> [c \in {} |-> Null]] /\ breaks = {}
  BY DEF RetentionInit, ChainInit
<1>2. \A o : Of(audit, o) = {}
  BY <1>1 DEF Of
<1>3. \A o, c : Naming(Of(audit, o), c) = {}
  BY <1>2 DEF Naming
<1>4. \A o \in Obj : DOMAIN claimed[o] = {}
  BY <1>1
<1> QED
  BY <1>1, <1>3, <1>4 DEF ClaimsKept

(* What the log says of a column after one more event.                     *)
LEMMA SaidAppend ==
    ASSUME NEW U, NEW e, Ordered(U \cup {e}), \A f \in U : f.id < e.id, NEW c
    PROVE  /\ c \in DOMAIN e.diff => /\ Naming(U \cup {e}, c) # {}
                                     /\ Said(U \cup {e}, c) = NewSide(e.diff[c])
           /\ c \notin DOMAIN e.diff => Naming(U \cup {e}, c) = Naming(U, c)
<1>1. CASE c \in DOMAIN e.diff
  <2> DEFINE S == Naming(U \cup {e}, c)
  <2>1. e \in S
    BY <1>1 DEF Naming
  <2>2. Ordered(S) /\ \A f \in S : f.id <= e.id
    BY DEF Naming, Ordered
  <2> HIDE DEF S
  <2>3. LastEvent(S) = e
    BY <2>1, <2>2, LastIs
  <2> QED
    BY <1>1, <2>1, <2>3 DEF Said, S
<1>2. CASE c \notin DOMAIN e.diff
  BY <1>2 DEF Naming
<1> QED
  BY <1>1, <1>2

(* An audited write moves the claims and the breaks along with the log.    *)
LEMMA ClaimsAudited ==
    ASSUME Basis, ClaimsKept, cutoff = 0,
           NEW o \in Obj, NEW new \in AnyRow, NEW at \in 1..clock, Audited(o, new, at)
    PROVE  ClaimsKept'
<1>1. PICK e :
          /\ e.id = idSeq + 1 /\ e.changed_at = at /\ e.object_id = o
          /\ Entered(e) /\ audit' = audit \cup {e} /\ Claim(o, e)
          /\ breaks' = IF Contradicts(o, e)
                       THEN breaks \cup {[object_id |-> o, at |-> at]} ELSE breaks
          /\ UNCHANGED cutoff
  BY AuditedFacts
<1>2. /\ \A f \in audit : f.id \in Nat /\ f.id < e.id
      /\ Ordered(audit \cup {e}) /\ e.id \in Nat
  BY <1>1, BasisAppend DEF Ordered, Entered, Basis
<1>3. /\ Of(audit', o) = Of(audit, o) \cup {e}
      /\ \A p : p # o => Of(audit', p) = Of(audit, p)
      /\ Before(audit', e) = Of(audit, o)
      /\ \A f \in audit : Before(audit', f) = Before(audit, f)
      /\ e \notin audit
  <2>1. /\ Of(audit \cup {e}, e.object_id) = Of(audit, e.object_id) \cup {e}
        /\ \A p : p # e.object_id => Of(audit \cup {e}, p) = Of(audit, p)
        /\ Before(audit \cup {e}, e) = Of(audit, e.object_id)
        /\ \A f \in audit : Before(audit \cup {e}, f) = Before(audit, f)
        /\ e \notin audit
    BY <1>2, AppendedEvent
  <2>2. audit' = audit \cup {e} /\ e.object_id = o
    BY <1>1
  <2> QED
    BY <2>1, <2>2
<1>4. /\ \A p \in Obj :
            /\ DOMAIN claimed[p] = {c \in Tracked : Naming(Of(audit, p), c) # {}}
            /\ \A c \in DOMAIN claimed[p] : claimed[p][c] = Said(Of(audit, p), c)
      /\ breaks = {[object_id |-> f.object_id, at |-> f.changed_at] :
                       f \in {g \in audit : BreaksAt(audit, g)}}
  BY DEF ClaimsKept
<1>5. DOMAIN e.diff \subseteq Tracked
  BY <1>1 DEF Entered
<1>6. \A f \in audit : BreaksAt(audit', f) <=> BreaksAt(audit, f)
  BY <1>3 DEF BreaksAt
<1>7. BreaksAt(audit', e) <=> Contradicts(o, e)
  <2>1. \A c \in DOMAIN e.diff :
            /\ c \in DOMAIN claimed[o] <=> Naming(Before(audit', e), c) # {}
            /\ c \in DOMAIN claimed[o] => claimed[o][c] = Said(Before(audit', e), c)
    BY <1>3, <1>4, <1>5
  <2> QED
    BY <1>3, <2>1 DEF BreaksAt, Contradicts
<1>8. breaks' = {[object_id |-> f.object_id, at |-> f.changed_at] :
                     f \in {g \in audit' : BreaksAt(audit', g)}}
  <2> DEFINE B == {g \in audit : BreaksAt(audit, g)}
             C == {g \in audit' : BreaksAt(audit', g)}
  <2>1. C = IF Contradicts(o, e) THEN B \cup {e} ELSE B
    BY <1>1, <1>3, <1>6, <1>7
  <2>2. breaks = {[object_id |-> f.object_id, at |-> f.changed_at] : f \in B}
    BY <1>4
  <2> HIDE DEF B, C
  <2>3. breaks' = {[object_id |-> f.object_id, at |-> f.changed_at] : f \in C}
    BY <1>1, <2>1, <2>2
  <2> QED
    BY <2>3 DEF C
<1>9. ASSUME NEW p \in Obj
      PROVE  /\ DOMAIN claimed'[p] = {c \in Tracked : Naming(Of(audit', p), c) # {}}
             /\ \A c \in DOMAIN claimed'[p] : claimed'[p][c] = Said(Of(audit', p), c)
  <2>1. CASE p # o
    <3>1. claimed'[p] = claimed[p]
      BY <1>1, <2>1 DEF Claim, Basis
    <3>2. Of(audit', p) = Of(audit, p)
      BY <1>3, <2>1
    <3> QED
      BY <1>4, <3>1, <3>2
  <2>2. CASE p = o
    <3>1. claimed'[o] = [c \in DOMAIN e.diff \cup DOMAIN claimed[o] |->
                IF c \in DOMAIN e.diff THEN NewSide(e.diff[c]) ELSE claimed[o][c]]
      BY <1>1 DEF Claim, Basis
    <3>2. /\ DOMAIN claimed'[o] = DOMAIN e.diff \cup DOMAIN claimed[o]
          /\ \A c \in DOMAIN e.diff : claimed'[o][c] = NewSide(e.diff[c])
          /\ \A c \in DOMAIN claimed[o] \ DOMAIN e.diff : claimed'[o][c] = claimed[o][c]
      BY <3>1
    <3>3. \A c : /\ c \in DOMAIN e.diff => /\ Naming(Of(audit', o), c) # {}
                                           /\ Said(Of(audit', o), c) = NewSide(e.diff[c])
                 /\ c \notin DOMAIN e.diff => Naming(Of(audit', o), c) = Naming(Of(audit, o), c)
      <4>1. Ordered(Of(audit, o) \cup {e}) /\ \A f \in Of(audit, o) : f.id < e.id
        BY <1>2 DEF Ordered, Of
      <4> DEFINE V == Of(audit, o)
      <4>2. Ordered(V \cup {e}) /\ \A f \in V : f.id < e.id
        BY <4>1
      <4>3. Of(audit', o) = V \cup {e}
        BY <1>3
      <4> HIDE DEF V
      <4>4. \A c : /\ c \in DOMAIN e.diff => /\ Naming(V \cup {e}, c) # {}
                                             /\ Said(V \cup {e}, c) = NewSide(e.diff[c])
                   /\ c \notin DOMAIN e.diff => Naming(V \cup {e}, c) = Naming(V, c)
        BY <4>2, SaidAppend
      <4> QED
        BY <4>3, <4>4 DEF V
    <3>4. \A c : c \notin DOMAIN e.diff => Said(Of(audit', o), c) = Said(Of(audit, o), c)
      BY <3>3 DEF Said
    <3> QED
      BY <1>4, <1>5, <2>2, <3>2, <3>3, <3>4
  <2> QED
    BY <2>1, <2>2
<1> QED
  BY <1>8, <1>9 DEF ClaimsKept

(* Every other step leaves the log, the claims and the breaks alone, or    *)
(* purges.                                                                 *)
LEMMA ClaimsStep == Basis /\ ClaimsKept /\ [RetentionNext]_retentionVars => ClaimsKept'
<1> SUFFICES ASSUME Basis, ClaimsKept, [RetentionNext]_retentionVars, cutoff' = 0
             PROVE  ClaimsKept'
  BY DEF ClaimsKept
<1>1. ASSUME UNCHANGED <<audit, claimed, breaks, cutoff>>
      PROVE  ClaimsKept'
  BY <1>1 DEF ClaimsKept
<1>2. CASE UNCHANGED retentionVars
  BY <1>1, <1>2 DEF retentionVars, chainVars, vars
<1>3. CASE Tick /\ UNCHANGED <<release, ghosts, parts>>
  BY <1>1, <1>3 DEF Tick, ghosts
<1>4. ASSUME NEW o \in Obj, NEW new \in AnyRow, Bypass(o, new)
      PROVE  ClaimsKept'
  BY <1>1, <1>4 DEF Bypass
<1>5. ASSUME NEW o \in Obj, NEW new \in AnyRow, NEW at \in 1..clock, Audited(o, new, at)
      PROVE  ClaimsKept'
  <2>1. cutoff = 0
    BY <1>5 DEF Audited
  <2> QED
    BY <1>5, <2>1, ClaimsAudited
<1>6. ASSUME NEW r \in Releases, Upgrade(r)
      PROVE  ClaimsKept'
  BY <1>1, <1>6 DEF Upgrade, vars, ghosts
<1>7. ASSUME NEW mode \in Modes, SwitchStorage(mode)
      PROVE  ClaimsKept'
  BY <1>1, <1>7 DEF SwitchStorage, SetStorage, ghosts
<1>8. ASSUME NEW at \in 2..clock, Purge(at)
      PROVE  ClaimsKept'
  BY <1>8 DEF Purge
<1>9. ASSUME NEW months \in MonthsAhead, CreatePartitions(months)
      PROVE  ClaimsKept'
  BY <1>1, <1>9 DEF CreatePartitions, chainVars, vars
<1>10. ASSUME NEW at \in 2..clock, DropOldPartitions(at)
      PROVE  ClaimsKept'
  <2>1. cutoff' > 0
    BY <1>10, BasisFacts DEF DropOldPartitions, Basis
  <2> QED
    BY <2>1
<1> QED
  BY <1>2, <1>3, <1>4, <1>5, <1>6, <1>7, <1>8, <1>9, <1>10
     DEF RetentionNext, ChainNext, PurgeStep, AnyRow

(* Which steps lead to the findings of the diff body, event by event.      *)
LEMMA FindingsOf ==
    ASSUME Basis, NEW o \in Obj, NEW since \in Nat, since <= clock
    PROVE  (\E m \in Mismatches(audit, live, o, "diff") : m.at >= since) <=>
               \/ \E e \in Of(audit, o) : BreaksAt(audit, e) /\ e.changed_at >= since
               \/ /\ Of(audit, o) # {}
                  /\ (LastEvent(Of(audit, o)).operation = "DELETE") = (live[o] # NoRow)
               \/ \E c \in Tracked \cap Keys(LiveRow(live, o)) :
                     /\ Naming(Of(audit, o), c) # {}
                     /\ Said(Of(audit, o), c) # live[o][c]
<1> DEFINE U == Of(audit, o)
           ChainOf(e) == \E c \in DOMAIN e.diff :
                             /\ Naming(Before(audit, e), c) # {} /\ Paired(e.diff[c])
                             /\ e.diff[c].old # Said(Before(audit, e), c)
           LifecycleOf(e) == Before(audit, e) # {} /\ (e.operation = "INSERT") #
                                 (LastEvent(Before(audit, e)).operation = "DELETE")
           EndOf(e) == After(audit, e) = {} /\ (e.operation = "DELETE") = (live[o] # NoRow)
           LiveOf(e) == \E c \in DOMAIN e.diff \cap Keys(LiveRow(live, o)) :
                            /\ \A g \in After(audit, e) : c \notin DOMAIN g.diff
                            /\ NewSide(e.diff[c]) # live[o][c]
<1>0. /\ Ordered(U) /\ \A e \in U : Entered(e) /\ e.changed_at \in Nat /\ e.id \in Nat
      /\ \A e \in U : e.object_id = o /\ e \in audit /\ e.id <= idSeq
      /\ Always \in Nat /\ Always >= since /\ idSeq \in Nat
  <2>1. Ordered(U) /\ \A e \in U : e.object_id = o /\ e \in audit
    BY BasisFacts DEF Of
  <2>2. \A e \in audit : Entered(e) /\ e.changed_at \in Nat /\ e.id \in Nat /\ e.id <= idSeq
    BY BasisFacts DEF Basis
  <2>3. Always \in Nat /\ Always >= since /\ idSeq \in Nat
    BY BasisFacts DEF Basis, Always
  <2> HIDE DEF U
  <2> QED
    BY <2>1, <2>2, <2>3
<1>1. \A e \in U : \A c \in DOMAIN e.diff :
          LET old == OldSideOf(e, c, "diff")
              previous == PreviousNew(audit, e, c, "diff")
          IN  (old # Absent /\ previous # Absent /\ old # previous) <=>
                  /\ Naming(Before(audit, e), c) # {} /\ Paired(e.diff[c])
                  /\ e.diff[c].old # Said(Before(audit, e), c)
  <2> SUFFICES ASSUME NEW e \in U, NEW c \in DOMAIN e.diff
               PROVE  LET old == OldSideOf(e, c, "diff")
                          previous == PreviousNew(audit, e, c, "diff")
                      IN  (old # Absent /\ previous # Absent /\ old # previous) <=>
                              /\ Naming(Before(audit, e), c) # {} /\ Paired(e.diff[c])
                              /\ e.diff[c].old # Said(Before(audit, e), c)
    OBVIOUS
  <2> DEFINE N == Naming(Before(audit, e), c)
             old == OldSideOf(e, c, "diff")
             previous == PreviousNew(audit, e, c, "diff")
  <2>1. e.diff[c] \in Val \cup PairedEntry
    BY <1>0 DEF Entered
  <2>2. Paired(e.diff[c]) => old = e.diff[c].old /\ old # Absent
    BY <2>1, NewSideIsValue DEF OldSideOf, OldValue
  <2>3. ~ Paired(e.diff[c]) => old = Absent
    BY DEF OldSideOf
  <2>4. N = {f \in Before(audit, e) : c \in Contributes(audit, f, "diff")}
    BY DEF Naming, Contributes
  <2>5. previous = IF N = {} THEN Absent ELSE NewValue(LastEvent(N), c)
    BY <2>4 DEF PreviousNew
  <2>6. N # {} => LastEvent(N) \in N
    <3>1. \A f \in N : f \in audit /\ f.id \in Nat /\ f.id <= idSeq
      BY BasisFacts DEF Naming, Before, Of, Basis
    <3> HIDE DEF N
    <3> QED
      BY <1>0, <3>1, LastEventOf
  <2>7. N # {} => previous = Said(Before(audit, e), c) /\ previous # Absent
    <3> SUFFICES ASSUME N # {} PROVE previous = Said(Before(audit, e), c) /\ previous # Absent
      OBVIOUS
    <3>1. LastEvent(N) \in audit /\ c \in DOMAIN LastEvent(N).diff
      BY <2>6 DEF Naming, Before, Of
    <3>2. LastEvent(N).diff[c] \in Val \cup PairedEntry
      BY <3>1 DEF Entered, Basis
    <3>3. previous = NewSide(LastEvent(N).diff[c])
      BY <2>5, <3>1 DEF NewValue
    <3> QED
      BY <3>2, <3>3, NewSideIsValue DEF Said
  <2> HIDE DEF N, old, previous
  <2>8. (old # Absent /\ previous # Absent /\ old # previous) <=>
            N # {} /\ Paired(e.diff[c]) /\ e.diff[c].old # Said(Before(audit, e), c)
    BY <2>2, <2>3, <2>5, <2>7
  <2> QED
    BY <2>8 DEF N, old, previous
<1>2. Chain(audit, o, "diff") = {Mismatch(e, "chain", e.changed_at) : e \in {f \in U : ChainOf(f)}}
  BY <1>1 DEF Chain, Contributes
<1>3. Lifecycle(audit, o) =
          {Mismatch(e, "lifecycle", e.changed_at) : e \in {f \in U : LifecycleOf(f)}}
  BY DEF Lifecycle
<1>4. AtTheEnd(audit, live, o) = {Mismatch(e, "lifecycle", Always) : e \in {f \in U : EndOf(f)}}
  BY DEF AtTheEnd
<1>5. Live(audit, live, o, "diff") = {Mismatch(e, "live", Always) : e \in {f \in U : LiveOf(f)}}
  BY DEF Live, Contributes, NewValue
<1>6. (\E e \in U : EndOf(e)) <=>
          U # {} /\ (LastEvent(U).operation = "DELETE") = (live[o] # NoRow)
  <2>1. U # {} => LastEvent(U) \in U /\ \A f \in U : f.id <= LastEvent(U).id
    <3> HIDE DEF U
    <3> QED
      BY <1>0, LastEventOf
  <2>2. \A e \in U : After(audit, e) = {f \in U : f.id > e.id}
    BY <1>0 DEF After
  <2>3. U # {} => After(audit, LastEvent(U)) = {}
    BY <1>0, <2>1, <2>2
  <2>4. \A e \in U : After(audit, e) = {} => e = LastEvent(U)
    <3> HIDE DEF U
    <3> QED
      BY <1>0, <2>1, <2>2 DEF Ordered
  <2> QED
    BY <2>1, <2>3, <2>4
<1>7. (\E e \in U : LiveOf(e)) <=>
          \E c \in Tracked \cap Keys(LiveRow(live, o)) :
              Naming(U, c) # {} /\ Said(U, c) # live[o][c]
  <2>1. \A c : Naming(U, c) # {} =>
            /\ LastEvent(Naming(U, c)) \in U /\ c \in DOMAIN LastEvent(Naming(U, c)).diff
            /\ \A f \in Naming(U, c) : f.id <= LastEvent(Naming(U, c)).id
    <3> SUFFICES ASSUME NEW c, Naming(U, c) # {}
                 PROVE  /\ LastEvent(Naming(U, c)) \in Naming(U, c)
                        /\ \A f \in Naming(U, c) : f.id <= LastEvent(Naming(U, c)).id
      BY DEF Naming
    <3>1. \A f \in Naming(U, c) : f.id \in Nat /\ f.id <= idSeq
      BY <1>0 DEF Naming
    <3> QED
      BY <1>0, <3>1, LastEventOf
  <2>2. \A e \in U : After(audit, e) = {f \in U : f.id > e.id}
    BY <1>0 DEF After
  <2>3. \A c : Naming(U, c) # {} => \A g \in After(audit, LastEvent(Naming(U, c))) : c \notin DOMAIN g.diff
    <3> SUFFICES ASSUME NEW c, Naming(U, c) # {}, NEW g \in U, g.id > LastEvent(Naming(U, c)).id,
                        c \in DOMAIN g.diff
                 PROVE  FALSE
      BY <2>1, <2>2
    <3>1. g \in Naming(U, c)
      BY DEF Naming
    <3>2. g.id <= LastEvent(Naming(U, c)).id /\ LastEvent(Naming(U, c)).id \in Nat /\ g.id \in Nat
      BY <1>0, <2>1, <3>1
    <3> QED
      BY <3>2
  <2>4. \A e \in U : \A c \in DOMAIN e.diff : (\A g \in After(audit, e) : c \notin DOMAIN g.diff) =>
            Naming(U, c) # {} /\ e = LastEvent(Naming(U, c))
    <3> SUFFICES ASSUME NEW e \in U, NEW c \in DOMAIN e.diff, \A g \in After(audit, e) : c \notin DOMAIN g.diff
                 PROVE  e \in Naming(U, c) /\ LastEvent(Naming(U, c)) = e
      OBVIOUS
    <3>1. e \in Naming(U, c) /\ Ordered(Naming(U, c))
      BY <1>0 DEF Naming, Ordered
    <3>2. \A f \in Naming(U, c) : f.id <= e.id
      <4> SUFFICES ASSUME NEW f \in U, c \in DOMAIN f.diff, ~ (f.id <= e.id) PROVE FALSE
        BY DEF Naming
      <4>1. f.id > e.id
        BY <1>0
      <4> QED
        BY <2>2, <4>1
    <3> QED
      BY <3>1, <3>2, LastIs
  <2>5. \A e \in U : DOMAIN e.diff \subseteq Tracked
    BY <1>0 DEF Entered
  <2>6. ASSUME NEW e \in U, LiveOf(e)
        PROVE  \E c \in Tracked \cap Keys(LiveRow(live, o)) :
                   Naming(U, c) # {} /\ Said(U, c) # live[o][c]
    <3>1. PICK c \in DOMAIN e.diff \cap Keys(LiveRow(live, o)) :
              /\ \A g \in After(audit, e) : c \notin DOMAIN g.diff
              /\ NewSide(e.diff[c]) # live[o][c]
      BY <2>6
    <3>2. Naming(U, c) # {} /\ e = LastEvent(Naming(U, c))
      BY <2>4, <3>1
    <3>3. Said(U, c) # live[o][c]
      BY <3>1, <3>2 DEF Said
    <3> QED
      BY <2>5, <3>1, <3>2, <3>3
  <2>7. ASSUME NEW c \in Tracked \cap Keys(LiveRow(live, o)), Naming(U, c) # {}, Said(U, c) # live[o][c]
        PROVE  \E e \in U : LiveOf(e)
    <3> DEFINE e == LastEvent(Naming(U, c))
    <3>1. e \in U /\ c \in DOMAIN e.diff /\ (\A g \in After(audit, e) : c \notin DOMAIN g.diff)
      BY <2>1, <2>3, <2>7
    <3>2. NewSide(e.diff[c]) # live[o][c]
      BY <2>7 DEF Said
    <3> HIDE DEF e
    <3> QED
      BY <3>1, <3>2
  <2> QED
    BY <2>6, <2>7
<1>8. \A e \in U : BreaksAt(audit, e) <=> LifecycleOf(e) \/ ChainOf(e)
  BY DEF BreaksAt
<1> HIDE DEF U, ChainOf, LifecycleOf, EndOf, LiveOf
<1>9. \A e, k, at : Mismatch(e, k, at).at = at
  BY DEF Mismatch
<1>10. (\E m \in Mismatches(audit, live, o, "diff") : m.at >= since) <=>
          \/ \E e \in U : ChainOf(e) /\ e.changed_at >= since
          \/ \E e \in U : LifecycleOf(e) /\ e.changed_at >= since
          \/ \E e \in U : EndOf(e)
          \/ \E e \in U : LiveOf(e)
  <2>1. (\E m \in Chain(audit, o, "diff") : m.at >= since) <=>
            \E e \in U : ChainOf(e) /\ e.changed_at >= since
    BY <1>2, <1>9
  <2>2. (\E m \in Lifecycle(audit, o) : m.at >= since) <=>
            \E e \in U : LifecycleOf(e) /\ e.changed_at >= since
    BY <1>3, <1>9
  <2>3. (\E m \in AtTheEnd(audit, live, o) : m.at >= since) <=> \E e \in U : EndOf(e)
    BY <1>0, <1>4, <1>9
  <2>4. (\E m \in Live(audit, live, o, "diff") : m.at >= since) <=> \E e \in U : LiveOf(e)
    BY <1>0, <1>5, <1>9
  <2> QED
    BY <2>1, <2>2, <2>3, <2>4 DEF Mismatches
<1> QED
  BY <1>6, <1>7, <1>8, <1>10 DEF U

(***************************************************************************)
(* A verify run with the diff body names exactly the objects that broke in *)
(* its window or now differ from what the log claims of them, whatever     *)
(* releases and storage modes wrote the log and whatever was bypassed.     *)
(***************************************************************************)
THEOREM VerifyIsExact == RetentionSpec => []VerifyExact
<1>1. Basis /\ ClaimsKept => VerifyExact
  <2> SUFFICES ASSUME Basis, ClaimsKept, cutoff = 0, NEW since \in {0} \cup 2..clock
               PROVE  Named(Verify(audit, live, "diff", since)) =
                        {o \in Obj :
                            /\ \E e \in Of(audit, o) : e.changed_at >= since
                            /\ \/ \E b \in breaks : b.object_id = o /\ b.at >= since
                               \/ ClaimedRowDiffers(o)}
    BY DEF VerifyExact
  <2>1. since \in Nat /\ since <= clock /\ \A e \in audit : e.id \in Nat
    BY BasisFacts
  <2>2. \A o : o \in Named(Verify(audit, live, "diff", since)) <=>
              /\ o \in Obj /\ \E e \in Of(audit, o) : e.changed_at >= since
              /\ \E m \in Mismatches(audit, live, o, "diff") : m.at >= since
    BY <2>1, VerifyNames
  <2>3. ASSUME NEW o \in Obj
        PROVE  (\E b \in breaks : b.object_id = o /\ b.at >= since) <=>
                   \E e \in Of(audit, o) : BreaksAt(audit, e) /\ e.changed_at >= since
    <3>1. breaks = {[object_id |-> e.object_id, at |-> e.changed_at] :
                        e \in {f \in audit : BreaksAt(audit, f)}}
      BY DEF ClaimsKept
    <3>2. ASSUME NEW b \in breaks, b.object_id = o, b.at >= since
          PROVE  \E e \in Of(audit, o) : BreaksAt(audit, e) /\ e.changed_at >= since
      <4>1. PICK e \in audit : BreaksAt(audit, e) /\ b = [object_id |-> e.object_id, at |-> e.changed_at]
        BY <3>1
      <4>2. e.object_id = o /\ e.changed_at >= since
        BY <3>2, <4>1
      <4> QED
        BY <4>1, <4>2 DEF Of
    <3>3. ASSUME NEW e \in Of(audit, o), BreaksAt(audit, e), e.changed_at >= since
          PROVE  \E b \in breaks : b.object_id = o /\ b.at >= since
      <4>1. e \in audit /\ e.object_id = o
        BY DEF Of
      <4>2. [object_id |-> e.object_id, at |-> e.changed_at] \in breaks
        BY <3>1, <3>3, <4>1
      <4> QED
        BY <3>3, <4>1, <4>2
    <3> QED
      BY <3>2, <3>3
  <2>4. ASSUME NEW o \in Obj, Of(audit, o) # {}
        PROVE  ClaimedRowDiffers(o) <=>
                   \/ (LastEvent(Of(audit, o)).operation = "DELETE") = (live[o] # NoRow)
                   \/ \E c \in Tracked \cap Keys(LiveRow(live, o)) :
                         /\ Naming(Of(audit, o), c) # {}
                         /\ Said(Of(audit, o), c) # live[o][c]
    <3>1. /\ DOMAIN claimed[o] = {c \in Tracked : Naming(Of(audit, o), c) # {}}
          /\ \A c \in DOMAIN claimed[o] : claimed[o][c] = Said(Of(audit, o), c)
      BY DEF ClaimsKept
    <3> QED
      BY <2>4, <3>1 DEF ClaimedRowDiffers
  <2>5. ASSUME NEW o \in Obj, \E e \in Of(audit, o) : e.changed_at >= since
        PROVE  (\E m \in Mismatches(audit, live, o, "diff") : m.at >= since) <=>
                   \/ \E b \in breaks : b.object_id = o /\ b.at >= since
                   \/ ClaimedRowDiffers(o)
    <3>1. Of(audit, o) # {}
      BY <2>5
    <3> QED
      BY <2>1, <2>3, <2>4, <3>1, FindingsOf
  <2> QED
    BY <2>2, <2>5
<1> QED
  BY <1>1, BasisStart, BasisStep, ClaimsInit, ClaimsStep, PTL DEF RetentionSpec

(***************************************************************************)
(* The shortcut of the snapshot body changes no finding of any object.     *)
(***************************************************************************)
THEOREM ShortcutIsSound == RetentionSpec => []ShortcutSound
<1>1. Basis => ShortcutSound
  BY LogOf, ShortcutChangesNothing DEF ShortcutSound
<1> QED
  BY <1>1, BasisStart, BasisStep, PTL DEF RetentionSpec

------------------------------------------------------------------------------
(* Stretches of a log that one row explains *)

Plainly == {"diff", "unskipped"}

(* The columns e contributes, to the diff body or to the snapshot body     *)
(* without its shortcut.                                                   *)
Gives(e, body) ==
    IF body = "diff" \/ (e.old_data = NoRow /\ e.new_data = NoRow) THEN DOMAIN e.diff ELSE Tracked

Told(S, c, body) == {f \in S : c \in Gives(f, body)}
Earlier(S, e) == {f \in S : f.id < e.id}

(* An event that is silent about a column it changed, which was named      *)
(* before; the snapshot body does not rely on what the diffs name.         *)
Silent(S, e) ==
    \E c \in Tracked \ DOMAIN e.diff :
        /\ \E f \in Earlier(S, e) : c \in DOMAIN f.diff
        /\ Get(e.old_data, c) # Get(e.new_data, c)

Spoken(S, body) == body = "diff" => \A e \in S : ~ Silent(S, e)

(* What f says column c became is what row has there.                      *)
Holds(f, c, row) ==
    IF row = NoRow THEN NewValue(f, c) \in {Null, Absent} ELSE NewValue(f, c) = row[c]

(* The old value e gives is the value the last event before it gave.       *)
Continues(S, e, c, body) ==
    Told(Earlier(S, e), c, body) # {} =>
        LET previous == NewValue(LastEvent(Told(Earlier(S, e), c, body)), c)
        IN  previous = Absent \/ OldSideOf(e, c, body) \in {Absent, previous}

Whole(e) ==
    /\ \A c \in DOMAIN e.diff : Paired(e.diff[c])
    /\ e.operation # "UPDATE" => DOMAIN e.diff = Tracked

Begins(S, start) ==
    LET e == FirstEvent(S)
    IN  /\ e.operation = "INSERT" <=> start = NoRow
        /\ e.old_data # NoRow => start # NoRow /\ Seen(e.old_data) = Filter(start)

Ends(S, row) ==
    LET e == LastEvent(S)
    IN  /\ e.operation = "DELETE" <=> row = NoRow
        /\ e.new_data # NoRow => row # NoRow /\ Seen(e.new_data) = Filter(row)

Alternates(S, e) ==
    Earlier(S, e) # {} =>
        (e.operation = "INSERT" <=> LastEvent(Earlier(S, e)).operation = "DELETE")

(* Only the current release leaves the snapshot of a row out.              *)
Lacks(e) == e.operation # "INSERT" /\ e.old_data = NoRow

(* The events of S, all writes of one object since its row was start, lead *)
(* to row: nothing verify looks at contradicts them, with a body the       *)
(* events are not silent to.                                               *)
Window(S, start, row) ==
    /\ S = {} => FilterOf(row) = FilterOf(start)
    /\ S # {} => Begins(S, start) /\ Ends(S, row)
    /\ \A e \in S : Alternates(S, e)
    /\ \A body \in Plainly : Spoken(S, body) =>
          /\ \A c \in Tracked :
                Told(S, c, body) # {} => Holds(LastEvent(Told(S, c, body)), c, row)
          /\ \A e \in S : \A c \in Gives(e, body) : Continues(S, e, c, body)
    /\ S # {} /\ Lacks(FirstEvent(S)) => WasRow(S, row, start)

(* Event e was written when the row changed from row to new.               *)
Written(e, row, new) ==
    /\ Entered(e) /\ row \in AnyRow /\ new \in AnyRow /\ row # new
    /\ Tells(e, row, new) /\ Plain(e, row, new)
    /\ Current(e, row, new) \/ Old(e, row, new)

(* A column an event contributes leads from the old row to the new one.    *)
LEMMA WrittenValues ==
    ASSUME NEW e, NEW row, NEW new, Written(e, row, new), NEW body \in Plainly,
           NEW c \in Gives(e, body)
    PROVE  /\ c \in Tracked /\ Holds(e, c, new)
           /\ OldSideOf(e, c, body) = Absent \/ OldSideOf(e, c, body) = Shown(row, c)
<1>1. /\ DOMAIN e.diff \subseteq Tracked
      /\ \A d \in DOMAIN e.diff : e.diff[d] \in Val \cup PairedEntry
      /\ e.old_data \in SnapshotRow /\ e.new_data \in SnapshotRow
      /\ row \in AnyRow /\ new \in AnyRow
  BY DEF Written, Entered
<1>2. c \in Tracked
  BY <1>1 DEF Gives
<1>3. \A r \in AnyRow, snap \in SnapshotRow : snap # NoRow /\ r # NoRow /\ Seen(snap) = Filter(r) =>
          Get(Seen(snap), c) = r[c] /\ r[c] = Shown(r, c)
  <2> SUFFICES ASSUME NEW r \in AnyRow, NEW snap \in SnapshotRow, snap # NoRow, r # NoRow,
                      Seen(snap) = Filter(r)
               PROVE  Get(Seen(snap), c) = r[c] /\ r[c] = Shown(r, c)
    OBVIOUS
  <2>1. r \in Row
    BY DEF AnyRow
  <2>2. Filter(r)[c] = r[c] /\ Shown(r, c) = r[c]
    BY <1>2, <2>1, Filtered
  <2>3. Keys(Seen(snap)) = Tracked /\ Seen(snap) # NoRow
    BY SeenSnapshot
  <2> QED
    BY <1>2, <2>2, <2>3 DEF Get, Keys
<1>4. \A snap : snap = NoRow => Get(Seen(snap), c) = Absent
  BY DEF Seen, Get, Absent
<1>5. /\ e.old_data # NoRow => row # NoRow /\ Seen(e.old_data) = Filter(row)
      /\ e.new_data # NoRow => new # NoRow /\ Seen(e.new_data) = Filter(new)
      /\ e.operation = "INSERT" <=> row = NoRow
      /\ e.operation = "DELETE" <=> new = NoRow
  BY DEF Written, Tells
<1>6. c \in DOMAIN e.diff =>
          /\ Paired(e.diff[c]) => e.diff[c].old = Shown(row, c) /\ e.diff[c].new = Shown(new, c)
          /\ ~ Paired(e.diff[c]) => e.diff[c] = Shown(new, c)
  BY DEF Written, Plain
<1>7. OldSideOf(e, c, body) = Absent \/ OldSideOf(e, c, body) = Shown(row, c)
  <2>1. CASE c \in DOMAIN e.diff /\ Paired(e.diff[c])
    BY <1>6, <2>1 DEF OldSideOf, OldValue
  <2>2. CASE ~ (c \in DOMAIN e.diff /\ Paired(e.diff[c]))
    <3>1. OldSideOf(e, c, body) \in {Absent, Get(Seen(e.old_data), c)}
      BY <2>2 DEF OldSideOf, OldValue
    <3>2. Get(Seen(e.old_data), c) = Absent \/ Get(Seen(e.old_data), c) = Shown(row, c)
      BY <1>1, <1>3, <1>4, <1>5
    <3> QED
      BY <3>1, <3>2
  <2> QED
    BY <2>1, <2>2
<1>8. Holds(e, c, new)
  <2>1. CASE c \in DOMAIN e.diff
    <3>1. NewValue(e, c) = Shown(new, c)
      BY <1>6, <2>1 DEF NewValue, NewSide
    <3> QED
      BY <3>1 DEF Holds, Shown
  <2>2. CASE c \notin DOMAIN e.diff /\ e.new_data # NoRow
    <3>1. NewValue(e, c) = Get(Seen(e.new_data), c)
      BY <2>2 DEF NewValue
    <3> QED
      BY <1>1, <1>3, <1>5, <2>2, <3>1 DEF Holds
  <2>3. CASE c \notin DOMAIN e.diff /\ e.new_data = NoRow
    <3>1. NewValue(e, c) = Absent
      BY <1>4, <2>3 DEF NewValue
    <3>2. new = NoRow
      <4> SUFFICES ASSUME new # NoRow PROVE FALSE
        OBVIOUS
      <4>1. e.old_data # NoRow
        BY <2>3 DEF Gives
      <4>2. row # NoRow
        BY <1>5, <4>1
      <4> QED
        BY <2>3, <4>1, <4>2 DEF Written, Current, Old
    <3> QED
      BY <3>1, <3>2 DEF Holds
  <2> QED
    BY <2>1, <2>2, <2>3
<1> QED
  BY <1>2, <1>7, <1>8

(* A column an event does not contribute keeps its value, unless the event *)
(* is of an old release, and then its snapshots show that it did not.      *)
LEMMA UngivenValues ==
    ASSUME NEW e, NEW row, NEW new, Written(e, row, new), NEW body \in Plainly,
           NEW c \in Tracked, c \notin Gives(e, body)
    PROVE  \/ row # NoRow /\ new # NoRow /\ row[c] = new[c]
           \/ body = "diff" /\ c \notin DOMAIN e.diff /\ Get(e.old_data, c) # Get(e.new_data, c)
<1>1. c \notin DOMAIN e.diff /\ row \in AnyRow /\ new \in AnyRow
  BY DEF Gives, Written, Entered
<1>2. CASE Current(e, row, new)
  <2>1. row # NoRow /\ new # NoRow /\ Shown(row, c) = Shown(new, c)
    BY <1>1, <1>2 DEF Current
  <2> QED
    BY <2>1 DEF Shown
<1>3. CASE ~ Current(e, row, new)
  <2>1. Old(e, row, new) /\ row # new
    BY <1>3 DEF Written
  <2>2. e.old_data # NoRow \/ e.new_data # NoRow
    BY <1>1, <2>1 DEF Old
  <2>3. body = "diff"
    BY <2>2 DEF Gives
  <2>4. /\ e.old_data # NoRow <=> row # NoRow
        /\ e.new_data # NoRow <=> new # NoRow
        /\ e.old_data # NoRow => Seen(e.old_data) = Filter(row)
        /\ e.new_data # NoRow => Seen(e.new_data) = Filter(new)
        /\ e.old_data \in SnapshotRow /\ e.new_data \in SnapshotRow
    BY <2>1 DEF Old, Written, Tells, Entered
  <2>5. \A snap \in SnapshotRow : \A r \in AnyRow :
            /\ snap # NoRow /\ r # NoRow /\ Seen(snap) = Filter(r) =>
                  Get(snap, c) = r[c] /\ r[c] # Absent
            /\ snap = NoRow => Get(snap, c) = Absent
    <3> SUFFICES ASSUME NEW snap \in SnapshotRow, NEW r \in Row, snap # NoRow, Seen(snap) = Filter(r)
                 PROVE  Get(snap, c) = r[c] /\ r[c] # Absent
      BY DEF AnyRow, Get
    <3>1. Keys(Seen(snap)) = Tracked /\ Seen(snap)[c] = snap[c] /\ Seen(snap) # NoRow
      BY SeenSnapshot
    <3>2. Filter(r)[c] = r[c] /\ r[c] \in Cell
      BY Filtered
    <3>3. c \in DOMAIN snap
      BY Assumed DEF SnapshotRow, Row
    <3> QED
      BY <3>1, <3>2, <3>3, Assumed DEF Get, Absent
  <2>6. CASE row # NoRow /\ new # NoRow
    BY <1>1, <2>3, <2>4, <2>5, <2>6
  <2>7. CASE ~ (row # NoRow /\ new # NoRow)
    BY <1>1, <2>1, <2>3, <2>4, <2>5, <2>7
  <2> QED
    BY <2>6, <2>7
<1> QED
  BY <1>2, <1>3

(* An event of the current release is whole, and one that lacks snapshots  *)
(* is of the current release.                                              *)
LEMMA AgeOf ==
    ASSUME NEW e, NEW row, NEW new, Entered(e), Tells(e, row, new)
    PROVE  /\ Current(e, row, new) => Whole(e)
           /\ Old(e, row, new) => ~ Lacks(e)
           /\ Current(e, row, new) \/ Old(e, row, new) =>
                 (e.operation = "INSERT" => Gives(e, "unskipped") = Tracked)
<1>1. Current(e, row, new) => Whole(e)
  BY DEF Current, Whole, Entered, Tells
<1>2. Old(e, row, new) => ~ Lacks(e)
  BY DEF Old, Lacks, Entered, Tells
<1>3. Current(e, row, new) /\ e.operation = "INSERT" => Gives(e, "unskipped") = Tracked
  BY DEF Current, Gives, Tells
<1>4. Old(e, row, new) /\ e.operation = "INSERT" => Gives(e, "unskipped") = Tracked
  BY DEF Old, Gives, Tells, Entered
<1> QED
  BY <1>1, <1>2, <1>3, <1>4

(* What two rows with the same tracked columns have in common.             *)
LEMMA FilteredAlike ==
    ASSUME NEW r \in AnyRow, NEW s \in AnyRow
    PROVE  FilterOf(r) = FilterOf(s) <=>
              (r = NoRow <=> s = NoRow) /\ \A c \in Tracked : Shown(r, c) = Shown(s, c)
<1>1. CASE r = NoRow \/ s = NoRow
  BY <1>1, Filtered, NoValues DEF FilterOf, AnyRow
<1>2. CASE r # NoRow /\ s # NoRow
  <2>1. FilterOf(r) = Filter(r) /\ FilterOf(s) = Filter(s) /\ r \in Row /\ s \in Row
    BY <1>2 DEF FilterOf, AnyRow
  <2>2. \A c \in Tracked : Filter(r)[c] = Shown(r, c) /\ Filter(s)[c] = Shown(s, c)
    BY <2>1, Filtered
  <2>3. Filter(r) = Filter(s) <=> \A c \in Tracked : Filter(r)[c] = Filter(s)[c]
    BY DEF Filter
  <2> QED
    BY <1>2, <2>1, <2>2, <2>3
<1> QED
  BY <1>1, <1>2

(* A window stays one as its object is written on through the trigger.     *)
LEMMA WindowAppend ==
    ASSUME NEW S, NEW n \in Nat, Ordered(S), \A f \in S : f.id <= n,
           NEW start \in AnyRow, NEW row, NEW new,
           Window(S, start, row), NEW e, e.id = n + 1, Written(e, row, new),
           (\E f \in S : Lacks(f)) => Current(e, row, new)
    PROVE  Window(S \cup {e}, start, new)
<1> DEFINE T == S \cup {e}
<1>1. /\ e.id \in Nat /\ Ordered(T) /\ e \in T
      /\ \A f \in S : f.id < e.id /\ f.id \in Nat /\ f \in T
      /\ \A f \in T : f.id <= e.id
      /\ e \notin S /\ T # {}
  <2>1. e.id \in Nat /\ \A f \in S : f.id \in Nat /\ f.id < e.id
    BY DEF Ordered
  <2>2. Ordered(T)
    BY <2>1 DEF Ordered
  <2> QED
    BY <2>1, <2>2
<1>2. Earlier(T, e) = S /\ \A f \in S : Earlier(T, f) = Earlier(S, f)
  BY <1>1 DEF Earlier
<1>3. LastEvent(T) = e
  <2> HIDE DEF T
  <2> QED
    BY <1>1, LastIs
<1>4. /\ e.operation = "INSERT" <=> row = NoRow
      /\ e.operation = "DELETE" <=> new = NoRow
      /\ e.old_data # NoRow => row # NoRow /\ Seen(e.old_data) = Filter(row)
      /\ e.new_data # NoRow => new # NoRow /\ Seen(e.new_data) = Filter(new)
      /\ row \in AnyRow /\ new \in AnyRow /\ row # new
  BY DEF Written, Tells
<1>5. Begins(T, start)
  <2>1. CASE S = {}
    <3>1. FirstEvent(T) = e
      <4>1. \A f \in T : e.id <= f.id
        BY <1>1, <2>1
      <4> HIDE DEF T
      <4> QED
        BY <1>1, <4>1, FirstIs
    <3>2. (start = NoRow <=> row = NoRow) /\ FilterOf(row) = FilterOf(start)
      BY <1>4, <2>1, FilteredAlike DEF Window
    <3> QED
      BY <1>4, <3>1, <3>2 DEF Begins, FilterOf
  <2>2. CASE S # {}
    <3>1. FirstEvent(S) \in S /\ \A f \in S : FirstEvent(S).id <= f.id
      BY <1>1, <2>2, FirstEventOf
    <3>2. \A f \in T : FirstEvent(S).id <= f.id
      BY <1>1, <3>1
    <3>3. FirstEvent(T) = FirstEvent(S)
      <4> HIDE DEF T
      <4> QED
        BY <1>1, <3>1, <3>2, FirstIs
    <3> QED
      BY <2>2, <3>3 DEF Window, Begins
  <2> QED
    BY <2>1, <2>2
<1>6. Ends(T, new)
  BY <1>3, <1>4 DEF Ends
<1>7. ASSUME NEW f \in T
      PROVE  Alternates(T, f)
  <2>1. CASE f = e
    BY <1>2, <1>4, <2>1 DEF Alternates, Window, Ends
  <2>2. CASE f \in S
    BY <1>2, <2>2 DEF Alternates, Window
  <2> QED
    BY <2>1, <2>2
<1>11. ASSUME NEW body \in Plainly, Spoken(T, body)
       PROVE  Spoken(S, body)
  BY <1>1, <1>2, <1>11 DEF Spoken, Silent
<1>8. ASSUME NEW body \in Plainly, Spoken(T, body), NEW c \in Tracked, Told(T, c, body) # {}
      PROVE  Holds(LastEvent(Told(T, c, body)), c, new)
  <2>1. CASE c \in Gives(e, body)
    <3>1. e \in Told(T, c, body)
      BY <1>1, <2>1 DEF Told
    <3>2. Ordered(Told(T, c, body)) /\ \A f \in Told(T, c, body) : f.id <= e.id
      BY <1>1 DEF Told, Ordered
    <3>3. LastEvent(Told(T, c, body)) = e
      BY <3>1, <3>2, LastIs
    <3> QED
      BY <2>1, <3>3, WrittenValues
  <2>2. CASE c \notin Gives(e, body)
    <3>1. Told(T, c, body) = Told(S, c, body)
      BY <2>2 DEF Told
    <3>2. Holds(LastEvent(Told(S, c, body)), c, row)
      BY <1>8, <1>11, <3>1 DEF Window
    <3>3. row # NoRow /\ new # NoRow /\ row[c] = new[c]
      <4> SUFFICES ASSUME body = "diff", c \notin DOMAIN e.diff, Get(e.old_data, c) # Get(e.new_data, c)
                   PROVE  FALSE
        BY <2>2, UngivenValues
      <4>1. PICK f \in S : c \in DOMAIN f.diff
        BY <1>8, <3>1 DEF Told, Gives
      <4>2. Silent(T, e)
        BY <1>2, <4>1 DEF Silent
      <4> QED
        BY <1>1, <1>8, <4>2 DEF Spoken
    <3> QED
      BY <3>1, <3>2, <3>3 DEF Holds
  <2> QED
    BY <2>1, <2>2
<1>9. ASSUME NEW body \in Plainly, Spoken(T, body), NEW f \in T, NEW c \in Gives(f, body)
      PROVE  Continues(T, f, c, body)
  <2>1. CASE f \in S
    BY <1>2, <1>9, <1>11, <2>1 DEF Continues, Window
  <2>2. CASE f = e
    <3> SUFFICES ASSUME Told(S, c, body) # {}
                 PROVE  LET previous == NewValue(LastEvent(Told(S, c, body)), c)
                        IN  previous = Absent \/ OldSideOf(e, c, body) \in {Absent, previous}
      BY <1>2, <2>2 DEF Continues
    <3>1. /\ c \in Tracked
          /\ OldSideOf(e, c, body) = Absent \/ OldSideOf(e, c, body) = Shown(row, c)
      BY <1>9, <2>2, WrittenValues
    <3>2. Holds(LastEvent(Told(S, c, body)), c, row)
      BY <1>9, <1>11, <3>1 DEF Window
    <3> QED
      BY <3>1, <3>2 DEF Holds, Shown
  <2> QED
    BY <2>1, <2>2
<1>10. ASSUME Lacks(FirstEvent(T))
       PROVE  WasRow(T, new, start)
  <2>1. Current(e, row, new) /\ WasRow(S, row, start)
    <3>1. CASE S = {}
      <4>1. FirstEvent(T) = e
        BY <1>1, <3>1 DEF FirstEvent
      <4>2. Current(e, row, new)
        BY <1>10, <4>1, AgeOf DEF Written
      <4>3. \A c \in Tracked : ValueOf(row, c) = ValueOf(start, c)
        BY <1>4, <3>1, FilteredAlike DEF Window, Shown, ValueOf
      <4> QED
        BY <3>1, <4>2, <4>3, WasRowNow DEF WasRow
    <3>2. CASE S # {}
      <4>1. FirstEvent(S) \in S /\ \A f \in S : FirstEvent(S).id <= f.id
        BY <1>1, <3>2, FirstEventOf
      <4>2. \A f \in T : FirstEvent(S).id <= f.id
        BY <1>1, <4>1
      <4>3. FirstEvent(T) = FirstEvent(S)
        <5> HIDE DEF T
        <5> QED
          BY <1>1, <4>1, <4>2, FirstIs
      <4> QED
        BY <1>10, <3>2, <4>1, <4>3 DEF Window
    <3> QED
      BY <3>1, <3>2
  <2>2. Changes(e, row, new)
    <3> SUFFICES ASSUME NEW c \in Tracked
                 PROVE  /\ c \in DOMAIN e.diff => /\ OldOf(e, c) = ValueOf(row, c)
                                                  /\ NewOf(e, c) = ValueOf(new, c)
                        /\ c \notin DOMAIN e.diff => ValueOf(new, c) = ValueOf(row, c)
                        /\ e.old_data # NoRow => e.old_data[c] = ValueOf(row, c)
                        /\ e.new_data # NoRow => e.new_data[c] = ValueOf(new, c)
      BY DEF Changes
    <3>0. \A r : r # NoRow => ValueOf(r, c) = r[c] /\ Shown(r, c) = r[c]
      BY DEF ValueOf, Shown
    <3>1. c \in DOMAIN e.diff => OldOf(e, c) = ValueOf(row, c) /\ NewOf(e, c) = ValueOf(new, c)
      <4>1. c \in DOMAIN e.diff => e.diff[c].old = Shown(row, c) /\ e.diff[c].new = Shown(new, c)
        BY <2>1 DEF Current, Written, Plain
      <4> QED
        BY <1>4, <3>0, <4>1, NoValues DEF OldOf, NewOf
    <3>2. c \notin DOMAIN e.diff => ValueOf(new, c) = ValueOf(row, c)
      <4>1. c \notin DOMAIN e.diff => row # NoRow /\ new # NoRow /\ Shown(row, c) = Shown(new, c)
        BY <2>1 DEF Current
      <4> QED
        BY <3>0, <4>1
    <3>3. e.old_data \in SnapshotRow /\ e.new_data \in SnapshotRow
      BY DEF Written, Entered
    <3>4. \A snap \in SnapshotRow : \A r \in AnyRow :
              snap # NoRow /\ r # NoRow /\ Seen(snap) = Filter(r) => snap[c] = ValueOf(r, c)
      <4> SUFFICES ASSUME NEW snap \in SnapshotRow, NEW r \in Row, snap # NoRow, r # NoRow,
                          Seen(snap) = Filter(r)
                   PROVE  snap[c] = ValueOf(r, c)
        BY DEF AnyRow
      <4>1. Seen(snap)[c] = snap[c]
        BY SeenSnapshot
      <4>2. Filter(r)[c] = r[c] /\ ValueOf(r, c) = r[c]
        BY Filtered
      <4> QED
        BY <4>1, <4>2
    <3> QED
      BY <1>4, <3>1, <3>2, <3>3, <3>4
  <2> QED
    BY <1>1, <2>1, <2>2, WasRowAppend
<1> QED
  BY <1>1, <1>5, <1>6, <1>7, <1>8, <1>9, <1>10 DEF Window

(* Before any event, the row is what it was.                               *)
LEMMA WindowEmpty == \A row : Window({}, row, row)
<1>1. \A c, body : Told({}, c, body) = {}
  BY DEF Told
<1> QED
  BY <1>1, WasRowNow DEF Window

(* Rows with the same tracked columns are the same to a window.            *)
LEMMA WindowSame ==
    ASSUME NEW S, NEW start \in AnyRow, NEW row \in AnyRow, NEW new \in AnyRow,
           Window(S, start, row), FilterOf(row) = FilterOf(new)
    PROVE  Window(S, start, new)
<1>1. (row = NoRow <=> new = NoRow) /\ \A c \in Tracked : Shown(row, c) = Shown(new, c)
  BY FilteredAlike
<1>2. row # NoRow => Filter(row) = Filter(new)
  BY <1>1 DEF FilterOf
<1>3. \A e, c : c \in Tracked => (Holds(e, c, row) <=> Holds(e, c, new))
  BY <1>1 DEF Holds, Shown
<1>4. WasRow(S, row, start) => WasRow(S, new, start)
  <2>1. \A c \in Tracked : ValueOf(row, c) = ValueOf(new, c)
    BY <1>1 DEF Shown, ValueOf
  <2> QED
    BY <2>1, WasRowSame
<1>5. S # {} /\ Ends(S, row) => Ends(S, new)
  BY <1>1, <1>2 DEF Ends
<1> QED
  BY <1>3, <1>4, <1>5 DEF Window

------------------------------------------------------------------------------
(* Logs with a finding *)

(* Verify has a finding about an object with the events U and the row row. *)
Flagged(U, row) ==
    \/ \E e \in U : ~ Alternates(U, e)
    \/ \E e \in U : \E c \in Gives(e, "unskipped") : ~ Continues(U, e, c, "unskipped")
    \/ U # {} /\ (LastEvent(U).operation = "DELETE" <=> row # NoRow)
    \/ /\ row # NoRow
       /\ \E c \in Tracked : /\ Told(U, c, "unskipped") # {}
                             /\ NewValue(LastEvent(Told(U, c, "unskipped")), c) \notin {row[c], Absent}

(* Writing on through the trigger never makes a finding go away.           *)
LEMMA FlaggedAppend ==
    ASSUME NEW U, NEW n \in Nat, Ordered(U), \A f \in U : f.id <= n, NEW row, NEW new,
           Flagged(U, row), NEW e, e.id = n + 1, Written(e, row, new)
    PROVE  Flagged(U \cup {e}, new)
<1> DEFINE T == U \cup {e}
<1>1. /\ e.id \in Nat /\ e \in T
      /\ \A f \in U : f.id < e.id /\ f.id \in Nat /\ f \in T
  <2>1. e.id \in Nat /\ \A f \in U : f.id \in Nat /\ f.id < e.id
    BY DEF Ordered
  <2> QED
    BY <2>1
<1>2. Earlier(T, e) = U /\ \A f \in U : Earlier(T, f) = Earlier(U, f)
  BY <1>1 DEF Earlier
<1>3. /\ e.operation = "INSERT" <=> row = NoRow
      /\ e.operation = "DELETE" <=> new = NoRow
      /\ e.old_data # NoRow => row # NoRow /\ Seen(e.old_data) = Filter(row)
      /\ row \in AnyRow /\ new \in AnyRow
      /\ e.old_data \in SnapshotRow /\ DOMAIN e.diff \subseteq Tracked
      /\ \A d \in DOMAIN e.diff : e.diff[d] \in Val \cup PairedEntry
  BY DEF Written, Tells, Entered
<1>4. ASSUME NEW f \in U, ~ Alternates(U, f)
      PROVE  Flagged(T, new)
  BY <1>1, <1>2, <1>4 DEF Alternates, Flagged
<1>5. ASSUME NEW f \in U, NEW c \in Gives(f, "unskipped"), ~ Continues(U, f, c, "unskipped")
      PROVE  Flagged(T, new)
  BY <1>1, <1>2, <1>5 DEF Continues, Flagged
<1>6. ASSUME U # {}, LastEvent(U).operation = "DELETE" <=> row # NoRow
      PROVE  Flagged(T, new)
  <2>1. ~ Alternates(T, e)
    BY <1>2, <1>3, <1>6 DEF Alternates
  <2> QED
    BY <1>1, <2>1 DEF Flagged
<1>7. ASSUME row # NoRow, NEW c \in Tracked, Told(U, c, "unskipped") # {},
             NewValue(LastEvent(Told(U, c, "unskipped")), c) \notin {row[c], Absent}
      PROVE  Flagged(T, new)
  <2>0. row \in Row /\ row[c] \in Cell /\ row[c] # Absent /\ Filter(row)[c] = row[c]
        /\ Shown(row, c) = row[c]
    BY <1>3, <1>7, Filtered, ChainAssumed DEF AnyRow, Absent
  <2>1. CASE c \in Gives(e, "unskipped")
    <3>1. c \in DOMAIN e.diff /\ Paired(e.diff[c]) => OldSideOf(e, c, "unskipped") = row[c]
      BY <2>0 DEF OldSideOf, OldValue, Written, Plain
    <3>2. ASSUME ~ (c \in DOMAIN e.diff /\ Paired(e.diff[c]))
          PROVE  OldSideOf(e, c, "unskipped") = row[c]
      <4>1. e.old_data # NoRow
        <5>1. CASE Current(e, row, new)
          <6>1. c \notin DOMAIN e.diff
            BY <3>2, <5>1 DEF Current
          <6>2. new # NoRow
            BY <5>1, <6>1 DEF Current
          <6>3. ~ (e.old_data = NoRow /\ e.new_data = NoRow)
            BY <2>1, <6>1 DEF Gives
          <6> QED
            BY <1>7, <5>1, <6>2, <6>3 DEF Current
        <5>2. CASE Old(e, row, new)
          BY <1>7, <5>2 DEF Old
        <5> QED
          BY <5>1, <5>2 DEF Written
      <4>2. Seen(e.old_data) = Filter(row) /\ Keys(Seen(e.old_data)) = Tracked /\ Seen(e.old_data) # NoRow
        BY <1>3, <4>1, SeenSnapshot
      <4>3. Get(Seen(e.old_data), c) = row[c]
        BY <2>0, <4>2 DEF Get, Keys
      <4> QED
        BY <3>2, <4>3 DEF OldSideOf, OldValue
    <3>3. OldSideOf(e, c, "unskipped") = row[c]
      BY <3>1, <3>2
    <3>4. ~ Continues(T, e, c, "unskipped")
      BY <1>2, <1>7, <2>0, <3>3 DEF Continues
    <3> QED
      BY <1>1, <2>1, <3>4 DEF Flagged
  <2>2. CASE c \notin Gives(e, "unskipped")
    <3>1. new # NoRow /\ row[c] = new[c]
      BY <2>2, UngivenValues DEF Plainly
    <3>2. Told(T, c, "unskipped") = Told(U, c, "unskipped")
      BY <2>2 DEF Told
    <3> QED
      BY <1>7, <3>1, <3>2 DEF Flagged
  <2> QED
    BY <2>1, <2>2
<1> QED
  BY <1>4, <1>5, <1>6, <1>7 DEF Flagged

(* A write past the trigger that changes a tracked column is a finding, of *)
(* an object whose log is a window and tells of every column.              *)
LEMMA BypassFlags ==
    ASSUME NEW U, U # {}, NEW start, NEW row \in AnyRow, NEW new \in AnyRow,
           Window(U, start, row), FilterOf(row) # FilterOf(new),
           NEW first \in U, Gives(first, "unskipped") = Tracked
    PROVE  Flagged(U, new)
<1>1. Ends(U, row)
  BY DEF Window
<1>2. CASE row = NoRow <=> new # NoRow
  <2>1. LastEvent(U).operation = "DELETE" <=> new # NoRow
    BY <1>1, <1>2 DEF Ends
  <2> QED
    BY <2>1 DEF Flagged
<1>3. CASE row # NoRow /\ new # NoRow
  <2>1. PICK c \in Tracked : Shown(row, c) # Shown(new, c)
    BY <1>3, FilteredAlike
  <2>2. Told(U, c, "unskipped") # {}
    BY DEF Told
  <2>3. NewValue(LastEvent(Told(U, c, "unskipped")), c) = row[c]
    BY <1>3, <2>2 DEF Window, Plainly, Spoken, Holds
  <2>4. row[c] # new[c] /\ row[c] # Absent
    BY <1>3, <2>1, Filtered, ChainAssumed DEF Shown, AnyRow, Absent
  <2> QED
    BY <1>3, <2>2, <2>3, <2>4 DEF Flagged
<1>4. CASE row = NoRow /\ new = NoRow
  BY <1>4
<1> QED
  BY <1>2, <1>3, <1>4

------------------------------------------------------------------------------
(* What the log and the past have in common *)

Since(A, o, at) == {e \in Of(A, o) : e.changed_at >= at}

Aged ==
    /\ release \in Releases
    /\ \A e \in audit : Lacks(e) => release = "current"
    /\ \A e, f \in audit : Lacks(e) /\ e.id <= f.id => Whole(f)
    /\ \A e \in audit : e.operation = "INSERT" => Gives(e, "unskipped") = Tracked

Times ==
    /\ begun = [t \in Txn |-> 0]
    /\ past \subseteq [rows : [Obj -> AnyRow], at : 1..clock, calm : BOOLEAN]
    /\ \E s \in past : s.calm /\ s.at = 1
    /\ \A s, r \in past : s.at = 1 /\ r.at = 1 => s.rows = r.rows
    /\ \A s \in past : s.calm =>
          \A e, f \in audit : e.changed_at < s.at /\ f.changed_at >= s.at => e.id < f.id

Windows ==
    \A s \in past : s.calm /\ s.at >= cutoff =>
        \A o \in Obj : bypassed[o] = 0 =>
            Window(Since(audit, o, s.at), s.rows[o], live[o])

ShapeKept == Basis /\ Aged /\ Times /\ Windows

(* Before any event every window is empty.                                 *)
LEMMA KeptInit == RetentionInit => ShapeKept
<1> SUFFICES ASSUME RetentionInit PROVE ShapeKept
  OBVIOUS
<1>1. /\ live \in [Obj -> Row \cup {NoRow}] /\ audit = {} /\ begun = [t \in Txn |-> 0] /\ clock = 1
      /\ past = {[rows |-> live, at |-> 1, calm |-> TRUE]}
      /\ release = CHOOSE r \in Releases : \A s \in Releases : Rank[r] <= Rank[s]
  BY DEF RetentionInit, ChainInit
<1>2. release \in Releases
  BY FirstRelease DEF RetentionInit
<1>3. Aged
  BY <1>1, <1>2 DEF Aged
<1>4. Times
  BY <1>1 DEF Times, AnyRow
<1>5. Windows
  <2>1. \A o, at : Since(audit, o, at) = {}
    BY <1>1 DEF Since, Of
  <2> QED
    BY <1>1, <2>1, WindowEmpty DEF Windows
<1> QED
  BY <1>3, <1>4, <1>5, BasisStart DEF ShapeKept

(* Steps that leave the table, the log and the past alone, or purge.       *)
LEMMA KeptFrame ==
    ASSUME ShapeKept, Basis', UNCHANGED <<live, release, begun, clock, past, bypassed>>,
           audit' \subseteq audit, cutoff' >= cutoff,
           \A e \in audit \ audit' : e.changed_at < cutoff'
    PROVE  ShapeKept'
<1>1. Aged'
  BY DEF ShapeKept, Aged
<1>2. Times'
  BY DEF ShapeKept, Times
<1>3. Windows'
  <2> SUFFICES ASSUME NEW s \in past, s.calm, s.at >= cutoff', NEW o \in Obj, bypassed[o] = 0
               PROVE  Window(Since(audit', o, s.at), s.rows[o], live[o])
    BY DEF Windows
  <2>1. s.at \in Nat /\ cutoff \in Nat /\ cutoff' \in Nat
    BY BasisFacts DEF ShapeKept, Times, Basis
  <2>2. Since(audit', o, s.at) = Since(audit, o, s.at)
    <3>1. \A e \in audit : e.changed_at \in Nat
      BY BasisFacts DEF ShapeKept
    <3>2. \A e \in audit : e.changed_at >= s.at => e \in audit'
      BY <2>1, <3>1
    <3> QED
      BY <3>2 DEF Since, Of
  <2>3. Window(Since(audit, o, s.at), s.rows[o], live[o])
    BY <2>1 DEF ShapeKept, Windows
  <2> QED
    BY <2>2, <2>3
<1> QED
  BY <1>1, <1>2, <1>3 DEF ShapeKept

(* A new instant opens a window that is still empty.                       *)
LEMMA KeptTick ==
    ASSUME ShapeKept, Basis', Tick, UNCHANGED <<release, bypassed>>
    PROVE  ShapeKept'
<1>1. /\ clock' = clock + 1 /\ past' = past \cup {[rows |-> live, at |-> clock', calm |-> Calm]}
      /\ UNCHANGED <<live, audit, begun, cutoff>>
  BY DEF Tick, Record
<1>2. Calm
  BY DEF ShapeKept, Times, Calm, Open
<1>3. clock \in Nat /\ live \in [Obj -> AnyRow] /\ clock >= 1
  BY BasisFacts DEF ShapeKept, Basis
<1>4. \A e \in audit : e.changed_at \in Nat /\ e.changed_at < clock'
  BY <1>1, <1>3, BasisFacts DEF ShapeKept, Basis
<1>5. Aged'
  BY <1>1 DEF ShapeKept, Aged
<1> DEFINE now == [rows |-> live, at |-> clock', calm |-> TRUE]
<1>6. past' = past \cup {now} /\ now.rows = live /\ now.at = clock + 1
  BY <1>1, <1>2
<1>7. Times'
  <2>1. past' \subseteq [rows : [Obj -> AnyRow], at : 1..clock', calm : BOOLEAN]
    <3>1. now \in [rows : [Obj -> AnyRow], at : 1..clock', calm : BOOLEAN]
      BY <1>1, <1>3
    <3>2. past \subseteq [rows : [Obj -> AnyRow], at : 1..clock', calm : BOOLEAN]
      BY <1>1, <1>3 DEF ShapeKept, Times
    <3> HIDE DEF now
    <3> QED
      BY <1>6, <3>1, <3>2
  <2>2. \A e \in audit : ~ (e.changed_at >= now.at)
    BY <1>1, <1>3, <1>4, <1>6
  <2> HIDE DEF now
  <2>3. \A s \in past' : s.calm =>
            \A e, f \in audit : e.changed_at < s.at /\ f.changed_at >= s.at => e.id < f.id
    BY <1>6, <2>2 DEF ShapeKept, Times
  <2>4. \E s \in past' : s.calm /\ s.at = 1
    BY <1>6 DEF ShapeKept, Times
  <2>5. begun' = [t \in Txn |-> 0]
    BY <1>1 DEF ShapeKept, Times
  <2>6. \A s, r \in past' : s.at = 1 /\ r.at = 1 => s.rows = r.rows
    <3>1. now.at # 1
      BY <1>3, <1>6
    <3> QED
      BY <1>6, <3>1 DEF ShapeKept, Times
  <2> QED
    BY <1>1, <2>1, <2>3, <2>4, <2>5, <2>6 DEF Times
<1>8. Windows'
  <2> SUFFICES ASSUME NEW s \in past', s.calm, s.at >= cutoff, NEW o \in Obj, bypassed[o] = 0
               PROVE  Window(Since(audit, o, s.at), s.rows[o], live[o])
    BY <1>1 DEF Windows
  <2>1. CASE s \in past
    BY <2>1 DEF ShapeKept, Windows
  <2>2. CASE s = now
    <3>1. Since(audit, o, s.at) = {}
      BY <1>1, <1>3, <1>4, <2>2 DEF Since, Of
    <3>2. s.rows[o] = live[o]
      BY <2>2
    <3> QED
      BY <3>1, <3>2, WindowEmpty
  <2> QED
    BY <1>6, <2>1, <2>2
<1> QED
  BY <1>5, <1>7, <1>8 DEF ShapeKept

(* A write past the trigger exempts its object.                            *)
LEMMA KeptBypass ==
    ASSUME ShapeKept, Basis', NEW o \in Obj, NEW new, Bypass(o, new)
    PROVE  ShapeKept'
<1>1. /\ live' = [live EXCEPT ![o] = new] /\ bypassed' = [bypassed EXCEPT ![o] = @ + 1]
      /\ UNCHANGED <<begun, audit, clock, cutoff, past, release>>
  BY DEF Bypass, unused
<1>2. Aged' /\ Times'
  BY <1>1 DEF ShapeKept, Aged, Times
<1>3. Windows'
  <2> SUFFICES ASSUME NEW s \in past, s.calm, s.at >= cutoff, NEW p \in Obj, bypassed'[p] = 0
               PROVE  Window(Since(audit, p, s.at), s.rows[p], live'[p])
    BY <1>1 DEF Windows
  <2>1. p # o
    <3>1. bypassed'[o] = bypassed[o] + 1 /\ bypassed[o] \in Nat
      BY <1>1 DEF ShapeKept, Basis
    <3> QED
      BY <3>1
  <2>2. bypassed[p] = 0 /\ live'[p] = live[p]
    BY <1>1, <2>1 DEF ShapeKept, Basis
  <2> QED
    BY <2>2 DEF ShapeKept, Windows
<1> QED
  BY <1>2, <1>3 DEF ShapeKept

(* An audited write extends the windows that began before its transaction. *)
LEMMA KeptAudited ==
    ASSUME Distinguishable, ShapeKept, Basis',
           NEW o \in Obj, NEW new \in AnyRow, NEW at \in 1..clock, Audited(o, new, at)
    PROVE  ShapeKept'
<1> DEFINE row == live[o]
<1>1. PICK e :
              /\ e.id = idSeq + 1 /\ e.changed_at = at /\ e.object_id = o
              /\ Entered(e) /\ Tells(e, live[o], new)
              /\ release # "0.3" \/ Val \cap PairedEntry = {} => Plain(e, live[o], new)
              /\ release = "current" => Current(e, live[o], new)
              /\ release # "current" => Old(e, live[o], new)
              /\ audit' = audit \cup {e} /\ idSeq' = idSeq + 1
              /\ live' = [live EXCEPT ![o] = new]
              /\ LongTransaction(at)
              /\ UNCHANGED <<storage, clock, cutoff, release, bypassed>>
  BY AuditedFacts DEF ShapeKept
<1>2. Plain(e, row, new)
  BY <1>1 DEF ShapeKept, Aged, Distinguishable
<1>3. row \in AnyRow /\ row # new /\ begun' = begun
  BY BasisFacts DEF ShapeKept, Audited, unused
<1>4. idSeq \in Nat /\ at \in Nat /\ clock \in Nat /\ \A f \in audit :
          /\ f.id \in Nat /\ f.id <= idSeq /\ f.id < e.id /\ f.changed_at \in Nat
  BY <1>1, BasisFacts DEF ShapeKept, Basis
<1>5. Aged'
  <2>1. Current(e, row, new) => Whole(e)
    BY <1>1, AgeOf
  <2>2. Old(e, row, new) => ~ Lacks(e)
    BY <1>1, AgeOf
  <2>3. \A f \in audit' : Lacks(f) => release = "current"
    BY <1>1, <2>2 DEF ShapeKept, Aged
  <2>4. ASSUME NEW f \in audit', NEW g \in audit', Lacks(f), f.id <= g.id
        PROVE  Whole(g)
    <3>1. CASE g = e
      BY <1>1, <2>1, <2>3, <2>4, <3>1
    <3>2. CASE g \in audit /\ f \in audit
      BY <2>4, <3>2 DEF ShapeKept, Aged
    <3>3. CASE g \in audit /\ f = e
      BY <1>1, <1>4, <2>4, <3>3
    <3> QED
      BY <1>1, <3>1, <3>2, <3>3
  <2>5. e.operation = "INSERT" => Gives(e, "unskipped") = Tracked
    BY <1>1, AgeOf
  <2> QED
    BY <1>1, <2>3, <2>4, <2>5 DEF ShapeKept, Aged
<1>6. \A s \in past' : \E r \in past :
          /\ s.rows = r.rows /\ s.at = r.at /\ s.calm = (r.calm /\ r.at <= at)
          /\ s \in [rows : [Obj -> AnyRow], at : 1..clock, calm : BOOLEAN]
  <2>1. past' = {[s EXCEPT !.calm = s.calm /\ s.at <= at] : s \in past}
    BY <1>1 DEF LongTransaction
  <2>2. past \subseteq [rows : [Obj -> AnyRow], at : 1..clock, calm : BOOLEAN]
    BY DEF ShapeKept, Times
  <2> SUFFICES ASSUME NEW r \in past
               PROVE  LET s == [r EXCEPT !.calm = r.calm /\ r.at <= at]
                      IN  /\ s.rows = r.rows /\ s.at = r.at /\ s.calm = (r.calm /\ r.at <= at)
                          /\ s \in [rows : [Obj -> AnyRow], at : 1..clock, calm : BOOLEAN]
    BY <2>1
  <2> QED
    BY <2>2
<1>7. \A s \in past' : s.calm => s.at <= at /\ \E r \in past : r.calm /\ s.rows = r.rows /\ s.at = r.at
  BY <1>6
<1>8. Times'
  <2>1. begun' = [t \in Txn |-> 0]
    BY <1>3 DEF ShapeKept, Times
  <2>2. past' \subseteq [rows : [Obj -> AnyRow], at : 1..clock', calm : BOOLEAN]
    BY <1>1, <1>6
  <2>3. \E s \in past' : s.calm /\ s.at = 1
    <3>1. PICK r \in past : r.calm /\ r.at = 1
      BY DEF ShapeKept, Times
    <3>2. [r EXCEPT !.calm = r.calm /\ r.at <= at] \in past'
      BY <1>1 DEF LongTransaction
    <3>3. r \in [rows : [Obj -> AnyRow], at : 1..clock, calm : BOOLEAN]
      BY DEF ShapeKept, Times
    <3>4. 1 <= at
      OBVIOUS
    <3> QED
      BY <3>1, <3>2, <3>3, <3>4
  <2>4. ASSUME NEW s \in past', s.calm, NEW f \in audit', NEW g \in audit',
               f.changed_at < s.at, g.changed_at >= s.at
        PROVE  f.id < g.id
    <3>1. PICK r \in past : r.calm /\ s.at = r.at
      BY <1>7, <2>4
    <3>2. s.at <= at /\ s.at \in Nat
      BY <1>6, <1>7, <2>4
    <3>3. f # e
      BY <1>1, <1>4, <2>4, <3>2
    <3>4. CASE g = e
      BY <1>1, <1>4, <3>3, <3>4
    <3>5. CASE g \in audit
      BY <1>1, <2>4, <3>1, <3>3, <3>5 DEF ShapeKept, Times
    <3> QED
      BY <1>1, <3>4, <3>5
  <2>5. \A s, r \in past' : s.at = 1 /\ r.at = 1 => s.rows = r.rows
    BY <1>6 DEF ShapeKept, Times
  <2> QED
    BY <2>1, <2>2, <2>3, <2>4, <2>5 DEF Times
<1>9. Windows'
  <2> SUFFICES ASSUME NEW s \in past', s.calm, s.at >= cutoff, NEW p \in Obj, bypassed'[p] = 0
               PROVE  Window(Since(audit', p, s.at), s.rows[p], live'[p])
    BY <1>1 DEF Windows
  <2>1. PICK r \in past : r.calm /\ s.rows = r.rows /\ s.at = r.at /\ s.at <= at
    BY <1>7
  <2>2. CASE p # o
    <3>1. Since(audit', p, s.at) = Since(audit, p, s.at)
      BY <1>1, <2>2 DEF Since, Of
    <3>2. bypassed[p] = 0 /\ live'[p] = live[p]
      BY <1>1, <2>2 DEF ShapeKept, Basis
    <3> QED
      BY <2>1, <3>1, <3>2 DEF ShapeKept, Windows
  <2>3. CASE p = o
    <3>3. bypassed[o] = 0
      BY <1>1, <2>3
    <3>5. Written(e, row, new)
      BY <1>1, <1>2, <1>3 DEF Written
    <3> DEFINE S == Since(audit, o, r.at)
    <3>6. Window(S, r.rows[o], row)
      BY <2>1, <3>3 DEF ShapeKept, Windows
    <3>7. /\ Ordered(S) /\ \A f \in S : f \in audit /\ f.id <= idSeq
      BY <1>4, BasisFacts DEF Since, Of, Ordered, ShapeKept
    <3>8. Since(audit', o, r.at) = S \cup {e}
      <4>1. e.changed_at >= r.at
        BY <1>1, <1>4, <1>6, <2>1
      <4> QED
        BY <1>1, <4>1 DEF Since, Of
    <3>9. (\E f \in S : Lacks(f)) => Current(e, row, new)
      BY <1>1, <3>7 DEF ShapeKept, Aged
    <3>12. r.rows[o] \in AnyRow
      BY DEF ShapeKept, Times
    <3> HIDE DEF S
    <3>10. Window(S \cup {e}, r.rows[o], new)
      BY <1>1, <1>4, <3>5, <3>6, <3>7, <3>9, <3>12, WindowAppend
    <3>11. live'[o] = new
      BY <1>1 DEF ShapeKept, Basis
    <3> QED
      BY <2>1, <2>3, <3>8, <3>10, <3>11
  <2> QED
    BY <2>2, <2>3
<1> QED
  BY <1>5, <1>8, <1>9 DEF ShapeKept

(* Every step keeps the shape of the log.                                  *)
LEMMA KeptStep ==
    ASSUME Distinguishable
    PROVE  ShapeKept /\ [RetentionNext]_retentionVars => ShapeKept'
<1> SUFFICES ASSUME ShapeKept, [RetentionNext]_retentionVars PROVE ShapeKept'
  OBVIOUS
<1>0. Basis' /\ cutoff \in Nat /\ \A e \in audit : e.changed_at \in Nat
  BY BasisStep, BasisFacts DEF ShapeKept, Basis
<1>1. ASSUME UNCHANGED <<live, audit, release, begun, clock, cutoff, past, bypassed>>
      PROVE  ShapeKept'
  <2>1. cutoff' >= cutoff /\ audit' = audit
    BY <1>0, <1>1
  <2> QED
    BY <1>0, <1>1, <2>1, KeptFrame
<1>2. CASE UNCHANGED retentionVars
  BY <1>1, <1>2 DEF retentionVars, chainVars, vars
<1>3. CASE Tick /\ UNCHANGED <<release, ghosts, parts>>
  BY <1>0, <1>3, KeptTick DEF ghosts
<1>4. ASSUME NEW o \in Obj, NEW new \in AnyRow, Bypass(o, new)
      PROVE  ShapeKept'
  BY <1>0, <1>4, KeptBypass
<1>5. ASSUME NEW o \in Obj, NEW new \in AnyRow, NEW at \in 1..clock, Audited(o, new, at)
      PROVE  ShapeKept'
  BY <1>0, <1>5, KeptAudited
<1>6. ASSUME NEW r \in Releases, Upgrade(r)
      PROVE  ShapeKept'
  <2>1. Rank[release] < Rank[r] /\ release' = r
    BY <1>6 DEF Upgrade
  <2>2. UNCHANGED <<live, audit, begun, clock, cutoff, past, bypassed>>
    BY <1>6 DEF Upgrade, vars, ghosts
  <2>3. release # "current"
    <3>1. r \in {"0.3", "0.6.1", "current"}
      BY Ranks, DiffChainAssumption
    <3> QED
      BY <2>1, <3>1, Ranks
  <2>4. Aged'
    BY <2>1, <2>2, <2>3 DEF ShapeKept, Aged
  <2>5. Times' /\ Windows'
    BY <2>2 DEF ShapeKept, Times, Windows
  <2> QED
    BY <1>0, <2>4, <2>5 DEF ShapeKept
<1>7. ASSUME NEW mode \in Modes, SwitchStorage(mode)
      PROVE  ShapeKept'
  BY <1>1, <1>7 DEF SwitchStorage, SetStorage, ghosts
<1>8. ASSUME NEW at \in 2..clock, Purge(at), UNCHANGED <<release, ghosts, parts>>
      PROVE  ShapeKept'
  <2>1. /\ audit' = {e \in audit : e.changed_at >= at} /\ cutoff' = at /\ at > cutoff
        /\ UNCHANGED <<live, release, begun, clock, past, bypassed>>
    BY <1>8 DEF Purge, ghosts
  <2>2. /\ audit' \subseteq audit /\ cutoff' >= cutoff
        /\ \A e \in audit \ audit' : e.changed_at < cutoff'
    BY <1>0, <2>1
  <2> QED
    BY <1>0, <2>1, <2>2, KeptFrame
<1>9. ASSUME NEW months \in MonthsAhead, CreatePartitions(months)
      PROVE  ShapeKept'
  BY <1>1, <1>9 DEF CreatePartitions, chainVars, vars
<1>10. ASSUME NEW at \in 2..clock, DropOldPartitions(at)
      PROVE  ShapeKept'
  <2>1. /\ audit' = {e \in audit : e.changed_at \notin {m \in parts : m + 1 <= at}}
        /\ cutoff' = IF at > cutoff THEN at ELSE cutoff
        /\ UNCHANGED <<live, release, begun, clock, past, bypassed>>
    BY <1>10 DEF DropOldPartitions, ghosts
  <2>2. /\ audit' \subseteq audit /\ cutoff' >= cutoff
        /\ \A e \in audit \ audit' : e.changed_at < cutoff'
    BY <1>0, <2>1
  <2> QED
    BY <1>0, <2>1, <2>2, KeptFrame
<1> QED
  BY <1>2, <1>3, <1>4, <1>5, <1>6, <1>7, <1>8, <1>9, <1>10
     DEF RetentionNext, ChainNext, PurgeStep, AnyRow

(* What every reachable log, table and past have in common.                *)
LEMMA RetentionInvariant == ASSUME Distinguishable PROVE RetentionSpec => []ShapeKept
BY KeptInit, KeptStep, PTL DEF RetentionSpec

------------------------------------------------------------------------------
(* What was not bypassed *)

(* After a calm cutoff the events of an object are one window.             *)
LEMMA WholeLog ==
    ASSUME ShapeKept, CalmCutoff, NEW o \in Obj, bypassed[o] = 0
    PROVE  \E start \in AnyRow : Window(Of(audit, o), start, live[o])
<1>1. PICK s \in past : s.calm /\ s.at >= cutoff /\ \A e \in audit : e.changed_at >= s.at
  <2>1. CASE cutoff = 0
    <3>1. PICK s \in past : s.calm /\ s.at = 1
      BY DEF ShapeKept, Times
    <3>2. \A e \in audit : e.changed_at >= 1
      BY DEF ShapeKept, Basis
    <3> QED
      BY <2>1, <3>1, <3>2
  <2>2. CASE cutoff # 0
    <3>1. PICK s \in past : s.calm /\ s.at = cutoff
      BY <2>2 DEF CalmCutoff
    <3>2. cutoff \in Nat
      BY DEF ShapeKept, Basis
    <3> QED
      BY <3>1, <3>2 DEF CalmCutoff
  <2> QED
    BY <2>1, <2>2
<1>2. Since(audit, o, s.at) = Of(audit, o)
  BY <1>1 DEF Since, Of
<1>3. s.rows[o] \in AnyRow
  BY DEF ShapeKept, Times
<1> QED
  BY <1>1, <1>2, <1>3 DEF ShapeKept, Windows

(* Verify has nothing to say about an object whose log is one window.      *)
LEMMA WindowClean ==
    ASSUME NEW A, NEW L, NEW o, NEW n, Log(A, o, n), L[o] \in AnyRow, NEW start,
           Window(Of(A, o), start, L[o]), NEW body \in Plainly, Spoken(Of(A, o), body)
    PROVE  Mismatches(A, L, o, body) = {}
<1> DEFINE S == Of(A, o)
<1>1. /\ n \in Nat /\ Ordered(S)
      /\ \A e \in S : Entered(e) /\ e.id \in Nat /\ e.id <= n
      /\ \A e \in S : Before(A, e) = Earlier(S, e) /\ After(A, e) = {f \in S : f.id > e.id}
  BY DEF Log, Before, After, Earlier, Of
<1>2. \A e \in S : Contributes(A, e, body) = Gives(e, body) /\ Gives(e, body) \subseteq Tracked
  BY <1>1, ContributesFacts DEF Plainly, Gives
<1>3. \A c : \A U \in SUBSET S : Told(U, c, body) # {} =>
          /\ LastEvent(Told(U, c, body)) \in Told(U, c, body)
          /\ \A f \in Told(U, c, body) : f.id <= LastEvent(Told(U, c, body)).id
  <2> SUFFICES ASSUME NEW c, NEW U \in SUBSET S, Told(U, c, body) # {}
               PROVE  /\ LastEvent(Told(U, c, body)) \in Told(U, c, body)
                      /\ \A f \in Told(U, c, body) : f.id <= LastEvent(Told(U, c, body)).id
    OBVIOUS
  <2>1. \A f \in Told(U, c, body) : f.id \in Nat /\ f.id <= n
    BY <1>1 DEF Told
  <2> QED
    BY <1>1, <2>1, LastEventOf
<1>4. Chain(A, o, body) = {}
  <2> SUFFICES ASSUME NEW e \in S, NEW c \in Contributes(A, e, body),
                      OldSideOf(e, c, body) # Absent, PreviousNew(A, e, c, body) # Absent,
                      OldSideOf(e, c, body) # PreviousNew(A, e, c, body)
               PROVE  FALSE
    BY DEF Chain
  <2>1. c \in Gives(e, body)
    BY <1>2
  <2>2. {f \in Before(A, e) : c \in Contributes(A, f, body)} = Told(Earlier(S, e), c, body)
    BY <1>1, <1>2 DEF Told, Earlier
  <2>3. PreviousNew(A, e, c, body) =
            IF Told(Earlier(S, e), c, body) = {} THEN Absent
            ELSE NewValue(LastEvent(Told(Earlier(S, e), c, body)), c)
    BY <2>2 DEF PreviousNew, Plainly
  <2>4. Continues(S, e, c, body)
    BY <2>1 DEF Window
  <2> QED
    BY <2>3, <2>4 DEF Continues
<1>5. Lifecycle(A, o) = {}
  <2> SUFFICES ASSUME NEW e \in S, Before(A, e) # {},
                      (e.operation = "INSERT") # (LastEvent(Before(A, e)).operation = "DELETE")
               PROVE  FALSE
    BY DEF Lifecycle
  <2>1. Alternates(S, e)
    BY DEF Window
  <2> QED
    BY <1>1, <2>1 DEF Alternates
<1>6. AtTheEnd(A, L, o) = {}
  <2> SUFFICES ASSUME NEW e \in S, After(A, e) = {}, (e.operation = "DELETE") = (L[o] # NoRow)
               PROVE  FALSE
    BY DEF AtTheEnd
  <2>1. \A f \in S : f.id <= e.id
    <3> SUFFICES ASSUME NEW f \in S, ~ (f.id <= e.id) PROVE FALSE
      OBVIOUS
    <3>1. f.id > e.id
      BY <1>1
    <3> QED
      BY <1>1, <3>1
  <2>2. LastEvent(S) = e
    <3> HIDE DEF S
    <3> QED
      BY <1>1, <2>1, LastIs
  <2>3. Ends(S, L[o])
    BY DEF Window
  <2> QED
    BY <2>2, <2>3 DEF Ends
<1>7. Live(A, L, o, body) = {}
  <2> SUFFICES ASSUME NEW e \in S, NEW c \in Contributes(A, e, body) \cap Keys(LiveRow(L, o)),
                      \A g \in After(A, e) : c \notin Contributes(A, g, body),
                      NewValue(e, c) # L[o][c]
               PROVE  FALSE
    BY DEF Live
  <2>1. e \in Told(S, c, body) /\ c \in Tracked
    BY <1>2 DEF Told
  <2>2. \A f \in Told(S, c, body) : f.id <= e.id
    <3> SUFFICES ASSUME NEW f \in S, c \in Gives(f, body), ~ (f.id <= e.id) PROVE FALSE
      BY DEF Told
    <3>1. f.id > e.id
      BY <1>1
    <3> QED
      BY <1>1, <1>2, <3>1
  <2>3. Ordered(Told(S, c, body))
    BY <1>1 DEF Told, Ordered
  <2>4. LastEvent(Told(S, c, body)) = e
    BY <2>1, <2>2, <2>3, LastIs
  <2>5. Holds(e, c, L[o])
    BY <2>1, <2>4 DEF Window
  <2>6. L[o] # NoRow
    BY DEF LiveRow, Keys
  <2> QED
    BY <2>5, <2>6 DEF Holds
<1> QED
  BY <1>4, <1>5, <1>6, <1>7 DEF Mismatches

(***************************************************************************)
(* An object every write of which went through the trigger is never named  *)
(* with snapshots, nor with diffs if none is silent about a change,        *)
(* whatever releases and storage modes wrote its log, whatever is purged   *)
(* after a calm cutoff, and however many columns, values and events there  *)
(* are.                                                                    *)
(***************************************************************************)
THEOREM UntouchedStaysClean ==
    ASSUME Distinguishable
    PROVE  RetentionSpec => []UntouchedClean
<1>1. ShapeKept => UntouchedClean
  <2> SUFFICES ASSUME ShapeKept, CalmCutoff, NEW o \in Obj, bypassed[o] = 0
               PROVE  /\ o \notin Named(Verify(audit, live, "snapshots", 0))
                      /\ (\A e \in Of(audit, o) : ~ Unsaid(audit, e)) =>
                            o \notin Named(Verify(audit, live, "diff", 0))
    BY DEF UntouchedClean
  <2>1. PICK start \in AnyRow : Window(Of(audit, o), start, live[o])
    BY WholeLog
  <2>2. Log(audit, o, idSeq) /\ live[o] \in AnyRow
    BY LogOf, BasisFacts DEF ShapeKept
  <2>3. Mismatches(audit, live, o, "unskipped") = {}
    BY <2>1, <2>2, WindowClean DEF Plainly, Spoken
  <2>4. Mismatches(audit, live, o, "snapshots") = {}
    BY <2>2, <2>3, ShortcutChangesNothing
  <2>5. ASSUME \A e \in Of(audit, o) : ~ Unsaid(audit, e)
        PROVE  Mismatches(audit, live, o, "diff") = {}
    <3>1. \A e \in Of(audit, o) : Before(audit, e) = Earlier(Of(audit, o), e)
      BY DEF Before, Earlier, Of
    <3>2. \A e \in Of(audit, o) : ~ Silent(Of(audit, o), e)
      BY <2>5, <3>1 DEF Unsaid, Silent
    <3> QED
      BY <2>1, <2>2, <3>2, WindowClean DEF Plainly, Spoken
  <2>6. \A e \in audit : e.id \in Nat
    BY BasisFacts DEF ShapeKept
  <2> QED
    BY <2>4, <2>5, <2>6, VerifyNames
<1> QED
  BY <1>1, RetentionInvariant, PTL

------------------------------------------------------------------------------
(* Time travel after retention *)

(* A calm instant inside the retained window is rebuilt from its window.   *)
LEMMA RebuiltFromWindow ==
    ASSUME NEW A, NEW L, NEW o, NEW n, Log(A, o, n), NEW at \in Nat,
           NEW spec \in {"full", "diff"}, spec = "diff" \/ Of(A, o) # {},
           NEW row \in AnyRow, L[o] = row, NEW start \in AnyRow,
           Window(Since(A, o, at), start, row),
           NEW first \in AnyRow, Window(Of(A, o), first, row),
           \A e, f \in Of(A, o) : e.changed_at < at /\ f.changed_at >= at => e.id < f.id,
           \A e, f \in Of(A, o) : Lacks(e) /\ e.id <= f.id => Whole(f)
    PROVE  Seen(ReconstructRow(A, L, spec, o, at - 1)) = FilterOf(start)
<1> DEFINE S == Since(A, o, at)
           suffix == Suffix(A, o, at - 1)
           e == FirstEvent(S)
           last == LastEvent(Of(A, o))
           result == ReconstructRow(A, L, spec, o, at - 1)
<1>1. /\ n \in Nat /\ Ordered(Of(A, o)) /\ Ordered(S) /\ S \subseteq Of(A, o)
      /\ \A f \in Of(A, o) : Entered(f) /\ f.id \in Nat /\ f.id <= n /\ f.changed_at \in Nat
  BY DEF Log, Since, Ordered, Entered
<1>2. suffix = S
  <2>1. \A f \in Of(A, o) : f.changed_at > at - 1 <=> f.changed_at >= at
    BY <1>1
  <2> QED
    BY <2>1 DEF Suffix, Since
<1>3. LiveRow(L, o) = FilterOf(row)
  BY LiveRowIs
<1>4. /\ S # {} /\ e.operation = "INSERT" => result = NoRow
      /\ S # {} /\ e.operation # "INSERT" /\ e.old_data # NoRow => result = e.old_data
      /\ S # {} /\ e.operation # "INSERT" /\ e.old_data = NoRow =>
            result = Overlay(FilterOf(row), Undo(A, o, e))
      /\ S = {} /\ Of(A, o) # {} /\ last.new_data # NoRow => result = last.new_data
      /\ S = {} /\ Of(A, o) # {} /\ last.new_data = NoRow =>
            /\ last.operation = "DELETE" => result = NoRow
            /\ last.operation # "DELETE" => result = FilterOf(row)
      /\ S = {} /\ Of(A, o) = {} /\ spec = "diff" => result = FilterOf(row)
  <2> HIDE DEF S
  <2> QED
    BY <1>2, <1>3, RowCases
<1>5. CASE S = {}
  <2>1. FilterOf(start) = FilterOf(row)
    BY <1>5 DEF Window
  <2>2. CASE Of(A, o) = {}
    BY <1>4, <1>5, <2>1, <2>2, SeenFiltered
  <2>3. CASE Of(A, o) # {}
    <3>1. Ends(Of(A, o), row)
      BY <2>3 DEF Window
    <3>2. last.new_data # NoRow => Seen(last.new_data) = FilterOf(row)
      BY <3>1 DEF Ends, FilterOf
    <3>3. last.operation = "DELETE" => FilterOf(row) = NoRow
      BY <3>1 DEF Ends, FilterOf
    <3> QED
      BY <1>4, <1>5, <2>1, <2>3, <3>2, <3>3, SeenFiltered
  <2> QED
    BY <2>2, <2>3
<1>6. CASE S # {}
  <2>1. Begins(S, start)
    BY <1>6 DEF Window
  <2>2. e \in S /\ \A f \in S : e.id <= f.id
    <3>1. \A f \in S : f.id \in Nat
      BY <1>1
    <3> HIDE DEF S
    <3> QED
      BY <1>6, <3>1, FirstEventOf
  <2>3. CASE e.operation = "INSERT"
    BY <1>4, <1>6, <2>1, <2>3 DEF Begins, FilterOf, Seen
  <2>4. CASE e.operation # "INSERT" /\ e.old_data # NoRow
    BY <1>4, <1>6, <2>1, <2>4 DEF Begins, FilterOf
  <2>5. CASE e.operation # "INSERT" /\ e.old_data = NoRow
    <3>1. start \in Row /\ start # NoRow
      BY <2>1, <2>5, Assumed DEF Begins, AnyRow
    <3>2. From(Of(A, o), e.id) = S
      <4>1. \A f \in Of(A, o) : f.id >= e.id => f \in S
        <5> SUFFICES ASSUME NEW f \in Of(A, o), f.id >= e.id, ~ (f.changed_at >= at) PROVE FALSE
          BY DEF Since
        <5>1. f.changed_at < at /\ e \in Of(A, o) /\ e.changed_at >= at
          BY <1>1, <2>2 DEF Since
        <5>2. f.id < e.id /\ f.id \in Nat /\ e.id \in Nat
          BY <1>1, <5>1
        <5> QED
          BY <5>2
      <4>2. \A f \in S : f \in Of(A, o) /\ f.id >= e.id
        BY <1>1, <2>2
      <4> QED
        BY <4>1, <4>2 DEF From
    <3>3. \A f \in S : Whole(f)
      BY <1>1, <2>2, <2>5 DEF Lacks
    <3>4. WasRow(S, row, start)
      BY <1>6, <2>5 DEF Window, Lacks
    <3> DEFINE undo == Undo(A, o, e)
               touching(c) == {f \in S : c \in DOMAIN f.diff}
    <3>5. undo = [c \in UNION {DOMAIN f.diff : f \in S} |->
                     OldSide(FirstEvent(touching(c)).diff[c])]
      BY <3>2 DEF Undo, From
    <3>6. /\ DOMAIN undo = UNION {DOMAIN f.diff : f \in S}
          /\ \A c \in DOMAIN undo : undo[c] = OldSide(FirstEvent(Naming(S, c)).diff[c])
      BY <3>5 DEF Naming
    <3>7. DOMAIN undo \subseteq Tracked
      BY <1>1, <3>6 DEF Entered
    <3>8. \A c : c \in DOMAIN undo <=> Naming(S, c) # {}
      BY <3>6 DEF Naming
    <3>9. \A c \in DOMAIN undo : undo[c] = start[c]
      <4> SUFFICES ASSUME NEW c \in DOMAIN undo PROVE undo[c] = start[c]
        OBVIOUS
      <4>1. FirstEvent(Naming(S, c)) \in Naming(S, c)
        <5>1. \A f \in Naming(S, c) : f.id \in Nat
          BY <1>1 DEF Naming
        <5> QED
          BY <3>8, <5>1, FirstEventOf
      <4>2. Paired(FirstEvent(Naming(S, c)).diff[c])
        BY <3>3, <4>1 DEF Naming, Whole
      <4>3. undo[c] = FirstEvent(Naming(S, c)).diff[c].old
        BY <3>6, <4>2 DEF OldSide
      <4>4. Was(S, row, c) = OldOf(FirstEvent(Naming(S, c)), c)
        BY <3>8 DEF Was
      <4>5. ValueOf(start, c) = Was(S, row, c) /\ ValueOf(start, c) # NoRow /\ ValueOf(start, c) = start[c]
        BY <3>1, <3>4, <3>7, Filtered DEF WasRow
      <4>6. OldOf(FirstEvent(Naming(S, c)), c) = FirstEvent(Naming(S, c)).diff[c].old
        BY <4>4, <4>5 DEF OldOf
      <4> QED
        BY <4>3, <4>4, <4>5, <4>6
    <3>10. \A c \in Tracked \ DOMAIN undo : row # NoRow /\ row[c] = start[c]
      <4> SUFFICES ASSUME NEW c \in Tracked, c \notin DOMAIN undo PROVE row # NoRow /\ row[c] = start[c]
        OBVIOUS
      <4>1. Was(S, row, c) = ValueOf(row, c)
        BY <3>8 DEF Was
      <4>2. ValueOf(start, c) = ValueOf(row, c) /\ ValueOf(start, c) # NoRow
        BY <3>1, <3>4, <4>1, Filtered DEF WasRow
      <4> QED
        BY <3>1, <4>2 DEF ValueOf
    <3> HIDE DEF undo
    <3> DEFINE base == FilterOf(row)
               over == Overlay(base, undo)
    <3>11. row # NoRow => base = Filter(row) /\ DOMAIN base = Tracked /\ base # NoRow
                          /\ \A c \in Tracked : base[c] = row[c]
      BY Filtered DEF FilterOf, AnyRow, Filter
    <3>12. row = NoRow => base = NoRow
      BY DEF FilterOf
    <3> HIDE DEF base
    <3>13. over = [c \in (IF base = NoRow THEN {} ELSE DOMAIN base) \cup DOMAIN undo |->
                      IF c \in DOMAIN undo THEN undo[c] ELSE base[c]]
      BY DEF Overlay
    <3>14. (IF base = NoRow THEN {} ELSE DOMAIN base) \cup DOMAIN undo = Tracked
      BY <3>7, <3>10, <3>11, <3>12
    <3>15. over = [c \in Tracked |-> IF c \in DOMAIN undo THEN undo[c] ELSE base[c]]
      BY <3>13, <3>14
    <3>16. \A c \in Tracked : (IF c \in DOMAIN undo THEN undo[c] ELSE base[c]) = start[c]
      BY <3>9, <3>10, <3>11
    <3>17. over = Filter(start)
      BY <3>15, <3>16 DEF Filter
    <3> HIDE DEF over
    <3>18. result = FilterOf(start)
      BY <1>4, <1>6, <2>5, <3>1, <3>17 DEF over, undo, base, FilterOf
    <3> QED
      BY <3>18, SeenFiltered
  <2> QED
    BY <2>3, <2>4, <2>5
<1> QED
  BY <1>5, <1>6

(***************************************************************************)
(* In diff storage, after a calm cutoff, every calm instant the log still  *)
(* covers is rebuilt as it was for the objects written through the trigger *)
(* alone, whatever releases and storage modes wrote the events.            *)
(***************************************************************************)
THEOREM RetainedIsExact ==
    ASSUME Distinguishable
    PROVE  RetentionSpec => []RetentionExact
<1>1. ShapeKept => RetentionExact
  <2> SUFFICES ASSUME ShapeKept, storage = "diff", CalmCutoff, NEW s \in past, NEW o \in Obj,
                      s.calm, s.at >= cutoff, bypassed[o] = 0
               PROVE  Seen(Rebuilt(o, s.at - 1)) = LiveRow(s.rows, o)
    BY DEF RetentionExact
  <2>1. PICK first \in AnyRow : Window(Of(audit, o), first, live[o])
    BY WholeLog
  <2>2. Log(audit, o, idSeq) /\ live[o] \in AnyRow
    BY LogOf, BasisFacts DEF ShapeKept
  <2>3. s.at \in Nat /\ s.rows[o] \in AnyRow
    BY BasisFacts DEF ShapeKept, Times
  <2>4. Window(Since(audit, o, s.at), s.rows[o], live[o])
    BY DEF ShapeKept, Windows
  <2>5. /\ \A e, f \in Of(audit, o) : e.changed_at < s.at /\ f.changed_at >= s.at => e.id < f.id
        /\ \A e, f \in Of(audit, o) : Lacks(e) /\ e.id <= f.id => Whole(f)
    BY DEF ShapeKept, Times, Aged, Of
  <2>6. Seen(ReconstructRow(audit, live, "diff", o, s.at - 1)) = FilterOf(s.rows[o])
    <3> DEFINE row == live[o]
               start == s.rows[o]
               at == s.at
    <3>1. /\ Log(audit, o, idSeq) /\ at \in Nat /\ row \in AnyRow /\ live[o] = row /\ start \in AnyRow
          /\ Window(Since(audit, o, at), start, row) /\ Window(Of(audit, o), first, row)
          /\ \A e, f \in Of(audit, o) : e.changed_at < at /\ f.changed_at >= at => e.id < f.id
          /\ \A e, f \in Of(audit, o) : Lacks(e) /\ e.id <= f.id => Whole(f)
      BY <2>1, <2>2, <2>3, <2>4, <2>5
    <3> HIDE DEF row, start, at
    <3>2. Seen(ReconstructRow(audit, live, "diff", o, at - 1)) = FilterOf(start)
      BY <3>1, RebuiltFromWindow
    <3> QED
      BY <3>2 DEF start, at
  <2>7. LiveRow(s.rows, o) = FilterOf(s.rows[o])
    BY LiveRowIs
  <2> QED
    BY <2>6, <2>7 DEF Rebuilt
<1> QED
  BY <1>1, RetentionInvariant, PTL

------------------------------------------------------------------------------
(* What a clean verification means *)

(* A contradiction in the log, or between it and the row, is found.        *)
LEMMA FlaggedIsFound ==
    ASSUME NEW A, NEW L, NEW o, NEW n, Log(A, o, n), L[o] \in AnyRow, Flagged(Of(A, o), L[o])
    PROVE  \E m \in Mismatches(A, L, o, "unskipped") :
              m.at = Always \/ \E e \in Of(A, o) : m.at = e.changed_at
<1> DEFINE U == Of(A, o)
           body == "unskipped"
<1>1. /\ n \in Nat /\ Ordered(U)
      /\ \A e \in U : Entered(e) /\ e.id \in Nat /\ e.id <= n
      /\ \A e \in U : Before(A, e) = Earlier(U, e) /\ After(A, e) = {f \in U : f.id > e.id}
  BY DEF Log, Before, After, Earlier, Of
<1>2. \A e \in U : Contributes(A, e, body) = Gives(e, body) /\ Gives(e, body) \subseteq Tracked
  BY <1>1, ContributesFacts DEF Gives
<1>3. \A V \in SUBSET U : V # {} => LastEvent(V) \in V /\ \A f \in V : f.id <= LastEvent(V).id
  <2> SUFFICES ASSUME NEW V \in SUBSET U, V # {}
               PROVE  LastEvent(V) \in V /\ \A f \in V : f.id <= LastEvent(V).id
    OBVIOUS
  <2>1. \A f \in V : f.id \in Nat /\ f.id <= n
    BY <1>1
  <2> QED
    BY <1>1, <2>1, LastEventOf
<1>4. ASSUME NEW e \in U, ~ Alternates(U, e)
      PROVE  Mismatch(e, "lifecycle", e.changed_at) \in Lifecycle(A, o)
  <2>1. Before(A, e) # {} /\ (e.operation = "INSERT") # (LastEvent(Before(A, e)).operation = "DELETE")
    BY <1>1, <1>4 DEF Alternates
  <2> QED
    BY <2>1 DEF Lifecycle
<1>5. ASSUME NEW e \in U, NEW c \in Gives(e, body), ~ Continues(U, e, c, body)
      PROVE  Mismatch(e, "chain", e.changed_at) \in Chain(A, o, body)
  <2>1. {f \in Before(A, e) : c \in Contributes(A, f, body)} = Told(Earlier(U, e), c, body)
    BY <1>1, <1>2 DEF Told, Earlier
  <2>2. PreviousNew(A, e, c, body) = NewValue(LastEvent(Told(Earlier(U, e), c, body)), c)
    BY <1>5, <2>1 DEF PreviousNew, Continues
  <2>3. /\ OldSideOf(e, c, body) # Absent /\ PreviousNew(A, e, c, body) # Absent
        /\ OldSideOf(e, c, body) # PreviousNew(A, e, c, body)
    BY <1>5, <2>2 DEF Continues
  <2>4. c \in Contributes(A, e, body)
    BY <1>2, <1>5
  <2> QED
    BY <2>3, <2>4 DEF Chain
<1>6. ASSUME U # {}, LastEvent(U).operation = "DELETE" <=> L[o] # NoRow
      PROVE  Mismatch(LastEvent(U), "lifecycle", Always) \in AtTheEnd(A, L, o)
  <2>1. LastEvent(U) \in U /\ \A f \in U : f.id <= LastEvent(U).id
    BY <1>3, <1>6
  <2>2. After(A, LastEvent(U)) = {}
    <3> SUFFICES ASSUME NEW f \in U, f.id > LastEvent(U).id PROVE FALSE
      BY <1>1, <2>1
    <3> QED
      BY <1>1, <2>1
  <2> QED
    BY <1>6, <2>1, <2>2 DEF AtTheEnd
<1>7. ASSUME L[o] # NoRow, NEW c \in Tracked, Told(U, c, body) # {},
             NewValue(LastEvent(Told(U, c, body)), c) \notin {L[o][c], Absent}
      PROVE  Mismatch(LastEvent(Told(U, c, body)), "live", Always) \in Live(A, L, o, body)
  <2> DEFINE e == LastEvent(Told(U, c, body))
  <2>1. e \in Told(U, c, body) /\ \A f \in Told(U, c, body) : f.id <= e.id
    <3>1. Told(U, c, body) \in SUBSET U
      BY DEF Told
    <3> QED
      BY <1>3, <1>7, <3>1
  <2>2. e \in U /\ c \in Contributes(A, e, body)
    BY <1>2, <2>1 DEF Told
  <2>3. c \in Keys(LiveRow(L, o))
    <3>1. LiveRow(L, o) = Filter(L[o]) /\ Filter(L[o]) # NoRow
      BY <1>7, Filtered DEF LiveRow, AnyRow
    <3> QED
      BY <3>1 DEF Keys, Filter
  <2>4. \A g \in After(A, e) : c \notin Contributes(A, g, body)
    <3> SUFFICES ASSUME NEW g \in U, g.id > e.id, c \in Gives(g, body) PROVE FALSE
      BY <1>1, <1>2, <2>2
    <3>1. g \in Told(U, c, body)
      BY DEF Told
    <3> QED
      BY <1>1, <2>1, <2>2, <3>1
  <2> QED
    BY <1>7, <2>2, <2>3, <2>4 DEF Live
<1>8. \A e, kind, at : Mismatch(e, kind, at).at = at
  BY DEF Mismatch
<1> QED
  BY <1>4, <1>5, <1>6, <1>7, <1>8 DEF Flagged, Mismatches

(* The log and the past tell the truth about an object that was not there  *)
(* when tracking began.                                                    *)
SoundFor(o) ==
    /\ Window(Of(audit, o), NoRow, live[o])
    /\ \A s \in past : s.calm => Window(Since(audit, o, s.at), s.rows[o], live[o])

(* One bypass leaves them true, shows in the log, or came before the log.  *)
Watched ==
    cutoff = 0 => \A o \in Obj : NewToTable(o) /\ bypassed[o] = 1 =>
        /\ Of(audit, o) = {} => live[o] # NoRow
        /\ Of(audit, o) # {} /\ FirstEvent(Of(audit, o)).operation = "INSERT" =>
              SoundFor(o) \/ Flagged(Of(audit, o), live[o])

(* Nothing contradicts an object that was not bypassed.                    *)
LEMMA SoundUntouched ==
    ASSUME ShapeKept, cutoff = 0, NEW o \in Obj, NewToTable(o), bypassed[o] = 0
    PROVE  SoundFor(o)
<1>1. PICK s \in past : s.calm /\ s.at = 1
  BY DEF ShapeKept, Times
<1>2. s.rows[o] = NoRow
  BY <1>1 DEF NewToTable, ShapeKept, Times
<1>3. \A r \in past : r.at \in Nat
  BY BasisFacts DEF ShapeKept, Times
<1>4. \A r \in past : r.calm => Window(Since(audit, o, r.at), r.rows[o], live[o])
  BY <1>3 DEF ShapeKept, Windows
<1>5. Since(audit, o, 1) = Of(audit, o)
  BY DEF Since, Of, ShapeKept, Basis
<1> QED
  BY <1>1, <1>2, <1>4, <1>5 DEF SoundFor

(* The event of an audited write continues whatever window or finding the  *)
(* log had.                                                                *)
LEMMA AuditedContinues ==
    ASSUME Distinguishable, ShapeKept,
           NEW o \in Obj, NEW new \in AnyRow, NEW at \in 1..clock, Audited(o, new, at)
    PROVE  \E e : /\ e.changed_at = at /\ e.id = idSeq + 1 /\ e.object_id = o
                  /\ audit' = audit \cup {e} /\ live'[o] = new
                  /\ e.operation = "INSERT" <=> live[o] = NoRow
                  /\ Flagged(Of(audit, o), live[o]) => Flagged(Of(audit, o) \cup {e}, new)
                  /\ \A S \in SUBSET Of(audit, o), start \in AnyRow :
                        Window(S, start, live[o]) => Window(S \cup {e}, start, new)
<1> DEFINE row == live[o]
<1>1. PICK e :
              /\ e.id = idSeq + 1 /\ e.changed_at = at /\ e.object_id = o
              /\ Entered(e) /\ Tells(e, live[o], new)
              /\ release # "0.3" \/ Val \cap PairedEntry = {} => Plain(e, live[o], new)
              /\ release = "current" => Current(e, live[o], new)
              /\ release # "current" => Old(e, live[o], new)
              /\ audit' = audit \cup {e}
              /\ live' = [live EXCEPT ![o] = new]
  BY AuditedFacts DEF ShapeKept
<1>2. Plain(e, row, new)
  BY <1>1 DEF ShapeKept, Aged, Distinguishable
<1>3. row \in AnyRow /\ row # new
  BY BasisFacts DEF ShapeKept, Audited
<1>4. Written(e, row, new)
  BY <1>1, <1>2, <1>3 DEF Written
<1>5. idSeq \in Nat /\ Ordered(Of(audit, o)) /\ \A f \in Of(audit, o) : f.id <= idSeq
  BY BasisFacts DEF ShapeKept, Basis, Of
<1>6. Flagged(Of(audit, o), row) => Flagged(Of(audit, o) \cup {e}, new)
  BY <1>1, <1>4, <1>5, FlaggedAppend
<1>7. ASSUME NEW S \in SUBSET Of(audit, o), NEW start \in AnyRow, Window(S, start, row)
      PROVE  Window(S \cup {e}, start, new)
  <2>1. Ordered(S) /\ \A f \in S : f.id <= idSeq
    BY <1>5 DEF Ordered
  <2>2. (\E f \in S : Lacks(f)) => Current(e, row, new)
    BY <1>1 DEF ShapeKept, Aged, Of
  <2> HIDE DEF row
  <2> QED
    BY <1>1, <1>4, <1>5, <1>7, <2>1, <2>2, WindowAppend
<1>8. live'[o] = new
  BY <1>1 DEF ShapeKept, Basis
<1>9. e.operation = "INSERT" <=> live[o] = NoRow
  BY <1>1 DEF Tells
<1> QED
  BY <1>1, <1>6, <1>7, <1>8, <1>9

(* An audited write adds its event to every window of its object.          *)
LEMMA SoundAudited ==
    ASSUME Distinguishable, ShapeKept, Basis',
           NEW o \in Obj, NEW new \in AnyRow, NEW at \in 1..clock, Audited(o, new, at),
           SoundFor(o)
    PROVE  SoundFor(o)'
<1>1. PICK e : /\ e.changed_at = at /\ e.id = idSeq + 1 /\ e.object_id = o
               /\ audit' = audit \cup {e} /\ live'[o] = new
               /\ e.operation = "INSERT" <=> live[o] = NoRow
               /\ Flagged(Of(audit, o), live[o]) => Flagged(Of(audit, o) \cup {e}, new)
               /\ \A S \in SUBSET Of(audit, o), start \in AnyRow :
                     Window(S, start, live[o]) => Window(S \cup {e}, start, new)
  BY AuditedContinues
<1>2. Of(audit', o) = Of(audit, o) \cup {e}
  BY <1>1 DEF Of
<1>3. Window(Of(audit', o), NoRow, live'[o])
  BY <1>1, <1>2 DEF SoundFor, AnyRow
<1>4. past' = {[s EXCEPT !.calm = s.calm /\ s.at <= at] : s \in past}
  BY DEF Audited, LongTransaction
<1>5. past \subseteq [rows : [Obj -> AnyRow], at : 1..clock, calm : BOOLEAN]
  BY DEF ShapeKept, Times
<1>6. ASSUME NEW s \in past', s.calm
      PROVE  Window(Since(audit', o, s.at), s.rows[o], live'[o])
  <2>1. PICK r \in past : s = [r EXCEPT !.calm = r.calm /\ r.at <= at]
    BY <1>4
  <2>2. r \in [rows : [Obj -> AnyRow], at : 1..clock, calm : BOOLEAN]
    BY <1>5
  <2>3. s.rows = r.rows /\ s.at = r.at /\ r.calm /\ r.at <= at /\ r.rows[o] \in AnyRow
    BY <1>6, <2>1, <2>2
  <2>4. Window(Since(audit, o, r.at), r.rows[o], live[o])
    BY <2>3 DEF SoundFor
  <2>5. Since(audit, o, r.at) \in SUBSET Of(audit, o)
    BY DEF Since
  <2>6. Since(audit', o, r.at) = Since(audit, o, r.at) \cup {e}
    <3>1. e.changed_at >= r.at
      <4>1. r.at \in Nat /\ at \in Nat
        BY <2>2, BasisFacts DEF ShapeKept
      <4> QED
        BY <1>1, <2>3, <4>1
    <3> QED
      BY <1>1, <1>2, <3>1 DEF Since
  <2> QED
    BY <1>1, <2>3, <2>4, <2>5, <2>6
<1> QED
  BY <1>3, <1>6 DEF SoundFor

(* Steps that leave the table, the log and the past alone.                 *)
LEMMA WatchedFrame ==
    ASSUME Watched, UNCHANGED <<live, audit, cutoff, past, bypassed>>
    PROVE  Watched'
BY DEF Watched, NewToTable, SoundFor

(* A new instant is one more window, still empty.                          *)
LEMMA WatchedTick ==
    ASSUME ShapeKept, Watched, Tick, UNCHANGED bypassed
    PROVE  Watched'
<1>1. /\ clock' = clock + 1 /\ past' = past \cup {[rows |-> live, at |-> clock', calm |-> Calm]}
      /\ UNCHANGED <<live, audit, cutoff>>
  BY DEF Tick, Record
<1>2. clock \in Nat /\ clock >= 1 /\ \A e \in audit : e.changed_at < clock'
  BY <1>1, BasisFacts DEF ShapeKept, Basis
<1> DEFINE now == [rows |-> live, at |-> clock', calm |-> Calm]
<1>3. now.rows = live /\ now.at = clock' /\ past' = past \cup {now}
  BY <1>1
<1> HIDE DEF now
<1>4. \A o \in Obj : NewToTable(o)' => NewToTable(o)
  BY <1>1, <1>2, <1>3 DEF NewToTable
<1>5. ASSUME NEW o \in Obj, SoundFor(o)
      PROVE  SoundFor(o)'
  <2>1. Since(audit, o, now.at) = {}
    <3>1. \A e \in audit : ~ (e.changed_at >= now.at)
      BY <1>1, <1>2, <1>3, BasisFacts DEF ShapeKept
    <3> QED
      BY <3>1 DEF Since, Of
  <2>2. Window(Since(audit, o, now.at), now.rows[o], live[o])
    BY <1>3, <2>1, WindowEmpty
  <2> QED
    BY <1>1, <1>3, <1>5, <2>2 DEF SoundFor
<1> QED
  BY <1>1, <1>4, <1>5 DEF Watched

(* The bypass changes nothing tracked, or shows at once.                   *)
LEMMA WatchedBypass ==
    ASSUME ShapeKept, Watched, NEW o \in Obj, NEW new \in AnyRow, Bypass(o, new)
    PROVE  Watched'
<1>1. /\ live' = [live EXCEPT ![o] = new] /\ bypassed' = [bypassed EXCEPT ![o] = @ + 1]
      /\ new # live[o] /\ UNCHANGED <<audit, cutoff, past>>
  BY DEF Bypass
<1>2. /\ live[o] \in AnyRow /\ live'[o] = new
      /\ bypassed[o] \in Nat /\ bypassed'[o] = bypassed[o] + 1
      /\ \A p \in Obj \ {o} : live'[p] = live[p] /\ bypassed'[p] = bypassed[p]
  BY <1>1, BasisFacts DEF ShapeKept, Basis
<1> SUFFICES ASSUME cutoff = 0, NEW p \in Obj, NewToTable(p), bypassed'[p] = 1
             PROVE  /\ Of(audit, p) = {} => live'[p] # NoRow
                    /\ Of(audit, p) # {} /\ FirstEvent(Of(audit, p)).operation = "INSERT" =>
                          SoundFor(p)' \/ Flagged(Of(audit, p), live'[p])
  BY <1>1 DEF Watched, NewToTable
<1>3. CASE p # o
  <2>1. live'[p] = live[p] /\ bypassed[p] = 1
    BY <1>2, <1>3
  <2>2. SoundFor(p) => SoundFor(p)'
    BY <1>1, <2>1 DEF SoundFor
  <2> QED
    BY <2>1, <2>2 DEF Watched
<1>4. CASE p = o
  <2>1. bypassed[o] = 0
    BY <1>2, <1>4
  <2>2. SoundFor(o)
    BY <1>4, <2>1, SoundUntouched
  <2>3. Of(audit, o) = {} => live[o] = NoRow
    <3>1. Of(audit, o) = {} => FilterOf(live[o]) = FilterOf(NoRow)
      BY <2>2 DEF SoundFor, Window
    <3> QED
      BY <1>2, <3>1, FilteredAlike DEF AnyRow
  <2>4. ASSUME Of(audit, o) # {}, FirstEvent(Of(audit, o)).operation = "INSERT"
        PROVE  SoundFor(o)' \/ Flagged(Of(audit, o), new)
    <3>1. CASE FilterOf(live[o]) = FilterOf(new)
      <4>1. Window(Of(audit, o), NoRow, new)
        BY <1>2, <2>2, <3>1, WindowSame DEF SoundFor, AnyRow
      <4>2. \A s \in past : s.calm => Window(Since(audit, o, s.at), s.rows[o], new)
        <5>1. \A s \in past : s.rows[o] \in AnyRow
          BY DEF ShapeKept, Times
        <5> QED
          BY <1>2, <2>2, <3>1, <5>1, WindowSame DEF SoundFor
      <4> QED
        BY <1>1, <1>2, <4>1, <4>2 DEF SoundFor
    <3>2. CASE FilterOf(live[o]) # FilterOf(new)
      <4> DEFINE first == FirstEvent(Of(audit, o))
      <4>1. first \in Of(audit, o)
        <5>1. \A e \in Of(audit, o) : e.id \in Nat
          BY BasisFacts DEF ShapeKept, Of
        <5> QED
          BY <2>4, <5>1, FirstEventOf
      <4>2. Gives(first, "unskipped") = Tracked
        BY <2>4, <4>1 DEF ShapeKept, Aged, Of
      <4>3. Window(Of(audit, o), NoRow, live[o])
        BY <2>2 DEF SoundFor
      <4> QED
        BY <1>2, <2>4, <3>2, <4>1, <4>2, <4>3, BypassFlags
    <3> QED
      BY <3>1, <3>2
  <2> QED
    BY <1>1, <1>2, <1>4, <2>3, <2>4
<1> QED
  BY <1>3, <1>4

(* What was sound stays sound and what was found stays found.              *)
LEMMA WatchedAudited ==
    ASSUME Distinguishable, ShapeKept, Basis', Watched,
           NEW o \in Obj, NEW new \in AnyRow, NEW at \in 1..clock, Audited(o, new, at)
    PROVE  Watched'
<1>1. PICK e : /\ e.changed_at = at /\ e.id = idSeq + 1 /\ e.object_id = o
               /\ audit' = audit \cup {e} /\ live'[o] = new
               /\ e.operation = "INSERT" <=> live[o] = NoRow
               /\ Flagged(Of(audit, o), live[o]) => Flagged(Of(audit, o) \cup {e}, new)
               /\ \A S \in SUBSET Of(audit, o), start \in AnyRow :
                     Window(S, start, live[o]) => Window(S \cup {e}, start, new)
  BY AuditedContinues
<1>2. /\ UNCHANGED <<cutoff, bypassed>>
      /\ live' = [live EXCEPT ![o] = new]
      /\ past' = {[s EXCEPT !.calm = s.calm /\ s.at <= at] : s \in past}
  BY DEF Audited, LongTransaction
<1>3. \A p \in Obj \ {o} : live'[p] = live[p]
  BY <1>2 DEF ShapeKept, Basis
<1>4. Of(audit', o) = Of(audit, o) \cup {e} /\ \A p \in Obj \ {o} : Of(audit', p) = Of(audit, p)
  BY <1>1 DEF Of
<1>5. \A s \in past' : \E r \in past : s.rows = r.rows /\ s.at = r.at /\ (s.calm => r.calm)
  <2>1. past \subseteq [rows : [Obj -> AnyRow], at : 1..clock, calm : BOOLEAN]
    BY DEF ShapeKept, Times
  <2> QED
    BY <1>2, <2>1
<1>6. \A p \in Obj : NewToTable(p)' => NewToTable(p)
  BY <1>5 DEF NewToTable
<1> SUFFICES ASSUME cutoff = 0, NEW p \in Obj, NewToTable(p), bypassed'[p] = 1
             PROVE  /\ Of(audit', p) = {} => live'[p] # NoRow
                    /\ Of(audit', p) # {} /\ FirstEvent(Of(audit', p)).operation = "INSERT" =>
                          SoundFor(p)' \/ Flagged(Of(audit', p), live'[p])
  BY <1>2, <1>6 DEF Watched
<1>7. CASE p # o
  <2>1. live'[p] = live[p] /\ bypassed[p] = 1 /\ Of(audit', p) = Of(audit, p)
    BY <1>2, <1>3, <1>4, <1>7
  <2>2. \A t : Since(audit', p, t) = Since(audit, p, t)
    BY <2>1 DEF Since
  <2>3. ASSUME SoundFor(p) PROVE SoundFor(p)'
    <3>1. \A s \in past' : s.calm => Window(Since(audit', p, s.at), s.rows[p], live'[p])
      <4> SUFFICES ASSUME NEW s \in past', s.calm
                   PROVE  Window(Since(audit, p, s.at), s.rows[p], live[p])
        BY <2>1, <2>2
      <4>1. PICK r \in past : s.rows = r.rows /\ s.at = r.at /\ r.calm
        BY <1>5
      <4> QED
        BY <2>3, <4>1 DEF SoundFor
    <3> QED
      BY <2>1, <2>3, <3>1 DEF SoundFor
  <2> QED
    BY <2>1, <2>3 DEF Watched
<1>8. CASE p = o
  <2>1. SoundFor(o) => SoundFor(o)'
    BY SoundAudited
  <2>2. bypassed[o] = 1
    BY <1>2, <1>8
  <2>3. CASE Of(audit, o) = {}
    <3>1. live[o] # NoRow
      BY <1>8, <2>2, <2>3 DEF Watched
    <3>2. FirstEvent(Of(audit', o)) = e
      BY <1>4, <2>3 DEF FirstEvent
    <3> QED
      BY <1>1, <1>4, <1>8, <3>1, <3>2
  <2>4. CASE Of(audit, o) # {}
    <3>1. FirstEvent(Of(audit', o)) = FirstEvent(Of(audit, o))
      <4>1. /\ \A f \in Of(audit, o) : f.id \in Nat /\ f.id <= e.id
            /\ Ordered(Of(audit', o))
        <5>1. idSeq \in Nat /\ \A f \in Of(audit, o) : f.id \in Nat /\ f.id <= idSeq
          BY BasisFacts DEF ShapeKept, Basis, Of
        <5>2. Basis' => Ordered(Of(audit', o))
          BY DEF Basis, Of, Ordered, Entered
        <5> QED
          BY <1>1, <5>1, <5>2
      <4>2. FirstEvent(Of(audit, o)) \in Of(audit, o)
            /\ \A f \in Of(audit, o) : FirstEvent(Of(audit, o)).id <= f.id
        BY <2>4, <4>1, FirstEventOf
      <4>3. \A f \in Of(audit', o) : FirstEvent(Of(audit, o)).id <= f.id
        BY <1>4, <4>1, <4>2
      <4> QED
        BY <1>4, <4>1, <4>2, <4>3, FirstIs
    <3> QED
      BY <1>1, <1>4, <1>8, <2>1, <2>2, <2>4, <3>1 DEF Watched
  <2> QED
    BY <2>3, <2>4
<1> QED
  BY <1>7, <1>8

(* At first nothing is bypassed.                                           *)
LEMMA WatchedInit == RetentionInit => Watched /\ storage = "full"
BY DEF RetentionInit, ChainInit, Watched

(* Every step keeps watch; a purge ends it.                                *)
LEMMA WatchedStep ==
    ASSUME Distinguishable
    PROVE  ShapeKept /\ Watched /\ [RetentionNext]_retentionVars => Watched'
<1> SUFFICES ASSUME ShapeKept, Watched, [RetentionNext]_retentionVars PROVE Watched'
  OBVIOUS
<1>0. Basis'
  BY BasisStep DEF ShapeKept
<1>1. ASSUME UNCHANGED <<live, audit, cutoff, past, bypassed>>
      PROVE  Watched'
  BY <1>1, WatchedFrame
<1>2. CASE UNCHANGED retentionVars
  BY <1>1, <1>2 DEF retentionVars, chainVars, vars
<1>3. CASE Tick /\ UNCHANGED <<release, ghosts, parts>>
  BY <1>3, WatchedTick DEF ghosts
<1>4. ASSUME NEW o \in Obj, NEW new \in AnyRow, Bypass(o, new)
      PROVE  Watched'
  BY <1>4, WatchedBypass
<1>5. ASSUME NEW o \in Obj, NEW new \in AnyRow, NEW at \in 1..clock, Audited(o, new, at)
      PROVE  Watched'
  BY <1>0, <1>5, WatchedAudited
<1>6. ASSUME NEW r \in Releases, Upgrade(r)
      PROVE  Watched'
  BY <1>1, <1>6 DEF Upgrade, vars, ghosts
<1>7. ASSUME NEW mode \in Modes, SwitchStorage(mode)
      PROVE  Watched'
  BY <1>1, <1>7 DEF SwitchStorage, SetStorage, ghosts
<1>8. ASSUME cutoff' # 0
      PROVE  Watched'
  BY <1>8 DEF Watched
<1>9. ASSUME NEW at \in 2..clock, Purge(at)
      PROVE  Watched'
  BY <1>8, <1>9 DEF Purge
<1>10. ASSUME NEW months \in MonthsAhead, CreatePartitions(months)
       PROVE  Watched'
  BY <1>1, <1>10 DEF CreatePartitions, chainVars, vars
<1>11. ASSUME NEW at \in 2..clock, DropOldPartitions(at)
       PROVE  Watched'
  <2>1. cutoff' = IF at > cutoff THEN at ELSE cutoff
    BY <1>11 DEF DropOldPartitions
  <2>2. cutoff \in Nat /\ at # 0 /\ at \in Nat
    BY BasisFacts DEF ShapeKept, Basis
  <2> QED
    BY <1>8, <2>1, <2>2
<1> QED
  BY <1>2, <1>3, <1>4, <1>5, <1>6, <1>7, <1>9, <1>10, <1>11
     DEF RetentionNext, ChainNext, PurgeStep, AnyRow

(* The trigger stores full rows or diffs.                                  *)
LEMMA ModesOnly == RetentionSpec => [](storage \in {"full", "diff"})
<1>1. RetentionInit => storage \in {"full", "diff"}
  BY DEF RetentionInit, ChainInit
<1>2. storage \in {"full", "diff"} /\ [RetentionNext]_retentionVars => (storage \in {"full", "diff"})'
  BY AuditAssumption
     DEF RetentionNext, ChainNext, PurgeStep, Tick, Bypass, Audited, Upgrade, SwitchStorage, SetStorage,
         Purge, CreatePartitions, DropOldPartitions, retentionVars, chainVars, vars
<1> QED
  BY <1>1, <1>2, PTL DEF RetentionSpec

(***************************************************************************)
(* Until something is purged, an object that verify_diff_chain does not    *)
(* name in a full run is rebuilt as it was at every calm instant, although *)
(* it was written past the trigger once, if it was not there when tracking *)
(* began and its log begins with its INSERT.                               *)
(***************************************************************************)
THEOREM CleanCanBeTrusted ==
    ASSUME Distinguishable
    PROVE  RetentionSpec => []CleanMeansExact
<1>1. ShapeKept /\ Watched /\ storage \in {"full", "diff"} => CleanMeansExact
  <2> SUFFICES ASSUME ShapeKept, Watched, storage \in {"full", "diff"}, cutoff = 0, NEW o \in Obj,
                      NewToTable(o), Of(audit, o) # {},
                      FirstEvent(Of(audit, o)).operation = "INSERT",
                      bypassed[o] <= 1, Misrebuilt(o)
               PROVE  o \in Named(Verify(audit, live, "snapshots", 0))
    BY DEF CleanMeansExact
  <2>1. Log(audit, o, idSeq) /\ live[o] \in AnyRow
    BY LogOf, BasisFacts DEF ShapeKept
  <2>2. ~ SoundFor(o)
    <3> SUFFICES ASSUME SoundFor(o) PROVE FALSE
      OBVIOUS
    <3>1. PICK s \in past : s.calm /\
              Seen(ReconstructRow(audit, live, storage, o, s.at - 1)) # LiveRow(s.rows, o)
      BY DEF Misrebuilt
    <3> DEFINE row == live[o]
               start == s.rows[o]
               at == s.at
               spec == storage
    <3>2. at \in Nat /\ start \in AnyRow
      BY BasisFacts DEF ShapeKept, Times
    <3>3. /\ \A e, f \in Of(audit, o) : e.changed_at < at /\ f.changed_at >= at => e.id < f.id
          /\ \A e, f \in Of(audit, o) : Lacks(e) /\ e.id <= f.id => Whole(f)
      BY <3>1 DEF ShapeKept, Times, Aged, Of
    <3>4. /\ Log(audit, o, idSeq) /\ at \in Nat /\ row \in AnyRow /\ live[o] = row
          /\ start \in AnyRow /\ NoRow \in AnyRow
          /\ spec \in {"full", "diff"} /\ Of(audit, o) # {}
          /\ Window(Since(audit, o, at), start, row) /\ Window(Of(audit, o), NoRow, row)
          /\ \A e, f \in Of(audit, o) : e.changed_at < at /\ f.changed_at >= at => e.id < f.id
          /\ \A e, f \in Of(audit, o) : Lacks(e) /\ e.id <= f.id => Whole(f)
      BY <2>1, <3>1, <3>2, <3>3 DEF SoundFor, AnyRow
    <3> HIDE DEF row, start, at, spec
    <3>5. Seen(ReconstructRow(audit, live, spec, o, at - 1)) = FilterOf(start)
      BY <3>4, RebuiltFromWindow
    <3>6. LiveRow(s.rows, o) = FilterOf(start)
      BY LiveRowIs DEF start
    <3> QED
      BY <3>1, <3>5, <3>6 DEF at, spec
  <2>3. bypassed[o] = 1
    <3>1. bypassed[o] \in Nat
      BY DEF ShapeKept, Basis
    <3>2. bypassed[o] # 0
      BY <2>2, SoundUntouched
    <3> QED
      BY <3>1, <3>2
  <2>4. Flagged(Of(audit, o), live[o])
    BY <2>2, <2>3 DEF Watched
  <2>5. PICK m \in Mismatches(audit, live, o, "unskipped") :
            m.at = Always \/ \E e \in Of(audit, o) : m.at = e.changed_at
    BY <2>1, <2>4, FlaggedIsFound
  <2>6. \A e \in Of(audit, o) : e.changed_at >= 0 /\ e.id \in Nat
    BY BasisFacts DEF ShapeKept, Of
  <2>7. m.at >= 0
    BY <2>5, <2>6, BasisFacts DEF Always, ShapeKept
  <2>8. m \in Mismatches(audit, live, o, "snapshots")
    BY <2>1, ShortcutChangesNothing
  <2>9. \E e \in Of(audit, o) : e.changed_at >= 0
    BY <2>6
  <2>10. \A e \in audit : e.id \in Nat
    BY BasisFacts DEF ShapeKept
  <2> QED
    BY <2>7, <2>8, <2>9, <2>10, VerifyNames
<1>2. RetentionSpec => []Watched
  <2>1. RetentionInit => Watched
    BY WatchedInit
  <2> QED
    BY <2>1, WatchedStep, RetentionInvariant, PTL DEF RetentionSpec
<1> QED
  BY <1>1, <1>2, RetentionInvariant, ModesOnly, PTL
==============================================================================
