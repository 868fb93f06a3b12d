---------------------------- MODULE AuditLogProofs ----------------------------
(***************************************************************************)
(* Theorems about AuditLog and AuditReaders, for every number of objects,  *)
(* columns, values, sessions, events and instants.  Revert is a write like *)
(* any other, so what is shown of the log holds with the readers too.      *)
(*                                                                         *)
(* The last part is what the proofs about retention and about compaction   *)
(* share: which events the releases write, what a step of DiffChain does   *)
(* to them, what verify_diff_chain names, and that the shortcut of its     *)
(* snapshot body changes none of that.                                     *)
(***************************************************************************)
EXTENDS AuditReaders, DiffChain, FiniteSetTheorems, NumberSets, TLAPS

------------------------------------------------------------------------------
(* The first and the last event of a set *)

(* FirstEvent is the event of a nonempty set with the least id. *)
LEMMA FirstEventOf ==
    ASSUME NEW S, \A e \in S : e.id \in Nat, S # {}
    PROVE  FirstEvent(S) \in S /\ \A f \in S : FirstEvent(S).id <= f.id
<1> DEFINE ids == {n \in Nat : \E e \in S : n = e.id}
<1>1. ids # {}
  OBVIOUS
<1>2. PICK n \in ids : \A m \in ids : n <= m
  <2> HIDE DEF ids
  <2>1. ids \subseteq Nat
    BY DEF ids
  <2> QED
    BY <1>1, <2>1, Least
<1>3. PICK e \in S : n = e.id
  OBVIOUS
<1>4. \A f \in S : e.id <= f.id
  BY <1>2, <1>3
<1> QED
  BY <1>4 DEF FirstEvent

(* LastEvent is the event of a nonempty bounded set with the greatest id. *)
LEMMA LastEventOf ==
    ASSUME NEW S, NEW n \in Nat, \A e \in S : e.id \in Nat /\ e.id <= n, S # {}
    PROVE  LastEvent(S) \in S /\ \A f \in S : f.id <= LastEvent(S).id
<1> DEFINE ids == {k \in Nat : \E e \in S : k = e.id}
<1>1. ids # {} /\ \A k \in ids : k <= n
  OBVIOUS
<1>2. PICK k \in ids : \A m \in ids : m <= k
  <2> HIDE DEF ids
  <2>1. ids \subseteq Nat
    BY DEF ids
  <2> QED
    BY <1>1, <2>1, Greatest
<1>3. PICK e \in S : k = e.id
  OBVIOUS
<1>4. \A f \in S : f.id <= e.id
  BY <1>2, <1>3
<1> QED
  BY <1>4 DEF LastEvent

------------------------------------------------------------------------------
(* The invariant.  It speaks of a view: the events S of one object as a    *)
(* reader sees them, and its row, committed or of an open transaction.     *)

(* NoRow stands for the value of a column of a row that is not there,      *)
(* which is neither a value nor NULL; a diff shows it as null.             *)
ValueOf(row, c) == IF row = NoRow THEN NoRow ELSE row[c]
OldOf(e, c) == IF e.operation = "INSERT" THEN NoRow ELSE e.diff[c].old
NewOf(e, c) == IF e.operation = "DELETE" THEN NoRow ELSE e.diff[c].new
AnyRow == Row \cup {NoRow}

Naming(U, c) == {e \in U : c \in DOMAIN e.diff}
From(S, i) == {e \in S : e.id >= i}
Later(S, at) == {e \in S : \E f \in S : f.changed_at > at /\ f.id <= e.id}

(* The value of column c before the events U, of a row that is now row. *)
Was(U, row, c) ==
    IF Naming(U, c) = {} THEN ValueOf(row, c) ELSE OldOf(FirstEvent(Naming(U, c)), c)

WasRow(U, row, r) == \A c \in Tracked : ValueOf(r, c) = Was(U, row, c)

(* What the trigger writes: the operation, the sides of the diff and the   *)
(* snapshots of one event belong together.                                 *)
Shaped(e) ==
    /\ DOMAIN e = {"id", "changed_at", "object_id", "operation", "diff", "old_data", "new_data"}
    /\ e.id \in Nat /\ e.changed_at \in Nat
    /\ e.operation \in {"INSERT", "UPDATE", "DELETE"}
    /\ DOMAIN e.diff \subseteq Tracked /\ DOMAIN e.diff # {}
    /\ e.old_data \in [Tracked -> Cell] \cup {NoRow}
    /\ e.new_data \in [Tracked -> Cell] \cup {NoRow}
    /\ \A c \in DOMAIN e.diff :
          /\ Paired(e.diff[c])
          /\ e.operation = "INSERT" => e.diff[c].old = Null
          /\ e.operation = "DELETE" => e.diff[c].new = Null
          /\ e.operation = "UPDATE" => e.diff[c].old # e.diff[c].new
          /\ e.old_data # NoRow => e.old_data[c] = e.diff[c].old
          /\ e.new_data # NoRow => e.new_data[c] = e.diff[c].new
    /\ e.operation # "UPDATE" => DOMAIN e.diff = Tracked
    /\ e.operation = "UPDATE" => (e.old_data = NoRow <=> e.new_data = NoRow)
    /\ e.operation = "INSERT" => e.old_data = NoRow
    /\ e.operation = "DELETE" => e.new_data = NoRow

(* The events explain the row: each says what its columns were and became, *)
(* there was a row before each, and the snapshots show it.                 *)
Explains(S, row) ==
    \A e \in S :
        /\ Shaped(e)
        /\ \A c \in DOMAIN e.diff : NewOf(e, c) = Was(From(S, e.id + 1), row, c)
        /\ \E r \in AnyRow : WasRow(From(S, e.id), row, r)
        /\ e.old_data # NoRow => \A c \in Tracked : e.old_data[c] = Was(From(S, e.id), row, c)
        /\ e.new_data # NoRow =>
              \A c \in Tracked : e.new_data[c] = Was(From(S, e.id + 1), row, c)

(* Row locks: who has written an object, and when its transaction began. *)
Locked ==
    /\ \A t \in Txn : DOMAIN dirty[t] # {} => Open(t)
    /\ \A t, u \in Txn : t # u => DOMAIN dirty[t] \cap DOMAIN dirty[u] = {}
    /\ \A t \in Txn : \A e \in pending[t] :
          e.object_id \in DOMAIN dirty[t] /\ e.changed_at = begun[t]

IdsUnique == \A e, f \in AllEvents : e.id = f.id => e = f

ViewOf(t, o) == Of(EventsOf(t), o)

Explained ==
    /\ \A o \in Obj : Explains(Of(audit, o), live[o])
    /\ \A t \in Txn : \A o \in DOMAIN dirty[t] :
          /\ Explains(ViewOf(t, o), dirty[t][o])
          /\ Of(pending[t], o) = {} =>
                \A c \in Tracked : ValueOf(dirty[t][o], c) = ValueOf(live[o], c)

(* The recorded pasts, and what the events say of them. *)
Recorded ==
    \A s \in past :
        /\ s.rows \in [Obj -> AnyRow] /\ s.at \in 1..clock /\ s.calm \in BOOLEAN
        /\ s.calm => \A t \in Txn : Open(t) => begun[t] >= s.at

CalmKept ==
    \A s \in past : s.calm =>
        /\ \A o \in Obj : WasRow(Later(Of(audit, o), s.at - 1), live[o], s.rows[o])
        /\ \A t \in Txn : \A o \in DOMAIN dirty[t] :
              WasRow(Later(ViewOf(t, o), s.at - 1), dirty[t][o], s.rows[o])

Known(U, row, o, at) == \E s \in past : s.at > at /\ WasRow(U, row, s.rows[o])

NeverNew ==
    \A at \in 1..clock - 1 :
        /\ \A o \in Obj : Known(Later(Of(audit, o), at), live[o], o, at)
        /\ \A t \in Txn : \A o \in DOMAIN dirty[t] :
              \/ Later(ViewOf(t, o), at) = {}
              \/ Known(Later(ViewOf(t, o), at), dirty[t][o], o, at)

ShapeInv ==
    /\ TypeOK
    /\ dirty = [t \in Txn |-> dirty[t]] /\ pending = [t \in Txn |-> pending[t]]
    /\ \A e \in AllEvents : Shaped(e)

LogInv == Locked /\ IdsUnique /\ Explained /\ Recorded /\ CalmKept /\ NeverNew
------------------------------------------------------------------------------
(* What the value of a column was *)

Ordered(U) ==
    /\ \A e \in U : e.id \in Nat
    /\ \A e, f \in U : e.id = f.id => e = f

(* The value is that of the row, or the old side of the first event that   *)
(* names the column.                                                       *)
LEMMA WasFacts ==
    ASSUME NEW U, Ordered(U), NEW row, NEW c
    PROVE  /\ Naming(U, c) = {} => Was(U, row, c) = ValueOf(row, c)
           /\ \A e \in U :
                 /\ c \in DOMAIN e.diff
                 /\ \A f \in U : c \in DOMAIN f.diff => e.id <= f.id
                 => Was(U, row, c) = OldOf(e, c)
           /\ Naming(U, c) # {} =>
                 \E e \in U :
                     /\ c \in DOMAIN e.diff
                     /\ \A f \in U : c \in DOMAIN f.diff => e.id <= f.id
                     /\ Was(U, row, c) = OldOf(e, c)
<1> DEFINE N == Naming(U, c)
           first == FirstEvent(N)
<1>1. CASE N = {}
  BY <1>1 DEF Was, Naming
<1>2. CASE N # {}
  <2>1. first \in N /\ \A f \in N : first.id <= f.id
    <3>1. \A e \in N : e.id \in Nat
      BY DEF Naming, Ordered
    <3> HIDE DEF N
    <3> QED
      BY <1>2, <3>1, FirstEventOf
  <2>2. Was(U, row, c) = OldOf(first, c)
    BY <1>2 DEF Was
  <2>3. first \in U /\ c \in DOMAIN first.diff
    BY <2>1 DEF Naming
  <2>4. ASSUME NEW e \in U, c \in DOMAIN e.diff,
               \A f \in U : c \in DOMAIN f.diff => e.id <= f.id
        PROVE  e = first
    <3>1. e.id <= first.id /\ first.id <= e.id
      BY <2>1, <2>3, <2>4 DEF Naming
    <3> QED
      BY <2>3, <3>1 DEF Ordered
  <2> HIDE DEF first
  <2> QED
    BY <1>2, <2>1, <2>2, <2>3, <2>4 DEF Naming
<1> QED
  BY <1>1, <1>2

(* Only the tracked values of the row matter. *)
LEMMA WasSame ==
    ASSUME NEW U, NEW row, NEW new, NEW c, ValueOf(row, c) = ValueOf(new, c)
    PROVE  Was(U, row, c) = Was(U, new, c)
BY DEF Was

(* e is the event of a change from row to new. *)
Changes(e, row, new) ==
    \A c \in Tracked :
        /\ c \in DOMAIN e.diff => /\ OldOf(e, c) = ValueOf(row, c)
                                  /\ NewOf(e, c) = ValueOf(new, c)
        /\ c \notin DOMAIN e.diff => ValueOf(new, c) = ValueOf(row, c)
        /\ e.old_data # NoRow => e.old_data[c] = ValueOf(row, c)
        /\ e.new_data # NoRow => e.new_data[c] = ValueOf(new, c)

(* Writing an event changes no earlier value. *)
LEMMA WasAppend ==
    ASSUME NEW U, Ordered(U), NEW e, e.id \in Nat, \A f \in U : f.id < e.id,
           NEW row, NEW new, Changes(e, row, new), NEW c \in Tracked
    PROVE  Was(U \cup {e}, new, c) = Was(U, row, c)
<1>1. Ordered(U \cup {e})
  BY DEF Ordered
<1>2. CASE Naming(U, c) = {}
  <2>1. Was(U, row, c) = ValueOf(row, c)
    BY <1>2, WasFacts
  <2>2. CASE c \in DOMAIN e.diff
    <3>1. \A f \in U \cup {e} : c \in DOMAIN f.diff => e.id <= f.id
      BY <1>2 DEF Naming
    <3>2. Was(U \cup {e}, new, c) = OldOf(e, c)
      BY <1>1, <2>2, <3>1, WasFacts
    <3> QED
      BY <2>1, <2>2, <3>2 DEF Changes
  <2>3. CASE c \notin DOMAIN e.diff
    <3>1. Naming(U \cup {e}, c) = {}
      BY <1>2, <2>3 DEF Naming
    <3>2. Was(U \cup {e}, new, c) = ValueOf(new, c)
      BY <3>1 DEF Was
    <3> QED
      BY <2>1, <2>3, <3>2 DEF Changes
  <2> QED
    BY <2>2, <2>3
<1>3. CASE Naming(U, c) # {}
  <2>1. PICK f \in U : /\ c \in DOMAIN f.diff
                       /\ \A g \in U : c \in DOMAIN g.diff => f.id <= g.id
                       /\ Was(U, row, c) = OldOf(f, c)
    BY <1>3, WasFacts
  <2>2. \A g \in U \cup {e} : c \in DOMAIN g.diff => f.id <= g.id
    BY <2>1 DEF Ordered
  <2>3. Was(U \cup {e}, new, c) = OldOf(f, c)
    BY <1>1, <2>1, <2>2, WasFacts
  <2> QED
    BY <2>1, <2>3
<1> QED
  BY <1>2, <1>3

(* The events of a set that Explains are ordered by their ids, if these    *)
(* are unique.                                                             *)
LEMMA FromOrdered ==
    ASSUME NEW S, Ordered(S)
    PROVE  /\ \A i : Ordered(From(S, i))
           /\ \A at : Ordered(Later(S, at))
           /\ Ordered({})
BY DEF Ordered, From, Later

(* Writing an event keeps everything explained. *)
LEMMA ExplainsAppend ==
    ASSUME NEW S, Ordered(S), NEW e, \A f \in S : f.id < e.id, Shaped(e),
           NEW row \in AnyRow, NEW new, Changes(e, row, new), Explains(S, row)
    PROVE  Explains(S \cup {e}, new) /\ Ordered(S \cup {e})
<1> DEFINE T == S \cup {e}
<1>0. e.id \in Nat /\ \A f \in S : f.id \in Nat
  BY DEF Ordered, Shaped
<1>1. Ordered(T)
  BY <1>0 DEF Ordered
<1>2. \A f \in S : /\ From(T, f.id) = From(S, f.id) \cup {e}
                   /\ From(T, f.id + 1) = From(S, f.id + 1) \cup {e}
  BY <1>0 DEF From
<1>3. From(T, e.id) = {} \cup {e} /\ From(T, e.id + 1) = {}
  BY <1>0 DEF From
<1>4. \A i, c : c \in Tracked => Was(From(S, i) \cup {e}, new, c) = Was(From(S, i), row, c)
  BY <1>0, FromOrdered, WasAppend DEF From
<1>5. \A c \in Tracked : Was({} \cup {e}, new, c) = ValueOf(row, c)
  <2>1. \A c \in Tracked : Was({} \cup {e}, new, c) = Was({}, row, c)
    BY <1>0, FromOrdered, WasAppend
  <2>2. \A c : Was({}, row, c) = ValueOf(row, c)
    BY DEF Was, Naming
  <2> QED
    BY <2>1, <2>2
<1>6. \A c : Was({}, new, c) = ValueOf(new, c)
  BY DEF Was, Naming
<1>7. ASSUME NEW f \in S
      PROVE  /\ Shaped(f)
             /\ \A c \in DOMAIN f.diff : NewOf(f, c) = Was(From(T, f.id + 1), new, c)
             /\ \E r \in AnyRow : WasRow(From(T, f.id), new, r)
             /\ f.old_data # NoRow => \A c \in Tracked : f.old_data[c] = Was(From(T, f.id), new, c)
             /\ f.new_data # NoRow =>
                   \A c \in Tracked : f.new_data[c] = Was(From(T, f.id + 1), new, c)
  <2>1. Shaped(f) /\ DOMAIN f.diff \subseteq Tracked
    BY DEF Explains, Shaped
  <2>2. \A c \in Tracked : /\ Was(From(T, f.id), new, c) = Was(From(S, f.id), row, c)
                           /\ Was(From(T, f.id + 1), new, c) = Was(From(S, f.id + 1), row, c)
    BY <1>2, <1>4
  <2> HIDE DEF T
  <2> QED
    BY <2>1, <2>2 DEF Explains, WasRow
<1>8. /\ \A c \in DOMAIN e.diff : NewOf(e, c) = Was(From(T, e.id + 1), new, c)
      /\ WasRow(From(T, e.id), new, row)
      /\ e.old_data # NoRow => \A c \in Tracked : e.old_data[c] = Was(From(T, e.id), new, c)
      /\ e.new_data # NoRow =>
            \A c \in Tracked : e.new_data[c] = Was(From(T, e.id + 1), new, c)
  <2>1. DOMAIN e.diff \subseteq Tracked
    BY DEF Shaped
  <2>2. \A c \in Tracked : /\ Was(From(T, e.id), new, c) = ValueOf(row, c)
                           /\ Was(From(T, e.id + 1), new, c) = ValueOf(new, c)
    BY <1>3, <1>5, <1>6
  <2> HIDE DEF T
  <2> QED
    BY <2>1, <2>2 DEF Changes, WasRow
<1> HIDE DEF T
<1>9. Explains(T, new)
  <2> SUFFICES ASSUME NEW f \in T
      PROVE  /\ Shaped(f)
             /\ \A c \in DOMAIN f.diff : NewOf(f, c) = Was(From(T, f.id + 1), new, c)
             /\ \E r \in AnyRow : WasRow(From(T, f.id), new, r)
             /\ f.old_data # NoRow => \A c \in Tracked : f.old_data[c] = Was(From(T, f.id), new, c)
             /\ f.new_data # NoRow =>
                   \A c \in Tracked : f.new_data[c] = Was(From(T, f.id + 1), new, c)
    BY DEF Explains
  <2>1. CASE f \in S
    BY <1>7, <2>1
  <2>2. CASE f = e
    BY <1>8, <2>2
  <2> QED
    BY <2>1, <2>2 DEF T
<1> QED
  BY <1>1, <1>9 DEF T

(* A write that logs nothing changes no tracked value, and keeps           *)
(* everything explained.                                                   *)
LEMMA ExplainsSame ==
    ASSUME NEW S, NEW row, NEW new, \A c \in Tracked : ValueOf(row, c) = ValueOf(new, c),
           Explains(S, row)
    PROVE  Explains(S, new)
<1>1. \A U, c : c \in Tracked => Was(U, row, c) = Was(U, new, c)
  BY WasSame
<1>2. \A U, r : WasRow(U, row, r) => WasRow(U, new, r)
  BY <1>1 DEF WasRow
<1>3. \A e \in S : DOMAIN e.diff \subseteq Tracked
  BY DEF Explains, Shaped
<1> QED
  BY <1>1, <1>2, <1>3 DEF Explains

------------------------------------------------------------------------------
(* The trigger *)

(* Rows, snapshots and sides of a diff are jsonb objects. *)
LEMMA Objects ==
    ASSUME NEW C, C \subseteq Col
    PROVE  [C -> Cell] \subseteq Object
<1>1. C \in SUBSET Col
  OBVIOUS
<1> QED
  BY <1>1 DEF Object

(* The assumptions on the constants that the proofs use. *)
LEMMA Assumed ==
    /\ Tracked \subseteq Col /\ NoRow \notin Row /\ NoRow \notin [Tracked -> Cell]
    /\ NoRow \notin Cell /\ Null \in Cell /\ Modes \subseteq {"full", "diff"}
    /\ MaxEvents \in Nat /\ MaxClock \in Nat \ {0}
BY AuditAssumption, Objects DEF Row, Cell

(* The filtered row has the tracked values of the row. *)
LEMMA Filtered ==
    ASSUME NEW row \in Row
    PROVE  /\ Filter(row) \in [Tracked -> Cell] /\ Filter(row) # NoRow
           /\ \A c \in Tracked : /\ Filter(row)[c] = row[c] /\ row[c] \in Cell
                                 /\ ValueOf(row, c) = row[c] /\ ValueOf(row, c) # NoRow
                                 /\ Shown(row, c) = row[c]
           /\ row # NoRow
<1>1. \A c \in Tracked : row[c] \in Cell /\ Filter(row)[c] = row[c]
  BY Assumed DEF Row, Filter
<1>2. Filter(row) \in [Tracked -> Cell]
  BY <1>1 DEF Filter
<1> QED
  BY <1>1, <1>2, Assumed DEF ValueOf, Shown

(* A row that is not there has no values, and shows as NULL. *)
LEMMA NoValues == \A c : ValueOf(NoRow, c) = NoRow /\ Shown(NoRow, c) = Null
BY DEF ValueOf, Shown

(* The diff of a change names tracked columns, each with its value before  *)
(* and after, and leaves out only columns that kept theirs.                *)
LEMMA DiffFacts ==
    ASSUME NEW old \in AnyRow, NEW new \in AnyRow, old # new
    PROVE  LET d == Diff(old, new)
           IN  /\ DOMAIN d \subseteq Tracked
               /\ old = NoRow \/ new = NoRow => DOMAIN d = Tracked
               /\ \A c \in DOMAIN d :
                     /\ Paired(d[c])
                     /\ d[c].old = Shown(old, c) /\ d[c].new = Shown(new, c)
                     /\ old # NoRow /\ new # NoRow => d[c].old # d[c].new
               /\ \A c \in Tracked \ DOMAIN d : ValueOf(old, c) = ValueOf(new, c)
<1> DEFINE d == Diff(old, new)
<1>1. CASE old = NoRow
  <2>1. new \in Row
    BY <1>1 DEF AnyRow
  <2>2. d = [c \in Tracked |-> [old |-> Null, new |-> new[c]]]
    BY <1>1 DEF Diff
  <2>3. \A c \in Tracked : /\ Paired(d[c]) /\ d[c].old = Null /\ d[c].new = new[c]
    BY <2>1, <2>2, Filtered, Assumed DEF Paired
  <2> HIDE DEF d
  <2>4. DOMAIN d = Tracked
    BY <2>2
  <2>5. \A c \in Tracked : Shown(old, c) = Null /\ Shown(new, c) = new[c]
    BY <1>1, <2>1, Filtered, NoValues
  <2> QED
    BY <1>1, <2>3, <2>4, <2>5 DEF d
<1>2. CASE old # NoRow /\ new = NoRow
  <2>1. old \in Row
    BY <1>2 DEF AnyRow
  <2>2. d = [c \in Tracked |-> [old |-> old[c], new |-> Null]]
    BY <1>2 DEF Diff
  <2>3. \A c \in Tracked : /\ Paired(d[c]) /\ d[c].old = old[c] /\ d[c].new = Null
    BY <2>1, <2>2, Filtered, Assumed DEF Paired
  <2> HIDE DEF d
  <2>4. DOMAIN d = Tracked
    BY <2>2
  <2>5. \A c \in Tracked : Shown(new, c) = Null /\ Shown(old, c) = old[c]
    BY <1>2, <2>1, Filtered, NoValues
  <2> QED
    BY <1>2, <2>3, <2>4, <2>5 DEF d
<1>3. CASE old # NoRow /\ new # NoRow
  <2>1. old \in Row /\ new \in Row
    BY <1>3 DEF AnyRow
  <2> DEFINE C == {c \in Tracked : old[c] # new[c]}
  <2>2. d = [c \in C |-> [old |-> old[c], new |-> new[c]]]
    <3>1. DOMAIN Filter(new) = Tracked
      BY DEF Filter
    <3>2. {c \in DOMAIN Filter(new) : Filter(old)[c] # Filter(new)[c]} = C
      BY <2>1, <3>1, Filtered
    <3>3. d = JsonbDiff(Filter(old), Filter(new))
      BY <1>3 DEF Diff
    <3>4. d = [c \in C |-> [old |-> Filter(old)[c], new |-> Filter(new)[c]]]
      BY <3>2, <3>3 DEF JsonbDiff
    <3>5. \A c \in C : Filter(old)[c] = old[c] /\ Filter(new)[c] = new[c]
      BY <2>1, Filtered
    <3> HIDE DEF C, d
    <3> QED
      BY <3>4, <3>5
  <2>3. \A c \in C : /\ Paired(d[c]) /\ d[c].old = old[c] /\ d[c].new = new[c]
    BY <2>1, <2>2, Filtered, Assumed DEF Paired
  <2> HIDE DEF d
  <2>4. DOMAIN d = C
    BY <2>2
  <2>5. \A c \in Tracked : /\ ValueOf(new, c) = new[c] /\ ValueOf(old, c) = old[c]
                            /\ Shown(new, c) = new[c] /\ Shown(old, c) = old[c]
    BY <2>1, Filtered
  <2> QED
    BY <1>3, <2>3, <2>4, <2>5 DEF d
<1> QED
  BY <1>1, <1>2, <1>3

(* An event of the trigger is shaped as one, and says what changed. *)
LEMMA EventFacts ==
    ASSUME NEW id \in Nat, NEW at \in Nat, NEW o, NEW old \in AnyRow, NEW new \in AnyRow,
           old # new, DOMAIN Diff(old, new) # {}
    PROVE  LET e == Event(id, at, o, old, new)
           IN  /\ e.id = id /\ e.changed_at = at /\ e.object_id = o
               /\ Shaped(e) /\ Changes(e, old, new)
<1> DEFINE e == Event(id, at, o, old, new)
<1>1. /\ e.id = id /\ e.changed_at = at /\ e.object_id = o
      /\ e.operation = Operation(old, new) /\ e.diff = Diff(old, new)
      /\ e.old_data = Snapshot(old) /\ e.new_data = Snapshot(new)
  BY DEF Event
<1>0. DOMAIN e =
          {"id", "changed_at", "object_id", "operation", "diff", "old_data", "new_data"}
  BY DEF Event
<1> HIDE DEF e
<1>2. \A row \in AnyRow :
          /\ row = NoRow => Snapshot(row) = NoRow
          /\ Snapshot(row) \in [Tracked -> Cell] \cup {NoRow}
          /\ Snapshot(row) # NoRow =>
                \A c \in Tracked : /\ Snapshot(row)[c] = ValueOf(row, c)
                                   /\ Snapshot(row)[c] = Shown(row, c)
          /\ row # NoRow => (Snapshot(row) = NoRow <=> storage = "diff")
          /\ \A c \in Tracked : /\ row = NoRow => ValueOf(row, c) = NoRow /\ Shown(row, c) = Null
                                /\ row # NoRow => ValueOf(row, c) = Shown(row, c)
  BY Filtered, NoValues, Assumed DEF Snapshot, AnyRow
<1>3. /\ old = NoRow => Operation(old, new) = "INSERT"
      /\ old # NoRow /\ new = NoRow => Operation(old, new) = "DELETE"
      /\ old # NoRow /\ new # NoRow => Operation(old, new) = "UPDATE"
  BY DEF Operation
<1>4. /\ DOMAIN e.diff \subseteq Tracked
      /\ old = NoRow \/ new = NoRow => DOMAIN e.diff = Tracked
      /\ \A c \in DOMAIN e.diff : /\ Paired(e.diff[c])
                                  /\ e.diff[c].old = Shown(old, c)
                                  /\ e.diff[c].new = Shown(new, c)
                                  /\ old # NoRow /\ new # NoRow => e.diff[c].old # e.diff[c].new
      /\ \A c \in Tracked \ DOMAIN e.diff : ValueOf(old, c) = ValueOf(new, c)
  BY <1>1, DiffFacts
<1>5. Shaped(e)
  BY <1>0, <1>1, <1>2, <1>3, <1>4 DEF Shaped
<1>6. Changes(e, old, new)
  BY <1>1, <1>2, <1>3, <1>4 DEF Changes, OldOf, NewOf
<1> QED
  BY <1>1, <1>5, <1>6 DEF e

(* The sides of an event are those of its diff, but for the row that is    *)
(* not there before an INSERT or after a DELETE.                           *)
LEMMA Sides ==
    ASSUME NEW e, Shaped(e), NEW c \in DOMAIN e.diff
    PROVE  /\ c \in Tracked /\ Paired(e.diff[c])
           /\ e.diff[c].old \in Cell /\ e.diff[c].new \in Cell
           /\ e.operation # "INSERT" => OldOf(e, c) = e.diff[c].old /\ OldOf(e, c) # NoRow
           /\ e.operation = "INSERT" => OldOf(e, c) = NoRow /\ e.diff[c].old = Null
           /\ e.operation # "DELETE" => NewOf(e, c) = e.diff[c].new /\ NewOf(e, c) # NoRow
           /\ e.operation = "DELETE" => NewOf(e, c) = NoRow /\ e.diff[c].new = Null
BY Assumed DEF Shaped, Paired, OldOf, NewOf

(* A write that is not logged changed no tracked column. *)
LEMMA Unlogged ==
    ASSUME NEW old \in AnyRow, NEW new \in AnyRow, old # new, DOMAIN Diff(old, new) = {}
    PROVE  \A c \in Tracked : ValueOf(old, c) = ValueOf(new, c)
BY DiffFacts

------------------------------------------------------------------------------
(* What the steps do, transaction by transaction *)

(* An event is committed or pending in some transaction. *)
LEMMA InAllEvents ==
    /\ \A e : e \in AllEvents <=> e \in audit \/ \E t \in Txn : e \in pending[t]
    /\ \A e : e \in AllEvents' <=> e \in audit' \/ \E t \in Txn : e \in pending'[t]
BY DEF AllEvents

(* Types, in the form the proofs use. *)
LEMMA Typed ==
    ASSUME ShapeInv
    PROVE  /\ clock \in Nat /\ clock >= 1 /\ idSeq \in Nat
           /\ \A o \in Obj : live[o] \in AnyRow
           /\ \A t \in Txn : /\ begun[t] \in Nat /\ begun[t] <= clock
                             /\ DOMAIN dirty[t] \subseteq Obj
                             /\ \A o \in DOMAIN dirty[t] : dirty[t][o] \in AnyRow
                             /\ \A o \in Obj : TableOf(t)[o] \in AnyRow
           /\ \A e \in AllEvents : /\ Shaped(e) /\ e.id \in Nat /\ e.id <= idSeq
                                   /\ e.changed_at \in Nat
                                   /\ e.changed_at >= 1 /\ e.changed_at <= clock
                                   /\ e.object_id \in Obj
BY Assumed DEF ShapeInv, TypeOK, AnyRow, EventOK, TableOf

(* A write changes one row of one transaction, and adds its event if a     *)
(* tracked column changed.                                                 *)
LEMMA WriteFacts ==
    ASSUME ShapeInv, NEW t \in Txn, NEW o \in Obj, NEW new \in AnyRow, Write(t, o, new)
    PROVE  /\ Open(t) /\ \A u \in Txn \ {t} : o \notin DOMAIN dirty[u]
           /\ TableOf(t)[o] \in AnyRow /\ new # TableOf(t)[o]
           /\ \A u \in Txn \ {t} : dirty'[u] = dirty[u] /\ pending'[u] = pending[u]
           /\ dirty' = [u \in Txn |-> dirty'[u]] /\ pending' = [u \in Txn |-> pending'[u]]
           /\ DOMAIN dirty'[t] = DOMAIN dirty[t] \cup {o} /\ dirty'[t][o] = new
           /\ \A p \in DOMAIN dirty[t] \ {o} : dirty'[t][p] = dirty[t][p]
           /\ dirty'[t] \in [DOMAIN dirty'[t] -> AnyRow]
           /\ \/ /\ \E e : /\ pending'[t] = pending[t] \cup {e}
                           /\ e.id = idSeq' /\ e.changed_at = begun[t] /\ e.object_id = o
                           /\ Shaped(e) /\ Changes(e, TableOf(t)[o], new)
                 /\ idSeq < MaxEvents /\ idSeq' = idSeq + 1 /\ new \notin Skipped
              \/ /\ idSeq' = idSeq /\ pending'[t] = pending[t]
                 /\ new \in Skipped \/ \A c \in Tracked :
                        ValueOf(TableOf(t)[o], c) = ValueOf(new, c)
           /\ UNCHANGED <<live, audit, begun, storage, clock, cutoff, past>>
<1> DEFINE old == TableOf(t)[o]
           written == [p \in DOMAIN dirty[t] \cup {o} |-> IF p = o THEN new ELSE dirty[t][p]]
<1>1. /\ Open(t) /\ \A u \in Txn \ {t} : o \notin DOMAIN dirty[u]
      /\ old \in AnyRow /\ new # old /\ begun[t] \in Nat /\ idSeq \in Nat
      /\ UNCHANGED <<live, audit, begun, storage, clock, cutoff, past>>
  BY Typed DEF Write, MayWrite
<1>2. dirty' = [dirty EXCEPT ![t] = written]
  BY DEF Write, SetRow
<1>3. dirty = [u \in Txn |-> dirty[u]] /\ pending = [u \in Txn |-> pending[u]]
  BY DEF ShapeInv
<1>4. /\ dirty'[t] = written /\ \A u \in Txn \ {t} : dirty'[u] = dirty[u]
      /\ dirty' = [u \in Txn |-> dirty'[u]]
  <2> HIDE DEF written
  <2> QED
    BY <1>2, <1>3
<1>5. /\ DOMAIN dirty'[t] = DOMAIN dirty[t] \cup {o} /\ dirty'[t][o] = new
      /\ \A p \in DOMAIN dirty[t] \ {o} : dirty'[t][p] = dirty[t][p]
      /\ dirty'[t] \in [DOMAIN dirty'[t] -> AnyRow]
  <2>1. \A p \in DOMAIN dirty[t] : dirty[t][p] \in AnyRow
    BY Typed
  <2> QED
    BY <1>4, <2>1
<1>6. CASE Logs(old, new)
  <2> DEFINE e == Event(idSeq', begun[t], o, old, new)
  <2>1. /\ idSeq < MaxEvents /\ idSeq' = idSeq + 1
        /\ pending' = [pending EXCEPT ![t] = @ \cup {e}]
    BY <1>6 DEF Write
  <2>2. idSeq' \in Nat /\ DOMAIN Diff(old, new) # {} /\ new \notin Skipped
    BY <1>1, <1>6, <2>1 DEF Logs
  <2>3. /\ e.id = idSeq' /\ e.changed_at = begun[t] /\ e.object_id = o
        /\ Shaped(e) /\ Changes(e, old, new)
    <3> HIDE DEF old
    <3> QED
      BY <1>1, <2>2, EventFacts
  <2> HIDE DEF e, old, written
  <2>4. /\ pending'[t] = pending[t] \cup {e} /\ \A u \in Txn \ {t} : pending'[u] = pending[u]
        /\ pending' = [u \in Txn |-> pending'[u]]
    BY <1>3, <2>1
  <2> QED
    BY <1>1, <1>4, <1>5, <2>1, <2>2, <2>3, <2>4 DEF old
<1>7. CASE ~ Logs(old, new)
  <2>1. idSeq' = idSeq /\ pending' = pending
    BY <1>7 DEF Write
  <2>2. new \in Skipped \/ DOMAIN Diff(old, new) = {}
    BY <1>7 DEF Logs
  <2>3. new \in Skipped \/ \A c \in Tracked : ValueOf(old, c) = ValueOf(new, c)
    <3> HIDE DEF old
    <3> QED
      BY <1>1, <2>2, Unlogged
  <2> HIDE DEF written
  <2> QED
    BY <1>1, <1>3, <1>4, <1>5, <2>1, <2>3
<1> QED
  BY <1>6, <1>7

(* A transaction that ends lets go of its rows and its events. *)
LEMMA FinishFacts ==
    ASSUME ShapeInv, NEW t \in Txn, Finish(t)
    PROVE  /\ Open(t)
           /\ DOMAIN dirty'[t] = {} /\ pending'[t] = {} /\ begun'[t] = 0
           /\ dirty'[t] \in [DOMAIN dirty'[t] -> AnyRow]
           /\ \A u \in Txn \ {t} : /\ dirty'[u] = dirty[u] /\ pending'[u] = pending[u]
                                   /\ begun'[u] = begun[u]
           /\ dirty' = [u \in Txn |-> dirty'[u]] /\ pending' = [u \in Txn |-> pending'[u]]
           /\ begun' \in [Txn -> 0..clock]
           /\ UNCHANGED <<storage, idSeq, clock, cutoff>>
<1>1. dirty = [u \in Txn |-> dirty[u]] /\ pending = [u \in Txn |-> pending[u]]
      /\ begun \in [Txn -> 0..clock] /\ clock \in Nat
  BY Typed DEF ShapeInv, TypeOK
<1> DEFINE none == [o \in {} |-> NoRow]
<1>2. DOMAIN none = {} /\ none \in [{} -> AnyRow]
  OBVIOUS
<1>3. dirty' = [dirty EXCEPT ![t] = none]
  BY DEF Finish
<1> HIDE DEF none
<1>4. /\ dirty'[t] = none /\ \A u \in Txn \ {t} : dirty'[u] = dirty[u]
      /\ dirty' = [u \in Txn |-> dirty'[u]]
  BY <1>1, <1>3
<1>5. /\ pending'[t] = {} /\ begun'[t] = 0
      /\ \A u \in Txn \ {t} : pending'[u] = pending[u] /\ begun'[u] = begun[u]
      /\ pending' = [u \in Txn |-> pending'[u]] /\ begun' \in [Txn -> 0..clock]
  <2>1. pending' = [pending EXCEPT ![t] = {}] /\ begun' = [begun EXCEPT ![t] = 0]
    BY DEF Finish
  <2>2. /\ pending'[t] = {} /\ \A u \in Txn \ {t} : pending'[u] = pending[u]
        /\ pending' = [u \in Txn |-> pending'[u]]
    BY <1>1, <2>1
  <2>3. 0 \in 0..clock
    BY <1>1
  <2>4. /\ begun'[t] = 0 /\ \A u \in Txn \ {t} : begun'[u] = begun[u]
        /\ begun' \in [Txn -> 0..clock]
    BY <1>1, <2>1, <2>3
  <2> QED
    BY <2>2, <2>4
<1> QED
  BY <1>2, <1>4, <1>5 DEF Finish

(* At first there are no events. *)
LEMMA ShapeInit == Init => ShapeInv
<1> SUFFICES ASSUME Init PROVE ShapeInv
  OBVIOUS
<1>1. AllEvents = {}
  BY DEF Init, AllEvents
<1>2. \A t \in Txn : DOMAIN dirty[t] = {} /\ dirty[t] \in [{} -> AnyRow]
  BY DEF Init
<1>3. live \in [Obj -> AnyRow] /\ begun \in [Txn -> 0..clock] /\ storage \in Modes
  BY DEF Init, AnyRow
<1>4. idSeq \in 0..MaxEvents /\ cutoff \in 0..clock /\ clock \in 1..MaxClock
  BY Assumed DEF Init
<1>5. dirty = [t \in Txn |-> dirty[t]] /\ pending = [t \in Txn |-> pending[t]]
  BY DEF Init
<1> QED
  BY <1>1, <1>2, <1>3, <1>4, <1>5 DEF ShapeInv, TypeOK, AnyRow

(* A step that writes no event keeps the shapes. *)
LEMMA ShapeFrame ==
    ASSUME ShapeInv, AllEvents' \subseteq AllEvents, idSeq' = idSeq,
           clock' \in clock..MaxClock,
           live' \in [Obj -> AnyRow], storage' \in Modes, cutoff' \in 0..clock',
           begun' \in [Txn -> 0..clock'],
           dirty' = [u \in Txn |-> dirty'[u]], pending' = [u \in Txn |-> pending'[u]],
           \A u \in Txn : /\ DOMAIN dirty'[u] \subseteq Obj
                          /\ dirty'[u] \in [DOMAIN dirty'[u] -> AnyRow]
    PROVE  ShapeInv'
<1>1. clock \in Nat /\ clock >= 1 /\ clock' \in Nat /\ clock' >= clock
  BY Typed, Assumed
<1>2. \A e \in AllEvents' : EventOK(e)' /\ Shaped(e)'
  <2> SUFFICES ASSUME NEW e \in AllEvents' PROVE EventOK(e)' /\ Shaped(e)'
    OBVIOUS
  <2>1. EventOK(e) /\ Shaped(e)
    BY DEF ShapeInv, TypeOK
  <2>2. e.changed_at \in 1..clock'
    BY <1>1, <2>1 DEF EventOK
  <2> QED
    BY <2>1, <2>2 DEF EventOK, Shaped
<1>3. idSeq' \in 0..MaxEvents /\ clock' \in 1..MaxClock
  BY <1>1 DEF ShapeInv, TypeOK
<1> QED
  BY <1>2, <1>3 DEF ShapeInv, TypeOK, AnyRow

(* The event of a write is shaped as one. *)
LEMMA ShapeWrite ==
    ASSUME ShapeInv, NEW t \in Txn, NEW o \in Obj, NEW new \in AnyRow, Write(t, o, new)
    PROVE  ShapeInv'
<1>1. /\ Open(t)
      /\ \A u \in Txn \ {t} : dirty'[u] = dirty[u] /\ pending'[u] = pending[u]
      /\ dirty' = [u \in Txn |-> dirty'[u]] /\ pending' = [u \in Txn |-> pending'[u]]
      /\ DOMAIN dirty'[t] = DOMAIN dirty[t] \cup {o}
      /\ dirty'[t] \in [DOMAIN dirty'[t] -> AnyRow]
      /\ UNCHANGED <<live, audit, begun, storage, clock, cutoff, past>>
  BY WriteFacts
<1>2. \A u \in Txn : /\ DOMAIN dirty'[u] \subseteq Obj
                     /\ dirty'[u] \in [DOMAIN dirty'[u] -> AnyRow]
  BY <1>1 DEF ShapeInv, TypeOK, AnyRow
<1>3. CASE idSeq' = idSeq /\ pending'[t] = pending[t]
  <2>1. AllEvents' \subseteq AllEvents
    BY <1>1, <1>3, InAllEvents
  <2>2. clock' \in clock..MaxClock
    BY <1>1, Typed, Assumed DEF ShapeInv, TypeOK
  <2> QED
    BY <1>1, <1>2, <1>3, <2>1, <2>2, ShapeFrame DEF ShapeInv, TypeOK, AnyRow
<1>4. ASSUME NEW e, pending'[t] = pending[t] \cup {e}, idSeq < MaxEvents, idSeq' = idSeq + 1,
             e.id = idSeq', e.changed_at = begun[t], e.object_id = o, Shaped(e)
      PROVE  ShapeInv'
  <2>1. \A f \in AllEvents' : f \in AllEvents \/ f = e
    BY <1>1, <1>4, InAllEvents
  <2>2. /\ idSeq \in Nat /\ begun[t] \in 1..clock /\ clock \in Nat
    BY <1>1, Typed DEF Open
  <2>3. EventOK(e)'
    <3>1. e.id \in 1..idSeq' /\ e.changed_at \in 1..clock'
      BY <1>1, <1>4, <2>2
    <3> QED
      BY <1>1, <1>4, <3>1 DEF EventOK, Shaped
  <2>4. \A f \in AllEvents : EventOK(f)' /\ Shaped(f)
    <3> SUFFICES ASSUME NEW f \in AllEvents PROVE EventOK(f)' /\ Shaped(f)
      OBVIOUS
    <3>1. EventOK(f) /\ Shaped(f)
      BY DEF ShapeInv, TypeOK
    <3>2. f.id \in 1..idSeq'
      BY <1>4, <2>2, <3>1 DEF EventOK
    <3> QED
      BY <1>1, <3>1, <3>2 DEF EventOK
  <2>5. \A f \in AllEvents' : EventOK(f)' /\ Shaped(f)
    <3> SUFFICES ASSUME NEW f \in AllEvents' PROVE EventOK(f)' /\ Shaped(f)
      OBVIOUS
    <3> QED
      BY <1>4, <2>1, <2>3, <2>4
  <2>6. idSeq' \in 0..MaxEvents
    BY <1>4, <2>2, Assumed
  <2> QED
    BY <1>1, <1>2, <2>5, <2>6 DEF ShapeInv, TypeOK, AnyRow, Shaped
<1> QED
  BY <1>3, <1>4, WriteFacts

(* A transaction that ends writes no event. *)
LEMMA ShapeFinish ==
    ASSUME ShapeInv, NEW t \in Txn, Commit(t) \/ Abort(t)
    PROVE  ShapeInv'
<1>1. Finish(t)
  BY DEF Commit, Abort
<1>2. live' \in [Obj -> AnyRow] /\ AllEvents' \subseteq AllEvents
  <2>1. \A u \in Txn : pending'[u] \subseteq pending[u]
    BY <1>1, FinishFacts
  <2>2. CASE Commit(t)
    <3>1. live' \in [Obj -> AnyRow]
      BY <2>2, Typed DEF Commit, TableOf
    <3>2. audit' = audit \cup pending[t]
      BY <2>2 DEF Commit, EventsOf
    <3> QED
      BY <2>1, <3>1, <3>2, InAllEvents
  <2>3. CASE Abort(t)
    BY <2>1, <2>3, InAllEvents DEF Abort, ShapeInv, TypeOK, AnyRow
  <2> QED
    BY <2>2, <2>3
<1>3. clock' = clock /\ clock' \in clock..MaxClock
  BY <1>1, FinishFacts, Typed, Assumed DEF ShapeInv, TypeOK
<1>4. \A u \in Txn : /\ DOMAIN dirty'[u] \subseteq Obj
                     /\ dirty'[u] \in [DOMAIN dirty'[u] -> AnyRow]
  BY <1>1, FinishFacts DEF ShapeInv, TypeOK, AnyRow
<1> QED
  BY <1>1, <1>2, <1>3, <1>4, FinishFacts, ShapeFrame DEF ShapeInv, TypeOK

(* Every step keeps the shapes. *)
LEMMA ShapeStep == ShapeInv /\ [Next]_vars => ShapeInv'
<1> SUFFICES ASSUME ShapeInv, [Next]_vars PROVE ShapeInv'
  OBVIOUS
<1>0. /\ \A u \in Txn : /\ DOMAIN dirty[u] \subseteq Obj
                        /\ dirty[u] \in [DOMAIN dirty[u] -> AnyRow]
      /\ live \in [Obj -> AnyRow] /\ clock \in Nat /\ clock \in 1..MaxClock
      /\ begun \in [Txn -> 0..clock] /\ cutoff \in 0..clock /\ storage \in Modes
      /\ dirty = [u \in Txn |-> dirty[u]] /\ pending = [u \in Txn |-> pending[u]]
  BY Typed DEF ShapeInv, TypeOK, AnyRow
<1>1. CASE UNCHANGED <<live, dirty, audit, pending, idSeq>> /\ clock' \in clock..MaxClock
           /\ storage' \in Modes /\ cutoff' = cutoff /\ begun' \in [Txn -> 0..clock']
  <2>1. AllEvents' = AllEvents
    BY <1>1 DEF AllEvents
  <2>2. cutoff' \in 0..clock'
    BY <1>0, <1>1
  <2> QED
    BY <1>0, <1>1, <2>1, <2>2, ShapeFrame
<1>2. CASE Tick
  BY <1>0, <1>1, <1>2, Assumed DEF Tick
<1>3. ASSUME NEW mode \in Modes, SetStorage(mode) PROVE ShapeInv'
  BY <1>0, <1>1, <1>3 DEF SetStorage
<1>4. ASSUME NEW t \in Txn, Begin(t) PROVE ShapeInv'
  BY <1>0, <1>1, <1>4 DEF Begin
<1>5. CASE UNCHANGED vars
  BY <1>0, <1>1, <1>5 DEF vars
<1>6. ASSUME NEW t \in Txn, TxnStep(t) PROVE ShapeInv'
  BY <1>4, <1>6, ShapeFinish, ShapeWrite DEF TxnStep, AnyRow
<1> QED
  BY <1>2, <1>3, <1>5, <1>6 DEF Next

(* The shapes hold in every state. *)
LEMMA ShapeInvariant == Spec => []ShapeInv
BY ShapeInit, ShapeStep, PTL DEF Spec

(***************************************************************************)
(* Type correctness: whatever transactions do, events carry drawn ids and  *)
(* past times, and diffs name tracked columns that changed (the audit      *)
(* trigger); and every event is shaped as one change of one row.           *)
(***************************************************************************)
THEOREM TypeCorrect == Spec => []TypeOK
<1>1. ShapeInv => TypeOK
  BY DEF ShapeInv
<1> QED
  BY <1>1, ShapeInvariant, PTL

------------------------------------------------------------------------------
(* Row locks and ids *)

LockInv == Locked /\ IdsUnique

(* A write takes the lock of its row and draws a fresh id. *)
LEMMA LockWrite ==
    ASSUME ShapeInv, LockInv, NEW t \in Txn, NEW o \in Obj, NEW new \in AnyRow, Write(t, o, new)
    PROVE  LockInv'
<1>1. /\ Open(t) /\ \A u \in Txn \ {t} : o \notin DOMAIN dirty[u]
      /\ \A u \in Txn \ {t} : dirty'[u] = dirty[u] /\ pending'[u] = pending[u]
      /\ DOMAIN dirty'[t] = DOMAIN dirty[t] \cup {o}
      /\ UNCHANGED <<audit, begun>>
  BY WriteFacts
<1>2. /\ \A u \in Txn : DOMAIN dirty'[u] # {} => Open(u)'
      /\ \A u, v \in Txn : u # v => DOMAIN dirty'[u] \cap DOMAIN dirty'[v] = {}
  BY <1>1 DEF LockInv, Locked, Open
<1>3. CASE pending'[t] = pending[t]
  <2>1. AllEvents' = AllEvents
    BY <1>1, <1>3, InAllEvents
  <2> QED
    BY <1>1, <1>2, <1>3, <2>1 DEF LockInv, Locked, IdsUnique
<1>4. ASSUME NEW e, pending'[t] = pending[t] \cup {e}, idSeq' = idSeq + 1,
             e.id = idSeq', e.changed_at = begun[t], e.object_id = o
      PROVE  LockInv'
  <2>1. \A f \in AllEvents' : f \in AllEvents \/ f = e
    BY <1>1, <1>4, InAllEvents
  <2>2. \A f \in AllEvents : f.id # e.id
    BY <1>4, Typed
  <2>3. IdsUnique'
    <3> SUFFICES ASSUME NEW f \in AllEvents', NEW g \in AllEvents', f.id = g.id PROVE f = g
      BY DEF IdsUnique
    <3> QED
      BY <2>1, <2>2 DEF LockInv, IdsUnique
  <2>4. \A u \in Txn : \A f \in pending'[u] :
            f.object_id \in DOMAIN dirty'[u] /\ f.changed_at = begun'[u]
    <3> SUFFICES ASSUME NEW u \in Txn, NEW f \in pending'[u]
                 PROVE  f.object_id \in DOMAIN dirty'[u] /\ f.changed_at = begun'[u]
      OBVIOUS
    <3>1. CASE f \in pending[u]
      BY <1>1, <3>1 DEF LockInv, Locked
    <3>2. CASE u = t /\ f = e
      BY <1>1, <1>4, <3>2
    <3> QED
      BY <1>1, <1>4, <3>1, <3>2
  <2> QED
    BY <1>2, <2>3, <2>4 DEF LockInv, Locked
<1> QED
  BY <1>3, <1>4, WriteFacts

(* A transaction that ends gives up its locks. *)
LEMMA LockFinish ==
    ASSUME ShapeInv, LockInv, NEW t \in Txn, Commit(t) \/ Abort(t)
    PROVE  LockInv'
<1>1. /\ DOMAIN dirty'[t] = {} /\ pending'[t] = {}
      /\ \A u \in Txn \ {t} : /\ dirty'[u] = dirty[u] /\ pending'[u] = pending[u]
                              /\ begun'[u] = begun[u]
  BY FinishFacts DEF Commit, Abort
<1>2. Locked'
  BY <1>1 DEF LockInv, Locked, Open
<1>3. AllEvents' \subseteq AllEvents
  <2>1. audit' \subseteq audit \cup pending[t]
    BY DEF Commit, Abort, EventsOf
  <2>2. \A u \in Txn : pending'[u] \subseteq pending[u]
    BY <1>1
  <2> QED
    BY <2>1, <2>2, InAllEvents
<1> QED
  BY <1>2, <1>3 DEF LockInv, IdsUnique

(* At first nothing is locked. *)
LEMMA LockInit == Init => LockInv
<1> SUFFICES ASSUME Init PROVE LockInv
  OBVIOUS
<1>1. AllEvents = {} /\ \A t \in Txn : pending[t] = {} /\ DOMAIN dirty[t] = {}
  BY DEF Init, AllEvents
<1> QED
  BY <1>1 DEF LockInv, Locked, IdsUnique

(* Every step keeps the locks exclusive and the ids unique. *)
LEMMA LockStep == ShapeInv /\ LockInv /\ [Next]_vars => LockInv'
<1> SUFFICES ASSUME ShapeInv, LockInv, [Next]_vars PROVE LockInv'
  OBVIOUS
<1>1. CASE UNCHANGED <<dirty, audit, pending, begun>>
  BY <1>1 DEF LockInv, Locked, IdsUnique, AllEvents, Open
<1>2. ASSUME NEW t \in Txn, Begin(t) PROVE LockInv'
  <2>1. \A u \in Txn : begun'[u] = begun[u] \/ u = t
    BY <1>2 DEF Begin, ShapeInv, TypeOK
  <2>2. DOMAIN dirty[t] = {} /\ pending[t] = {}
    BY <1>2 DEF Begin, LockInv, Locked
  <2> QED
    BY <1>2, <2>1, <2>2 DEF Begin, LockInv, Locked, IdsUnique, AllEvents, Open
<1> QED
  BY <1>1, <1>2, LockWrite, LockFinish
     DEF Next, TxnStep, Tick, SetStorage, vars, AnyRow

------------------------------------------------------------------------------
(* Views *)

(* The ids order what a reader sees of an object, committed or in a        *)
(* transaction.                                                            *)
LEMMA ViewsOrdered ==
    ASSUME ShapeInv, LockInv, NEW o
    PROVE  /\ Ordered(Of(audit, o))
           /\ \A t \in Txn : Ordered(ViewOf(t, o))
           /\ \A e \in Of(audit, o) : e \in AllEvents
           /\ \A t \in Txn : \A e \in ViewOf(t, o) : e \in AllEvents
<1>1. \A e \in Of(audit, o) : e \in AllEvents
  BY InAllEvents DEF Of
<1>2. \A t \in Txn : \A e \in ViewOf(t, o) : e \in AllEvents
  BY InAllEvents DEF ViewOf, EventsOf, Of
<1> QED
  BY <1>1, <1>2, Typed DEF Ordered, LockInv, IdsUnique

(* A transaction sees the committed events and row of what it did not write. *)
LEMMA ViewsElsewhere ==
    ASSUME LockInv, NEW t \in Txn, NEW o \in Obj
    PROVE  /\ o \notin DOMAIN dirty[t] => /\ ViewOf(t, o) = Of(audit, o)
                                          /\ Of(pending[t], o) = {}
                                          /\ TableOf(t)[o] = live[o]
           /\ o \in DOMAIN dirty[t] => TableOf(t)[o] = dirty[t][o]
BY DEF LockInv, Locked, ViewOf, EventsOf, Of, TableOf

(* A transaction sees events that explain the row it sees. *)
LEMMA ExplainedView ==
    ASSUME LockInv, Explained, NEW t \in Txn, NEW o \in Obj
    PROVE  /\ Explains(ViewOf(t, o), TableOf(t)[o])
           /\ Of(pending[t], o) = {} =>
                /\ ViewOf(t, o) = Of(audit, o)
                /\ \A c \in Tracked : ValueOf(TableOf(t)[o], c) = ValueOf(live[o], c)
<1>1. Of(pending[t], o) = {} => ViewOf(t, o) = Of(audit, o)
  BY DEF ViewOf, EventsOf, Of
<1> QED
  BY <1>1, ViewsElsewhere DEF Explained

(* The views after a write: one is new. *)
LEMMA WriteViews ==
    ASSUME ShapeInv, LockInv, NEW t \in Txn, NEW o \in Obj, NEW new \in AnyRow, Write(t, o, new)
    PROVE  /\ \A u \in Txn : \A p \in DOMAIN dirty'[u] : ~ (u = t /\ p = o) =>
                 /\ p \in DOMAIN dirty[u] /\ dirty'[u][p] = dirty[u][p]
                 /\ ViewOf(u, p)' = ViewOf(u, p) /\ Of(pending'[u], p) = Of(pending[u], p)
           /\ pending'[t] = pending[t] =>
                 ViewOf(t, o)' = ViewOf(t, o) /\ Of(pending'[t], o) = Of(pending[t], o)
           /\ \A e : pending'[t] = pending[t] \cup {e} /\ e.object_id = o =>
                 /\ ViewOf(t, o)' = ViewOf(t, o) \cup {e}
                 /\ Of(pending'[t], o) # {}
<1>1. /\ \A u \in Txn \ {t} : dirty'[u] = dirty[u] /\ pending'[u] = pending[u]
      /\ DOMAIN dirty'[t] = DOMAIN dirty[t] \cup {o}
      /\ \A p \in DOMAIN dirty[t] \ {o} : dirty'[t][p] = dirty[t][p]
      /\ audit' = audit
      /\ pending'[t] = pending[t]
         \/ \E e : pending'[t] = pending[t] \cup {e} /\ e.object_id = o
  BY WriteFacts
<1>2. \A p : p # o => Of(pending'[t], p) = Of(pending[t], p)
  BY <1>1 DEF Of
<1>3. \A u \in Txn : \A p : Of(pending'[u], p) = Of(pending[u], p) => ViewOf(u, p)' = ViewOf(u, p)
  BY <1>1 DEF ViewOf, EventsOf, Of
<1>4. ASSUME NEW e, pending'[t] = pending[t] \cup {e}, e.object_id = o
      PROVE  ViewOf(t, o)' = ViewOf(t, o) \cup {e} /\ Of(pending'[t], o) # {}
  BY <1>1, <1>4 DEF ViewOf, EventsOf, Of
<1>5. \A u \in Txn : \A p \in DOMAIN dirty'[u] : ~ (u = t /\ p = o) =>
          /\ p \in DOMAIN dirty[u] /\ dirty'[u][p] = dirty[u][p]
          /\ ViewOf(u, p)' = ViewOf(u, p) /\ Of(pending'[u], p) = Of(pending[u], p)
  BY <1>1, <1>2, <1>3
<1> QED
  BY <1>3, <1>4, <1>5

(* The views after a commit: the committed one becomes the transaction's. *)
LEMMA CommitViews ==
    ASSUME ShapeInv, LockInv, NEW t \in Txn, Commit(t)
    PROVE  /\ \A o \in Obj : Of(audit', o) = ViewOf(t, o) /\ live'[o] = TableOf(t)[o]
           /\ DOMAIN dirty'[t] = {}
           /\ \A u \in Txn \ {t} : dirty'[u] = dirty[u]
           /\ \A u \in Txn \ {t} : \A p \in DOMAIN dirty[u] :
                 /\ ViewOf(u, p)' = ViewOf(u, p) /\ Of(pending'[u], p) = Of(pending[u], p)
                 /\ live'[p] = live[p]
<1>1. /\ DOMAIN dirty'[t] = {}
      /\ \A u \in Txn \ {t} : dirty'[u] = dirty[u] /\ pending'[u] = pending[u]
  BY FinishFacts DEF Commit
<1>2. live' = TableOf(t) /\ audit' = audit \cup pending[t]
  BY DEF Commit, EventsOf
<1>3. \A o \in Obj : Of(audit', o) = ViewOf(t, o) /\ live'[o] = TableOf(t)[o]
  BY <1>2 DEF ViewOf, EventsOf
<1>4. ASSUME NEW u \in Txn \ {t}, NEW p \in DOMAIN dirty[u]
      PROVE  /\ ViewOf(u, p)' = ViewOf(u, p) /\ Of(pending'[u], p) = Of(pending[u], p)
             /\ live'[p] = live[p]
  <2>1. p \in Obj /\ p \notin DOMAIN dirty[t]
    BY Typed DEF LockInv, Locked
  <2>2. \A e \in pending[t] : e.object_id # p
    BY <2>1 DEF LockInv, Locked
  <2>3. live'[p] = live[p]
    BY <1>2, <2>1 DEF TableOf
  <2> QED
    BY <1>1, <1>2, <2>2, <2>3 DEF ViewOf, EventsOf, Of
<1> QED
  BY <1>1, <1>3, <1>4

------------------------------------------------------------------------------
(* The log invariant, step by step *)

(* A new event is later than an instant if its time is, or if some event   *)
(* before it is later.                                                     *)
LEMMA LaterAppend ==
    ASSUME NEW S, Ordered(S), NEW e, e.id \in Nat, \A f \in S : f.id < e.id, NEW at
    PROVE  /\ Later(S, at) # {} \/ e.changed_at > at =>
                 Later(S \cup {e}, at) = Later(S, at) \cup {e}
           /\ Later(S, at) = {} /\ ~ (e.changed_at > at) => Later(S \cup {e}, at) = {}
<1>1. \A f \in S : f.id \in Nat /\ f.id < e.id /\ ~ (e.id <= f.id) /\ f.id <= e.id
  BY DEF Ordered
<1>2. e.id <= e.id
  OBVIOUS
<1> QED
  BY <1>1, <1>2 DEF Later

(* The events later than an instant are events. *)
LEMMA LaterIn ==
    \A S, at : Later(S, at) \subseteq S
BY DEF Later

(* Writing an event changes no row of the past. *)
LEMMA WasRowAppend ==
    ASSUME NEW S, Ordered(S), NEW e, e.id \in Nat, \A f \in S : f.id < e.id,
           NEW row, NEW new, Changes(e, row, new), NEW U, U \subseteq S, NEW r, WasRow(U, row, r)
    PROVE  WasRow(U \cup {e}, new, r)
<1>1. Ordered(U) /\ \A f \in U : f.id < e.id
  BY DEF Ordered
<1>2. \A c \in Tracked : Was(U \cup {e}, new, c) = Was(U, row, c)
  BY <1>1, WasAppend
<1> QED
  BY <1>2 DEF WasRow

(* A write that changes no tracked value changes no row of the past. *)
LEMMA WasRowSame ==
    ASSUME NEW U, NEW row, NEW new, \A c \in Tracked : ValueOf(row, c) = ValueOf(new, c),
           NEW r, WasRow(U, row, r)
    PROVE  WasRow(U, new, r)
BY WasSame DEF WasRow

(* With no event to undo, the row of the past is the row. *)
LEMMA WasRowNow == \A row : WasRow({}, row, row)
BY DEF WasRow, Was, Naming

(* A step after which every view is one there was before. *)
LEMMA LogFrame ==
    ASSUME Explained, CalmKept, NeverNew, UNCHANGED <<live, audit, past, clock>>,
           \A u \in Txn : \A p \in DOMAIN dirty'[u] :
               /\ p \in DOMAIN dirty[u] /\ dirty'[u][p] = dirty[u][p]
               /\ ViewOf(u, p)' = ViewOf(u, p) /\ Of(pending'[u], p) = Of(pending[u], p)
    PROVE  Explained' /\ CalmKept' /\ NeverNew'
<1>1. Explained'
  BY DEF Explained
<1>2. CalmKept'
  BY DEF CalmKept
<1>3. NeverNew'
  BY DEF NeverNew, Known
<1> QED
  BY <1>1, <1>2, <1>3

(* A write keeps the events explaining the row, and the past as it was. *)
LEMMA LogWrite ==
    ASSUME ShapeInv, LockInv, Explained, Recorded, CalmKept, NeverNew, Skipped = {},
           NEW t \in Txn, NEW o \in Obj, NEW new \in AnyRow, Write(t, o, new)
    PROVE  Explained' /\ Recorded' /\ CalmKept' /\ NeverNew'
<1> DEFINE S == ViewOf(t, o)
           row == TableOf(t)[o]
<1>1. /\ Open(t) /\ row \in AnyRow
      /\ UNCHANGED <<live, audit, begun, storage, clock, cutoff, past>>
  BY WriteFacts
<1>2. \A u \in Txn : \A p \in DOMAIN dirty'[u] : ~ (u = t /\ p = o) =>
          /\ p \in DOMAIN dirty[u] /\ dirty'[u][p] = dirty[u][p]
          /\ ViewOf(u, p)' = ViewOf(u, p) /\ Of(pending'[u], p) = Of(pending[u], p)
  BY WriteViews
<1>3. Recorded'
  BY <1>1 DEF Recorded, Open
<1>4. dirty'[t][o] = new
  BY WriteFacts
<1>5. \A s \in past : s.calm => WasRow(Later(S, s.at - 1), row, s.rows[o])
  BY ViewsElsewhere DEF CalmKept
<1>6. \A at \in 1..clock - 1 :
          Later(S, at) = {} \/ Known(Later(S, at), row, o, at)
  BY ViewsElsewhere DEF NeverNew
(* It is enough that the transaction's own view of the object is in order. *)
<1>7. ASSUME Explains(ViewOf(t, o)', new),
             Of(pending'[t], o) = {} => \A c \in Tracked : ValueOf(new, c) = ValueOf(live[o], c),
             \A s \in past : s.calm => WasRow(Later(ViewOf(t, o)', s.at - 1), new, s.rows[o]),
             \A at \in 1..clock - 1 : \/ Later(ViewOf(t, o)', at) = {}
                                      \/ Known(Later(ViewOf(t, o)', at), new, o, at)
      PROVE  Explained' /\ CalmKept' /\ NeverNew'
  <2>1. Explained'
    BY <1>1, <1>2, <1>4, <1>7 DEF Explained
  <2>2. CalmKept'
    BY <1>1, <1>2, <1>4, <1>7 DEF CalmKept
  <2>3. NeverNew'
    BY <1>1, <1>2, <1>4, <1>7 DEF NeverNew, Known
  <2> QED
    BY <2>1, <2>2, <2>3
<1>8. CASE pending'[t] = pending[t] /\ \A c \in Tracked : ValueOf(row, c) = ValueOf(new, c)
  <2>1. ViewOf(t, o)' = S /\ Of(pending'[t], o) = Of(pending[t], o)
    BY <1>8, WriteViews
  <2>2. Explains(S, new)
    BY <1>8, ExplainedView, ExplainsSame
  <2>3. Of(pending'[t], o) = {} => \A c \in Tracked : ValueOf(new, c) = ValueOf(live[o], c)
    BY <1>8, <2>1, ExplainedView
  <2>4. \A U, r : WasRow(U, row, r) => WasRow(U, new, r)
    BY <1>8, WasRowSame
  <2> HIDE DEF S, row
  <2> QED
    BY <1>3, <1>5, <1>6, <1>7, <2>1, <2>2, <2>3, <2>4 DEF Known
<1>9. ASSUME NEW e, pending'[t] = pending[t] \cup {e}, idSeq' = idSeq + 1,
             e.id = idSeq', e.changed_at = begun[t], e.object_id = o,
             Shaped(e), Changes(e, row, new)
      PROVE  Explained' /\ CalmKept' /\ NeverNew'
  <2>1. ViewOf(t, o)' = S \cup {e} /\ Of(pending'[t], o) # {}
    BY <1>9, WriteViews
  <2>2. Ordered(S) /\ e.id \in Nat /\ \A f \in S : f.id < e.id
    BY <1>9, ViewsOrdered, Typed
  <2>3. Explains(S \cup {e}, new)
    <3>1. Explains(S, row)
      BY ExplainedView
    <3> HIDE DEF S, row
    <3> QED
      BY <1>1, <1>9, <2>2, <3>1, ExplainsAppend
  <2>4. \A U, r : U \subseteq S /\ WasRow(U, row, r) => WasRow(U \cup {e}, new, r)
    <3> HIDE DEF S, row
    <3> QED
      BY <1>9, <2>2, WasRowAppend
  <2>5. ASSUME NEW s \in past, s.calm
        PROVE  WasRow(Later(S \cup {e}, s.at - 1), new, s.rows[o])
    <3>1. s.at \in Nat /\ begun[t] \in Nat /\ begun[t] >= s.at
      BY <1>1, <2>5, Typed DEF Recorded
    <3> DEFINE at == s.at - 1
    <3>2. e.changed_at > at /\ at \in Int
      BY <1>9, <3>1
    <3>3. Later(S \cup {e}, at) = Later(S, at) \cup {e}
      <4> HIDE DEF S, at
      <4> QED
        BY <2>2, <3>2, LaterAppend
    <3>4. WasRow(Later(S, at), row, s.rows[o])
      BY <1>5, <2>5
    <3> HIDE DEF S, row, at
    <3>5. Later(S, at) \subseteq S
      BY LaterIn
    <3>6. WasRow(Later(S \cup {e}, at), new, s.rows[o])
      BY <2>4, <3>3, <3>4, <3>5
    <3> QED
      BY <3>6 DEF at
  <2>6. ASSUME NEW at \in 1..clock - 1
        PROVE  \/ Later(S \cup {e}, at) = {}
               \/ Known(Later(S \cup {e}, at), new, o, at)
    <3>1. CASE Later(S, at) # {}
      <4> HIDE DEF S, row
      <4>1. Later(S \cup {e}, at) = Later(S, at) \cup {e}
        BY <2>2, <3>1, LaterAppend
      <4>2. PICK s \in past : s.at > at /\ WasRow(Later(S, at), row, s.rows[o])
        BY <1>6, <3>1 DEF Known
      <4>3. Later(S, at) \subseteq S
        BY LaterIn
      <4>4. WasRow(Later(S, at) \cup {e}, new, s.rows[o])
        BY <2>4, <4>2, <4>3
      <4>5. WasRow(Later(S \cup {e}, at), new, s.rows[o])
        BY <4>1, <4>4
      <4> QED
        BY <4>2, <4>5 DEF Known
    <3>2. CASE Later(S, at) = {} /\ e.changed_at > at
      <4>1. Later(S \cup {e}, at) = {} \cup {e}
        <5> HIDE DEF S
        <5> QED
          BY <2>2, <3>2, LaterAppend
      <4>2. Of(pending[t], o) = {}
        <5> SUFFICES ASSUME NEW f \in Of(pending[t], o) PROVE FALSE
          OBVIOUS
        <5>1. f \in S /\ f \in pending[t]
          BY DEF ViewOf, EventsOf, Of
        <5>2. f.changed_at > at
          BY <1>9, <3>2, <5>1 DEF LockInv, Locked
        <5>3. f.id <= f.id
          BY <2>2, <5>1 DEF Ordered
        <5> QED
          BY <3>2, <5>1, <5>2, <5>3 DEF Later
      <4>3. S = Of(audit, o) /\ \A c \in Tracked : ValueOf(row, c) = ValueOf(live[o], c)
        BY <4>2, ExplainedView
      <4>4. Known({}, live[o], o, at)
        BY <3>2, <4>3 DEF NeverNew
      <4>5. Known({}, row, o, at)
        <5> HIDE DEF S, row
        <5> QED
          BY <4>3, <4>4, WasRowSame DEF Known
      <4> HIDE DEF S, row
      <4> QED
        BY <2>4, <4>1, <4>5 DEF Known
    <3>3. CASE Later(S, at) = {} /\ ~ (e.changed_at > at)
      BY <2>2, <3>3, LaterAppend
    <3> QED
      BY <3>1, <3>2, <3>3
  <2> HIDE DEF S, row
  <2> QED
    BY <1>7, <2>1, <2>3, <2>5, <2>6
<1> QED
  BY <1>3, <1>8, <1>9, WriteFacts

(* A commit makes the view of its transaction the committed one. *)
LEMMA LogCommit ==
    ASSUME ShapeInv, LockInv, Explained, Recorded, CalmKept, NeverNew, NEW t \in Txn, Commit(t)
    PROVE  Explained' /\ Recorded' /\ CalmKept' /\ NeverNew'
<1> DEFINE now == [rows |-> live', at |-> clock, calm |-> FALSE]
<1>1. /\ \A o \in Obj : Of(audit', o) = ViewOf(t, o) /\ live'[o] = TableOf(t)[o]
      /\ DOMAIN dirty'[t] = {}
      /\ \A u \in Txn \ {t} : dirty'[u] = dirty[u]
      /\ \A u \in Txn \ {t} : \A p \in DOMAIN dirty[u] :
            /\ ViewOf(u, p)' = ViewOf(u, p) /\ Of(pending'[u], p) = Of(pending[u], p)
            /\ live'[p] = live[p]
  BY CommitViews
<1>2. past' = past \cup {now} /\ clock' = clock
  BY FinishFacts DEF Commit, Record
<1>3. /\ now.rows = live' /\ now.at = clock /\ now.calm = FALSE
  OBVIOUS
<1> HIDE DEF now
<1>4. Explained'
  BY <1>1, ExplainedView DEF Explained
<1>5. Recorded'
  <2>1. live' \in [Obj -> AnyRow]
    BY Typed DEF Commit, TableOf
  <2>2. \A u \in Txn : Open(u)' => Open(u) /\ begun'[u] = begun[u]
    BY FinishFacts DEF Commit, Open
  <2>3. clock \in 1..clock'
    BY <1>2, Typed
  <2> QED
    BY <1>2, <1>3, <2>1, <2>2, <2>3 DEF Recorded
<1>6. CalmKept'
  <2>1. \A s \in past : s.calm => \A o \in Obj :
            WasRow(Later(ViewOf(t, o), s.at - 1), TableOf(t)[o], s.rows[o])
    BY ViewsElsewhere DEF CalmKept
  <2>2. \A s \in past' : s.calm => s \in past
    BY <1>2, <1>3
  <2> QED
    BY <1>1, <2>1, <2>2 DEF CalmKept
<1>7. NeverNew'
  <2> SUFFICES ASSUME NEW at \in 1..clock - 1
               PROVE  /\ \A o \in Obj : Known(Later(Of(audit, o), at), live[o], o, at)'
                      /\ \A u \in Txn : \A o \in DOMAIN dirty'[u] :
                            \/ Later(ViewOf(u, o), at)' = {}
                            \/ Known(Later(ViewOf(u, o), at), dirty[u][o], o, at)'
    BY <1>2 DEF NeverNew
  <2>1. \A U, r, o : Known(U, r, o, at) => \E s \in past' : s.at > at /\ WasRow(U, r, s.rows[o])
    BY <1>2 DEF Known
  <2>2. ASSUME NEW o \in Obj PROVE Known(Later(Of(audit, o), at), live[o], o, at)'
    <3>1. CASE Later(ViewOf(t, o), at) = {}
      <4>1. WasRow({}, live'[o], now.rows[o])
        BY <1>3, WasRowNow
      <4>2. now.at > at
        BY <1>3, Typed
      <4> QED
        BY <1>1, <1>2, <3>1, <4>1, <4>2 DEF Known
    <3>2. CASE Later(ViewOf(t, o), at) # {}
      <4>1. Known(Later(ViewOf(t, o), at), TableOf(t)[o], o, at)
        BY <3>2, ViewsElsewhere DEF NeverNew
      <4> QED
        BY <1>1, <2>1, <4>1 DEF Known
    <3> QED
      BY <3>1, <3>2
  <2>3. ASSUME NEW u \in Txn, NEW o \in DOMAIN dirty'[u]
        PROVE  \/ Later(ViewOf(u, o), at)' = {}
               \/ Known(Later(ViewOf(u, o), at), dirty[u][o], o, at)'
    <3>1. u # t /\ dirty'[u] = dirty[u] /\ ViewOf(u, o)' = ViewOf(u, o)
      BY <1>1
    <3> QED
      BY <2>1, <3>1 DEF NeverNew, Known
  <2> QED
    BY <2>2, <2>3
<1> QED
  BY <1>4, <1>5, <1>6, <1>7

(* The clock records the committed table as it moves on. *)
LEMMA LogTick ==
    ASSUME ShapeInv, LockInv, Explained, Recorded, CalmKept, NeverNew, Tick
    PROVE  Explained' /\ Recorded' /\ CalmKept' /\ NeverNew'
<1> DEFINE now == [rows |-> live, at |-> clock', calm |-> Calm]
<1>1. /\ clock' = clock + 1 /\ past' = past \cup {now}
      /\ UNCHANGED <<live, dirty, audit, pending, begun>>
  BY DEF Tick, Record
<1>2. now.rows = live /\ now.at = clock + 1 /\ now.calm = Calm /\ clock \in Nat /\ clock >= 1
  BY <1>1, Typed
<1> HIDE DEF now
<1>3. \A u, o : ViewOf(u, o)' = ViewOf(u, o)
  BY <1>1 DEF ViewOf, EventsOf, Of
<1>4. Explained'
  BY <1>1, <1>3 DEF Explained
<1>5. Recorded'
  <2>1. live \in [Obj -> AnyRow] /\ Calm \in BOOLEAN
    BY DEF ShapeInv, TypeOK, AnyRow, Calm
  <2>2. \A s \in past : s.at \in 1..clock'
    BY <1>1, <1>2 DEF Recorded
  <2>3. now.at \in 1..clock'
    BY <1>1, <1>2
  <2>4. now.calm => \A u \in Txn : ~ Open(u)
    BY <1>2 DEF Calm
  <2> QED
    BY <1>1, <1>2, <2>1, <2>2, <2>3, <2>4 DEF Recorded, Open
<1>6. \A o \in Obj : /\ Later(Of(audit, o), clock) = {}
                     /\ \A u \in Txn : Later(ViewOf(u, o), clock) = {}
  <2>1. \A e \in AllEvents : ~ (e.changed_at > clock)
    BY Typed
  <2> QED
    BY <2>1, ViewsOrdered DEF Later
<1>7. CalmKept'
  <2>1. now.calm => \A o \in Obj : WasRow(Later(Of(audit, o), now.at - 1), live[o], now.rows[o])
    <3>1. now.at - 1 = clock
      BY <1>2
    <3> QED
      BY <1>2, <1>6, <3>1, WasRowNow
  <2>2. now.calm => \A u \in Txn : DOMAIN dirty[u] = {}
    BY <1>2 DEF Calm, LockInv, Locked
  <2> QED
    BY <1>1, <1>3, <2>1, <2>2 DEF CalmKept
<1>8. NeverNew'
  <2> SUFFICES ASSUME NEW at \in 1..clock
               PROVE  /\ \A o \in Obj : Known(Later(Of(audit, o), at), live[o], o, at)'
                      /\ \A u \in Txn : \A o \in DOMAIN dirty'[u] :
                            \/ Later(ViewOf(u, o), at)' = {}
                            \/ Known(Later(ViewOf(u, o), at), dirty[u][o], o, at)'
    <3>1. clock' - 1 = clock
      BY <1>1, <1>2
    <3> QED
      BY <3>1 DEF NeverNew
  <2>1. CASE at = clock
    <3>1. now.at > at /\ \A o : WasRow({}, live[o], now.rows[o])
      BY <1>2, <2>1, WasRowNow
    <3>2. \A u \in Txn : DOMAIN dirty[u] \subseteq Obj
      BY Typed
    <3> QED
      BY <1>1, <1>3, <1>6, <2>1, <3>1, <3>2 DEF Known
  <2>2. CASE at # clock
    <3>1. at \in 1..clock - 1
      BY <1>2, <2>2
    <3> QED
      BY <1>1, <1>3, <3>1 DEF NeverNew, Known
  <2> QED
    BY <2>1, <2>2
<1> QED
  BY <1>4, <1>5, <1>7, <1>8

(* The other steps change no view. *)
LEMMA LogOther ==
    ASSUME ShapeInv, LockInv, Explained, Recorded, CalmKept, NeverNew,
           \/ \E t \in Txn : Begin(t) \/ Abort(t)
           \/ \E mode \in Modes : SetStorage(mode)
           \/ UNCHANGED vars
    PROVE  Explained' /\ Recorded' /\ CalmKept' /\ NeverNew'
<1>1. ASSUME UNCHANGED <<live, dirty, audit, pending, past, clock>>
      PROVE  Explained' /\ CalmKept' /\ NeverNew'
  <2>1. \A u, p : ViewOf(u, p)' = ViewOf(u, p)
    BY <1>1 DEF ViewOf, EventsOf
  <2> QED
    BY <1>1, <2>1, LogFrame
<1>2. ASSUME NEW t \in Txn, Begin(t)
      PROVE  Explained' /\ Recorded' /\ CalmKept' /\ NeverNew'
  <2>1. Recorded'
    <3>1. \A u \in Txn : begun'[u] = begun[u] \/ begun'[u] = clock
      BY <1>2 DEF Begin, ShapeInv, TypeOK
    <3>2. \A s \in past : s.at \in Nat /\ clock >= s.at /\ clock \in Nat
      BY Typed DEF Recorded
    <3> QED
      BY <1>2, <3>1, <3>2 DEF Begin, Recorded, Open
  <2> QED
    BY <1>1, <1>2, <2>1 DEF Begin
<1>3. ASSUME NEW t \in Txn, Abort(t)
      PROVE  Explained' /\ Recorded' /\ CalmKept' /\ NeverNew'
  <2>1. /\ DOMAIN dirty'[t] = {} /\ begun'[t] = 0
        /\ \A u \in Txn \ {t} : /\ dirty'[u] = dirty[u] /\ pending'[u] = pending[u]
                                /\ begun'[u] = begun[u]
        /\ UNCHANGED <<live, audit, past, clock>>
    BY <1>3, FinishFacts DEF Abort
  <2>2. \A u \in Txn \ {t} : \A p : ViewOf(u, p)' = ViewOf(u, p)
    BY <2>1 DEF ViewOf, EventsOf
  <2>3. Recorded'
    BY <2>1 DEF Recorded, Open
  <2> QED
    BY <2>1, <2>2, <2>3, LogFrame
<1>4. ASSUME UNCHANGED <<live, dirty, audit, pending, past, clock, begun>>
      PROVE  Explained' /\ Recorded' /\ CalmKept' /\ NeverNew'
  BY <1>1, <1>4 DEF Recorded, Open
<1> QED
  BY <1>2, <1>3, <1>4 DEF SetStorage, vars

(* At first there are no events and no past. *)
LEMMA LogInit == Init => Explained /\ Recorded /\ CalmKept /\ NeverNew
<1> SUFFICES ASSUME Init PROVE Explained /\ Recorded /\ CalmKept /\ NeverNew
  OBVIOUS
<1>1. /\ audit = {} /\ past = {} /\ clock = 1
      /\ \A t \in Txn : DOMAIN dirty[t] = {}
  BY DEF Init
<1>2. \A o : Of(audit, o) = {}
  BY <1>1 DEF Of
<1>3. \A row : Explains({}, row)
  BY DEF Explains
<1> QED
  BY <1>1, <1>2, <1>3 DEF Explained, Recorded, CalmKept, NeverNew

(***************************************************************************)
(* The inductive invariant.  Without a log_condition every change of a     *)
(* tracked column is in the log, so that the events of an object, undone   *)
(* one by one from its row, show every row it ever had: for the committed  *)
(* table, and for each transaction that has written.                       *)
(***************************************************************************)
THEOREM LogInvariant ==
    ASSUME Skipped = {}
    PROVE  Spec => [](ShapeInv /\ LogInv)
<1> DEFINE I == ShapeInv /\ LogInv
<1>1. Init => I
  BY ShapeInit, LockInit, LogInit DEF LogInv, LockInv
<1>2. I /\ [Next]_vars => I'
  <2> SUFFICES ASSUME I, [Next]_vars PROVE I'
    OBVIOUS
  <2>1. ShapeInv' /\ LockInv'
    BY ShapeStep, LockStep DEF LogInv, LockInv
  <2>2. Explained' /\ Recorded' /\ CalmKept' /\ NeverNew'
    <3>1. LockInv /\ Explained /\ Recorded /\ CalmKept /\ NeverNew
      BY DEF LogInv, LockInv
    <3>2. CASE Tick
      BY <3>1, <3>2, LogTick
    <3>3. CASE \/ \E t \in Txn : Begin(t) \/ Abort(t)
               \/ \E mode \in Modes : SetStorage(mode)
               \/ UNCHANGED vars
      BY <3>1, <3>3, LogOther
    <3>4. ASSUME NEW t \in Txn, Commit(t)
          PROVE  Explained' /\ Recorded' /\ CalmKept' /\ NeverNew'
      BY <3>1, <3>4, LogCommit
    <3>5. ASSUME NEW t \in Txn, NEW o \in Obj, NEW new \in Row \cup {NoRow}, Write(t, o, new)
          PROVE  Explained' /\ Recorded' /\ CalmKept' /\ NeverNew'
      BY <3>1, <3>5, LogWrite DEF AnyRow
    <3> QED
      BY <3>2, <3>3, <3>4, <3>5 DEF Next, TxnStep
  <2> QED
    BY <2>1, <2>2 DEF LogInv, LockInv
<1> QED
  BY <1>1, <1>2, PTL DEF Spec

------------------------------------------------------------------------------
(* Time travel *)

(* _audit_reconstruct_row, case by case. *)
LEMMA RowCases ==
    ASSUME NEW A, NEW L, NEW spec, NEW o, NEW at
    PROVE  LET suffix == Suffix(A, o, at)
               first == FirstEvent(suffix)
               last == LastEvent(Of(A, o))
               row == ReconstructRow(A, L, spec, o, at)
           IN  /\ suffix # {} /\ first.operation = "INSERT" => row = NoRow
               /\ suffix # {} /\ first.operation # "INSERT" /\ first.old_data # NoRow =>
                     row = first.old_data
               /\ suffix # {} /\ first.operation # "INSERT" /\ first.old_data = NoRow =>
                     /\ spec = "none" => row = Error
                     /\ spec # "none" => row = Overlay(LiveRow(L, o), Undo(A, o, first))
               /\ suffix = {} /\ Of(A, o) # {} /\ last.new_data # NoRow => row = last.new_data
               /\ suffix = {} /\ Of(A, o) # {} /\ last.new_data = NoRow =>
                     /\ last.operation = "DELETE" => row = NoRow
                     /\ last.operation # "DELETE" /\ spec = "none" => row = Error
                     /\ last.operation # "DELETE" /\ spec # "none" => row = LiveRow(L, o)
               /\ suffix = {} /\ Of(A, o) = {} =>
                     /\ spec = "diff" => row = LiveRow(L, o)
                     /\ spec # "diff" => row = NoRow
<1> DEFINE suffix == Suffix(A, o, at)
           first == FirstEvent(suffix)
           last == LastEvent(Of(A, o))
           row == ReconstructRow(A, L, spec, o, at)
           undone == IF spec = "none" THEN Error ELSE Overlay(LiveRow(L, o), Undo(A, o, first))
           now == IF spec = "none" THEN Error ELSE LiveRow(L, o)
<1>1. suffix # {} =>
          row = CASE first.operation = "INSERT" -> NoRow
                  [] first.operation # "INSERT" /\ first.old_data # NoRow -> first.old_data
                  [] OTHER -> undone
  BY Zenon DEF ReconstructRow
<1>2. suffix = {} /\ Of(A, o) # {} =>
          row = CASE last.new_data # NoRow -> last.new_data
                  [] last.new_data = NoRow /\ last.operation = "DELETE" -> NoRow
                  [] OTHER -> now
  BY Zenon DEF ReconstructRow
<1>3. suffix = {} /\ Of(A, o) = {} => row = IF spec = "diff" THEN LiveRow(L, o) ELSE NoRow
  BY Zenon DEF ReconstructRow
<1> HIDE DEF suffix, first, last, row, undone, now
<1>4. suffix # {} /\ first.operation = "INSERT" => row = NoRow
  BY <1>1, Zenon
<1>5. suffix # {} /\ first.operation # "INSERT" /\ first.old_data # NoRow => row = first.old_data
  BY <1>1, Zenon
<1>6. suffix # {} /\ first.operation # "INSERT" /\ first.old_data = NoRow => row = undone
  BY <1>1, Zenon
<1>7. suffix = {} /\ Of(A, o) # {} /\ last.new_data # NoRow => row = last.new_data
  BY <1>2, Zenon
<1>8. suffix = {} /\ Of(A, o) # {} /\ last.new_data = NoRow /\ last.operation = "DELETE" =>
          row = NoRow
  BY <1>2, Zenon
<1>9. suffix = {} /\ Of(A, o) # {} /\ last.new_data = NoRow /\ last.operation # "DELETE" =>
          row = now
  BY <1>2, Zenon
<1> QED
  BY <1>3, <1>4, <1>5, <1>6, <1>7, <1>8, <1>9, Zenon DEF suffix, first, last, row, undone, now

(* The events undone are those from the first one after the instant on. *)
LEMMA LaterFrom ==
    ASSUME NEW A, NEW o, Ordered(Of(A, o)), NEW at
    PROVE  /\ Suffix(A, o, at) = {} <=> Later(Of(A, o), at) = {}
           /\ Suffix(A, o, at) # {} =>
                 /\ FirstEvent(Suffix(A, o, at)) \in Of(A, o)
                 /\ FirstEvent(Suffix(A, o, at)).changed_at > at
                 /\ Later(Of(A, o), at) = From(Of(A, o), FirstEvent(Suffix(A, o, at)).id)
<1> DEFINE S == Of(A, o)
           X == Suffix(A, o, at)
           first == FirstEvent(X)
<1>1. \A e : e \in X <=> e \in S /\ e.changed_at > at
  BY DEF Suffix
<1>2. \A e \in S : e.id \in Nat
  BY DEF Ordered
<1>3. X # {} => first \in X /\ \A f \in X : first.id <= f.id
  <2>1. \A e \in X : e.id \in Nat
    BY <1>1, <1>2
  <2> HIDE DEF X
  <2> QED
    BY <2>1, FirstEventOf
<1> HIDE DEF X, first, S
<1>4. X = {} => Later(S, at) = {}
  BY <1>1 DEF Later
<1>5. ASSUME X # {}
      PROVE  first \in S /\ first.changed_at > at /\ Later(S, at) = From(S, first.id)
  <2>1. first \in S /\ first.changed_at > at /\ first.id \in Nat
    BY <1>1, <1>2, <1>3, <1>5
  <2>2. \A e \in S : e.id >= first.id => e \in Later(S, at)
    BY <1>2, <2>1 DEF Later
  <2>3. \A e \in Later(S, at) : e \in S /\ e.id >= first.id
    <3> SUFFICES ASSUME NEW e \in S, NEW f \in S, f.changed_at > at, f.id <= e.id
                 PROVE  e.id >= first.id
      BY DEF Later
    <3>1. first.id <= f.id
      BY <1>1, <1>3, <1>5
    <3> QED
      BY <1>2, <2>1, <3>1
  <2> QED
    BY <2>1, <2>2, <2>3 DEF From
<1>6. X # {} => Later(S, at) # {}
  <2> SUFFICES ASSUME X # {} PROVE Later(S, at) # {}
    OBVIOUS
  <2>1. first \in S /\ first.id >= first.id /\ Later(S, at) = From(S, first.id)
    BY <1>2, <1>5
  <2> QED
    BY <2>1 DEF From
<1> QED
  BY <1>4, <1>5, <1>6 DEF X, first, S

(* Undo has the columns some event names, each as it was before, where     *)
(* there was a row before.                                                 *)
LEMMA UndoFacts ==
    ASSUME NEW A, NEW o, Ordered(Of(A, o)), \A e \in Of(A, o) : Shaped(e),
           NEW first \in Of(A, o), NEW row
    PROVE  LET U == From(Of(A, o), first.id)
               undo == Undo(A, o, first)
           IN  /\ DOMAIN undo \subseteq Tracked
               /\ \A c : c \in DOMAIN undo <=> Naming(U, c) # {}
               /\ \A c \in DOMAIN undo :
                     Was(U, row, c) # NoRow => undo[c] = Was(U, row, c)
<1> DEFINE U == From(Of(A, o), first.id)
           C == UNION {DOMAIN e.diff : e \in U}
           undo == Undo(A, o, first)
<1>1. undo = [c \in C |-> OldSide(FirstEvent(Naming(U, c)).diff[c])]
  BY DEF Undo, Naming, From
<1> HIDE DEF undo
<1>2. DOMAIN undo = C
  BY <1>1
<1>3. \A c : c \in C <=> Naming(U, c) # {}
  BY DEF Naming
<1>4. C \subseteq Tracked
  BY DEF Shaped, From
<1>5. ASSUME NEW c \in C, Was(U, row, c) # NoRow PROVE undo[c] = Was(U, row, c)
  <2>1. Naming(U, c) # {} /\ \A e \in Naming(U, c) : e.id \in Nat
    BY <1>3 DEF Naming, From, Ordered
  <2> DEFINE e == FirstEvent(Naming(U, c))
  <2>2. e \in Naming(U, c)
    BY <2>1, FirstEventOf
  <2>3. undo[c] = OldSide(e.diff[c])
    BY <1>1
  <2>4. Was(U, row, c) = OldOf(e, c)
    BY <2>1 DEF Was
  <2> HIDE DEF e, U, C
  <2>5. Shaped(e) /\ c \in DOMAIN e.diff
    BY <2>2 DEF Naming, U, From
  <2>6. Paired(e.diff[c]) /\ OldOf(e, c) = e.diff[c].old
    BY <1>5, <2>4, <2>5, Sides
  <2> QED
    BY <2>3, <2>4, <2>6 DEF OldSide
<1> QED
  BY <1>2, <1>3, <1>4, <1>5 DEF undo

FilterOf(row) == IF row = NoRow THEN NoRow ELSE Filter(row)

(* What has the tracked values of a row is the filtered row. *)
LEMMA IsFiltered ==
    ASSUME NEW r \in AnyRow, NEW R, R = [c \in Tracked |-> R[c]], r # NoRow,
           \A c \in Tracked : R[c] = ValueOf(r, c)
    PROVE  R = FilterOf(r)
BY DEF FilterOf, Filter, ValueOf

(* The live row is filtered too. *)
LEMMA LiveRowIs == \A L, o : LiveRow(L, o) = FilterOf(L[o])
BY DEF LiveRow, FilterOf

(* Two rows that agree on the tracked columns look alike. *)
LEMMA SameFiltered ==
    ASSUME Tracked # {}, NEW r \in AnyRow, NEW s \in AnyRow,
           \A c \in Tracked : ValueOf(r, c) = ValueOf(s, c)
    PROVE  FilterOf(r) = FilterOf(s) /\ (r = NoRow <=> s = NoRow)
<1>1. PICK c \in Tracked : TRUE
  OBVIOUS
<1>2. r = NoRow <=> s = NoRow
  BY <1>1, Filtered, NoValues DEF AnyRow
<1>3. CASE r # NoRow
  <2>1. r \in Row /\ s \in Row
    BY <1>2, <1>3 DEF AnyRow
  <2>2. \A d \in Tracked : r[d] = s[d]
    BY <2>1, Filtered
  <2> QED
    BY <1>2, <1>3, <2>2 DEF FilterOf, Filter
<1> QED
  BY <1>2, <1>3 DEF FilterOf

(* Where the events explain the row, time travel finds the row that undoing *)
(* the later events leads to: from snapshots, from diffs and from the live  *)
(* row alike.                                                               *)
LEMMA RebuiltRow ==
    ASSUME Tracked # {}, NEW A, NEW L, NEW o, NEW n \in Nat, NEW spec \in {"full", "diff"}, NEW at,
           Ordered(Of(A, o)), \A e \in Of(A, o) : e.id <= n, Explains(Of(A, o), L[o]),
           L[o] \in AnyRow, NEW r \in AnyRow, WasRow(Later(Of(A, o), at), L[o], r)
    PROVE  \/ ReconstructRow(A, L, spec, o, at) = FilterOf(r)
           \/ /\ ReconstructRow(A, L, spec, o, at) = NoRow
              /\ spec = "full" /\ Of(A, o) = {}
<1> DEFINE S == Of(A, o)
           X == Suffix(A, o, at)
           first == FirstEvent(X)
           last == LastEvent(S)
           row == L[o]
           R == ReconstructRow(A, L, spec, o, at)
<1>0. spec # "none" /\ LiveRow(L, o) = FilterOf(row)
  BY LiveRowIs
<1>1. \A e \in S : Shaped(e) /\ e.id \in Nat /\ e.id <= n
  BY DEF Explains, Ordered
<1>2. PICK c0 \in Tracked : TRUE
  OBVIOUS
<1>3. CASE X # {}
  <2> DEFINE U == From(S, first.id)
  <2>1. first \in S /\ Later(S, at) = U
    BY <1>3, LaterFrom
  <2>2. \A c \in Tracked : ValueOf(r, c) = Was(U, row, c)
    BY <2>1 DEF WasRow
  <2>3. Shaped(first) /\ first.id \in Nat
    BY <1>1, <2>1
  <2>4. \A c \in DOMAIN first.diff : c \in Tracked /\ ValueOf(r, c) = OldOf(first, c)
    <3> SUFFICES ASSUME NEW c \in DOMAIN first.diff
                 PROVE  c \in Tracked /\ ValueOf(r, c) = OldOf(first, c)
      OBVIOUS
    <3>1. first \in U /\ Ordered(U) /\ \A f \in U : first.id <= f.id
      <4> HIDE DEF first, S
      <4>1. Ordered(S)
        BY DEF S
      <4>2. \A f : f \in U <=> f \in S /\ f.id >= first.id
        BY DEF From
      <4> QED
        BY <1>1, <2>1, <2>3, <4>1, <4>2, FromOrdered
    <3>2. Was(U, row, c) = OldOf(first, c)
      <4> HIDE DEF U, first, row
      <4> QED
        BY <3>1, WasFacts
    <3>3. c \in Tracked
      BY <2>3 DEF Shaped
    <3> QED
      BY <2>2, <3>2, <3>3
  <2>5. CASE first.operation = "INSERT"
    <3>1. c0 \in DOMAIN first.diff /\ OldOf(first, c0) = NoRow
      BY <2>3, <2>5 DEF Shaped, OldOf
    <3>2. ValueOf(r, c0) = NoRow
      BY <2>4, <3>1
    <3>3. r = NoRow
      BY <3>2, Filtered DEF AnyRow
    <3>4. R = NoRow
      BY <1>3, <2>5, RowCases
    <3> QED
      BY <3>3, <3>4 DEF FilterOf
  <2>6. CASE first.operation # "INSERT"
    <3>1. PICK c1 \in DOMAIN first.diff : OldOf(first, c1) # NoRow
      BY <2>3, <2>6, Sides DEF Shaped
    <3>2. r \in Row /\ r # NoRow
      BY <2>4, <3>1, NoValues, Assumed DEF AnyRow
    <3>3. CASE first.old_data # NoRow
      <4>1. R = first.old_data
        BY <1>3, <2>6, <3>3, RowCases
      <4>2. \A c \in Tracked : first.old_data[c] = ValueOf(r, c)
        <5>1. \A c \in Tracked : first.old_data[c] = Was(U, row, c)
          BY <2>1, <3>3 DEF Explains
        <5> QED
          BY <2>2, <5>1
      <4>3. first.old_data \in [Tracked -> Cell]
        BY <2>3, <3>3 DEF Shaped
      <4> HIDE DEF R, first
      <4>4. R = [c \in Tracked |-> R[c]] /\ \A c \in Tracked : R[c] = ValueOf(r, c)
        BY <4>1, <4>2, <4>3
      <4>5. R = FilterOf(r)
        BY <3>2, <4>4, IsFiltered
      <4> QED
        BY <4>5 DEF R
    <3>4. CASE first.old_data = NoRow
      <4> DEFINE undo == Undo(A, o, first)
      <4>1. R = Overlay(LiveRow(L, o), undo)
        BY <1>0, <1>3, <2>6, <3>4, RowCases
      <4>2. /\ DOMAIN undo \subseteq Tracked
            /\ \A c : c \in DOMAIN undo <=> Naming(U, c) # {}
            /\ \A c \in DOMAIN undo : undo[c] = ValueOf(r, c)
        <5> HIDE DEF first, row
        <5>1. first \in Of(A, o) /\ Ordered(Of(A, o)) /\ \A e \in Of(A, o) : Shaped(e)
          BY <1>1, <2>1
        <5>2. \A c \in Tracked : Was(U, row, c) = ValueOf(r, c) /\ ValueOf(r, c) # NoRow
          BY <2>2, <3>2, Filtered
        <5> QED
          BY <5>1, <5>2, UndoFacts
      <4> HIDE DEF undo, U, first
      <4>3. CASE row = NoRow
        <5>1. \A c \in Tracked : c \in DOMAIN undo
          <6> SUFFICES ASSUME NEW c \in Tracked, Naming(U, c) = {} PROVE FALSE
            BY <4>2
          <6>1. ValueOf(r, c) = NoRow
            BY <2>2, <4>3, NoValues DEF Was
          <6> QED
            BY <3>2, <6>1, Filtered
        <5>2. LiveRow(L, o) = NoRow
          BY <1>0, <4>3 DEF FilterOf
        <5>3. R = [c \in Tracked |-> undo[c]]
          BY <4>1, <4>2, <5>1, <5>2 DEF Overlay
        <5>4. \A c \in Tracked : R[c] = ValueOf(r, c)
          <6>1. \A c \in Tracked : undo[c] = ValueOf(r, c)
            BY <4>2, <5>1
          <6> HIDE DEF R
          <6> QED
            BY <5>3, <6>1
        <5> HIDE DEF R
        <5>5. R = [c \in Tracked |-> R[c]]
          BY <5>3
        <5>6. R = FilterOf(r)
          BY <3>2, <5>4, <5>5, IsFiltered
        <5> QED
          BY <5>6 DEF R
      <4>4. CASE row # NoRow
        <5>1. row \in Row
          BY <4>4 DEF AnyRow
        <5>2. LiveRow(L, o) = Filter(row) /\ DOMAIN Filter(row) = Tracked /\ Filter(row) # NoRow
          BY <1>0, <5>1, Filtered, <4>4 DEF FilterOf, Filter
        <5>3. R = [c \in Tracked |-> IF c \in DOMAIN undo THEN undo[c] ELSE Filter(row)[c]]
          <6>1. Tracked \cup DOMAIN undo = Tracked
            BY <4>2
          <6> QED
            BY <4>1, <5>2, <6>1 DEF Overlay
        <5>4. \A c \in Tracked : c \notin DOMAIN undo => Filter(row)[c] = ValueOf(r, c)
          <6> SUFFICES ASSUME NEW c \in Tracked, Naming(U, c) = {}
                       PROVE  Filter(row)[c] = ValueOf(r, c)
            BY <4>2
          <6>1. ValueOf(r, c) = ValueOf(row, c)
            BY <2>2 DEF Was
          <6> QED
            BY <5>1, <6>1, Filtered
        <5>5. \A c \in Tracked : R[c] = ValueOf(r, c)
          <6> HIDE DEF R
          <6> QED
            BY <4>2, <5>3, <5>4
        <5> HIDE DEF R
        <5>6. R = [c \in Tracked |-> R[c]]
          BY <5>3
        <5>7. R = FilterOf(r)
          BY <3>2, <5>5, <5>6, IsFiltered
        <5> QED
          BY <5>7 DEF R
      <4> QED
        BY <4>3, <4>4
    <3> QED
      BY <3>3, <3>4
  <2> QED
    BY <2>5, <2>6
<1>4. CASE X = {}
  <2>1. Later(S, at) = {}
    BY <1>4, LaterFrom
  <2>2. \A c \in Tracked : ValueOf(r, c) = ValueOf(row, c)
    BY <2>1 DEF WasRow, Was, Naming
  <2>3. FilterOf(r) = FilterOf(row) /\ (r = NoRow <=> row = NoRow)
    BY <2>2, SameFiltered
  <2>4. CASE S = {}
    BY <1>0, <1>4, <2>3, <2>4, RowCases
  <2>5. CASE S # {}
    <3>1. last \in S /\ \A f \in S : f.id <= last.id
      <4> HIDE DEF S
      <4> QED
        BY <1>1, <2>5, LastEventOf
    <3>2. From(S, last.id + 1) = {} /\ Shaped(last)
      BY <1>1, <3>1 DEF From
    <3>3. \A c : Was({}, row, c) = ValueOf(row, c)
      BY DEF Was, Naming
    <3>4. CASE last.new_data # NoRow
      <4>1. R = last.new_data
        BY <1>4, <2>5, <3>4, RowCases
      <4>2. \A c \in Tracked : last.new_data[c] = ValueOf(r, c)
        BY <2>2, <3>1, <3>2, <3>3, <3>4 DEF Explains
      <4>3. last.new_data \in [Tracked -> Cell]
        BY <3>2, <3>4 DEF Shaped
      <4>4. r # NoRow
        BY <1>2, <4>2, <4>3, NoValues, Assumed
      <4> HIDE DEF R, last
      <4>5. R = [c \in Tracked |-> R[c]] /\ \A c \in Tracked : R[c] = ValueOf(r, c)
        BY <4>1, <4>2, <4>3
      <4>6. R = FilterOf(r)
        BY <4>4, <4>5, IsFiltered
      <4> QED
        BY <4>6 DEF R
    <3>5. CASE last.new_data = NoRow /\ last.operation = "DELETE"
      <4>1. R = NoRow
        BY <1>4, <2>5, <3>5, RowCases
      <4>2. c0 \in DOMAIN last.diff /\ NewOf(last, c0) = NoRow
        BY <1>2, <3>2, <3>5 DEF Shaped, NewOf
      <4>3. NewOf(last, c0) = ValueOf(row, c0)
        BY <3>1, <3>2, <3>3, <4>2 DEF Explains
      <4>4. row = NoRow
        BY <4>2, <4>3, Filtered DEF AnyRow
      <4> QED
        BY <2>3, <4>1, <4>4 DEF FilterOf
    <3>6. CASE last.new_data = NoRow /\ last.operation # "DELETE"
      BY <1>0, <1>4, <2>3, <2>5, <3>6, RowCases
    <3> QED
      BY <3>4, <3>5, <3>6
  <2> QED
    BY <2>4, <2>5
<1> QED
  BY <1>3, <1>4

(* What a committed reader sees of an object. *)
LEMMA CommittedView ==
    ASSUME ShapeInv, LogInv, NEW o \in Obj
    PROVE  /\ Ordered(Of(audit, o)) /\ Explains(Of(audit, o), live[o]) /\ live[o] \in AnyRow
           /\ idSeq \in Nat /\ \A e \in Of(audit, o) : e.id <= idSeq
           /\ storage \in {"full", "diff"}
<1>1. LockInv
  BY DEF LogInv, LockInv
<1>2. \A e \in Of(audit, o) : e.id <= idSeq
  BY <1>1, ViewsOrdered, Typed
<1>3. storage \in {"full", "diff"}
  BY Assumed DEF ShapeInv, TypeOK
<1> QED
  BY <1>1, <1>2, <1>3, ViewsOrdered, Typed DEF LogInv, Explained

(* The row time travel must find, against what it finds. *)
LEMMA RebuiltCommitted ==
    ASSUME Tracked # {}, ShapeInv, LogInv, NEW o \in Obj, NEW at, NEW r \in AnyRow,
           WasRow(Later(Of(audit, o), at), live[o], r)
    PROVE  RebuiltAs(o, at, r)
<1>0. /\ Ordered(Of(audit, o)) /\ Explains(Of(audit, o), live[o]) /\ live[o] \in AnyRow
      /\ idSeq \in Nat /\ \A e \in Of(audit, o) : e.id <= idSeq
      /\ storage \in {"full", "diff"}
  BY CommittedView
<1>1. \/ ReconstructRow(audit, live, storage, o, at) = FilterOf(r)
      \/ /\ ReconstructRow(audit, live, storage, o, at) = NoRow
         /\ storage = "full" /\ Of(audit, o) = {}
  BY <1>0, RebuiltRow, SMTT(60)
<1> QED
  BY <1>1 DEF RebuiltAs, Rebuilt, Unknown, FilterOf

(***************************************************************************)
(* Time travel is exact (_audit_reconstruct_row over what the trigger      *)
(* wrote): for every calm instant every object is rebuilt as the row       *)
(* committed then, whatever was written, aborted, logged in full or as a   *)
(* diff since.  A log_condition leaves gaps by design, so none is set; and *)
(* a field filter lets at least one column through.                        *)
(***************************************************************************)
THEOREM TimeTravelIsExact ==
    ASSUME Skipped = {}, Tracked # {}
    PROVE  Spec => []TimeTravelExact
<1>1. ShapeInv /\ LogInv => TimeTravelExact
  <2> SUFFICES ASSUME ShapeInv, LogInv, NEW s \in past, s.calm, NEW o \in Obj
               PROVE  RebuiltAs(o, s.at - 1, s.rows[o])
    BY DEF TimeTravelExact
  <2>1. WasRow(Later(Of(audit, o), s.at - 1), live[o], s.rows[o])
    BY DEF LogInv, CalmKept
  <2>2. s.rows[o] \in AnyRow
    BY DEF LogInv, Recorded
  <2> QED
    BY <2>1, <2>2, RebuiltCommitted
<1> QED
  BY <1>1, LogInvariant, PTL

(***************************************************************************)
(* For any instant, transactions open or not, time travel finds a row that *)
(* was committed at that instant or later: none that only an aborted or an *)
(* older transaction saw.                                                  *)
(***************************************************************************)
THEOREM NothingInvented ==
    ASSUME Skipped = {}, Tracked # {}
    PROVE  Spec => []NeverInvented
<1>1. ShapeInv /\ LogInv => NeverInvented
  <2> SUFFICES ASSUME ShapeInv, LogInv, NEW o \in Obj, NEW at \in 1..clock - 1
               PROVE  \E s \in past : s.at > at /\ RebuiltAs(o, at, s.rows[o])
    BY DEF NeverInvented
  <2>1. PICK s \in past : s.at > at /\ WasRow(Later(Of(audit, o), at), live[o], s.rows[o])
    BY DEF LogInv, NeverNew, Known
  <2>2. s.rows[o] \in AnyRow
    BY DEF LogInv, Recorded
  <2> QED
    BY <2>1, <2>2, RebuiltCommitted
<1> QED
  BY <1>1, LogInvariant, PTL

(***************************************************************************)
(* The id the trigger draws is the write order of an object: what an event *)
(* says a column was is what the event before it said it became, though    *)
(* transactions draw ids in one order and commit in another.               *)
(***************************************************************************)
THEOREM IdsInWriteOrder ==
    ASSUME Skipped = {}
    PROVE  Spec => []IdIsWriteOrder
<1>1. ShapeInv /\ LogInv => IdIsWriteOrder
  <2> SUFFICES ASSUME ShapeInv, LogInv, NEW e \in audit, NEW f \in audit,
                      e.object_id = f.object_id, e.id < f.id,
                      NEW c \in DOMAIN e.diff \cap DOMAIN f.diff
               PROVE  \/ \E g \in Of(audit, e.object_id) :
                            e.id < g.id /\ g.id < f.id /\ c \in DOMAIN g.diff
                      \/ e.diff[c].new = f.diff[c].old
    BY DEF IdIsWriteOrder
  <2> DEFINE o == e.object_id
             S == Of(audit, o)
             U == From(S, e.id + 1)
  <2>1. e \in S /\ f \in S
    BY DEF Of
  <2>2. o \in Obj /\ Ordered(S) /\ Explains(S, live[o])
    <3>1. o \in Obj
      BY InAllEvents, Typed
    <3> QED
      BY <3>1, CommittedView
  <2> HIDE DEF S, o
  <2>3. NewOf(e, c) = Was(U, live[o], c) /\ Shaped(e) /\ \A g \in S : Shaped(g)
    BY <2>1, <2>2 DEF Explains
  <2>4. \A g : g \in U <=> g \in S /\ e.id < g.id
    BY <2>1, <2>2 DEF From, Ordered
  <2>5. f \in Naming(U, c) /\ Ordered(U)
    BY <2>1, <2>2, <2>4, FromOrdered DEF Naming
  <2> HIDE DEF U
  <2>6. PICK g \in U : /\ c \in DOMAIN g.diff
                       /\ \A h \in U : c \in DOMAIN h.diff => g.id <= h.id
                       /\ Was(U, live[o], c) = OldOf(g, c)
    BY <2>5, WasFacts
  <2>7. g.id <= f.id /\ g \in S /\ f \in S /\ e.id < g.id
    BY <2>1, <2>4, <2>5, <2>6 DEF Naming
  <2>8. g = f \/ g.id < f.id
    BY <2>2, <2>7 DEF Ordered
  <2>9. e.diff[c].new = g.diff[c].old
    <3>1. NewOf(e, c) = OldOf(g, c) /\ Shaped(g)
      BY <2>3, <2>6, <2>7
    <3> QED
      BY <2>3, <2>6, <3>1, Sides
  <2> QED
    BY <2>6, <2>7, <2>8, <2>9 DEF S, o
<1> QED
  BY <1>1, LogInvariant, PTL

------------------------------------------------------------------------------
(* The row form and the table form *)

(* What _audit_reconstruct_table makes of one object. *)
TableEntry(A, L, spec, o, at) ==
    LET first == FirstEvent(Suffix(A, o, at))
        last == LastEvent(Of(A, o))
        liveOf == IF spec = "diff" \/ HasDiffRows(A, spec) THEN LiveRow(L, o) ELSE NoRow
    IN  IF Suffix(A, o, at) # {} THEN
            CASE first.operation = "INSERT" -> NoRow
              [] first.operation # "INSERT" /\ first.old_data # NoRow -> first.old_data
              [] OTHER -> Overlay(liveOf, Undo(A, o, first))
        ELSE IF Of(A, o) # {} THEN
            CASE last.operation = "DELETE" -> NoRow
              [] last.operation # "DELETE" /\ last.new_data # NoRow -> last.new_data
              [] OTHER -> liveOf
        ELSE IF spec = "diff" THEN liveOf ELSE NoRow

(* The table form makes its entries one object at a time, or raises. *)
LEMMA TableIs ==
    ASSUME NEW A, NEW L, NEW spec, NEW at
    PROVE  ReconstructTable(A, L, spec, at) =
               IF spec = "none" /\ HasDiffRows(A, spec) THEN Error
               ELSE [o \in Obj |-> TableEntry(A, L, spec, o, at)]
BY Zenon DEF ReconstructTable, TableEntry

(* _audit_reconstruct_table, object by object and case by case. *)
LEMMA EntryCases ==
    ASSUME NEW A, NEW L, NEW spec, NEW o, NEW at
    PROVE  LET suffix == Suffix(A, o, at)
               first == FirstEvent(suffix)
               last == LastEvent(Of(A, o))
               row == TableEntry(A, L, spec, o, at)
               liveOf == IF spec = "diff" \/ HasDiffRows(A, spec) THEN LiveRow(L, o) ELSE NoRow
           IN  /\ suffix # {} /\ first.operation = "INSERT" => row = NoRow
               /\ suffix # {} /\ first.operation # "INSERT" /\ first.old_data # NoRow =>
                     row = first.old_data
               /\ suffix # {} /\ first.operation # "INSERT" /\ first.old_data = NoRow =>
                     row = Overlay(liveOf, Undo(A, o, first))
               /\ suffix = {} /\ Of(A, o) # {} /\ last.operation = "DELETE" => row = NoRow
               /\ suffix = {} /\ Of(A, o) # {} /\ last.operation # "DELETE" =>
                     /\ last.new_data # NoRow => row = last.new_data
                     /\ last.new_data = NoRow => row = liveOf
               /\ suffix = {} /\ Of(A, o) = {} => row = IF spec = "diff" THEN liveOf ELSE NoRow
<1> DEFINE suffix == Suffix(A, o, at)
           first == FirstEvent(suffix)
           last == LastEvent(Of(A, o))
           row == TableEntry(A, L, spec, o, at)
           liveOf == IF spec = "diff" \/ HasDiffRows(A, spec) THEN LiveRow(L, o) ELSE NoRow
           undone == Overlay(liveOf, Undo(A, o, first))
<1>1. suffix # {} =>
          row = CASE first.operation = "INSERT" -> NoRow
                  [] first.operation # "INSERT" /\ first.old_data # NoRow -> first.old_data
                  [] OTHER -> undone
  BY Zenon DEF TableEntry
<1>2. suffix = {} /\ Of(A, o) # {} =>
          row = CASE last.operation = "DELETE" -> NoRow
                  [] last.operation # "DELETE" /\ last.new_data # NoRow -> last.new_data
                  [] OTHER -> liveOf
  BY Zenon DEF TableEntry
<1>3. suffix = {} /\ Of(A, o) = {} => row = IF spec = "diff" THEN liveOf ELSE NoRow
  BY Zenon DEF TableEntry
<1> HIDE DEF suffix, first, last, row, undone, liveOf
<1>4. suffix # {} /\ first.operation = "INSERT" => row = NoRow
  BY <1>1, Zenon
<1>5. suffix # {} /\ first.operation # "INSERT" /\ first.old_data # NoRow => row = first.old_data
  BY <1>1, Zenon
<1>6. suffix # {} /\ first.operation # "INSERT" /\ first.old_data = NoRow => row = undone
  BY <1>1, Zenon
<1>7. suffix = {} /\ Of(A, o) # {} /\ last.operation = "DELETE" => row = NoRow
  BY <1>2, Zenon
<1>8. suffix = {} /\ Of(A, o) # {} /\ last.operation # "DELETE" /\ last.new_data # NoRow =>
          row = last.new_data
  BY <1>2, Zenon
<1>9. suffix = {} /\ Of(A, o) # {} /\ last.operation # "DELETE" /\ last.new_data = NoRow =>
          row = liveOf
  BY <1>2, Zenon
<1> QED
  BY <1>3, <1>4, <1>5, <1>6, <1>7, <1>8, <1>9, Zenon DEF suffix, first, last, row, undone, liveOf

(* Undoing and overlaying stay among the tracked columns and their values, *)
(* so what the table form returns of an object is not an exception.        *)
LEMMA OverlayObject ==
    ASSUME NEW A, NEW o, \A e \in Of(A, o) : Shaped(e), NEW first,
           NEW row \in [Tracked -> Cell] \cup {NoRow}
    PROVE  Overlay(row, Undo(A, o, first)) \in Object
<1> DEFINE undo == Undo(A, o, first)
           C == UNION {DOMAIN e.diff : e \in {f \in Of(A, o) : f.id >= first.id}}
           N(c) == {e \in {f \in Of(A, o) : f.id >= first.id} : c \in DOMAIN e.diff}
           side(c) == OldSide(FirstEvent(N(c)).diff[c])
<1>1. undo = [c \in C |-> side(c)]
  BY DEF Undo
<1>2. C \subseteq Tracked
  BY DEF Shaped
<1>3. \A c : side(c) \in Cell
  <2>1. \A x : OldSide(x) \in Cell
    BY Assumed DEF OldSide, Paired
  <2> QED
    BY <2>1
<1> HIDE DEF C, N, side, undo
<1>4. DOMAIN undo = C /\ \A c \in C : undo[c] \in Cell
  BY <1>1, <1>3
<1> DEFINE base == IF row = NoRow THEN {} ELSE DOMAIN row
           D == base \cup DOMAIN undo
           over == Overlay(row, undo)
<1>5. base \subseteq Tracked /\ \A c \in base : row[c] \in Cell
  <2>1. CASE row = NoRow
    BY <2>1
  <2>2. CASE row # NoRow
    BY <2>2
  <2> QED
    BY <2>1, <2>2
<1>6. over = [c \in D |-> IF c \in DOMAIN undo THEN undo[c] ELSE row[c]]
  BY DEF Overlay
<1>7. D \subseteq Tracked /\ \A c \in D : (IF c \in DOMAIN undo THEN undo[c] ELSE row[c]) \in Cell
  <2> HIDE DEF base
  <2> QED
    BY <1>2, <1>4, <1>5
<1> HIDE DEF over, D
<1>8. over \in [D -> Cell]
  BY <1>6, <1>7
<1>9. over \in Object
  BY <1>7, <1>8, Assumed, Objects
<1> QED
  BY <1>9 DEF over, undo

(* A snapshot is a row the reconstruct functions may return. *)
LEMMA SnapshotReturned == [Tracked -> Cell] \cup {NoRow} \subseteq Object \cup {NoRow}
BY Assumed, Objects

(* A reader sees shaped events and rows. *)
Readable(A, L) ==
    /\ \E n \in Nat : \A e \in A : Shaped(e) /\ e.id <= n
    /\ \A o \in Obj : L[o] \in AnyRow

(* For one object the two forms differ only where the table form raises. *)
LEMMA EntryAgrees ==
    ASSUME NEW A, NEW L, Readable(A, L), NEW spec \in {"full", "diff", "none"}, NEW at,
           NEW o \in Obj, ~ (spec = "none" /\ HasDiffRows(A, spec))
    PROVE  /\ TableEntry(A, L, spec, o, at) = ReconstructRow(A, L, spec, o, at)
           /\ TableEntry(A, L, spec, o, at) \in Object \cup {NoRow}
<1> DEFINE S == Of(A, o)
           X == Suffix(A, o, at)
           first == FirstEvent(X)
           last == LastEvent(S)
           entry == TableEntry(A, L, spec, o, at)
           row == ReconstructRow(A, L, spec, o, at)
           liveOf == IF spec = "diff" \/ HasDiffRows(A, spec) THEN LiveRow(L, o) ELSE NoRow
<1>1. PICK n \in Nat : \A e \in A : Shaped(e) /\ e.id <= n
  BY DEF Readable
<1>2. \A e \in S : e \in A /\ Shaped(e) /\ e.id \in Nat /\ e.id <= n
  BY <1>1 DEF Of, Shaped
<1>3. X \subseteq S
  BY DEF Suffix
<1>4. LiveRow(L, o) \in [Tracked -> Cell] \cup {NoRow}
  <2>1. CASE L[o] = NoRow
    BY <2>1 DEF LiveRow
  <2>2. CASE L[o] # NoRow
    <3>1. L[o] \in Row
      BY <2>2 DEF Readable, AnyRow
    <3> QED
      BY <2>2, <3>1, Filtered DEF LiveRow
  <2> QED
    BY <2>1, <2>2
<1>5. ASSUME NEW e \in A, e.old_data = NoRow, e.new_data = NoRow
      PROVE  spec # "none" /\ liveOf = LiveRow(L, o)
  <2>1. spec # "diff" => HasDiffRows(A, spec)
    BY <1>5 DEF HasDiffRows
  <2> QED
    BY <2>1
<1>6. CASE X # {}
  <2>1. first \in X
    <3>1. \A e \in X : e.id \in Nat
      BY <1>2, <1>3
    <3> HIDE DEF X
    <3> QED
      BY <1>6, <3>1, FirstEventOf
  <2>2. Shaped(first) /\ first \in A
    BY <1>2, <1>3, <2>1
  <2>3. CASE first.operation = "INSERT"
    <3>1. entry = NoRow /\ row = NoRow
      BY <1>6, <2>3, EntryCases, RowCases
    <3> QED
      BY <3>1, SnapshotReturned
  <2>4. CASE first.operation # "INSERT" /\ first.old_data # NoRow
    <3>1. entry = first.old_data /\ row = first.old_data
      BY <1>6, <2>4, EntryCases, RowCases
    <3>2. first.old_data \in [Tracked -> Cell]
      BY <2>2, <2>4 DEF Shaped
    <3> HIDE DEF entry, row, first
    <3>3. entry = row /\ entry \in Object \cup {NoRow}
      BY <3>1, <3>2, SnapshotReturned
    <3> QED
      BY <3>3 DEF entry, row
  <2>5. CASE first.operation # "INSERT" /\ first.old_data = NoRow
    <3>1. first.new_data = NoRow
      BY <2>2, <2>5 DEF Shaped
    <3>2. spec # "none" /\ liveOf = LiveRow(L, o)
      BY <1>5, <2>2, <2>5, <3>1
    <3>3. entry = Overlay(liveOf, Undo(A, o, first))
      BY <1>6, <2>5, EntryCases
    <3>4. row = Overlay(LiveRow(L, o), Undo(A, o, first))
      BY <1>6, <2>5, <3>2, RowCases
    <3> HIDE DEF entry, row, first, liveOf
    <3>5. Overlay(LiveRow(L, o), Undo(A, o, first)) \in Object
      BY <1>2, <1>4, OverlayObject
    <3>6. entry = row /\ entry \in Object \cup {NoRow}
      BY <3>2, <3>3, <3>4, <3>5
    <3> QED
      BY <3>6 DEF entry, row
  <2> QED
    BY <2>3, <2>4, <2>5
<1>7. CASE X = {} /\ S # {}
  <2>1. last \in S
    <3> HIDE DEF S
    <3> QED
      BY <1>2, <1>7, LastEventOf
  <2>2. Shaped(last) /\ last \in A
    BY <1>2, <2>1
  <2>3. CASE last.operation = "DELETE"
    <3>1. last.new_data = NoRow
      BY <2>2, <2>3 DEF Shaped
    <3>2. entry = NoRow /\ row = NoRow
      BY <1>7, <2>3, <3>1, EntryCases, RowCases
    <3> QED
      BY <3>2, SnapshotReturned
  <2>4. CASE last.operation # "DELETE" /\ last.new_data # NoRow
    <3>1. entry = last.new_data /\ row = last.new_data
      BY <1>7, <2>4, EntryCases, RowCases
    <3>2. last.new_data \in [Tracked -> Cell]
      BY <2>2, <2>4 DEF Shaped
    <3> HIDE DEF entry, row, last
    <3>3. entry = row /\ entry \in Object \cup {NoRow}
      BY <3>1, <3>2, SnapshotReturned
    <3> QED
      BY <3>3 DEF entry, row
  <2>5. CASE last.operation # "DELETE" /\ last.new_data = NoRow
    <3>1. last.old_data = NoRow
      BY <2>2, <2>5 DEF Shaped
    <3>2. spec # "none" /\ liveOf = LiveRow(L, o)
      BY <1>5, <2>2, <2>5, <3>1
    <3>3. entry = liveOf
      BY <1>7, <2>5, EntryCases
    <3>4. row = LiveRow(L, o)
      BY <1>7, <2>5, <3>2, RowCases
    <3> HIDE DEF entry, row, liveOf
    <3>5. entry = row /\ entry \in Object \cup {NoRow}
      BY <1>4, <3>2, <3>3, <3>4, SnapshotReturned
    <3> QED
      BY <3>5 DEF entry, row
  <2> QED
    BY <2>3, <2>4, <2>5
<1>8. CASE X = {} /\ S = {}
  <2>1. entry = IF spec = "diff" THEN liveOf ELSE NoRow
    BY <1>8, EntryCases
  <2>2. /\ spec = "diff" => row = LiveRow(L, o)
        /\ spec # "diff" => row = NoRow
    BY <1>8, RowCases
  <2>3. spec = "diff" => liveOf = LiveRow(L, o)
    OBVIOUS
  <2> HIDE DEF entry, row, liveOf
  <2>4. entry = row /\ entry \in Object \cup {NoRow}
    BY <1>4, <2>1, <2>2, <2>3, SnapshotReturned
  <2> QED
    BY <2>4 DEF entry, row
<1> QED
  BY <1>6, <1>7, <1>8

(* The two forms agree for every reader. *)
LEMMA FormsAgree ==
    ASSUME NEW A, NEW L, Readable(A, L), NEW spec \in {"full", "diff", "none"}, NEW at
    PROVE  AgreeFor(A, L, spec, at)
<1> DEFINE table == ReconstructTable(A, L, spec, at)
<1>1. CASE spec = "none" /\ HasDiffRows(A, spec)
  <2>1. \E e \in A : e.old_data = NoRow /\ e.new_data = NoRow
    BY <1>1 DEF HasDiffRows
  <2>2. table = Error
    BY <1>1, TableIs
  <2> QED
    BY <2>1, <2>2 DEF AgreeFor
<1>2. CASE ~ (spec = "none" /\ HasDiffRows(A, spec))
  <2>1. table = [o \in Obj |-> TableEntry(A, L, spec, o, at)]
    BY <1>2, TableIs
  <2>2. \A o \in Obj : /\ TableEntry(A, L, spec, o, at) = ReconstructRow(A, L, spec, o, at)
                       /\ TableEntry(A, L, spec, o, at) \in Object \cup {NoRow}
    BY <1>2, EntryAgrees
  <2> HIDE DEF table
  <2>3. table # Error
    <3>1. table \in [Obj -> Object \cup {NoRow}]
      BY <2>1, <2>2
    <3> QED
      BY <3>1, AuditAssumption
  <2>4. \A o \in Obj : table[o] = ReconstructRow(A, L, spec, o, at)
    BY <2>1, <2>2
  <2> QED
    BY <2>3, <2>4 DEF AgreeFor, table
<1> QED
  BY <1>1, <1>2

(***************************************************************************)
(* _audit_reconstruct_row and _audit_reconstruct_table agree, for          *)
(* committed readers and for readers inside a transaction, with and        *)
(* without the registry; no assumption on log_condition or the filter.     *)
(***************************************************************************)
THEOREM RowAndTableAgree == Spec => []RowTableAgree
<1>1. ShapeInv => RowTableAgree
  <2> SUFFICES ASSUME ShapeInv, NEW at \in 0..clock, NEW spec \in {storage, "none"}
               PROVE  /\ AgreeFor(audit, live, spec, at)
                      /\ \A t \in Txn : AgreeFor(EventsOf(t), TableOf(t), spec, at)
    BY DEF RowTableAgree
  <2>1. spec \in {"full", "diff", "none"}
    BY Assumed DEF ShapeInv, TypeOK
  <2>2. Readable(audit, live) /\ \A t \in Txn : Readable(EventsOf(t), TableOf(t))
    BY InAllEvents, Typed DEF Readable, EventsOf
  <2> QED
    BY <2>1, <2>2, FormsAgree
<1> QED
  BY <1>1, ShapeInvariant, PTL

------------------------------------------------------------------------------
(* Events without their snapshots *)

(* The two sets hold the same ids, times, operations and diffs. *)
Twin(b, e) ==
    /\ b.id = e.id /\ b.changed_at = e.changed_at
    /\ b.operation = e.operation /\ b.diff = e.diff
Alike(U, V) == /\ \A b \in U : \E e \in V : Twin(b, e)
               /\ \A e \in V : \E b \in U : Twin(b, e)

(* What a column was depends on ids, operations and diffs alone. *)
LEMMA WasAlike ==
    ASSUME NEW U, NEW V, Ordered(U), Ordered(V), Alike(U, V), NEW row, NEW c
    PROVE  Was(U, row, c) = Was(V, row, c)
<1>1. CASE Naming(U, c) = {}
  <2>1. Naming(V, c) = {}
    BY <1>1 DEF Naming, Alike, Twin
  <2> QED
    BY <1>1, <2>1 DEF Was
<1>2. CASE Naming(U, c) # {}
  <2>1. PICK b \in U : /\ c \in DOMAIN b.diff
                       /\ \A f \in U : c \in DOMAIN f.diff => b.id <= f.id
                       /\ Was(U, row, c) = OldOf(b, c)
    BY <1>2, WasFacts
  <2>2. PICK e \in V : Twin(b, e)
    BY DEF Alike
  <2>3. \A f \in V : c \in DOMAIN f.diff => e.id <= f.id
    BY <2>1, <2>2 DEF Alike, Twin
  <2>4. Was(V, row, c) = OldOf(e, c)
    BY <2>1, <2>2, <2>3, WasFacts DEF Twin
  <2> QED
    BY <2>1, <2>2, <2>4 DEF Twin, OldOf
<1> QED
  BY <1>1, <1>2

(* Sets of the same ids, times, operations and diffs have the same parts. *)
LEMMA PartsAlike ==
    ASSUME NEW U, NEW V, Alike(U, V)
    PROVE  /\ \A i : Alike(From(U, i), From(V, i))
           /\ \A at : Alike(Later(U, at), Later(V, at))
<1>1. \A i : Alike(From(U, i), From(V, i))
  BY DEF Alike, Twin, From
<1>2. ASSUME NEW at PROVE Alike(Later(U, at), Later(V, at))
  <2>1. ASSUME NEW b \in Later(U, at) PROVE \E e \in Later(V, at) : Twin(b, e)
    <3>1. PICK f \in U : f.changed_at > at /\ f.id <= b.id
      BY DEF Later
    <3>2. PICK e \in V : Twin(b, e)
      BY DEF Later, Alike
    <3>3. PICK g \in V : Twin(f, g)
      BY DEF Alike
    <3>4. g.changed_at > at /\ g.id <= e.id
      BY <3>1, <3>2, <3>3 DEF Twin
    <3> QED
      BY <3>2, <3>4 DEF Later
  <2>2. ASSUME NEW b \in Later(V, at) PROVE \E e \in Later(U, at) : Twin(e, b)
    <3>1. PICK f \in V : f.changed_at > at /\ f.id <= b.id
      BY DEF Later
    <3>2. PICK e \in U : Twin(e, b)
      BY DEF Later, Alike
    <3>3. PICK g \in U : Twin(g, f)
      BY DEF Alike
    <3>4. g.changed_at > at /\ g.id <= e.id
      BY <3>1, <3>2, <3>3 DEF Twin
    <3> QED
      BY <3>2, <3>4 DEF Later
  <2> QED
    BY <2>1, <2>2 DEF Alike
<1> QED
  BY <1>1, <1>2

(* There was a row at any instant: undoing the later events leads to one.  *)
LEMMA PastRow ==
    ASSUME NEW A, NEW o, NEW at, Ordered(Of(A, o)), NEW row \in AnyRow, Explains(Of(A, o), row)
    PROVE  \E r \in AnyRow : WasRow(Later(Of(A, o), at), row, r)
<1> DEFINE V == Of(A, o)
<1>1. CASE Suffix(A, o, at) = {}
  <2>1. Later(V, at) = {}
    BY <1>1, LaterFrom
  <2> QED
    BY <2>1, WasRowNow
<1>2. CASE Suffix(A, o, at) # {}
  <2> DEFINE first == FirstEvent(Suffix(A, o, at))
  <2>1. first \in V /\ Later(V, at) = From(V, first.id)
    BY <1>2, LaterFrom
  <2> HIDE DEF first, V
  <2>2. Explains(V, row)
    BY DEF V
  <2>3. \E r \in AnyRow : WasRow(Later(V, at), row, r)
    BY <2>1, <2>2 DEF Explains
  <2> QED
    BY <2>3 DEF V
<1> QED
  BY <1>1, <1>2

(* A cleared event keeps its diff and is still shaped as one. *)
LEMMA ClearedEvent ==
    ASSUME NEW e, Shaped(e)
    PROVE  LET b == [e EXCEPT !.old_data = NoRow, !.new_data = NoRow]
           IN  /\ Twin(b, e) /\ b.object_id = e.object_id /\ b.operation = e.operation
               /\ b.old_data = NoRow /\ b.new_data = NoRow /\ Shaped(b)
<1> DEFINE a == [e EXCEPT !.old_data = NoRow]
           b == [a EXCEPT !.new_data = NoRow]
<1>1. DOMAIN e = {"id", "changed_at", "object_id", "operation", "diff", "old_data", "new_data"}
  BY DEF Shaped
<1>2. /\ DOMAIN a = DOMAIN e /\ a.id = e.id /\ a.changed_at = e.changed_at
      /\ a.object_id = e.object_id /\ a.operation = e.operation /\ a.diff = e.diff
      /\ a.old_data = NoRow
  BY <1>1
<1> HIDE DEF a
<1>3. /\ DOMAIN b = DOMAIN e /\ b.id = e.id /\ b.changed_at = e.changed_at
      /\ b.object_id = e.object_id /\ b.operation = e.operation /\ b.diff = e.diff
      /\ b.old_data = NoRow /\ b.new_data = NoRow
  BY <1>1, <1>2
<1> HIDE DEF b
<1>4. Shaped(b)
  BY <1>3 DEF Shaped
<1>5. b = [e EXCEPT !.old_data = NoRow, !.new_data = NoRow]
  BY DEF a, b
<1> QED
  BY <1>3, <1>4, <1>5 DEF Twin

(* Events explain a row without their snapshots too. *)
LEMMA ExplainsCleared ==
    ASSUME NEW A, NEW S, S \subseteq A, NEW o, Ordered(Of(A, o)), NEW row, Explains(Of(A, o), row),
           \A e \in A : Shaped(e)
    PROVE  LET B == Of(Cleared(A, S), o)
           IN  Ordered(B) /\ Alike(B, Of(A, o)) /\ Explains(B, row)
<1> DEFINE B == Of(Cleared(A, S), o)
           V == Of(A, o)
           clear(e) == [e EXCEPT !.old_data = NoRow, !.new_data = NoRow]
<1>1. \A e \in A : /\ Twin(clear(e), e) /\ clear(e).object_id = e.object_id /\ Shaped(clear(e))
                   /\ clear(e).old_data = NoRow /\ clear(e).new_data = NoRow
  BY ClearedEvent
<1>2. \A b : b \in B <=> \/ b \in V \ S
                         \/ \E e \in V \cap S : b = clear(e)
  <2>1. \A b : b \in Cleared(A, S) <=> b \in A \ S \/ \E e \in S : b = clear(e)
    BY DEF Cleared
  <2> HIDE DEF clear
  <2> QED
    BY <1>1, <2>1 DEF Of
<1>3. V \subseteq A
  BY DEF Of
<1> HIDE DEF clear, B, V
<1>4. \A b \in B : \E e \in V :
          /\ Twin(b, e) /\ Shaped(b)
          /\ (b = e /\ e \notin S) \/ (e \in S /\ b = clear(e))
  <2> SUFFICES ASSUME NEW b \in B
               PROVE  \E e \in V : /\ Twin(b, e) /\ Shaped(b)
                                   /\ (b = e /\ e \notin S) \/ (e \in S /\ b = clear(e))
    OBVIOUS
  <2>1. CASE b \in V \ S
    <3>1. b \in V /\ b \notin S /\ Twin(b, b) /\ Shaped(b)
      BY <1>3, <2>1 DEF Twin
    <3> QED
      BY <3>1
  <2>2. CASE b \notin V \ S
    <3>1. PICK e \in V \cap S : b = clear(e)
      BY <1>2, <2>2
    <3> QED
      BY <1>1, <1>3, <3>1
  <2> QED
    BY <2>1, <2>2
<1>5. \A e \in V : \E b \in B : Twin(b, e)
  <2> SUFFICES ASSUME NEW e \in V PROVE \E b \in B : Twin(b, e)
    OBVIOUS
  <2>1. CASE e \in S
    BY <1>1, <1>2, <1>3, <2>1
  <2>2. CASE e \notin S
    BY <1>2, <2>2 DEF Twin
  <2> QED
    BY <2>1, <2>2
<1>6. Alike(B, V)
  BY <1>4, <1>5 DEF Alike
<1>7. Ordered(B)
  <2>1. \A b \in B : b.id \in Nat
    BY <1>4 DEF Shaped
  <2>2. ASSUME NEW a \in B, NEW b \in B, a.id = b.id PROVE a = b
    <3>1. PICK e \in V : /\ Twin(a, e)
                         /\ (a = e /\ e \notin S) \/ (e \in S /\ a = clear(e))
      BY <1>4
    <3>2. PICK f \in V : /\ Twin(b, f)
                         /\ (b = f /\ f \notin S) \/ (f \in S /\ b = clear(f))
      BY <1>4
    <3>3. e.id = f.id
      BY <2>2, <3>1, <3>2 DEF Twin
    <3>4. e = f
      BY <3>3 DEF Ordered, V
    <3> QED
      BY <3>1, <3>2, <3>4
  <2> QED
    BY <2>1, <2>2 DEF Ordered
<1>8. \A i, c : Was(From(B, i), row, c) = Was(From(V, i), row, c)
  <2>1. Ordered(V)
    BY DEF V
  <2> SUFFICES ASSUME NEW i, NEW c PROVE Was(From(B, i), row, c) = Was(From(V, i), row, c)
    OBVIOUS
  <2>2. Ordered(From(B, i)) /\ Ordered(From(V, i)) /\ Alike(From(B, i), From(V, i))
    BY <1>6, <1>7, <2>1, FromOrdered, PartsAlike
  <2> QED
    BY <2>2, WasAlike
<1>9. Explains(B, row)
  <2> SUFFICES ASSUME NEW b \in B
      PROVE  /\ Shaped(b)
             /\ \A c \in DOMAIN b.diff : NewOf(b, c) = Was(From(B, b.id + 1), row, c)
             /\ \E r \in AnyRow : WasRow(From(B, b.id), row, r)
             /\ b.old_data # NoRow => \A c \in Tracked : b.old_data[c] = Was(From(B, b.id), row, c)
             /\ b.new_data # NoRow =>
                   \A c \in Tracked : b.new_data[c] = Was(From(B, b.id + 1), row, c)
    BY DEF Explains
  <2>1. PICK e \in V : /\ Twin(b, e) /\ Shaped(b)
                       /\ (b = e /\ e \notin S) \/ (e \in S /\ b = clear(e))
    BY <1>4
  <2>2. Explains(V, row)
    BY DEF V
  <2>3. \A c \in DOMAIN b.diff : NewOf(b, c) = Was(From(B, b.id + 1), row, c)
    BY <1>8, <2>1, <2>2 DEF Explains, Twin, NewOf
  <2>4. \E r \in AnyRow : WasRow(From(B, b.id), row, r)
    BY <1>8, <2>1, <2>2 DEF Explains, Twin, WasRow
  <2>5. b.old_data # NoRow \/ b.new_data # NoRow => b = e
    BY <1>1, <1>3, <2>1
  <2> QED
    BY <1>8, <2>1, <2>2, <2>3, <2>4, <2>5 DEF Explains
<1> QED
  BY <1>6, <1>7, <1>9 DEF B, V

(***************************************************************************)
(* In diff storage snapshots are redundant: clearing those of any set of   *)
(* events, which is what compaction does, changes no past state.           *)
(***************************************************************************)
THEOREM SnapshotsAreRedundant ==
    ASSUME Skipped = {}, Tracked # {}
    PROVE  Spec => []SnapshotsRedundant
<1>1. ShapeInv /\ LogInv => SnapshotsRedundant
  <2> SUFFICES ASSUME ShapeInv, LogInv, storage = "diff", NEW S \in SUBSET audit,
                      NEW o \in Obj, NEW at
               PROVE  ReconstructRow(Cleared(audit, S), live, storage, o, at) = Rebuilt(o, at)
    BY DEF SnapshotsRedundant
  <2> DEFINE V == Of(audit, o)
             B == Of(Cleared(audit, S), o)
  <2>1. /\ Ordered(V) /\ Explains(V, live[o]) /\ live[o] \in AnyRow
        /\ idSeq \in Nat /\ \A e \in V : e.id <= idSeq
    BY CommittedView
  <2>2. Ordered(B) /\ Alike(B, V) /\ Explains(B, live[o])
    <3>1. \A e \in audit : Shaped(e)
      BY InAllEvents, Typed
    <3> QED
      BY <2>1, <3>1, ExplainsCleared
  <2>3. \A b \in B : b.id <= idSeq
    <3> HIDE DEF B, V
    <3> QED
      BY <2>1, <2>2 DEF Alike, Twin
  <2>4. PICK r \in AnyRow : WasRow(Later(V, at), live[o], r)
    BY <2>1, PastRow
  <2>5. WasRow(Later(B, at), live[o], r)
    <3> HIDE DEF B, V
    <3>1. Alike(Later(B, at), Later(V, at)) /\ Ordered(Later(B, at)) /\ Ordered(Later(V, at))
      BY <2>1, <2>2, PartsAlike, FromOrdered
    <3>2. \A c : Was(Later(B, at), live[o], c) = Was(Later(V, at), live[o], c)
      BY <3>1, WasAlike
    <3> QED
      BY <2>4, <3>2 DEF WasRow
  <2>6. storage \in {"full", "diff"}
    BY CommittedView
  <2>7. \/ ReconstructRow(Cleared(audit, S), live, storage, o, at) = FilterOf(r)
        \/ /\ ReconstructRow(Cleared(audit, S), live, storage, o, at) = NoRow
           /\ storage = "full" /\ Of(Cleared(audit, S), o) = {}
    <3> DEFINE A == Cleared(audit, S)
    <3>1. /\ Ordered(Of(A, o)) /\ \A e \in Of(A, o) : e.id <= idSeq
          /\ Explains(Of(A, o), live[o]) /\ WasRow(Later(Of(A, o), at), live[o], r)
          /\ idSeq \in Nat /\ live[o] \in AnyRow
      BY <2>1, <2>2, <2>3, <2>5
    <3> HIDE DEF A, B, V
    <3>2. \/ ReconstructRow(A, live, storage, o, at) = FilterOf(r)
          \/ /\ ReconstructRow(A, live, storage, o, at) = NoRow
             /\ storage = "full" /\ Of(A, o) = {}
      BY <2>6, <3>1, RebuiltRow, SMTT(60)
    <3> QED
      BY <3>2 DEF A
  <2>8. RebuiltAs(o, at, r)
    BY <2>4, RebuiltCommitted
  <2> QED
    BY <2>7, <2>8 DEF RebuiltAs, Unknown, Rebuilt, FilterOf
<1> QED
  BY <1>1, LogInvariant, PTL

------------------------------------------------------------------------------
(* What the readers make of one event *)

(* A reader finds the two sides of the diff of an event in whichever of    *)
(* snapshot and diff it looks, and an event touches just the columns of    *)
(* its diff.                                                               *)
LEMMA SidesOf ==
    ASSUME NEW e, Shaped(e), NEW c \in Tracked
    PROVE  /\ e.operation # "DELETE" /\ c \in DOMAIN e.diff =>
                 ValueIn(RowAfter(e), c) = e.diff[c].new
           /\ e.operation # "INSERT" /\ c \in DOMAIN e.diff =>
                 ValueIn(RowBefore(e), c) = e.diff[c].old
           /\ Touches(e, c) <=> c \in DOMAIN e.diff
           /\ e.operation # "UPDATE" => c \in DOMAIN e.diff
<1>1. /\ e.old_data # NoRow => e.old_data \in [Tracked -> Cell]
      /\ e.new_data # NoRow => e.new_data \in [Tracked -> Cell]
      /\ e.operation \in {"INSERT", "UPDATE", "DELETE"}
      /\ e.operation # "UPDATE" => DOMAIN e.diff = Tracked
      /\ DOMAIN e.diff \subseteq Tracked
      /\ \A d \in DOMAIN e.diff :
            /\ Paired(e.diff[d])
            /\ e.old_data # NoRow => e.old_data[d] = e.diff[d].old
            /\ e.new_data # NoRow => e.new_data[d] = e.diff[d].new
  BY DEF Shaped
<1> DEFINE olds == Side(e.diff, "old")
           news == Side(e.diff, "new")
<1>2. /\ DOMAIN olds = DOMAIN e.diff /\ DOMAIN news = DOMAIN e.diff
      /\ \A d \in DOMAIN e.diff : olds[d] = e.diff[d].old /\ news[d] = e.diff[d].new
  BY <1>1 DEF Side
<1>3. olds # NoRow /\ news # NoRow
  <2>1. DOMAIN e.diff \subseteq Col
    BY <1>1, Assumed
  <2>2. \A d \in DOMAIN e.diff : olds[d] \in Cell /\ news[d] \in Cell
    BY <1>1, <1>2 DEF Paired
  <2>3. /\ olds = [d \in DOMAIN e.diff |-> olds[d]]
        /\ news = [d \in DOMAIN e.diff |-> news[d]]
    BY <1>2 DEF Side
  <2> HIDE DEF olds, news
  <2>4. olds \in [DOMAIN e.diff -> Cell] /\ news \in [DOMAIN e.diff -> Cell]
    BY <2>2, <2>3
  <2> QED
    BY <2>1, <2>4, Objects, AuditAssumption
<1>4. ASSUME e.operation # "DELETE"
      PROVE  /\ c \in DOMAIN e.diff => ValueIn(RowAfter(e), c) = e.diff[c].new
             /\ e.operation = "INSERT" => Has(RowAfter(e), c)
  <2>1. CASE e.new_data # NoRow
    BY <1>1, <1>4, <2>1 DEF RowAfter, ValueIn, Has
  <2>2. CASE e.new_data = NoRow
    <3>1. RowAfter(e) = news
      BY <1>4, <2>2 DEF RowAfter
    <3> HIDE DEF news
    <3> QED
      BY <1>1, <1>2, <1>3, <3>1 DEF ValueIn, Has
  <2> QED
    BY <2>1, <2>2
<1>5. ASSUME e.operation # "INSERT"
      PROVE  /\ c \in DOMAIN e.diff => ValueIn(RowBefore(e), c) = e.diff[c].old
             /\ e.operation = "DELETE" => Has(RowBefore(e), c)
  <2>1. CASE e.old_data # NoRow
    BY <1>1, <1>5, <2>1 DEF RowBefore, ValueIn, Has
  <2>2. CASE e.old_data = NoRow
    <3>1. RowBefore(e) = olds
      BY <1>5, <2>2 DEF RowBefore
    <3> HIDE DEF olds
    <3> QED
      BY <1>1, <1>2, <1>3, <3>1 DEF ValueIn, Has
  <2> QED
    BY <2>1, <2>2
<1>6. Touches(e, c) <=> c \in DOMAIN e.diff
  <2>1. CASE e.operation = "UPDATE"
    BY <2>1, Zenon DEF Touches
  <2>2. CASE e.operation = "INSERT"
    <3>1. Touches(e, c) = Has(RowAfter(e), c)
      <4>1. "INSERT" # "UPDATE"
        OBVIOUS
      <4> QED
        BY <2>2, <4>1, Zenon DEF Touches
    <3>2. e.operation # "DELETE" /\ c \in DOMAIN e.diff
      BY <1>1, <2>2
    <3>3. Has(RowAfter(e), c)
      BY <1>4, <2>2, <3>2
    <3> QED
      BY <3>1, <3>2, <3>3
  <2>3. CASE e.operation = "DELETE"
    <3>1. Touches(e, c) = Has(RowBefore(e), c)
      <4>1. "DELETE" # "UPDATE" /\ "DELETE" # "INSERT"
        OBVIOUS
      <4> QED
        BY <2>3, <4>1, Zenon DEF Touches
    <3>2. e.operation # "INSERT" /\ c \in DOMAIN e.diff
      BY <1>1, <2>3
    <3>3. Has(RowBefore(e), c)
      BY <1>5, <2>3, <3>2
    <3> QED
      BY <3>1, <3>2, <3>3
  <2> QED
    BY <1>1, <2>1, <2>2, <2>3
<1> QED
  BY <1>1, <1>4, <1>5, <1>6

(* What reverting an event of the trigger makes of a row is a row: the     *)
(* columns of the diff as they were before it, the others unchanged.       *)
LEMMA RevertRowIs ==
    ASSUME NEW e, Shaped(e), e.operation = "UPDATE", NEW row \in Row
    PROVE  /\ RevertRow(e, row) \in Row
           /\ \A c \in Col : RevertRow(e, row)[c] =
                 IF c \in DOMAIN e.diff THEN e.diff[c].old ELSE row[c]
<1> DEFINE before == IF e.old_data # NoRow THEN e.old_data ELSE Side(e.diff, "old")
           reverted == RevertRow(e, row)
<1>1. before = RowBefore(e)
  BY DEF RowBefore
<1>2. reverted = [c \in Col |-> IF c \in DOMAIN e.diff THEN ValueIn(before, c) ELSE row[c]]
  BY DEF RevertRow, Row
<1> HIDE DEF before, reverted
<1>3. \A c \in DOMAIN e.diff : ValueIn(before, c) = e.diff[c].old /\ e.diff[c].old \in Cell
  BY <1>1, Sides, SidesOf
<1>4. \A c \in Col : row[c] \in Cell
  BY DEF Row
<1>5. \A c \in Col : reverted[c] = IF c \in DOMAIN e.diff THEN e.diff[c].old ELSE row[c]
  BY <1>2, <1>3
<1>6. reverted \in [Col -> Cell]
  BY <1>2, <1>3, <1>4
<1> QED
  BY <1>5, <1>6 DEF reverted, Row

------------------------------------------------------------------------------
(* Revert is a write *)

(* The UPDATE a revert composes is one the writers could have run.         *)
LEMMA RevertIsWrite ==
    ASSUME ShapeInv, NEW t \in Txn, NEW o \in Obj, NEW e \in EventsOf(t), Revert(t, o, e)
    PROVE  \E new \in Row \cup {NoRow} : Write(t, o, new)
<1> DEFINE row == TableOf(t)[o]
<1>1. Shaped(e)
  BY InAllEvents, Typed DEF EventsOf
<1>2. e.operation = "UPDATE" /\ row # NoRow /\ Write(t, o, RevertRow(e, row))
  BY DEF Revert
<1>3. row \in Row
  BY <1>2, Typed DEF AnyRow
<1>4. RevertRow(e, row) \in Row
  BY <1>1, <1>2, <1>3, RevertRowIs
<1> QED
  BY <1>2, <1>4

(***************************************************************************)
(* Reverting through the trigger is no new kind of step (revert.py issues  *)
(* an UPDATE like any application): every behaviour of the tables with the *)
(* readers is one of AuditLog, so its theorems hold for both.              *)
(***************************************************************************)
THEOREM ReadersAreWriters == ReadersSpec => Spec
<1>1. ShapeInv /\ [ReadersNext]_vars => [Next]_vars
  <2> SUFFICES ASSUME ShapeInv, [ReadersNext]_vars PROVE [Next]_vars
    OBVIOUS
  <2>1. ASSUME NEW t \in Txn, NEW o \in Obj, NEW e \in EventsOf(t), Revert(t, o, e) PROVE Next
    BY <2>1, RevertIsWrite DEF Next, TxnStep
  <2> QED
    BY <2>1 DEF ReadersNext
<1>2. ShapeInv /\ [ReadersNext]_vars => ShapeInv'
  BY <1>1, ShapeStep
<1>3. Init => ShapeInv
  BY ShapeInit
<1> QED
  BY <1>1, <1>2, <1>3, PTL DEF ReadersSpec, Spec

(* Reverts included, the log keeps all that AuditLogProofs shows of it. *)
THEOREM ReadersKeepTheLog ==
    ASSUME Skipped = {}, Tracked # {}
    PROVE  ReadersSpec => [](/\ TypeOK /\ RowTableAgree /\ TimeTravelExact /\ NeverInvented
                             /\ SnapshotsRedundant /\ IdIsWriteOrder)
BY ReadersAreWriters, TypeCorrect, RowAndTableAgree, TimeTravelIsExact, NothingInvented,
   SnapshotsAreRedundant, IdsInWriteOrder, PTL

------------------------------------------------------------------------------
(* The properties of the readers *)

(***************************************************************************)
(* History and blame (reconstruct_field_history, fetch_blame), which look  *)
(* at one event at a time, say of a column what time travel rebuilds for   *)
(* the instant of the event, in every storage mode.                        *)
(***************************************************************************)
THEOREM HistoryIsTravel ==
    ASSUME Skipped = {}, Tracked # {}
    PROVE  ReadersSpec => []HistoryAgreesWithTravel
<1>1. ShapeInv /\ LogInv => HistoryAgreesWithTravel
  <2> SUFFICES ASSUME ShapeInv, LogInv, NEW o \in Obj, NEW c \in Tracked,
                      NEW e \in Of(audit, o), LastOfItsInstant(audit, e)
               PROVE  LET rebuilt == ReconstructRow(audit, live, storage, o, e.changed_at)
                      IN  /\ \A h \in FieldHistory(audit, o, c) :
                                h.id = e.id => h.value = Shown(rebuilt, c)
                          /\ \A b \in Blame(audit, o, c) :
                                b.id = e.id => b.new = Shown(rebuilt, c)
    BY DEF HistoryAgreesWithTravel
  <2> DEFINE S == Of(audit, o)
             at == e.changed_at
             rebuilt == ReconstructRow(audit, live, storage, o, at)
             became == IF e.operation = "DELETE" THEN Null ELSE ValueIn(RowAfter(e), c)
  <2>1. /\ Ordered(S) /\ Explains(S, live[o]) /\ live[o] \in AnyRow
        /\ Shaped(e) /\ e.object_id = o
    BY CommittedView DEF Explains, Of
  <2>2. PICK r \in AnyRow : WasRow(Later(S, at), live[o], r)
    BY <2>1, PastRow
  <2>3. rebuilt = FilterOf(r)
    <3>1. RebuiltAs(o, at, r)
      BY <2>2, RebuiltCommitted
    <3> QED
      BY <3>1 DEF RebuiltAs, Unknown, Rebuilt, FilterOf
  <2>4. Later(S, at) = From(S, e.id + 1)
    <3>1. \A f \in S : f.id > e.id <=> f.changed_at > at
      BY <2>1 DEF LastOfItsInstant
    <3>2. \A f \in S : f.id \in Nat
      BY <2>1 DEF Ordered
    <3>3. e.id \in Nat
      BY <3>2
    <3> HIDE DEF S, at
    <3>4. \A f \in S : f \in Later(S, at) <=> f.id > e.id
      BY <3>1, <3>2, <3>3 DEF Later
    <3> QED
      BY <3>2, <3>3, <3>4 DEF Later, From
  <2>5. Shown(rebuilt, c) = Shown(r, c)
    <3>1. CASE r = NoRow
      BY <2>3, <3>1 DEF Shown, FilterOf
    <3>2. CASE r # NoRow
      <4>1. r \in Row
        BY <3>2 DEF AnyRow
      <4>2. rebuilt = Filter(r)
        BY <2>3, <3>2 DEF FilterOf
      <4> HIDE DEF rebuilt
      <4> QED
        BY <4>1, <4>2, Filtered DEF Shown
    <3> QED
      BY <3>1, <3>2
  <2>6. c \in DOMAIN e.diff => NewOf(e, c) = ValueOf(r, c)
    BY <2>1, <2>2, <2>4 DEF Explains, WasRow
  <2>7. e.operation = "DELETE" \/ Touches(e, c) => became = Shown(r, c)
    <3>1. CASE e.operation = "DELETE"
      <4>1. c \in DOMAIN e.diff /\ NewOf(e, c) = NoRow
        BY <2>1, <3>1 DEF Shaped, NewOf
      <4>2. r = NoRow
        BY <2>6, <4>1, Filtered DEF AnyRow
      <4> QED
        BY <3>1, <4>2, NoValues
    <3>2. ASSUME e.operation # "DELETE", Touches(e, c) PROVE became = Shown(r, c)
      <4>1. c \in DOMAIN e.diff /\ became = e.diff[c].new
        BY <2>1, <3>2, SidesOf
      <4>2. ValueOf(r, c) = e.diff[c].new /\ ValueOf(r, c) # NoRow
        BY <2>1, <2>6, <3>2, <4>1, Sides
      <4>3. r \in Row
        BY <4>2, NoValues DEF AnyRow
      <4> HIDE DEF became
      <4> QED
        BY <4>1, <4>2, <4>3, Filtered
    <3> QED
      BY <3>1, <3>2
  <2>8. \A f \in S : f.id = e.id => f = e
    BY <2>1 DEF Ordered
  <2> HIDE DEF S, rebuilt
  <2>9. \A h \in FieldHistory(audit, o, c) : h.id = e.id => h.value = Shown(rebuilt, c)
    BY <2>5, <2>7, <2>8 DEF FieldHistory, S
  <2>10. \A b \in Blame(audit, o, c) : b.id = e.id => b.new = Shown(rebuilt, c)
    BY <2>5, <2>7, <2>8 DEF Blame, S
  <2> QED
    BY <2>9, <2>10 DEF rebuilt
<1> QED
  BY <1>1, ReadersAreWriters, LogInvariant, PTL

(***************************************************************************)
(* Reverting the first event after an instant takes the columns it names   *)
(* back to where time travel sees them then, and the whole row if no later *)
(* event names another; columns only later events name are kept (auditrum  *)
(* revert), whether the snapshot of the event was kept or compacted.       *)
(***************************************************************************)
THEOREM RevertRestores ==
    ASSUME Skipped = {}, Tracked # {}
    PROVE  ReadersSpec => []RevertUndoes
<1>1. ShapeInv /\ LogInv => RevertUndoes
  <2> SUFFICES ASSUME ShapeInv, LogInv, NEW o \in Obj, NEW at,
                      Suffix(audit, o, at) # {}, live[o] # NoRow,
                      FirstEvent(Suffix(audit, o, at)).operation = "UPDATE", NEW c \in Tracked
               PROVE  LET e == FirstEvent(Suffix(audit, o, at))
                          later == {f \in Of(audit, o) : f.id > e.id}
                      IN  IF c \in DOMAIN e.diff \/ \A f \in later : c \notin DOMAIN f.diff
                          THEN RevertRow(e, live[o])[c] = Rebuilt(o, at)[c]
                          ELSE RevertRow(e, live[o])[c] = live[o][c]
    BY DEF RevertUndoes
  <2> DEFINE S == Of(audit, o)
             e == FirstEvent(Suffix(audit, o, at))
             U == From(S, e.id)
             row == live[o]
  <2>1. /\ Ordered(S) /\ Explains(S, row) /\ row \in AnyRow
        /\ e \in S /\ Later(S, at) = U
    BY CommittedView, LaterFrom
  <2> HIDE DEF S, e, row
  <2>2. Shaped(e) /\ e.operation = "UPDATE" /\ e.id \in Nat /\ \A f \in S : f.id \in Nat
    BY <2>1 DEF Explains, Shaped, e
  <2>3. row \in Row
    BY <2>1 DEF AnyRow, row
  <2>4. RevertRow(e, row)[c] = IF c \in DOMAIN e.diff THEN e.diff[c].old ELSE row[c]
    BY <2>2, <2>3, RevertRowIs, Assumed
  <2>5. PICK r \in AnyRow : WasRow(U, row, r)
    BY <2>1, PastRow DEF S
  <2>6. Rebuilt(o, at) = FilterOf(r)
    <3>1. RebuiltAs(o, at, r)
      BY <2>1, <2>5, RebuiltCommitted DEF S, row
    <3> QED
      BY <2>1, <3>1 DEF RebuiltAs, Unknown, FilterOf, S
  <2>7. \A d \in DOMAIN e.diff : d \in Tracked /\ ValueOf(r, d) = e.diff[d].old /\ ValueOf(r, d) # NoRow
    <3> SUFFICES ASSUME NEW d \in DOMAIN e.diff
                 PROVE  /\ d \in Tracked
                        /\ ValueOf(r, d) = e.diff[d].old /\ ValueOf(r, d) # NoRow
      OBVIOUS
    <3>1. e \in U /\ Ordered(U) /\ \A f \in U : e.id <= f.id
      BY <2>1, <2>2, FromOrdered DEF From
    <3> HIDE DEF U
    <3>2. Was(U, row, d) = OldOf(e, d)
      BY <3>1, WasFacts
    <3> QED
      BY <2>2, <2>5, <3>2, Sides DEF WasRow
  <2>8. r \in Row
    <3>1. PICK d \in DOMAIN e.diff : TRUE
      BY <2>2 DEF Shaped
    <3> QED
      BY <2>7, <3>1, NoValues DEF AnyRow
  <2>9. Rebuilt(o, at)[c] = ValueOf(r, c)
    BY <2>6, <2>8, Filtered DEF FilterOf
  <2>10. ASSUME c \notin DOMAIN e.diff, \A f \in S : f.id > e.id => c \notin DOMAIN f.diff
         PROVE  row[c] = Rebuilt(o, at)[c]
    <3>1. Naming(U, c) = {}
      <4> SUFFICES ASSUME NEW f \in S, f.id >= e.id, c \in DOMAIN f.diff PROVE FALSE
        BY DEF Naming, From
      <4>1. f.id = e.id
        BY <2>2, <2>10
      <4> QED
        BY <2>1, <2>10, <4>1 DEF Ordered
    <3> HIDE DEF U
    <3>2. Was(U, row, c) = ValueOf(row, c)
      BY <3>1 DEF Was
    <3> QED
      BY <2>3, <2>5, <2>9, <3>2, Filtered DEF WasRow
  <2> HIDE DEF U
  <2>11. /\ c \in DOMAIN e.diff => RevertRow(e, row)[c] = Rebuilt(o, at)[c]
         /\ c \notin DOMAIN e.diff => RevertRow(e, row)[c] = row[c]
    BY <2>4, <2>7, <2>9
  <2> QED
    BY <2>10, <2>11 DEF S, e, row
<1> QED
  BY <1>1, ReadersAreWriters, LogInvariant, PTL

(* The entry the history has of an event, and that of blame, told from its *)
(* diff alone.                                                             *)
HistoryEntry(e, c) ==
    [id |-> e.id, at |-> e.changed_at,
     value |-> IF e.operation = "DELETE" THEN Null ELSE e.diff[c].new]
BlameEntry(e, c) ==
    [id |-> e.id, at |-> e.changed_at, operation |-> e.operation,
     old |-> IF e.operation = "INSERT" THEN Null ELSE e.diff[c].old,
     new |-> IF e.operation = "DELETE" THEN Null ELSE e.diff[c].new]

(* The entries of a history are one per event that names the column.       *)
LEMMA EntriesOf ==
    ASSUME NEW A, \A e \in A : Shaped(e), NEW o, NEW c \in Tracked
    PROVE  /\ FieldHistory(A, o, c) = {HistoryEntry(e, c) : e \in Naming(Of(A, o), c)}
           /\ Blame(A, o, c) = {BlameEntry(e, c) : e \in Naming(Of(A, o), c)}
<1>1. \A e \in Of(A, o) :
          /\ Touches(e, c) <=> c \in DOMAIN e.diff
          /\ e.operation = "DELETE" => c \in DOMAIN e.diff
          /\ c \in DOMAIN e.diff =>
                /\ e.operation # "DELETE" => ValueIn(RowAfter(e), c) = e.diff[c].new
                /\ e.operation # "INSERT" => ValueIn(RowBefore(e), c) = e.diff[c].old
  BY SidesOf DEF Of
<1>2. FieldHistory(A, o, c) = {HistoryEntry(e, c) : e \in Naming(Of(A, o), c)}
  <2>1. {f \in Of(A, o) : f.operation = "DELETE" \/ Touches(f, c)} = Naming(Of(A, o), c)
    BY <1>1 DEF Naming
  <2>2. \A e \in Naming(Of(A, o), c) :
            HistoryEntry(e, c) =
               [id |-> e.id, at |-> e.changed_at,
                value |-> IF e.operation = "DELETE" THEN Null ELSE ValueIn(RowAfter(e), c)]
    BY <1>1 DEF Naming, HistoryEntry
  <2> QED
    BY <2>1, <2>2 DEF FieldHistory
<1>3. Blame(A, o, c) = {BlameEntry(e, c) : e \in Naming(Of(A, o), c)}
  <2>1. {f \in Of(A, o) : Touches(f, c)} = Naming(Of(A, o), c)
    BY <1>1 DEF Naming
  <2>2. \A e \in Naming(Of(A, o), c) :
            BlameEntry(e, c) =
               [id |-> e.id, at |-> e.changed_at, operation |-> e.operation,
                old |-> IF e.operation = "INSERT" THEN Null ELSE ValueIn(RowBefore(e), c),
                new |-> IF e.operation = "DELETE" THEN Null ELSE ValueIn(RowAfter(e), c)]
    BY <1>1 DEF Naming, BlameEntry
  <2> QED
    BY <2>1, <2>2 DEF Blame
<1> QED
  BY <1>2, <1>3

(***************************************************************************)
(* The readers never miss the snapshots compaction dropped: every column   *)
(* has the same history and the same blame without them.                   *)
(***************************************************************************)
THEOREM ReadersReadDiffs == ReadersSpec => []ReadersNeedNoSnapshots
<1>1. ShapeInv => ReadersNeedNoSnapshots
  <2> SUFFICES ASSUME ShapeInv, NEW o \in Obj, NEW c \in Tracked
               PROVE  /\ FieldHistory(Cleared(audit, audit), o, c) = FieldHistory(audit, o, c)
                      /\ Blame(Cleared(audit, audit), o, c) = Blame(audit, o, c)
    BY DEF ReadersNeedNoSnapshots
  <2> DEFINE clear(e) == [e EXCEPT !.old_data = NoRow, !.new_data = NoRow]
             bare == Cleared(audit, audit)
             N == Naming(Of(audit, o), c)
             M == Naming(Of(bare, o), c)
  <2>1. \A e \in audit : Shaped(e)
    BY InAllEvents, Typed
  <2>2. \A e \in audit : /\ Twin(clear(e), e) /\ clear(e).object_id = e.object_id
                         /\ clear(e).operation = e.operation /\ Shaped(clear(e))
    BY <2>1, ClearedEvent
  <2>3. \A b : b \in bare <=> \E e \in audit : b = clear(e)
    BY DEF Cleared
  <2> HIDE DEF clear, bare
  <2>4. \A b : b \in M <=> \E e \in N : b = clear(e)
    BY <2>2, <2>3 DEF Naming, Of, Twin
  <2>5. \A e \in N : /\ HistoryEntry(clear(e), c) = HistoryEntry(e, c)
                     /\ BlameEntry(clear(e), c) = BlameEntry(e, c)
    BY <2>2 DEF Naming, Of, Twin, HistoryEntry, BlameEntry
  <2>6. \A b \in bare : Shaped(b)
    BY <2>2, <2>3
  <2> HIDE DEF M, N
  <2>7. {HistoryEntry(b, c) : b \in M} = {HistoryEntry(e, c) : e \in N}
    BY <2>4, <2>5
  <2>8. {BlameEntry(b, c) : b \in M} = {BlameEntry(e, c) : e \in N}
    BY <2>4, <2>5
  <2>9. /\ FieldHistory(bare, o, c) = {HistoryEntry(b, c) : b \in M}
        /\ Blame(bare, o, c) = {BlameEntry(b, c) : b \in M}
    BY <2>6, EntriesOf DEF M
  <2>10. /\ FieldHistory(audit, o, c) = {HistoryEntry(e, c) : e \in N}
         /\ Blame(audit, o, c) = {BlameEntry(e, c) : e \in N}
    BY <2>1, EntriesOf DEF N
  <2>11. /\ FieldHistory(bare, o, c) = FieldHistory(audit, o, c)
         /\ Blame(bare, o, c) = Blame(audit, o, c)
    BY <2>7, <2>8, <2>9, <2>10
  <2> QED
    BY <2>11 DEF bare
<1> QED
  BY <1>1, ReadersAreWriters, ShapeInvariant, PTL

------------------------------------------------------------------------------
(* One finding per object *)

(* The findings about an object name it, and have a kind that ranks.       *)
LEMMA MismatchOf ==
    ASSUME NEW A, \A e \in A : e.id \in Nat, NEW L, NEW o, NEW body,
           NEW m \in Mismatches(A, L, o, body)
    PROVE  /\ m.object_id = o /\ m.audit_id \in Nat
           /\ m.kind \in {"lifecycle", "chain", "live"}
<1>1. PICK e \in Of(A, o), kind \in {"lifecycle", "chain", "live"} :
          \E at : m = Mismatch(e, kind, at)
  BY DEF Mismatches, Chain, Lifecycle, AtTheEnd, Live
<1>2. e.object_id = o /\ e.id \in Nat
  BY DEF Of
<1>3. m.object_id = e.object_id /\ m.audit_id = e.id /\ m.kind = kind
  BY <1>1 DEF Mismatch
<1> QED
  BY <1>2, <1>3

(* The first finding of an object is one of its findings.                  *)
LEMMA FirstFinding ==
    ASSUME NEW M, M # {},
           \A m \in M : m.audit_id \in Nat /\ m.kind \in {"lifecycle", "chain", "live"}
    PROVE  First(M) \in M
<1>1. \A m \in M : KindRank[m.kind] \in Nat
  BY DEF KindRank
<1> DEFINE ids == {n \in Nat : \E m \in M : n = m.audit_id}
<1>2. PICK n \in ids : \A k \in ids : n <= k
  <2>1. ids # {} /\ ids \subseteq Nat
    OBVIOUS
  <2> HIDE DEF ids
  <2> QED
    BY <2>1, Least
<1> DEFINE ranks == {r \in Nat : \E m \in M : m.audit_id = n /\ r = KindRank[m.kind]}
<1>3. PICK r \in ranks : \A k \in ranks : r <= k
  <2>1. ranks # {} /\ ranks \subseteq Nat
    BY <1>1, <1>2
  <2> HIDE DEF ranks
  <2> QED
    BY <2>1, Least
<1>4. PICK p \in M : p.audit_id = n /\ r = KindRank[p.kind]
  BY <1>3
<1>5. \A m \in M : \/ p.audit_id < m.audit_id
                   \/ p.audit_id = m.audit_id /\ KindRank[p.kind] <= KindRank[m.kind]
  <2> SUFFICES ASSUME NEW m \in M, m.audit_id # p.audit_id \/ ~ (KindRank[p.kind] <= KindRank[m.kind])
               PROVE  p.audit_id < m.audit_id
    OBVIOUS
  <2>1. n <= m.audit_id /\ n \in Nat /\ m.audit_id \in Nat
    BY <1>2
  <2>2. m.audit_id # n
    BY <1>1, <1>3, <1>4
  <2> QED
    BY <1>4, <2>1, <2>2
<1> QED
  BY <1>5 DEF First

(* An object is named when it has an event in the window and a finding in  *)
(* the window.                                                             *)
LEMMA VerifyNames ==
    ASSUME NEW A, \A e \in A : e.id \in Nat, NEW L, NEW body, NEW since, NEW o
    PROVE  o \in Named(Verify(A, L, body, since)) <=>
              /\ o \in Obj /\ \E e \in Of(A, o) : e.changed_at >= since
              /\ \E m \in Mismatches(A, L, o, body) : m.at >= since
<1> DEFINE inScope == {p \in Obj : \E e \in Of(A, p) : e.changed_at >= since}
           found(p) == {m \in Mismatches(A, L, p, body) : m.at >= since}
<1>1. Verify(A, L, body, since) = {First(M) : M \in {found(p) : p \in inScope} \ {{}}}
  BY DEF Verify
<1>2. \A p : found(p) # {} => First(found(p)).object_id = p
  <2> SUFFICES ASSUME NEW p, found(p) # {} PROVE First(found(p)).object_id = p
    OBVIOUS
  <2>1. \A m \in found(p) : /\ m.object_id = p /\ m.audit_id \in Nat
                            /\ m.kind \in {"lifecycle", "chain", "live"}
    BY MismatchOf
  <2> HIDE DEF found
  <2> QED
    BY <2>1, FirstFinding
<1>3. o \in Named(Verify(A, L, body, since)) <=> o \in inScope /\ found(o) # {}
  <2> HIDE DEF inScope, found
  <2> QED
    BY <1>1, <1>2 DEF Named
<1> QED
  BY <1>3

------------------------------------------------------------------------------
(* What the trigger of any release writes *)

PairedEntry == [old : Cell, new : Cell]
SnapshotRow == [Tracked -> Cell] \cup Row \cup {NoRow}

(* The entries of the first release hold the new value alone, and none is  *)
(* null; a value that is itself an object with just the keys old and new   *)
(* passes for a pair.                                                      *)
Distinguishable == "0.3" \in Releases => Val \cap PairedEntry = {}

(* An event of any release: its diff holds pairs or new values, and its    *)
(* snapshots hold every column the filter lets through.                    *)
Entered(e) ==
    /\ DOMAIN e = {"id", "changed_at", "object_id", "operation", "diff", "old_data", "new_data"}
    /\ e.id \in Nat /\ e.changed_at \in Nat /\ e.object_id \in Obj
    /\ e.operation \in {"INSERT", "UPDATE", "DELETE"}
    /\ DOMAIN e.diff \subseteq Tracked
    /\ \A c \in DOMAIN e.diff : e.diff[c] \in Val \cup PairedEntry
    /\ e.old_data \in SnapshotRow /\ e.new_data \in SnapshotRow

(* What the constants are assumed to be.                                   *)
LEMMA ChainAssumed ==
    /\ TrackedThen \subseteq Tracked /\ Predating \subseteq Obj
    /\ NoRow \notin Cell /\ MaxBypass \in Nat
BY DiffChainAssumption, Assumed

(* The new side of an entry is a value or null, never a missing one.       *)
LEMMA NewSideIsValue ==
    ASSUME NEW entry \in Val \cup PairedEntry
    PROVE  /\ NewSide(entry) \in Cell /\ NewSide(entry) # Absent
           /\ Paired(entry) => entry.old \in Cell /\ entry.old # Absent
<1>1. CASE Paired(entry)
  BY <1>1, ChainAssumed DEF NewSide, Paired, Absent
<1>2. CASE ~ Paired(entry)
  BY <1>2, ChainAssumed DEF NewSide, Paired, PairedEntry, Absent, Cell
<1> QED
  BY <1>1, <1>2

(* The order of the releases.                                              *)
LEMMA Ranks ==
    /\ Rank["0.3"] = 1 /\ Rank["0.6.1"] = 2 /\ Rank["current"] = 3
    /\ DOMAIN Rank = {"0.3", "0.6.1", "current"}
<1>1. Rank["0.3"] = 1
  BY Zenon DEF Rank
<1>2. Rank["0.6.1"] = 2
  <2>1. "0.6.1" # "0.3"
    OBVIOUS
  <2> QED
    BY <2>1, Zenon DEF Rank
<1>3. Rank["current"] = 3
  <2>1. "current" # "0.3" /\ "current" # "0.6.1"
    OBVIOUS
  <2> QED
    BY <2>1, Zenon DEF Rank
<1>4. DOMAIN Rank = {"0.3", "0.6.1", "current"}
  BY Zenon DEF Rank
<1> QED
  BY <1>1, <1>2, <1>3, <1>4

(* A deployment starts on the oldest of its releases.                      *)
LEMMA FirstRelease == ChainInit => release \in Releases
<1> SUFFICES ASSUME ChainInit PROVE release \in Releases
  OBVIOUS
<1>1. Releases \subseteq {"0.3", "0.6.1", "current"} /\ "current" \in Releases
  BY Ranks, DiffChainAssumption
<1>2. \A r \in Releases : Rank[r] \in Nat
  BY <1>1, Ranks
<1> DEFINE ranks == {k \in Nat : \E r \in Releases : k = Rank[r]}
<1>3. ranks \subseteq Nat /\ ranks # {}
  BY <1>1, <1>2
<1>4. PICK k \in ranks : \A j \in ranks : k <= j
  <2> HIDE DEF ranks
  <2> QED
    BY <1>3, Least
<1>5. PICK r \in Releases : k = Rank[r]
  BY <1>4
<1>6. \A s \in Releases : Rank[r] <= Rank[s]
  BY <1>2, <1>4, <1>5
<1>7. release = CHOOSE r1 \in Releases : \A s \in Releases : Rank[r1] <= Rank[s]
  BY DEF ChainInit
<1> QED
  BY <1>6, <1>7

(* The diffs before the current release name only columns the filter let   *)
(* through then; the first release gave new values only, and no others,    *)
(* and left out what became null.                                          *)
LEMMA LegacyDiffFacts ==
    ASSUME NEW old \in AnyRow, NEW new \in AnyRow, old # new
    PROVE  LET d == LegacyDiff(old, new)
           IN  /\ DOMAIN d \subseteq TrackedThen
               /\ release # "0.3" =>
                     /\ old = NoRow \/ new = NoRow => DOMAIN d = TrackedThen
                     /\ \A c \in TrackedThen \ DOMAIN d : Shown(old, c) = Shown(new, c)
                     /\ \A c \in DOMAIN d :
                           d[c] \in PairedEntry /\ d[c].old = Shown(old, c) /\ d[c].new = Shown(new, c)
               /\ release = "0.3" =>
                     /\ old = NoRow \/ new = NoRow => DOMAIN d = {}
                     /\ \A c \in DOMAIN d : d[c] \in Val /\ d[c] = Shown(new, c)
<1> DEFINE d == LegacyDiff(old, new)
           U == IF Operation(old, new) = "UPDATE" THEN Changed(old, new) ELSE TrackedThen
<1>1. Changed(old, new) \subseteq TrackedThen /\ U \subseteq TrackedThen /\ TrackedThen \subseteq Tracked
  BY ChainAssumed DEF Changed
<1>2. Operation(old, new) = "UPDATE" <=> old # NoRow /\ new # NoRow
  BY DEF Operation
<1>3. \A c \in TrackedThen :
          /\ Shown(old, c) \in Cell /\ Shown(new, c) \in Cell
          /\ old # NoRow => Shown(old, c) = old[c]
          /\ new # NoRow => Shown(new, c) = new[c]
  BY <1>1, Filtered, NoValues, Assumed DEF AnyRow
<1>4. CASE release # "0.3"
  <2>1. d = [c \in U |-> [old |-> Shown(old, c), new |-> Shown(new, c)]]
    BY <1>4 DEF LegacyDiff
  <2>2. DOMAIN d = U /\ \A c \in U : d[c] = [old |-> Shown(old, c), new |-> Shown(new, c)]
    BY <2>1
  <2>3. \A c \in TrackedThen \ U : Shown(old, c) = Shown(new, c)
    <3> SUFFICES ASSUME NEW c \in TrackedThen, c \notin U, Shown(old, c) # Shown(new, c) PROVE FALSE
      OBVIOUS
    <3>1. Operation(old, new) = "UPDATE" /\ c \notin Changed(old, new)
      OBVIOUS
    <3> QED
      BY <1>2, <1>3, <3>1 DEF Changed
  <2>4. old = NoRow \/ new = NoRow => U = TrackedThen
    BY <1>2
  <2> HIDE DEF d, U
  <2>5. \A c \in U : d[c] \in PairedEntry /\ d[c].old = Shown(old, c) /\ d[c].new = Shown(new, c)
    <3> SUFFICES ASSUME NEW c \in U
                 PROVE  d[c] \in PairedEntry /\ d[c].old = Shown(old, c) /\ d[c].new = Shown(new, c)
      OBVIOUS
    <3>1. Shown(old, c) \in Cell /\ Shown(new, c) \in Cell
      BY <1>1, <1>3
    <3> QED
      BY <2>2, <3>1 DEF PairedEntry
  <2>6. /\ DOMAIN d \subseteq TrackedThen
        /\ old = NoRow \/ new = NoRow => DOMAIN d = TrackedThen
        /\ \A c \in TrackedThen \ DOMAIN d : Shown(old, c) = Shown(new, c)
    BY <1>1, <2>2, <2>3, <2>4
  <2> QED
    BY <1>4, <2>2, <2>5, <2>6 DEF d
<1>5. CASE release = "0.3"
  <2> DEFINE K == {c \in Changed(old, new) : new[c] # Null}
  <2>1. d = [c \in K |-> new[c]]
    BY <1>5 DEF LegacyDiff
  <2>2. DOMAIN d = K /\ \A c \in K : d[c] = new[c]
    BY <2>1
  <2>3. \A c \in K : new[c] \in Val /\ new[c] = Shown(new, c)
    BY <1>1, <1>3 DEF Changed, Cell
  <2>4. K \subseteq TrackedThen /\ (old = NoRow \/ new = NoRow => K = {})
    BY <1>1 DEF Changed
  <2> HIDE DEF d, K
  <2> QED
    BY <1>5, <2>2, <2>3, <2>4 DEF d
<1> QED
  BY <1>4, <1>5

(* What the operation and the snapshots of an event of any release say of  *)
(* the row before and after it.                                            *)
Tells(e, row, new) ==
    /\ e.operation = "INSERT" <=> row = NoRow
    /\ e.operation = "DELETE" <=> new = NoRow
    /\ e.old_data # NoRow => row # NoRow /\ Seen(e.old_data) = Filter(row)
    /\ e.new_data # NoRow => new # NoRow /\ Seen(e.new_data) = Filter(new)

(* What its diff says, where an entry can be told from a pair.             *)
Plain(e, row, new) ==
    \A c \in DOMAIN e.diff :
        /\ Paired(e.diff[c]) => e.diff[c].old = Shown(row, c) /\ e.diff[c].new = Shown(new, c)
        /\ ~ Paired(e.diff[c]) => e.diff[c] = Shown(new, c)

(* Under the current release a diff names every change; before it the      *)
(* snapshots were always written, and the diff named no column that the    *)
(* filter did not let through then, if it named those that changed at all. *)
Current(e, row, new) ==
    /\ \A c \in Tracked \ DOMAIN e.diff : Shown(row, c) = Shown(new, c)
    /\ row = NoRow \/ new = NoRow => DOMAIN e.diff = Tracked
    /\ \A c \in DOMAIN e.diff : Paired(e.diff[c])
    /\ row # NoRow /\ new # NoRow => (e.old_data = NoRow <=> e.new_data = NoRow)

Old(e, row, new) ==
    /\ DOMAIN e.diff \subseteq TrackedThen
    /\ row # NoRow => e.old_data # NoRow
    /\ new # NoRow => e.new_data # NoRow

(* A snapshot read through the current filter.                             *)
LEMMA SeenSnapshot ==
    ASSUME NEW snap \in SnapshotRow
    PROVE  /\ snap # NoRow => Keys(Seen(snap)) = Tracked /\ Seen(snap) # NoRow
           /\ snap = NoRow => Keys(Seen(snap)) = {} /\ Seen(snap) = NoRow
           /\ \A c \in Tracked : snap # NoRow => Seen(snap)[c] = snap[c] /\ snap[c] \in Cell
<1>1. CASE snap = NoRow
  BY <1>1 DEF Seen, Keys
<1>2. CASE snap # NoRow
  <2>1. DOMAIN snap \cap Tracked = Tracked /\ \A c \in Tracked : snap[c] \in Cell
    BY <1>2, Assumed DEF SnapshotRow, Row
  <2>2. Seen(snap) = [c \in Tracked |-> snap[c]]
    BY <1>2, <2>1 DEF Seen, Keys
  <2>3. Seen(snap) \in [Tracked -> Cell]
    BY <2>1, <2>2
  <2>4. Seen(snap) # NoRow
    BY <2>3, Assumed
  <2> QED
    BY <1>2, <2>1, <2>2, <2>4 DEF Keys
<1> QED
  BY <1>1, <1>2

(* What an event says of the write it records, whatever release wrote it.  *)
LEMMA EventNowFacts ==
    ASSUME NEW id \in Nat, NEW at \in Nat, NEW o \in Obj,
           NEW old \in AnyRow, NEW new \in AnyRow, old # new
    PROVE  LET e == EventNow(id, at, o, old, new)
           IN  /\ e.id = id /\ e.changed_at = at /\ e.object_id = o
               /\ Entered(e) /\ Tells(e, old, new)
               /\ release # "0.3" \/ Val \cap PairedEntry = {} => Plain(e, old, new)
               /\ release = "current" => Current(e, old, new)
               /\ release # "current" => Old(e, old, new)
<1>1. /\ old = NoRow => Operation(old, new) = "INSERT"
      /\ old # NoRow /\ new = NoRow => Operation(old, new) = "DELETE"
      /\ old # NoRow /\ new # NoRow => Operation(old, new) = "UPDATE"
  BY DEF Operation
<1>2. CASE release = "current"
  <2> DEFINE e == Event(id, at, o, old, new)
  <2>1. /\ e.id = id /\ e.changed_at = at /\ e.object_id = o
        /\ e.operation = Operation(old, new) /\ e.diff = Diff(old, new)
        /\ e.old_data = Snapshot(old) /\ e.new_data = Snapshot(new)
        /\ DOMAIN e =
             {"id", "changed_at", "object_id", "operation", "diff", "old_data", "new_data"}
    BY DEF Event
  <2> HIDE DEF e
  <2>2. \A row \in AnyRow :
            /\ row = NoRow => Snapshot(row) = NoRow
            /\ Snapshot(row) \in [Tracked -> Cell] \cup {NoRow}
            /\ Snapshot(row) # NoRow => Snapshot(row) = Filter(row)
            /\ row # NoRow => (Snapshot(row) = NoRow <=> storage = "diff")
    BY Filtered, NoValues, Assumed DEF Snapshot, AnyRow
  <2>3. /\ DOMAIN e.diff \subseteq Tracked
        /\ old = NoRow \/ new = NoRow => DOMAIN e.diff = Tracked
        /\ \A c \in DOMAIN e.diff : /\ Paired(e.diff[c])
                                    /\ e.diff[c].old = Shown(old, c)
                                    /\ e.diff[c].new = Shown(new, c)
        /\ \A c \in Tracked \ DOMAIN e.diff : Shown(old, c) = Shown(new, c)
    <3>1. \A c \in Tracked : ValueOf(old, c) = ValueOf(new, c) => Shown(old, c) = Shown(new, c)
      BY Filtered, NoValues DEF AnyRow
    <3> QED
      BY <2>1, <3>1, DiffFacts
  <2>4. \A c \in DOMAIN e.diff : e.diff[c] \in PairedEntry
    BY <2>3 DEF Paired, PairedEntry
  <2>5. Entered(e)
    BY <1>1, <2>1, <2>2, <2>3, <2>4 DEF Entered, SnapshotRow
  <2>6. \A row \in AnyRow : Snapshot(row) # NoRow => Seen(Snapshot(row)) = Filter(row)
    <3> SUFFICES ASSUME NEW row \in Row PROVE Seen(Filter(row)) = Filter(row)
      BY <2>2 DEF AnyRow
    <3>1. Keys(Filter(row)) = Tracked /\ Filter(row) # NoRow
      BY Filtered DEF Keys
    <3>2. Seen(Filter(row)) = [c \in Tracked |-> Filter(row)[c]]
      BY <3>1 DEF Seen
    <3> QED
      BY <3>2, Filtered
  <2>7. Tells(e, old, new)
    <3>1. e.operation = "INSERT" <=> old = NoRow
      BY <1>1, <2>1
    <3>2. e.operation = "DELETE" <=> new = NoRow
      BY <1>1, <2>1
    <3> QED
      BY <2>1, <2>2, <2>3, <2>4, <2>6, <3>1, <3>2 DEF Tells
  <2>8. Current(e, old, new)
    BY <2>1, <2>2, <2>3 DEF Current
  <2>9. Plain(e, old, new)
    BY <2>3 DEF Plain
  <2> QED
    BY <1>2, <2>1, <2>5, <2>7, <2>8, <2>9 DEF EventNow, e
<1>3. CASE release # "current"
  <2> DEFINE e == LegacyEvent(id, at, o, old, new)
  <2>1. /\ e.id = id /\ e.changed_at = at /\ e.object_id = o
        /\ e.operation = Operation(old, new) /\ e.diff = LegacyDiff(old, new)
        /\ e.old_data = old /\ e.new_data = new
        /\ DOMAIN e =
             {"id", "changed_at", "object_id", "operation", "diff", "old_data", "new_data"}
    BY DEF LegacyEvent
  <2> HIDE DEF e
  <2>2. /\ DOMAIN e.diff \subseteq TrackedThen
        /\ \A c \in DOMAIN e.diff :
              \/ /\ e.diff[c] \in PairedEntry
                 /\ e.diff[c].old = Shown(old, c) /\ e.diff[c].new = Shown(new, c)
              \/ e.diff[c] \in Val /\ e.diff[c] = Shown(new, c) /\ release = "0.3"
    BY <2>1, LegacyDiffFacts
  <2>3. Entered(e)
    <3>1. DOMAIN e.diff \subseteq Tracked /\ \A c \in DOMAIN e.diff : e.diff[c] \in Val \cup PairedEntry
      BY <2>2, ChainAssumed
    <3>2. e.old_data \in SnapshotRow /\ e.new_data \in SnapshotRow
      BY <2>1 DEF SnapshotRow, AnyRow
    <3> QED
      BY <1>1, <2>1, <3>1, <3>2 DEF Entered
  <2>4. \A row \in Row : Seen(row) = Filter(row)
    <3> SUFFICES ASSUME NEW row \in Row PROVE Seen(row) = Filter(row)
      OBVIOUS
    <3>1. Keys(row) \cap Tracked = Tracked /\ row # NoRow
      BY Filtered, Assumed DEF Keys, Row
    <3> QED
      BY <3>1 DEF Seen, Filter
  <2>5. Tells(e, old, new)
    <3>1. e.operation = "INSERT" <=> old = NoRow
      BY <1>1, <2>1
    <3>2. e.operation = "DELETE" <=> new = NoRow
      BY <1>1, <2>1
    <3>3. old # NoRow => Seen(old) = Filter(old)
      BY <2>4 DEF AnyRow
    <3>4. new # NoRow => Seen(new) = Filter(new)
      BY <2>4 DEF AnyRow
    <3> QED
      BY <2>1, <2>2, <3>1, <3>2, <3>3, <3>4 DEF Tells
  <2>6. Old(e, old, new)
    BY <2>1, <2>2 DEF Old
  <2>7. release # "0.3" \/ Val \cap PairedEntry = {} => Plain(e, old, new)
    BY <2>2 DEF Plain, PairedEntry, Paired
  <2> QED
    BY <1>3, <2>1, <2>3, <2>5, <2>6, <2>7 DEF EventNow, e
<1> QED
  BY <1>2, <1>3

(* Every entry of the diff has an old side.                                *)
PairsOnly(e) == \A c \in DOMAIN e.diff : Paired(e.diff[c])

(* The first release wrote entries without one, and none with.             *)
LEMMA EventNowPairs ==
    ASSUME NEW id \in Nat, NEW at \in Nat, NEW o \in Obj,
           NEW old \in AnyRow, NEW new \in AnyRow, old # new
    PROVE  LET e == EventNow(id, at, o, old, new)
           IN  /\ release # "0.3" => PairsOnly(e)
               /\ release = "0.3" /\ e.operation # "UPDATE" => DOMAIN e.diff = {}
               /\ release = "0.3" /\ Val \cap PairedEntry = {} /\ DOMAIN e.diff # {} => ~ PairsOnly(e)
<1> DEFINE e == EventNow(id, at, o, old, new)
<1>1. e.operation = Operation(old, new)
  BY DEF EventNow, Event, LegacyEvent
<1>2. e.operation = "UPDATE" <=> old # NoRow /\ new # NoRow
  BY <1>1 DEF Operation
<1>3. CASE release = "current"
  <2>1. e.diff = Diff(old, new)
    BY <1>3 DEF EventNow, Event
  <2> QED
    BY <1>3, <2>1, DiffFacts DEF PairsOnly
<1>4. CASE release # "current"
  <2>1. e.diff = LegacyDiff(old, new)
    BY <1>4 DEF EventNow, LegacyEvent
  <2> HIDE DEF e
  <2>2. release # "0.3" => PairsOnly(e)
    BY <2>1, LegacyDiffFacts DEF PairsOnly, Paired, PairedEntry
  <2>3. release = "0.3" => \A c \in DOMAIN e.diff : e.diff[c] \in Val
    BY <2>1, LegacyDiffFacts
  <2>4. release = "0.3" /\ e.operation # "UPDATE" => DOMAIN e.diff = {}
    BY <1>2, <2>1, LegacyDiffFacts
  <2>5. release = "0.3" /\ Val \cap PairedEntry = {} /\ DOMAIN e.diff # {} => ~ PairsOnly(e)
    BY <2>3 DEF PairsOnly, Paired, PairedEntry
  <2> QED
    BY <2>2, <2>4, <2>5 DEF e
<1> QED
  BY <1>3, <1>4

------------------------------------------------------------------------------
(* The last event of a set *)

(* The event with the greatest id is the last one.                         *)
LEMMA LastIs ==
    ASSUME NEW S, Ordered(S), NEW e \in S, \A f \in S : f.id <= e.id
    PROVE  LastEvent(S) = e
<1>1. LastEvent(S) \in S /\ \A f \in S : f.id <= LastEvent(S).id
  BY DEF LastEvent
<1>2. LastEvent(S).id = e.id
  BY <1>1 DEF Ordered
<1> QED
  BY <1>1, <1>2 DEF Ordered

(* The first one likewise.                                                 *)
LEMMA FirstIs ==
    ASSUME NEW S, Ordered(S), NEW e \in S, \A f \in S : e.id <= f.id
    PROVE  FirstEvent(S) = e
<1>1. FirstEvent(S) \in S /\ \A f \in S : FirstEvent(S).id <= f.id
  BY DEF FirstEvent
<1>2. FirstEvent(S).id = e.id
  BY <1>1 DEF Ordered
<1> QED
  BY <1>1, <1>2 DEF Ordered

------------------------------------------------------------------------------
(* What a step of the application does to the log *)

Basis ==
    /\ clock \in 1..MaxClock /\ idSeq \in Nat /\ cutoff \in Nat
    /\ live \in [Obj -> AnyRow]
    /\ claimed = [o \in Obj |-> claimed[o]] /\ bypassed \in [Obj -> Nat]
    /\ \A e \in audit : Entered(e) /\ e.id <= idSeq /\ e.changed_at \in 1..clock
    /\ \A e, f \in audit : e.id = f.id => e = f

(* What follows from the basis at once.                                    *)
LEMMA BasisFacts ==
    ASSUME Basis
    PROVE  /\ clock \in Nat /\ clock >= 1 /\ clock <= MaxClock /\ MaxClock \in Nat
           /\ Ordered(audit) /\ \A o : Ordered(Of(audit, o)) /\ \A e : Ordered(Before(audit, e))
           /\ \A o \in Obj : live[o] \in AnyRow
           /\ \A e \in audit : e.id \in Nat /\ e.changed_at \in Nat /\ e.object_id \in Obj
<1>1. Ordered(audit) /\ \A e \in audit : e.id \in Nat /\ e.changed_at \in Nat /\ e.object_id \in Obj
  BY DEF Basis, Ordered, Entered
<1>2. \A o : Of(audit, o) \subseteq audit
  BY DEF Of
<1>3. \A e : Before(audit, e) \subseteq audit
  BY DEF Before, Of
<1>4. \A S : S \subseteq audit => Ordered(S)
  BY <1>1 DEF Ordered
<1>5. clock \in Nat /\ clock >= 1 /\ clock <= MaxClock /\ MaxClock \in Nat
  BY Assumed DEF Basis
<1> QED
  BY <1>1, <1>2, <1>3, <1>4, <1>5 DEF Basis

(* An audited write appends one event, of the row before and the row after *)
(* it.                                                                     *)
LEMMA AuditedFacts ==
    ASSUME Basis, NEW o \in Obj, NEW new \in AnyRow, NEW at \in 1..clock, Audited(o, new, at)
    PROVE  \E e :
              /\ e.id = idSeq + 1 /\ e.changed_at = at /\ e.object_id = o
              /\ Entered(e) /\ Tells(e, live[o], new)
              /\ release # "0.3" \/ Val \cap PairedEntry = {} => Plain(e, live[o], new)
              /\ release # "0.3" => PairsOnly(e)
              /\ release = "0.3" /\ e.operation # "UPDATE" => DOMAIN e.diff = {}
              /\ release = "0.3" /\ Val \cap PairedEntry = {} /\ DOMAIN e.diff # {} => ~ PairsOnly(e)
              /\ DOMAIN e.diff = {} =>
                    /\ release = "0.3"
                    /\ e.operation = "UPDATE" => \E c \in Tracked : Shown(live[o], c) # Shown(new, c)
              /\ release = "current" => Current(e, live[o], new)
              /\ release # "current" => Old(e, live[o], new)
              /\ audit' = audit \cup {e} /\ idSeq' = idSeq + 1
              /\ live' = [live EXCEPT ![o] = new]
              /\ LongTransaction(at) /\ Claim(o, e)
              /\ breaks' = IF Contradicts(o, e)
                           THEN breaks \cup {[object_id |-> o, at |-> at]} ELSE breaks
              /\ UNCHANGED <<storage, clock, cutoff, release, bypassed>>
<1> DEFINE e == EventNow(idSeq + 1, at, o, live[o], new)
<1>1. live[o] \in AnyRow /\ idSeq + 1 \in Nat /\ at \in Nat
  BY DEF Basis
<1>2. live[o] # new
  BY DEF Audited
<1>3. /\ e.id = idSeq + 1 /\ e.changed_at = at /\ e.object_id = o
      /\ Entered(e) /\ Tells(e, live[o], new)
      /\ release # "0.3" \/ Val \cap PairedEntry = {} => Plain(e, live[o], new)
      /\ release = "current" => Current(e, live[o], new)
      /\ release # "current" => Old(e, live[o], new)
  BY <1>1, <1>2, EventNowFacts
<1>4. /\ release # "0.3" => PairsOnly(e)
      /\ release = "0.3" /\ e.operation # "UPDATE" => DOMAIN e.diff = {}
      /\ release = "0.3" /\ Val \cap PairedEntry = {} /\ DOMAIN e.diff # {} => ~ PairsOnly(e)
  BY <1>1, <1>2, EventNowPairs
<1>5. /\ audit' = audit \cup {e} /\ idSeq' = idSeq + 1
      /\ live' = [live EXCEPT ![o] = new]
      /\ LongTransaction(at) /\ Claim(o, e)
      /\ breaks' = IF Contradicts(o, e)
                   THEN breaks \cup {[object_id |-> o, at |-> at]} ELSE breaks
      /\ UNCHANGED <<storage, clock, cutoff, release, bypassed>>
  BY DEF Audited
<1>6. Logged(e, live[o], new)
  BY DEF Audited
<1> HIDE DEF e
<1>7. DOMAIN e.diff = {} =>
          /\ release = "0.3"
          /\ e.operation = "UPDATE" => \E c \in Tracked : Shown(live[o], c) # Shown(new, c)
  <2> SUFFICES ASSUME DOMAIN e.diff = {}
               PROVE  /\ release = "0.3"
                      /\ e.operation = "UPDATE" =>
                            \E c \in Tracked : Shown(live[o], c) # Shown(new, c)
    OBVIOUS
  <2>1. release = "0.3" /\ (e.operation = "UPDATE" => Changed(live[o], new) # {})
    BY <1>6 DEF Logged
  <2>2. \A c \in Changed(live[o], new) : c \in Tracked /\ Shown(live[o], c) # Shown(new, c)
    BY <1>1, ChainAssumed, Filtered DEF Changed, AnyRow
  <2> QED
    BY <2>1, <2>2
<1> QED
  BY <1>3, <1>4, <1>5, <1>7

(* What an appended event adds to the events of its object, and that no    *)
(* earlier event sees it.                                                  *)
LEMMA AppendedEvent ==
    ASSUME NEW A, NEW e, e.id \in Nat, \A f \in A : f.id \in Nat /\ f.id < e.id
    PROVE  /\ Of(A \cup {e}, e.object_id) = Of(A, e.object_id) \cup {e}
           /\ \A o : o # e.object_id => Of(A \cup {e}, o) = Of(A, o)
           /\ Before(A \cup {e}, e) = Of(A, e.object_id)
           /\ \A f \in A : Before(A \cup {e}, f) = Before(A, f)
           /\ e \notin A
<1>1. /\ Of(A \cup {e}, e.object_id) = Of(A, e.object_id) \cup {e}
      /\ \A o : o # e.object_id => Of(A \cup {e}, o) = Of(A, o)
  BY DEF Of
<1>2. Before(A \cup {e}, e) = Of(A, e.object_id)
  BY DEF Before, Of
<1>3. \A f \in A : Before(A \cup {e}, f) = Before(A, f)
  BY DEF Before, Of
<1>4. e \notin A
  OBVIOUS
<1> QED
  BY <1>1, <1>2, <1>3, <1>4

(* An event with a new id joins the log.                                   *)
LEMMA BasisAppend ==
    ASSUME Basis, NEW e, e.id = idSeq + 1, Entered(e), e.changed_at \in 1..clock
    PROVE  /\ \A f \in audit \cup {e} : Entered(f) /\ f.id <= idSeq + 1 /\ f.changed_at \in 1..clock
           /\ \A f, g \in audit \cup {e} : f.id = g.id => f = g
           /\ \A f \in audit : f.id \in Nat /\ f.id < e.id
<1>1. \A f \in audit : f.id \in Nat /\ f.id <= idSeq /\ f.id < e.id
  BY DEF Basis, Entered
<1> QED
  BY <1>1 DEF Basis

(* An empty log is a basis.                                                *)
LEMMA BasisInit == ChainInit => Basis
<1> SUFFICES ASSUME ChainInit PROVE Basis
  OBVIOUS
<1>1. /\ live \in [Obj -> Row \cup {NoRow}] /\ audit = {} /\ idSeq = 0 /\ clock = 1 /\ cutoff = 0
      /\ claimed = [o \in Obj |-> [c \in {} |-> Null]] /\ bypassed = [o \in Obj |-> 0]
  BY DEF ChainInit
<1>2. claimed = [o \in Obj |-> claimed[o]]
  BY <1>1
<1> QED
  BY <1>1, <1>2, Assumed DEF Basis, AnyRow

(* A step that writes no row and adds no event keeps the basis.            *)
LEMMA BasisFrame ==
    ASSUME Basis, UNCHANGED <<claimed, bypassed, idSeq, live>>, clock' \in clock..MaxClock,
           cutoff' \in Nat, audit' \subseteq audit
    PROVE  Basis'
BY DEF Basis, AnyRow

(* Every step of the application and every upgrade keeps the basis.        *)
LEMMA BasisChain ==
    ASSUME Basis, ChainNext
    PROVE  Basis'
<1> USE DEF AnyRow
<1>1. ASSUME UNCHANGED <<claimed, bypassed, idSeq, live>>, clock' \in clock..MaxClock,
             cutoff' \in Nat, audit' \subseteq audit
      PROVE  Basis'
  BY <1>1 DEF Basis
<1>2. CASE Tick /\ UNCHANGED <<release, ghosts>>
  <2>1. clock' = clock + 1 /\ clock < MaxClock /\ UNCHANGED <<claimed, bypassed, idSeq, live, cutoff, audit>>
    BY <1>2 DEF Tick, ghosts
  <2>2. clock' \in clock..MaxClock
    BY <2>1, BasisFacts
  <2> QED
    BY <1>1, <2>1, <2>2 DEF Basis
<1>3. ASSUME NEW o \in Obj, NEW new \in AnyRow, Bypass(o, new)
      PROVE  Basis'
  <2>1. /\ live' = [live EXCEPT ![o] = new] /\ bypassed' = [bypassed EXCEPT ![o] = @ + 1]
        /\ UNCHANGED <<audit, idSeq, clock, cutoff, claimed>>
    BY <1>3 DEF Bypass
  <2>2. live' \in [Obj -> AnyRow] /\ bypassed' \in [Obj -> Nat]
    BY <2>1 DEF Basis
  <2> QED
    BY <2>1, <2>2 DEF Basis
<1>4. ASSUME NEW o \in Obj, NEW new \in AnyRow, NEW at \in 1..clock, Audited(o, new, at)
      PROVE  Basis'
  <2>1. PICK e : /\ e.id = idSeq + 1 /\ e.changed_at = at /\ Entered(e)
                 /\ audit' = audit \cup {e} /\ idSeq' = idSeq + 1
                 /\ live' = [live EXCEPT ![o] = new] /\ Claim(o, e)
                 /\ UNCHANGED <<storage, clock, cutoff, release, bypassed>>
    <3> HIDE DEF AnyRow
    <3> QED
      BY <1>4, AuditedFacts
  <2>2. bypassed' \in [Obj -> Nat]
    BY <2>1 DEF Basis
  <2>3. claimed' = [p \in Obj |-> claimed'[p]]
    BY <2>1 DEF Claim, Basis
  <2>4. live' \in [Obj -> AnyRow]
    BY <2>1 DEF Basis
  <2>5. /\ \A f \in audit' : Entered(f) /\ f.id <= idSeq' /\ f.changed_at \in 1..clock'
        /\ \A f, g \in audit' : f.id = g.id => f = g
    BY <2>1, BasisAppend
  <2>6. clock' \in 1..MaxClock /\ idSeq' \in Nat /\ cutoff' \in Nat
    BY <2>1 DEF Basis
  <2> QED
    BY <2>2, <2>3, <2>4, <2>5, <2>6 DEF Basis
<1>5. ASSUME NEW r \in Releases, Upgrade(r)
      PROVE  Basis'
  BY <1>1, <1>5 DEF Basis, Upgrade, vars, ghosts
<1>6. ASSUME NEW mode \in Modes, SwitchStorage(mode)
      PROVE  Basis'
  BY <1>1, <1>6 DEF Basis, SwitchStorage, SetStorage, ghosts
<1> QED
  BY <1>2, <1>3, <1>4, <1>5, <1>6 DEF ChainNext

------------------------------------------------------------------------------
(* The shortcut of the snapshot body *)

(* The events of one object of a log.                                      *)
Log(A, o, n) ==
    /\ n \in Nat /\ Ordered(Of(A, o))
    /\ \A e \in Of(A, o) : Entered(e) /\ e.id \in Nat /\ e.id <= n

(* Which columns an event contributes, and what it says they became.       *)
LEMMA ContributesFacts ==
    ASSUME NEW A, NEW e, Entered(e)
    PROVE  /\ Contributes(A, e, "diff") = DOMAIN e.diff
           /\ Contributes(A, e, "unskipped") =
                 IF e.old_data = NoRow /\ e.new_data = NoRow THEN DOMAIN e.diff ELSE Tracked
           /\ SkippedEvent(A, e) => Contributes(A, e, "snapshots") = DOMAIN e.diff
           /\ ~ SkippedEvent(A, e) =>
                 Contributes(A, e, "snapshots") = Contributes(A, e, "unskipped")
           /\ DOMAIN e.diff \subseteq Tracked
           /\ DOMAIN NAll(e) = IF e.new_data = NoRow THEN DOMAIN e.diff ELSE Tracked
           /\ \A c \in DOMAIN NAll(e) : NAll(e)[c] = NewValue(e, c)
<1>1. DOMAIN e.diff \subseteq Tracked /\ e.old_data \in SnapshotRow /\ e.new_data \in SnapshotRow
  BY DEF Entered
<1>2. \A snap \in SnapshotRow :
          /\ snap # NoRow => Keys(Seen(snap)) = Tracked
          /\ snap = NoRow => Keys(Seen(snap)) = {}
          /\ snap # NoRow => Keys(snap) \cap Tracked = Tracked
          /\ snap = NoRow => Keys(snap) = {}
  <2> SUFFICES ASSUME NEW snap \in SnapshotRow
               PROVE  /\ snap # NoRow => Keys(Seen(snap)) = Tracked
                      /\ snap = NoRow => Keys(Seen(snap)) = {}
                      /\ snap # NoRow => Keys(snap) \cap Tracked = Tracked
                      /\ snap = NoRow => Keys(snap) = {}
    OBVIOUS
  <2>1. snap # NoRow => Keys(snap) \cap Tracked = Tracked
    BY Assumed DEF SnapshotRow, Row, Keys
  <2> QED
    BY <2>1, SeenSnapshot DEF Keys
<1>3. Contributes(A, e, "unskipped") =
          DOMAIN e.diff \cup Keys(Seen(e.old_data)) \cup Keys(Seen(e.new_data))
  BY DEF Contributes
<1>4. Contributes(A, e, "diff") = DOMAIN e.diff
  BY DEF Contributes
<1>5. /\ SkippedEvent(A, e) => Contributes(A, e, "snapshots") = DOMAIN e.diff
      /\ ~ SkippedEvent(A, e) => Contributes(A, e, "snapshots") = Contributes(A, e, "unskipped")
  BY DEF Contributes
<1>6. /\ DOMAIN NAll(e) = DOMAIN e.diff \cup (Keys(e.new_data) \cap Tracked)
      /\ \A c \in DOMAIN NAll(e) : NAll(e)[c] = NewValue(e, c)
  BY DEF NAll
<1>7. Contributes(A, e, "unskipped") =
          IF e.old_data = NoRow /\ e.new_data = NoRow THEN DOMAIN e.diff ELSE Tracked
  BY <1>1, <1>2, <1>3
<1>8. DOMAIN NAll(e) = IF e.new_data = NoRow THEN DOMAIN e.diff ELSE Tracked
  BY <1>1, <1>2, <1>6
<1> QED
  BY <1>1, <1>4, <1>5, <1>6, <1>7, <1>8

(* A skipped event is followed by one that contributes every column.       *)
LEMMA AfterSkipped ==
    ASSUME NEW A, NEW o, NEW n, Log(A, o, n), NEW e \in Of(A, o), SkippedEvent(A, e)
    PROVE  \E g \in After(A, e) :
               /\ \A f \in After(A, e) : g.id <= f.id
               /\ HasSnapshots(g) /\ Contributes(A, g, "unskipped") = Tracked
<1>1. After(A, e) # {} /\ HasSnapshots(FirstEvent(After(A, e)))
  BY DEF SkippedEvent
<1>2. \A f \in After(A, e) : f \in Of(A, o) /\ f.id \in Nat /\ Entered(f)
  BY DEF After, Log, Of
<1>3. /\ FirstEvent(After(A, e)) \in After(A, e)
      /\ \A f \in After(A, e) : FirstEvent(After(A, e)).id <= f.id
  BY <1>1, <1>2, FirstEventOf
<1>4. Contributes(A, FirstEvent(After(A, e)), "unskipped") = Tracked
  BY <1>1, <1>2, <1>3, ContributesFacts DEF HasSnapshots
<1> QED
  BY <1>1, <1>3, <1>4

(* With and without the shortcut a key has the same previous value.        *)
LEMMA SamePrevious ==
    ASSUME NEW A, NEW o, NEW n, Log(A, o, n), NEW e \in Of(A, o), NEW c \in Tracked
    PROVE  /\ PreviousNew(A, e, c, "snapshots") = PreviousNew(A, e, c, "unskipped")
           /\ Before(A, e) # {} /\ c \in DOMAIN NAll(LastEvent(Before(A, e))) =>
                 PreviousNew(A, e, c, "unskipped") = NAll(LastEvent(Before(A, e)))[c]
<1> DEFINE B == Before(A, e)
           last == LastEvent(B)
           P(body) == {f \in B : c \in Contributes(A, f, body)}
<1>1. /\ n \in Nat /\ Ordered(B)
      /\ \A f \in B : f \in Of(A, o) /\ Entered(f) /\ f.id \in Nat /\ f.id <= n /\ f.id < e.id
      /\ \A f \in Of(A, o) : f.id < e.id => f \in B
  BY DEF Before, Log, Of, Ordered
<1>2. B # {} => last \in B /\ \A f \in B : f.id <= last.id
  <2> HIDE DEF B
  <2> QED
    BY <1>1, LastEventOf
<1>3. /\ PreviousNew(A, e, c, "unskipped") =
            IF P("unskipped") = {} THEN Absent ELSE NewValue(LastEvent(P("unskipped")), c)
      /\ PreviousNew(A, e, c, "snapshots") =
            IF B # {} /\ c \in DOMAIN NAll(last) THEN NAll(last)[c]
            ELSE IF P("snapshots") = {} THEN Absent ELSE NewValue(LastEvent(P("snapshots")), c)
  BY DEF PreviousNew
<1>4. \A body : P(body) \subseteq B
  OBVIOUS
<1>5. P("snapshots") \subseteq P("unskipped")
  BY <1>1, ContributesFacts
<1>6. ASSUME B # {}, last \in P("unskipped")
      PROVE  LastEvent(P("unskipped")) = last
  <2>1. Ordered(P("unskipped")) /\ \A f \in P("unskipped") : f.id <= last.id
    BY <1>1, <1>2, <1>6 DEF Ordered
  <2> HIDE DEF P, last
  <2> QED
    BY <1>6, <2>1, LastIs
<1>7. ASSUME B # {}, c \in DOMAIN NAll(last)
      PROVE  PreviousNew(A, e, c, "unskipped") = NAll(last)[c]
  <2>1. last \in B /\ Entered(last)
    BY <1>1, <1>2, <1>7
  <2>2. NAll(last)[c] = NewValue(last, c) /\ c \in Contributes(A, last, "unskipped")
    BY <1>7, <2>1, ContributesFacts
  <2>3. last \in P("unskipped")
    BY <2>1, <2>2
  <2> QED
    BY <1>3, <1>6, <1>7, <2>2, <2>3
<1>8. ASSUME B # {}, c \notin DOMAIN NAll(last)
      PROVE  PreviousNew(A, e, c, "snapshots") = PreviousNew(A, e, c, "unskipped")
  <2>1. last \in B /\ Entered(last) /\ \A f \in B : f.id <= last.id
    BY <1>1, <1>2, <1>8
  <2>2. last.new_data = NoRow
    BY <1>8, <2>1, ContributesFacts
  <2>3. ~ SkippedEvent(A, last)
    BY <2>2 DEF SkippedEvent, HasSnapshots
  <2>4. Contributes(A, last, "snapshots") = Contributes(A, last, "unskipped")
    BY <2>1, <2>3, ContributesFacts
  <2>5. ASSUME P("unskipped") # {}
        PROVE  LastEvent(P("unskipped")) \in P("snapshots")
    <3> DEFINE f == LastEvent(P("unskipped"))
    <3>1. f \in P("unskipped") /\ \A g \in P("unskipped") : g.id <= f.id
      <4>1. \A g \in P("unskipped") : g.id \in Nat /\ g.id <= n
        BY <1>1
      <4> HIDE DEF P
      <4> QED
        BY <1>1, <2>5, <4>1, LastEventOf
    <3> HIDE DEF f
    <3>2. CASE ~ SkippedEvent(A, f)
      BY <1>1, <3>1, <3>2, ContributesFacts DEF f
    <3>3. CASE SkippedEvent(A, f)
      <4>1. f \in Of(A, o) /\ f.id \in Nat /\ f # last
        BY <1>1, <2>3, <3>1, <3>3
      <4>2. PICK g \in After(A, f) : /\ \A h \in After(A, f) : g.id <= h.id
                                     /\ Contributes(A, g, "unskipped") = Tracked
        BY <3>3, <4>1, AfterSkipped
      <4>3. g \in Of(A, o) /\ g.id > f.id /\ g.id \in Nat
        BY <4>1, <4>2 DEF After, Of, Log
      <4>4. last.id # f.id /\ last.id \in Nat /\ f.id <= last.id
        BY <1>1, <2>1, <3>1, <4>1 DEF Ordered
      <4>5. last \in Of(A, o) /\ last.id > f.id
        BY <1>1, <2>1, <4>1, <4>4
      <4>6. last \in After(A, f)
        BY <4>1, <4>5 DEF After, Of
      <4>7. g.id <= last.id /\ last.id < e.id /\ e.id \in Nat
        BY <1>1, <2>1, <4>2, <4>6 DEF Log
      <4>8. g \in P("unskipped")
        BY <1>1, <4>2, <4>3, <4>4, <4>7
      <4> QED
        BY <3>1, <4>1, <4>3, <4>8
    <3> QED
      BY <3>2, <3>3 DEF f
  <2>6. ASSUME P("unskipped") # {}
        PROVE  LastEvent(P("snapshots")) = LastEvent(P("unskipped"))
    <3> DEFINE f == LastEvent(P("unskipped"))
    <3>1. f \in P("snapshots")
      BY <2>5, <2>6
    <3>2. \A g \in P("snapshots") : g.id <= f.id
      <4>1. \A g \in P("unskipped") : g.id \in Nat /\ g.id <= n
        BY <1>1
      <4>2. \A g \in P("unskipped") : g.id <= f.id
        <5> HIDE DEF P
        <5> QED
          BY <1>1, <2>6, <4>1, LastEventOf
      <4> HIDE DEF P
      <4> QED
        BY <1>5, <4>2
    <3>3. Ordered(P("snapshots"))
      BY <1>1 DEF Ordered
    <3> HIDE DEF f, P
    <3>4. LastEvent(P("snapshots")) = f
      BY <3>1, <3>2, <3>3, LastIs
    <3> QED
      BY <3>4 DEF f
  <2>7. P("snapshots") = {} <=> P("unskipped") = {}
    <3> HIDE DEF P
    <3> QED
      BY <1>5, <2>5
  <2> HIDE DEF P, B, last
  <2> QED
    BY <1>3, <1>8, <2>6, <2>7
<1>9. ASSUME B = {}
      PROVE  PreviousNew(A, e, c, "snapshots") = PreviousNew(A, e, c, "unskipped")
  <2>1. \A body : P(body) = {}
    BY <1>9
  <2> HIDE DEF P, B, last
  <2> QED
    BY <1>3, <1>9, <2>1
<1> HIDE DEF P
<1> QED
  BY <1>3, <1>7, <1>8, <1>9

(* The shortcut changes no finding of the chain,                           *)
LEMMA SameChain ==
    ASSUME NEW A, NEW o, NEW n, Log(A, o, n)
    PROVE  Chain(A, o, "snapshots") = Chain(A, o, "unskipped")
<1> DEFINE Broken(f, c, body) ==
               LET old == OldSideOf(f, c, body)
                   previous == PreviousNew(A, f, c, body)
               IN  old # Absent /\ previous # Absent /\ old # previous
           Found(f, body) == \E c \in Contributes(A, f, body) : Broken(f, c, body)
<1>1. \A f \in Of(A, o) : Entered(f)
  BY DEF Log
<1>2. \A f \in Of(A, o) : \A c \in Tracked : Broken(f, c, "snapshots") <=> Broken(f, c, "unskipped")
  <2> SUFFICES ASSUME NEW f \in Of(A, o), NEW c \in Tracked
               PROVE  Broken(f, c, "snapshots") <=> Broken(f, c, "unskipped")
    OBVIOUS
  <2>1. PreviousNew(A, f, c, "snapshots") = PreviousNew(A, f, c, "unskipped")
    BY SamePrevious
  <2>2. OldSideOf(f, c, "snapshots") = OldSideOf(f, c, "unskipped")
    BY DEF OldSideOf
  <2> QED
    BY <2>1, <2>2
<1>3. \A f \in Of(A, o) :
          /\ Contributes(A, f, "snapshots") \subseteq Contributes(A, f, "unskipped")
          /\ Contributes(A, f, "unskipped") \subseteq Tracked
  BY <1>1, ContributesFacts
<1>4. ASSUME NEW f \in Of(A, o), NEW c \in Contributes(A, f, "unskipped"),
             c \notin Contributes(A, f, "snapshots")
      PROVE  ~ Broken(f, c, "unskipped")
  <2>1. SkippedEvent(A, f) /\ c \notin DOMAIN f.diff /\ c \in Tracked
    BY <1>1, <1>3, <1>4, ContributesFacts
  <2>2. /\ Before(A, f) # {} /\ HasSnapshots(f)
        /\ \A d \in Keys(Seen(f.old_data)) :
              /\ d \in DOMAIN NAll(LastEvent(Before(A, f)))
              /\ NAll(LastEvent(Before(A, f)))[d] = f.old_data[d]
    BY <2>1 DEF SkippedEvent
  <2>3. f.old_data \in SnapshotRow /\ f.old_data # NoRow
    BY <1>1, <2>2 DEF Entered, HasSnapshots
  <2>4. Keys(Seen(f.old_data)) = Tracked /\ Seen(f.old_data)[c] = f.old_data[c] /\ Seen(f.old_data) # NoRow
    BY <2>1, <2>3, SeenSnapshot
  <2>5. PreviousNew(A, f, c, "unskipped") = f.old_data[c]
    BY <2>1, <2>2, <2>4, SamePrevious
  <2>6. OldSideOf(f, c, "unskipped") = f.old_data[c]
    BY <2>1, <2>4 DEF OldSideOf, OldValue, Get, Keys
  <2> QED
    BY <2>5, <2>6
<1> HIDE DEF Broken
<1>5. \A f \in Of(A, o) : Found(f, "snapshots") <=> Found(f, "unskipped")
  BY <1>2, <1>3, <1>4
<1>6. \A body : Chain(A, o, body) =
          {Mismatch(e, "chain", e.changed_at) : e \in {f \in Of(A, o) : Found(f, body)}}
  BY DEF Chain, Broken
<1> HIDE DEF Found
<1>7. {f \in Of(A, o) : Found(f, "snapshots")} = {f \in Of(A, o) : Found(f, "unskipped")}
  BY <1>5
<1> QED
  BY <1>6, <1>7

(* nor one about the live row,                                             *)
LEMMA SameLive ==
    ASSUME NEW A, NEW L, NEW o, NEW n, Log(A, o, n)
    PROVE  Live(A, L, o, "snapshots") = Live(A, L, o, "unskipped")
<1> DEFINE LastFor(f, c, body) ==
               /\ c \in Contributes(A, f, body)
               /\ \A g \in After(A, f) : c \notin Contributes(A, g, body)
           Found(f, body) == \E c \in Contributes(A, f, body) \cap Keys(LiveRow(L, o)) :
                                 /\ \A g \in After(A, f) : c \notin Contributes(A, g, body)
                                 /\ NewValue(f, c) # L[o][c]
<1>1. /\ n \in Nat /\ \A f \in Of(A, o) : Entered(f) /\ f.id \in Nat /\ f.id <= n
      /\ \A f \in Of(A, o) : After(A, f) = {g \in Of(A, o) : g.id > f.id}
  BY DEF Log, After, Of
<1>2. \A f \in Of(A, o) :
          /\ Contributes(A, f, "snapshots") \subseteq Contributes(A, f, "unskipped")
          /\ Contributes(A, f, "unskipped") \subseteq Tracked
  BY <1>1, ContributesFacts
<1>3. ASSUME NEW f \in Of(A, o), NEW c, LastFor(f, c, "unskipped")
      PROVE  LastFor(f, c, "snapshots")
  <2>1. ~ SkippedEvent(A, f)
    <3> SUFFICES ASSUME SkippedEvent(A, f) PROVE FALSE
      OBVIOUS
    <3>1. PICK g \in After(A, f) : Contributes(A, g, "unskipped") = Tracked
      BY AfterSkipped
    <3> QED
      BY <1>2, <1>3, <3>1
  <2>2. c \in Contributes(A, f, "snapshots")
    BY <1>1, <1>3, <2>1, ContributesFacts
  <2> QED
    BY <1>1, <1>2, <1>3, <2>2
<1>4. ASSUME NEW f \in Of(A, o), NEW c, LastFor(f, c, "snapshots")
      PROVE  LastFor(f, c, "unskipped")
  <2> DEFINE P == {g \in Of(A, o) : c \in Contributes(A, g, "unskipped")}
             last == LastEvent(P)
  <2>1. f \in P
    BY <1>2, <1>4
  <2>2. last \in P /\ \A g \in P : g.id <= last.id
    <3>1. \A g \in P : g.id \in Nat /\ g.id <= n
      BY <1>1
    <3> HIDE DEF P
    <3> QED
      BY <1>1, <2>1, <3>1, LastEventOf
  <2>3. LastFor(last, c, "unskipped")
    <3>1. \A g \in After(A, last) : g \notin P
      <4> SUFFICES ASSUME NEW g \in P, g.id > last.id PROVE FALSE
        BY <1>1, <2>2
      <4>1. g.id \in Nat /\ last.id \in Nat /\ g.id <= last.id
        BY <1>1, <2>2
      <4> QED
        BY <4>1
    <3> QED
      BY <1>1, <2>2, <3>1
  <2>4. LastFor(last, c, "snapshots")
    BY <1>3, <2>2, <2>3
  <2>5. last.id = f.id
    <3>1. f.id <= last.id /\ f.id \in Nat /\ last.id \in Nat
      BY <1>1, <2>1, <2>2
    <3>2. ~ last.id > f.id
      BY <1>1, <1>4, <2>2, <2>4
    <3> QED
      BY <3>1, <3>2
  <2>6. last = f
    BY <2>2, <2>5 DEF Log, Ordered
  <2> QED
    BY <2>3, <2>6
<1> DEFINE Set(body) == {f \in Of(A, o) : Found(f, body)}
<1>5. \A f \in Of(A, o) : \A body : Found(f, body) <=>
          \E c \in Keys(LiveRow(L, o)) : LastFor(f, c, body) /\ NewValue(f, c) # L[o][c]
  OBVIOUS
<1>6. \A body : Live(A, L, o, body) = {Mismatch(e, "live", Always) : e \in Set(body)}
  BY DEF Live
<1> HIDE DEF LastFor, Found
<1>7. Set("snapshots") = Set("unskipped")
  BY <1>3, <1>4, <1>5
<1> HIDE DEF Set
<1> QED
  BY <1>6, <1>7

(* and so none at all.                                                     *)
LEMMA ShortcutChangesNothing ==
    ASSUME NEW A, NEW L, NEW o, NEW n, Log(A, o, n)
    PROVE  Mismatches(A, L, o, "snapshots") = Mismatches(A, L, o, "unskipped")
BY SameChain, SameLive DEF Mismatches

(* The events of one object are a log the lemmas above speak of.           *)
LEMMA LogOf == ASSUME Basis, NEW o PROVE Log(audit, o, idSeq)
<1>1. idSeq \in Nat /\ Ordered(Of(audit, o))
  BY BasisFacts DEF Basis
<1>2. \A e \in Of(audit, o) : Entered(e) /\ e.id \in Nat /\ e.id <= idSeq
  BY BasisFacts DEF Of, Basis
<1> QED
  BY <1>1, <1>2 DEF Log

------------------------------------------------------------------------------
(* Snapshots read through the filter *)

(* A snapshot or a filtered row, read through the filter.                  *)
LEMMA SeenFiltered ==
    ASSUME NEW r \in AnyRow
    PROVE  Seen(FilterOf(r)) = FilterOf(r)
<1>1. CASE r = NoRow
  BY <1>1 DEF FilterOf, Seen
<1>2. CASE r # NoRow
  <2>1. Filter(r) # NoRow /\ FilterOf(r) = Filter(r) /\ Keys(Filter(r)) = Tracked
    BY <1>2, Filtered DEF FilterOf, AnyRow, Keys, Filter
  <2>2. Seen(Filter(r)) = [c \in Tracked |-> Filter(r)[c]]
    BY <2>1 DEF Seen
  <2>3. \A c \in Tracked : Filter(r)[c] = r[c]
    BY DEF Filter
  <2> QED
    BY <2>1, <2>2, <2>3 DEF Filter
<1> QED
  BY <1>1, <1>2

==============================================================================
