--------------------------- MODULE HashChainProofs ---------------------------
(***************************************************************************)
(* Theorems about HashChain, for every number of sessions, rows and        *)
(* transactions.                                                           *)
(***************************************************************************)
EXTENDS HashChain, NumberSets, TLAPS

(* The bounds are numbers.                                                 *)
LEMMA BoundsNat == MaxId \in Nat /\ MaxClock \in Nat
BY ChainAssumption

(* No transaction stands for none.                                         *)
LEMMA NoTxnOutside == NoTxn \notin Txn
BY ChainAssumption

(* The rows of the table, one by one. *)
LEMMA InAllRows ==
    /\ \A r : r \in AllRows <=> r \in log \/ \E t \in Txn : r \in pending[t]
    /\ \A r : r \in AllRows' <=> r \in log' \/ \E t \in Txn : r \in pending'[t]
BY DEF AllRows

(* The rows the two forms of INSERT write are well formed. *)
LEMMA NewRowOK ==
    ASSUME NEW id \in Nat, NEW at \in Nat, NEW z, NEW seq \in Nat, NEW before, seq > 0
    PROVE  /\ LET r == ChainedRow(id, at, z, seq, before)
              IN  /\ r.id = id /\ r.changed_at = at /\ r.content = "written"
                  /\ r.chain_seq = seq /\ r.row_hash # NoHash
           /\ LET r == PlainRow(id, at)
              IN  /\ r.id = id /\ r.changed_at = at /\ r.content = "written"
                  /\ r.chain_seq = 0 /\ r.row_hash = NoHash
<1>1. ChainedRow(id, at, z, seq, before).row_hash # NoHash
  BY DEF ChainedRow, RowHash, Digest, NoHash
<1> QED
  BY <1>1 DEF ChainedRow, PlainRow

(* The empty audit table is well typed. *)
LEMMA TypeInitially == ASSUME Init PROVE TypeOK
<1>1. AllRows = {}
  BY DEF Init, AllRows
<1>2. savepoint \in [Txn -> [set : BOOLEAN, rows : SUBSET AllRows, held : BOOLEAN]]
  BY DEF Init, NoSavepoint
<1>3. \A t \in Txn : savepoint[t].rows \subseteq pending[t]
  BY DEF Init, NoSavepoint
<1>4. pending \in [Txn -> SUBSET AllRows]
  BY <1>1 DEF Init
<1>5. \A r \in AllRows : RowOK(r)
  BY <1>1
<1>6. \A t \in Txn : /\ status[t] # "idle" => begun[t] > 0
                     /\ status[t] = "waiting" => rowId[t] > 0
  BY DEF Init
<1>7. /\ status \in [Txn -> {"idle", "open", "waiting"}]
      /\ begun \in [Txn -> 0..clock] /\ rowId \in [Txn -> 0..idSeq]
      /\ idSeq \in 0..MaxId /\ chainSeq \in Nat /\ clock \in 0..MaxClock
  BY BoundsNat DEF Init
<1>8. enabled \in BOOLEAN /\ zone \in [Txn -> Zone] /\ lock \in Txn \cup {NoTxn}
  BY DEF Init
<1> QED
  BY <1>2, <1>3, <1>4, <1>5, <1>6, <1>7, <1>8 DEF TypeOK

(* Every step of the writers keeps the types. *)
LEMMA TypeKept ==
    ASSUME TypeOK, [Next]_vars
    PROVE  TypeOK'
<1>1. CASE Enable
  <2>1. \A r \in AllRows' : RowOK(r)'
    BY <1>1, BoundsNat, InAllRows DEF Enable, TypeOK, RowOK
  <2>2. pending' \in [Txn -> SUBSET AllRows']
    BY <1>1, InAllRows DEF Enable, TypeOK
  <2>3. savepoint' \in [Txn -> [set : BOOLEAN, rows : SUBSET AllRows', held : BOOLEAN]]
    BY <1>1, InAllRows DEF Enable, TypeOK
  <2>4. idSeq' \in 0..MaxId /\ chainSeq' \in Nat /\ clock' \in 0..MaxClock
    BY <1>1, BoundsNat DEF Enable, TypeOK
  <2>5. begun' \in [Txn -> 0..clock'] /\ rowId' \in [Txn -> 0..idSeq']
    BY <1>1, BoundsNat DEF Enable, TypeOK
  <2>6. \A u \in Txn : savepoint'[u].rows \subseteq pending'[u]
    BY <1>1 DEF Enable, TypeOK
  <2>7. \A u \in Txn : /\ status'[u] # "idle" => begun'[u] > 0
                      /\ status'[u] = "waiting" => rowId'[u] > 0
    BY <1>1, BoundsNat DEF Enable, TypeOK
  <2> QED
    BY <1>1, <2>1, <2>2, <2>3, <2>4, <2>5, <2>6, <2>7 DEF Enable, TypeOK
<1>2. CASE CaptureTip
  <2>1. \A r \in AllRows' : RowOK(r)'
    BY <1>2, BoundsNat, InAllRows DEF CaptureTip, TypeOK, RowOK
  <2>2. pending' \in [Txn -> SUBSET AllRows']
    BY <1>2, InAllRows DEF CaptureTip, TypeOK
  <2>3. savepoint' \in [Txn -> [set : BOOLEAN, rows : SUBSET AllRows', held : BOOLEAN]]
    BY <1>2, InAllRows DEF CaptureTip, TypeOK
  <2>4. idSeq' \in 0..MaxId /\ chainSeq' \in Nat /\ clock' \in 0..MaxClock
    BY <1>2, BoundsNat DEF CaptureTip, TypeOK
  <2>5. begun' \in [Txn -> 0..clock'] /\ rowId' \in [Txn -> 0..idSeq']
    BY <1>2, BoundsNat DEF CaptureTip, TypeOK
  <2>6. \A u \in Txn : savepoint'[u].rows \subseteq pending'[u]
    BY <1>2 DEF CaptureTip, TypeOK
  <2>7. \A u \in Txn : /\ status'[u] # "idle" => begun'[u] > 0
                      /\ status'[u] = "waiting" => rowId'[u] > 0
    BY <1>2, BoundsNat DEF CaptureTip, TypeOK
  <2> QED
    BY <1>2, <2>1, <2>2, <2>3, <2>4, <2>5, <2>6, <2>7 DEF CaptureTip, TypeOK
<1>3. ASSUME NEW t \in Txn, Begin(t) PROVE TypeOK'
  <2>1. \A r \in AllRows' : RowOK(r)'
    BY <1>3, BoundsNat, InAllRows DEF Begin, TypeOK, RowOK
  <2>2. pending' \in [Txn -> SUBSET AllRows']
    BY <1>3, InAllRows DEF Begin, TypeOK
  <2>3. savepoint' \in [Txn -> [set : BOOLEAN, rows : SUBSET AllRows', held : BOOLEAN]]
    BY <1>3, InAllRows DEF Begin, TypeOK
  <2>4. idSeq' \in 0..MaxId /\ chainSeq' \in Nat /\ clock' \in 0..MaxClock
    BY <1>3, BoundsNat DEF Begin, TypeOK
  <2>5. begun' \in [Txn -> 0..clock'] /\ rowId' \in [Txn -> 0..idSeq']
    BY <1>3, BoundsNat DEF Begin, TypeOK
  <2>6. \A u \in Txn : savepoint'[u].rows \subseteq pending'[u]
    BY <1>3 DEF Begin, TypeOK
  <2>7. \A u \in Txn : /\ status'[u] # "idle" => begun'[u] > 0
                      /\ status'[u] = "waiting" => rowId'[u] > 0
    BY <1>3, BoundsNat DEF Begin, TypeOK
  <2> QED
    BY <1>3, <2>1, <2>2, <2>3, <2>4, <2>5, <2>6, <2>7 DEF Begin, TypeOK
<1>4. ASSUME NEW t \in Txn, Insert(t) PROVE TypeOK'
  <2>1. \A r \in AllRows' : RowOK(r)'
    BY <1>4, BoundsNat, InAllRows DEF Insert, TypeOK, RowOK
  <2>2. pending' \in [Txn -> SUBSET AllRows']
    BY <1>4, InAllRows DEF Insert, TypeOK
  <2>3. savepoint' \in [Txn -> [set : BOOLEAN, rows : SUBSET AllRows', held : BOOLEAN]]
    BY <1>4, InAllRows DEF Insert, TypeOK
  <2>4. idSeq' \in 0..MaxId /\ chainSeq' \in Nat /\ clock' \in 0..MaxClock
    BY <1>4, BoundsNat DEF Insert, TypeOK
  <2>5. begun' \in [Txn -> 0..clock'] /\ rowId' \in [Txn -> 0..idSeq']
    BY <1>4, BoundsNat DEF Insert, TypeOK
  <2>6. \A u \in Txn : savepoint'[u].rows \subseteq pending'[u]
    BY <1>4 DEF Insert, TypeOK
  <2>7. \A u \in Txn : /\ status'[u] # "idle" => begun'[u] > 0
                      /\ status'[u] = "waiting" => rowId'[u] > 0
    BY <1>4, BoundsNat DEF Insert, TypeOK
  <2> QED
    BY <1>4, <2>1, <2>2, <2>3, <2>4, <2>5, <2>6, <2>7 DEF Insert, TypeOK
<1>5. ASSUME NEW t \in Txn, Chain(t) PROVE TypeOK'
  <2>1. \A r \in AllRows' : RowOK(r)'
    <3> DEFINE before == {q \in Chained(Visible(t)) : q.chain_seq < chainSeq'}
               new == ChainedRow(rowId[t], begun[t], zone[t], chainSeq', before)
    <3>1. pending' = [pending EXCEPT ![t] = pending[t] \cup {new}]
      BY <1>5 DEF Chain, TriggerBody
    <3>2. \A r \in AllRows' : r \in AllRows \/ r = new
      BY <1>5, <3>1, InAllRows DEF Chain, TriggerBody, TypeOK
    <3>3. \A r \in AllRows : RowOK(r)'
      BY <1>5, BoundsNat DEF Chain, TriggerBody, TypeOK, RowOK
    <3>4. /\ rowId[t] \in 1..idSeq' /\ begun[t] \in 1..clock' /\ chainSeq' \in 1..chainSeq'
          /\ idSeq' \in Nat /\ clock' \in Nat /\ chainSeq' \in Nat
      BY <1>5, BoundsNat DEF Chain, TriggerBody, TypeOK
    <3>5. \A r : r = new => RowOK(r)'
      <4>1. /\ new.id = rowId[t] /\ new.changed_at = begun[t] /\ new.content = "written"
            /\ new.chain_seq = chainSeq' /\ new.row_hash # NoHash
        BY <3>4, NewRowOK
      <4> HIDE DEF new
      <4> QED
        BY <3>4, <4>1 DEF RowOK
    <3> HIDE DEF new
    <3> QED
      BY <3>2, <3>3, <3>5
  <2>2. pending' \in [Txn -> SUBSET AllRows']
    BY <1>5, InAllRows DEF Chain, TriggerBody, TypeOK
  <2>3. savepoint' \in [Txn -> [set : BOOLEAN, rows : SUBSET AllRows', held : BOOLEAN]]
    BY <1>5, InAllRows DEF Chain, TriggerBody, TypeOK
  <2>4. idSeq' \in 0..MaxId /\ chainSeq' \in Nat /\ clock' \in 0..MaxClock
    BY <1>5, BoundsNat DEF Chain, TriggerBody, TypeOK
  <2>5. begun' \in [Txn -> 0..clock'] /\ rowId' \in [Txn -> 0..idSeq']
    BY <1>5, BoundsNat DEF Chain, TriggerBody, TypeOK
  <2>6. \A u \in Txn : savepoint'[u].rows \subseteq pending'[u]
    BY <1>5 DEF Chain, TriggerBody, TypeOK
  <2>7. \A u \in Txn : /\ status'[u] # "idle" => begun'[u] > 0
                      /\ status'[u] = "waiting" => rowId'[u] > 0
    BY <1>5, BoundsNat DEF Chain, TriggerBody, TypeOK
  <2> QED
    BY <1>5, <2>1, <2>2, <2>3, <2>4, <2>5, <2>6, <2>7 DEF Chain, TriggerBody, TypeOK
<1>6. ASSUME NEW t \in Txn, Unchained(t) PROVE TypeOK'
  <2>1. \A r \in AllRows' : RowOK(r)'
    <3> DEFINE new == PlainRow(rowId[t], begun[t])
    <3>1. \A r \in AllRows' : r \in AllRows \/ r = new
      BY <1>6, InAllRows DEF Unchained, TypeOK
    <3>2. \A r \in AllRows : RowOK(r)'
      BY <1>6, BoundsNat DEF Unchained, TypeOK, RowOK
    <3>3. /\ rowId[t] \in 1..idSeq' /\ begun[t] \in 1..clock'
          /\ idSeq' \in Nat /\ clock' \in Nat /\ chainSeq' \in Nat
      BY <1>6, BoundsNat DEF Unchained, TypeOK
    <3>4. \A r : r = new => RowOK(r)'
      <4>1. /\ new.id = rowId[t] /\ new.changed_at = begun[t] /\ new.content = "written"
            /\ new.chain_seq = 0 /\ new.row_hash = NoHash
        BY DEF PlainRow
      <4> HIDE DEF new
      <4> QED
        BY <3>3, <4>1 DEF RowOK
    <3> HIDE DEF new
    <3> QED
      BY <3>1, <3>2, <3>4
  <2>2. pending' \in [Txn -> SUBSET AllRows']
    BY <1>6, InAllRows DEF Unchained, TypeOK
  <2>3. savepoint' \in [Txn -> [set : BOOLEAN, rows : SUBSET AllRows', held : BOOLEAN]]
    BY <1>6, InAllRows DEF Unchained, TypeOK
  <2>4. idSeq' \in 0..MaxId /\ chainSeq' \in Nat /\ clock' \in 0..MaxClock
    BY <1>6, BoundsNat DEF Unchained, TypeOK
  <2>5. begun' \in [Txn -> 0..clock'] /\ rowId' \in [Txn -> 0..idSeq']
    BY <1>6, BoundsNat DEF Unchained, TypeOK
  <2>6. \A u \in Txn : savepoint'[u].rows \subseteq pending'[u]
    BY <1>6 DEF Unchained, TypeOK
  <2>7. \A u \in Txn : /\ status'[u] # "idle" => begun'[u] > 0
                      /\ status'[u] = "waiting" => rowId'[u] > 0
    BY <1>6, BoundsNat DEF Unchained, TypeOK
  <2> QED
    BY <1>6, <2>1, <2>2, <2>3, <2>4, <2>5, <2>6, <2>7 DEF Unchained, TypeOK
<1>7. ASSUME NEW t \in Txn, Savepoint(t) PROVE TypeOK'
  <2>1. \A r \in AllRows' : RowOK(r)'
    BY <1>7, BoundsNat, InAllRows DEF Savepoint, TypeOK, RowOK
  <2>2. pending' \in [Txn -> SUBSET AllRows']
    BY <1>7, InAllRows DEF Savepoint, TypeOK
  <2>3. savepoint' \in [Txn -> [set : BOOLEAN, rows : SUBSET AllRows', held : BOOLEAN]]
    BY <1>7, InAllRows DEF Savepoint, TypeOK
  <2>4. idSeq' \in 0..MaxId /\ chainSeq' \in Nat /\ clock' \in 0..MaxClock
    BY <1>7, BoundsNat DEF Savepoint, TypeOK
  <2>5. begun' \in [Txn -> 0..clock'] /\ rowId' \in [Txn -> 0..idSeq']
    BY <1>7, BoundsNat DEF Savepoint, TypeOK
  <2>6. \A u \in Txn : savepoint'[u].rows \subseteq pending'[u]
    BY <1>7 DEF Savepoint, TypeOK
  <2>7. \A u \in Txn : /\ status'[u] # "idle" => begun'[u] > 0
                      /\ status'[u] = "waiting" => rowId'[u] > 0
    BY <1>7, BoundsNat DEF Savepoint, TypeOK
  <2> QED
    BY <1>7, <2>1, <2>2, <2>3, <2>4, <2>5, <2>6, <2>7 DEF Savepoint, TypeOK
<1>8. ASSUME NEW t \in Txn, RollbackTo(t) PROVE TypeOK'
  <2>1. \A r \in AllRows' : RowOK(r)'
    BY <1>8, BoundsNat, InAllRows DEF RollbackTo, TypeOK, RowOK
  <2>2. pending' \in [Txn -> SUBSET AllRows']
    BY <1>8, InAllRows DEF RollbackTo, TypeOK
  <2>3. savepoint' \in [Txn -> [set : BOOLEAN, rows : SUBSET AllRows', held : BOOLEAN]]
    BY <1>8, InAllRows DEF RollbackTo, TypeOK
  <2>4. idSeq' \in 0..MaxId /\ chainSeq' \in Nat /\ clock' \in 0..MaxClock
    BY <1>8, BoundsNat DEF RollbackTo, TypeOK
  <2>5. begun' \in [Txn -> 0..clock'] /\ rowId' \in [Txn -> 0..idSeq']
    BY <1>8, BoundsNat DEF RollbackTo, TypeOK
  <2>6. \A u \in Txn : savepoint'[u].rows \subseteq pending'[u]
    BY <1>8 DEF RollbackTo, TypeOK
  <2>7. \A u \in Txn : /\ status'[u] # "idle" => begun'[u] > 0
                      /\ status'[u] = "waiting" => rowId'[u] > 0
    BY <1>8, BoundsNat DEF RollbackTo, TypeOK
  <2> QED
    BY <1>8, <2>1, <2>2, <2>3, <2>4, <2>5, <2>6, <2>7 DEF RollbackTo, TypeOK
<1>9. ASSUME NEW t \in Txn, Commit(t) PROVE TypeOK'
  <2>1. \A r \in AllRows' : RowOK(r)'
    BY <1>9, BoundsNat, InAllRows DEF Commit, Finish, NoSavepoint, TypeOK, RowOK
  <2>2. pending' \in [Txn -> SUBSET AllRows']
    BY <1>9, InAllRows DEF Commit, Finish, NoSavepoint, TypeOK
  <2>3. savepoint' \in [Txn -> [set : BOOLEAN, rows : SUBSET AllRows', held : BOOLEAN]]
    BY <1>9, InAllRows DEF Commit, Finish, NoSavepoint, TypeOK
  <2>4. idSeq' \in 0..MaxId /\ chainSeq' \in Nat /\ clock' \in 0..MaxClock
    BY <1>9, BoundsNat DEF Commit, Finish, NoSavepoint, TypeOK
  <2>5. begun' \in [Txn -> 0..clock'] /\ rowId' \in [Txn -> 0..idSeq']
    BY <1>9, BoundsNat DEF Commit, Finish, NoSavepoint, TypeOK
  <2>6. \A u \in Txn : savepoint'[u].rows \subseteq pending'[u]
    BY <1>9 DEF Commit, Finish, NoSavepoint, TypeOK
  <2>7. \A u \in Txn : /\ status'[u] # "idle" => begun'[u] > 0
                      /\ status'[u] = "waiting" => rowId'[u] > 0
    BY <1>9, BoundsNat DEF Commit, Finish, NoSavepoint, TypeOK
  <2> QED
    BY <1>9, <2>1, <2>2, <2>3, <2>4, <2>5, <2>6, <2>7 DEF Commit, Finish, NoSavepoint, TypeOK
<1>10. ASSUME NEW t \in Txn, Abort(t) PROVE TypeOK'
  <2>1. \A r \in AllRows' : RowOK(r)'
    BY <1>10, BoundsNat, InAllRows DEF Abort, Finish, NoSavepoint, TypeOK, RowOK
  <2>2. pending' \in [Txn -> SUBSET AllRows']
    BY <1>10, InAllRows DEF Abort, Finish, NoSavepoint, TypeOK
  <2>3. savepoint' \in [Txn -> [set : BOOLEAN, rows : SUBSET AllRows', held : BOOLEAN]]
    BY <1>10, InAllRows DEF Abort, Finish, NoSavepoint, TypeOK
  <2>4. idSeq' \in 0..MaxId /\ chainSeq' \in Nat /\ clock' \in 0..MaxClock
    BY <1>10, BoundsNat DEF Abort, Finish, NoSavepoint, TypeOK
  <2>5. begun' \in [Txn -> 0..clock'] /\ rowId' \in [Txn -> 0..idSeq']
    BY <1>10, BoundsNat DEF Abort, Finish, NoSavepoint, TypeOK
  <2>6. \A u \in Txn : savepoint'[u].rows \subseteq pending'[u]
    BY <1>10 DEF Abort, Finish, NoSavepoint, TypeOK
  <2>7. \A u \in Txn : /\ status'[u] # "idle" => begun'[u] > 0
                      /\ status'[u] = "waiting" => rowId'[u] > 0
    BY <1>10, BoundsNat DEF Abort, Finish, NoSavepoint, TypeOK
  <2> QED
    BY <1>10, <2>1, <2>2, <2>3, <2>4, <2>5, <2>6, <2>7 DEF Abort, Finish, NoSavepoint, TypeOK
<1>11. CASE UNCHANGED vars
  <2>1. \A r \in AllRows' : RowOK(r)'
    BY <1>11, BoundsNat, InAllRows DEF vars, TypeOK, RowOK
  <2>2. pending' \in [Txn -> SUBSET AllRows']
    BY <1>11, InAllRows DEF vars, TypeOK
  <2>3. savepoint' \in [Txn -> [set : BOOLEAN, rows : SUBSET AllRows', held : BOOLEAN]]
    BY <1>11, InAllRows DEF vars, TypeOK
  <2>4. idSeq' \in 0..MaxId /\ chainSeq' \in Nat /\ clock' \in 0..MaxClock
    BY <1>11, BoundsNat DEF vars, TypeOK
  <2>5. begun' \in [Txn -> 0..clock'] /\ rowId' \in [Txn -> 0..idSeq']
    BY <1>11, BoundsNat DEF vars, TypeOK
  <2>6. \A u \in Txn : savepoint'[u].rows \subseteq pending'[u]
    BY <1>11 DEF vars, TypeOK
  <2>7. \A u \in Txn : /\ status'[u] # "idle" => begun'[u] > 0
                      /\ status'[u] = "waiting" => rowId'[u] > 0
    BY <1>11, BoundsNat DEF vars, TypeOK
  <2> QED
    BY <1>11, <2>1, <2>2, <2>3, <2>4, <2>5, <2>6, <2>7 DEF vars, TypeOK
<1> QED
  BY <1>1, <1>2, <1>3, <1>4, <1>5, <1>6, <1>7, <1>8, <1>9, <1>10, <1>11
  DEF Next, TxnStep

(***************************************************************************)
(* Type correctness: under Init and every step of the writers, rows carry  *)
(* only ids, times and chain_seq values that were drawn (audit trigger and *)
(* chain trigger).                                                         *)
(***************************************************************************)
THEOREM TypeCorrect == Spec => []TypeOK
<1>1. Init => TypeOK
  BY TypeInitially
<1>2. TypeOK /\ [Next]_vars => TypeOK'
  BY TypeKept
<1> QED
  BY <1>1, <1>2, PTL DEF Spec

------------------------------------------------------------------------------
(* Facts about sets of rows *)

(* The chained rows of a union.                                            *)
LEMMA ChainedUnion ==
    ASSUME NEW A, NEW B
    PROVE  /\ Chained(A \cup B) = Chained(A) \cup Chained(B)
           /\ Chained({}) = {}
BY DEF Chained

(* A link depends on the rows before alone.                                *)
LEMMA LinkedSame ==
    ASSUME NEW r, NEW A, NEW B, Before(r, A) = Before(r, B), LinkedTo(r, A)
    PROVE  LinkedTo(r, B)
BY DEF LinkedTo

(* Rows without a hash are not before any.                                 *)
LEMMA BeforeSame ==
    ASSUME NEW r, NEW A, NEW B, Chained(A) = Chained(B)
    PROVE  Before(r, A) = Before(r, B)
BY DEF Before

(* Rows that come later do not change what is before a row. *)
LEMMA BeforeLater ==
    ASSUME NEW A, NEW B, NEW r,
           r.chain_seq \in Int, \A q \in Chained(B) : q.chain_seq \in Int,
           \A q \in Chained(B) : r.chain_seq < q.chain_seq
    PROVE  Before(r, A \cup B) = Before(r, A)
BY DEF Before, Chained

(* The newest row of a set followed by another. *)
LEMMA NewestUnion ==
    ASSUME NEW A, NEW B,
           \A q \in A \cup B : q.chain_seq \in Int,
           HasNewest(Chained(A)), HasNewest(Chained(B)), Precedes(A, B)
    PROVE  HasNewest(Chained(A \cup B))
<1>0. Chained(A \cup B) = Chained(A) \cup Chained(B)
  BY DEF Chained
<1>1. CASE Chained(B) = {}
  <2>1. Chained(A \cup B) = Chained(A)
    BY <1>0, <1>1
  <2> QED
    BY <2>1
<1>2. CASE Chained(A) = {}
  <2>1. Chained(A \cup B) = Chained(B)
    BY <1>0, <1>2
  <2> QED
    BY <2>1
<1>3. CASE Chained(A) # {} /\ Chained(B) # {}
  <2>1. PICK p \in Chained(B) : IsNewest(p, Chained(B))
    BY <1>3 DEF HasNewest
  <2>2. \A q \in Chained(A) \cup Chained(B) : q.chain_seq <= p.chain_seq
    BY <2>1 DEF IsNewest, Precedes, Chained
  <2>3. IsNewest(p, Chained(A) \cup Chained(B))
    BY <2>1, <2>2 DEF IsNewest
  <2> QED
    BY <1>0, <2>1, <2>3 DEF HasNewest
<1> QED
  BY <1>1, <1>2, <1>3

(* The newest row of a set that has one.                                   *)
LEMMA NewestOfNonempty ==
    ASSUME NEW A, HasNewest(A), A # {}
    PROVE  IsNewest(Newest(A), A)
BY DEF HasNewest, Newest

(* Steps that leave rows, savepoints and the lock alone keep the chain.    *)
LEMMA ChainFrame ==
    ASSUME LockCoversUncommitted, SeqOrder, Newests, Links,
           UNCHANGED <<log, pending, savepoint, lock>>
    PROVE  LockCoversUncommitted' /\ SeqOrder' /\ Newests' /\ Links'
<1>1. LockCoversUncommitted'
  BY DEF LockCoversUncommitted
<1>2. SeqOrder'
  BY DEF SeqOrder
<1>3. Newests'
  BY DEF Newests
<1>4. Links'
  BY DEF Links
<1> QED
  BY <1>1, <1>2, <1>3, <1>4

(* The numbers of the rows are drawn.                                      *)
LEMMA RowFacts ==
    ASSUME TypeOK
    PROVE  /\ \A r \in log : r.chain_seq \in Nat /\ r.chain_seq <= chainSeq /\ r.id \in Nat
           /\ \A t \in Txn : \A r \in pending[t] :
                 r.chain_seq \in Nat /\ r.chain_seq <= chainSeq /\ r.id \in Nat
           /\ chainSeq \in Nat /\ idSeq \in Nat
<1>1. \A r \in AllRows : r.chain_seq \in 0..chainSeq /\ r.id \in 1..idSeq
  BY DEF TypeOK, RowOK
<1>2. chainSeq \in Nat /\ idSeq \in Nat
  BY BoundsNat DEF TypeOK
<1> QED
  BY <1>1, <1>2, InAllRows

------------------------------------------------------------------------------
(* One lemma per action that moves rows or the lock. *)

(* The trigger runs under the lock, so nobody else has chained rows that   *)
(* are not committed, and the new row follows everything it can see.       *)
LEMMA ChainKeeps ==
    ASSUME TypeOK, ChainInv, NEW t \in Txn, Chain(t),
           Isolation = "read_committed"
    PROVE  LockCoversUncommitted' /\ SeqOrder' /\ Newests' /\ Links'
<1> DEFINE seen == log \cup pending[t]
           next == chainSeq + 1
           before == {q \in Chained(seen) : q.chain_seq < next}
           new == ChainedRow(rowId[t], begun[t], zone[t], next, before)
           mine == pending[t] \cup {new}
<1>1. /\ pending' = [pending EXCEPT ![t] = mine]
      /\ log' = log /\ savepoint' = savepoint /\ lock' = t
      /\ lock = NoTxn \/ lock = t
  BY DEF Chain, TriggerBody, Visible
<1>2. /\ pending'[t] = mine
      /\ \A u \in Txn : u # t => pending'[u] = pending[u]
  BY <1>1 DEF TypeOK
<1>3. /\ \A q \in seen : q.chain_seq \in Nat /\ q.chain_seq < next
      /\ next \in Nat /\ next > 0
  <2>1. chainSeq \in Nat
    BY RowFacts
  <2>2. \A q \in seen : q.chain_seq \in Nat /\ q.chain_seq <= chainSeq
    BY RowFacts
  <2> QED
    BY <2>1, <2>2
<1>4. \A u \in Txn : u # t => Chained(pending[u]) = {} /\ ~ savepoint[u].held
  BY <1>1, NoTxnOutside DEF ChainInv, LockCoversUncommitted
<1>5. /\ new.chain_seq = next
      /\ new.prev_hash = PrevHash(before)
      /\ new.row_hash # NoHash
      /\ \E z \in Zone :
            new.row_hash = RowHash(new.id, new.changed_at, z, new.content,
                                   PrevHash(before), PrevSeq(before))
  BY DEF TypeOK, ChainedRow, RowHash, Digest, NoHash
<1>6. before = Chained(seen)
  BY <1>3 DEF Chained
<1>7. HasNewest(Chained(seen))
  <2>1. /\ HasNewest(Chained(log)) /\ HasNewest(Chained(pending[t]))
        /\ Precedes(log, pending[t])
    BY DEF ChainInv, Newests, SeqOrder
  <2>2. \A q \in log \cup pending[t] : q.chain_seq \in Int
    BY <1>3
  <2> QED
    BY <2>1, <2>2, NewestUnion
<1> HIDE DEF new
<1>8. Chained(mine) = Chained(pending[t]) \cup {new}
  BY <1>5 DEF Chained
<1>9. Chained(log \cup mine) = Chained(seen) \cup {new}
  BY <1>8, ChainedUnion DEF Chained
<1>10. LockCoversUncommitted'
  BY <1>1, <1>2, <1>4 DEF ChainInv, LockCoversUncommitted
<1>11. SeqOrder'
  <2>1. Precedes(log, mine)
    BY <1>3, <1>5, <1>8 DEF ChainInv, SeqOrder, Precedes, Chained
  <2>2. Precedes(savepoint[t].rows, mine \ savepoint[t].rows)
    <3>1. \A r \in Chained(savepoint[t].rows) : r.chain_seq < next
      BY <1>3 DEF TypeOK, Chained
    <3>2. \A q \in Chained(mine \ savepoint[t].rows) :
             q = new \/ q \in Chained(pending[t] \ savepoint[t].rows)
      BY DEF Chained
    <3> QED
      BY <1>5, <3>1, <3>2 DEF ChainInv, SeqOrder, Precedes
  <2> QED
    BY <1>1, <1>2, <2>1, <2>2 DEF ChainInv, SeqOrder
<1>12. Newests'
  <2>1. \A q \in Chained(mine) : q.chain_seq <= new.chain_seq
    <3>1. \A q \in Chained(pending[t]) : q.chain_seq \in Nat /\ q.chain_seq < next
      BY <1>3 DEF Chained
    <3> HIDE DEF next
    <3> QED
      BY <3>1, <1>3, <1>5, <1>8
  <2>2. HasNewest(Chained(mine))
    BY <2>1, <1>8 DEF HasNewest, IsNewest
  <2> QED
    BY <1>1, <1>2, <2>2 DEF ChainInv, Newests
<1>13. Links'
  <2>1. \A r \in Chained(log) : LinkedTo(r, log)
    BY DEF ChainInv, Links
  <2>2. LinkedTo(new, log \cup mine)
    <3>1. Before(new, log \cup mine) = before
      <4>1. \A q \in Chained(seen) : q.chain_seq \in Nat /\ q.chain_seq < next
        BY <1>3 DEF Chained
      <4>2. Before(new, log \cup mine) =
              {q \in Chained(seen) \cup {new} : q.chain_seq < new.chain_seq}
        BY <1>9 DEF Before
      <4>3. new.chain_seq = next /\ next \in Nat
        BY <1>3, <1>5
      <4> HIDE DEF next, seen, before
      <4>4. ~ (new.chain_seq < new.chain_seq)
        BY <4>3
      <4>5. \A q \in Chained(seen) : q.chain_seq < new.chain_seq
        BY <4>1, <4>3
      <4>6. Before(new, log \cup mine) = Chained(seen)
        BY <4>2, <4>4, <4>5
      <4> QED
        BY <4>6, <1>6
    <3> QED
      BY <3>1, <1>5, <1>6, <1>7 DEF LinkedTo
  <2>3. ASSUME NEW r \in Chained(pending[t]) PROVE LinkedTo(r, log \cup mine)
    <3>1. LinkedTo(r, seen)
      BY DEF ChainInv, Links
    <3>2. r.chain_seq \in Nat /\ r.chain_seq < next
      BY <1>3 DEF Chained
    <3>3. Before(r, log \cup mine) = Before(r, seen)
      <4>1. Before(r, log \cup mine) =
              {q \in Chained(seen) \cup {new} : q.chain_seq < r.chain_seq}
        BY <1>9 DEF Before
      <4>2. ~ (new.chain_seq < r.chain_seq)
        <5> HIDE DEF next
        <5> QED
          BY <1>3, <1>5, <3>2
      <4> QED
        BY <4>1, <4>2 DEF Before
    <3> QED
      BY <3>1, <3>3, LinkedSame
  <2> QED
    BY <1>1, <1>2, <1>4, <1>8, <2>1, <2>2, <2>3 DEF Links
<1> QED
  BY <1>10, <1>11, <1>12, <1>13

(* A row inserted while the chain is off is in no chain. *)
LEMMA UnchainedKeeps ==
    ASSUME TypeOK, ChainInv, NEW t \in Txn, Unchained(t)
    PROVE  LockCoversUncommitted' /\ SeqOrder' /\ Newests' /\ Links'
<1> DEFINE new == PlainRow(rowId[t], begun[t])
           mine == pending[t] \cup {new}
<1>1. /\ pending' = [pending EXCEPT ![t] = mine]
      /\ log' = log /\ savepoint' = savepoint /\ lock' = lock
  BY DEF Unchained
<1>2. /\ pending'[t] = mine
      /\ \A u \in Txn : u # t => pending'[u] = pending[u]
  BY <1>1 DEF TypeOK
<1>3. new.row_hash = NoHash
  BY DEF PlainRow
<1> HIDE DEF new
<1>4. /\ Chained(mine) = Chained(pending[t])
      /\ Chained(log \cup mine) = Chained(log \cup pending[t])
      /\ Chained(mine \ savepoint[t].rows) = Chained(pending[t] \ savepoint[t].rows)
  BY <1>3 DEF Chained
<1>5. LockCoversUncommitted'
  BY <1>1, <1>2, <1>4 DEF ChainInv, LockCoversUncommitted
<1>6. SeqOrder'
  BY <1>1, <1>2, <1>4 DEF ChainInv, SeqOrder, Precedes
<1>7. Newests'
  BY <1>1, <1>2, <1>4 DEF ChainInv, Newests
<1>8. ASSUME NEW r \in Chained(mine) PROVE LinkedTo(r, log \cup mine)
  BY <1>4, BeforeSame, LinkedSame DEF ChainInv, Links
<1>9. Links'
  BY <1>1, <1>2, <1>8 DEF ChainInv, Links
<1> QED
  BY <1>5, <1>6, <1>7, <1>9

(* A savepoint remembers what was written and locked.                      *)
LEMMA SavepointKeeps ==
    ASSUME TypeOK, ChainInv, NEW t \in Txn, Savepoint(t)
    PROVE  LockCoversUncommitted' /\ SeqOrder' /\ Newests' /\ Links'
<1>1. /\ pending' = pending /\ log' = log /\ lock' = lock
      /\ savepoint'[t].rows = pending[t]
      /\ savepoint'[t].held <=> lock = t
      /\ \A u \in Txn : u # t => savepoint'[u] = savepoint[u]
  BY DEF Savepoint, TypeOK
<1>2. Chained(pending[t] \ pending[t]) = {}
  BY DEF Chained
<1>3. LockCoversUncommitted'
  BY <1>1 DEF ChainInv, LockCoversUncommitted
<1>4. SeqOrder'
  BY <1>1, <1>2 DEF ChainInv, SeqOrder, Precedes
<1>5. Newests'
  BY <1>1 DEF ChainInv, Newests
<1>6. Links'
  BY <1>1 DEF ChainInv, Links
<1> QED
  BY <1>3, <1>4, <1>5, <1>6

(* Rolling back to the savepoint drops the newest uncommitted rows.        *)
LEMMA RollbackToKeeps ==
    ASSUME TypeOK, ChainInv, NEW t \in Txn, RollbackTo(t)
    PROVE  LockCoversUncommitted' /\ SeqOrder' /\ Newests' /\ Links'
<1> DEFINE kept == savepoint[t].rows
           dropped == pending[t] \ kept
<1>1. /\ log' = log /\ savepoint' = savepoint
      /\ pending'[t] = kept
      /\ \A u \in Txn : u # t => pending'[u] = pending[u]
      /\ lock' = IF lock = t /\ ~ savepoint[t].held THEN NoTxn ELSE lock
  BY DEF RollbackTo, TypeOK
<1>2. kept \subseteq pending[t] /\ pending[t] = kept \cup dropped
  BY DEF TypeOK
<1>3. LockCoversUncommitted'
  BY <1>1 DEF ChainInv, LockCoversUncommitted
<1>4. SeqOrder'
  <2>1. Precedes(log, kept)
    BY <1>2 DEF ChainInv, SeqOrder, Precedes, Chained
  <2>2. Precedes(kept, kept \ kept)
    BY DEF Precedes, Chained
  <2> QED
    BY <1>1, <2>1, <2>2 DEF ChainInv, SeqOrder
<1>5. Newests'
  BY <1>1 DEF ChainInv, Newests
<1>6. ASSUME NEW r \in Chained(kept) PROVE LinkedTo(r, log \cup kept)
  <2>1. LinkedTo(r, log \cup pending[t])
    BY <1>2 DEF ChainInv, Links, Chained
  <2>2. /\ r.chain_seq \in Nat
        /\ \A q \in Chained(dropped) : q.chain_seq \in Nat
    BY <1>2, RowFacts DEF Chained
  <2>3. \A q \in Chained(dropped) : r.chain_seq < q.chain_seq
    BY DEF ChainInv, SeqOrder, Precedes
  <2>4. (log \cup kept) \cup dropped = log \cup pending[t]
    BY <1>2
  <2> HIDE DEF kept, dropped
  <2>5. Before(r, (log \cup kept) \cup dropped) = Before(r, log \cup kept)
    BY <2>2, <2>3, BeforeLater
  <2> QED
    BY <2>1, <2>4, <2>5, LinkedSame
<1>7. Links'
  BY <1>1, <1>6 DEF ChainInv, Links
<1> QED
  BY <1>3, <1>4, <1>5, <1>7

(* A commit appends: nothing uncommitted is left but its own rows.         *)
LEMMA CommitKeeps ==
    ASSUME TypeOK, ChainInv, NEW t \in Txn, Commit(t)
    PROVE  LockCoversUncommitted' /\ SeqOrder' /\ Newests' /\ Links'
<1>1. /\ log' = log \cup pending[t]
      /\ pending'[t] = {} /\ savepoint'[t] = NoSavepoint
      /\ \A u \in Txn : u # t => pending'[u] = pending[u] /\ savepoint'[u] = savepoint[u]
      /\ lock' = IF lock = t THEN NoTxn ELSE lock
  BY DEF Commit, Finish, TypeOK
<1>2. NoSavepoint.rows = {} /\ ~ NoSavepoint.held /\ Chained({}) = {}
  BY DEF NoSavepoint, Chained
<1>3. ASSUME NEW u \in Txn, u # t
      PROVE  Chained(pending[u]) = {} \/ Chained(log') = Chained(log)
  <2>1. Chained(pending[u]) = {} \/ Chained(pending[t]) = {}
    BY <1>3 DEF ChainInv, LockCoversUncommitted
  <2>2. Chained(log') = Chained(log) \cup Chained(pending[t])
    BY <1>1 DEF Chained
  <2> QED
    BY <2>1, <2>2
<1>4. LockCoversUncommitted'
  BY <1>1, <1>2 DEF ChainInv, LockCoversUncommitted
<1>5. SeqOrder'
  <2>1. ASSUME NEW u \in Txn, u # t PROVE Precedes(log', pending[u])
    BY <1>3, <2>1 DEF ChainInv, SeqOrder, Precedes
  <2>2. Precedes(log', {}) /\ Precedes({}, {} \ {})
    BY DEF Precedes, Chained
  <2> QED
    BY <1>1, <1>2, <2>1, <2>2 DEF ChainInv, SeqOrder
<1>6. Newests'
  <2>1. HasNewest(Chained(log'))
    <3>1. /\ HasNewest(Chained(log)) /\ HasNewest(Chained(pending[t]))
          /\ Precedes(log, pending[t])
      BY DEF ChainInv, Newests, SeqOrder
    <3>2. \A q \in log \cup pending[t] : q.chain_seq \in Int
      BY RowFacts
    <3> QED
      BY <1>1, <3>1, <3>2, NewestUnion
  <2>2. HasNewest(Chained({}))
    BY <1>2 DEF HasNewest
  <2> QED
    BY <1>1, <1>2, <2>1, <2>2 DEF ChainInv, Newests
<1>7. Links'
  <2>1. ASSUME NEW r \in Chained(log') PROVE LinkedTo(r, log')
    <3>1. CASE r \in Chained(pending[t])
      BY <1>1, <3>1 DEF ChainInv, Links
    <3>2. CASE r \in Chained(log)
      <4>1. LinkedTo(r, log)
        BY <3>2 DEF ChainInv, Links
      <4>2. /\ r.chain_seq \in Nat
            /\ \A q \in Chained(pending[t]) : q.chain_seq \in Nat
        BY <3>2, RowFacts DEF Chained
      <4>3. \A q \in Chained(pending[t]) : r.chain_seq < q.chain_seq
        BY <3>2 DEF ChainInv, SeqOrder, Precedes
      <4>4. Before(r, log \cup pending[t]) = Before(r, log)
        BY <4>2, <4>3, BeforeLater
      <4> QED
        BY <1>1, <4>1, <4>4, LinkedSame
    <3> QED
      BY <1>1, <3>1, <3>2, ChainedUnion
  <2>2. ASSUME NEW u \in Txn, u # t, NEW r \in Chained(pending[u])
        PROVE  LinkedTo(r, log' \cup pending[u])
    <3>1. Chained(log') = Chained(log)
      BY <1>3, <2>2
    <3>2. Chained(log \cup pending[u]) = Chained(log' \cup pending[u])
      BY <3>1 DEF Chained
    <3>3. LinkedTo(r, log \cup pending[u])
      BY DEF ChainInv, Links
    <3> QED
      BY <3>2, <3>3, BeforeSame, LinkedSame
  <2> QED
    BY <1>1, <1>2, <2>1, <2>2 DEF Links
<1> QED
  BY <1>4, <1>5, <1>6, <1>7

(* An abort forgets what was not committed.                                *)
LEMMA AbortKeeps ==
    ASSUME TypeOK, ChainInv, NEW t \in Txn, Abort(t)
    PROVE  LockCoversUncommitted' /\ SeqOrder' /\ Newests' /\ Links'
<1>1. /\ log' = log
      /\ pending'[t] = {} /\ savepoint'[t] = NoSavepoint
      /\ \A u \in Txn : u # t => pending'[u] = pending[u] /\ savepoint'[u] = savepoint[u]
      /\ lock' = IF lock = t THEN NoTxn ELSE lock
  BY DEF Abort, Finish, TypeOK
<1>2. NoSavepoint.rows = {} /\ ~ NoSavepoint.held /\ Chained({}) = {}
  BY DEF NoSavepoint, Chained
<1>3. LockCoversUncommitted'
  BY <1>1, <1>2 DEF ChainInv, LockCoversUncommitted
<1>4. SeqOrder'
  <2>1. Precedes(log, {}) /\ Precedes({}, {} \ {})
    BY DEF Precedes, Chained
  <2> QED
    BY <1>1, <1>2, <2>1 DEF ChainInv, SeqOrder
<1>5. Newests'
  <2>1. HasNewest(Chained({}))
    BY <1>2 DEF HasNewest
  <2> QED
    BY <1>1, <1>2, <2>1 DEF ChainInv, Newests
<1>6. Links'
  BY <1>1, <1>2 DEF ChainInv, Links
<1> QED
  BY <1>3, <1>4, <1>5, <1>6

(* Ids are drawn from a sequence, so a waiting INSERT owns its id. *)
LEMMA IdsKeep ==
    ASSUME TypeOK, IdsUnique, NEW t \in Txn, TxnStep(t)
    PROVE  IdsUnique'
<1>1. \A r \in AllRows : r.id \in Nat /\ r.id <= idSeq
  <2>1. \A r \in AllRows : r.id \in 1..idSeq
    BY DEF TypeOK, RowOK
  <2> QED
    BY <2>1, RowFacts
<1>2. \A u \in Txn : rowId[u] \in Nat /\ rowId[u] <= idSeq
  BY RowFacts DEF TypeOK
<1>3. CASE Begin(t)
  BY <1>3 DEF Begin, IdsUnique, AllRows, TypeOK
<1>4. CASE Insert(t)
  <2>1. /\ idSeq \in Nat /\ rowId'[t] = idSeq + 1
        /\ \A u \in Txn : u # t => rowId'[u] = rowId[u] /\ status'[u] = status[u]
        /\ AllRows' = AllRows
    BY <1>4, RowFacts DEF Insert, TypeOK, AllRows
  <2> QED
    BY <2>1, <1>1, <1>2 DEF IdsUnique
<1>5. ASSUME NEW new, new.id = rowId[t], status[t] = "waiting",
             pending' = [pending EXCEPT ![t] = @ \cup {new}], log' = log,
             status' = [status EXCEPT ![t] = "open"], rowId' = rowId
      PROVE  IdsUnique'
  <2>1. \A r \in AllRows' : r \in AllRows \/ r = new
    BY <1>5, InAllRows DEF TypeOK
  <2>2. \A u \in Txn : status'[u] = "waiting" => status[u] = "waiting" /\ u # t
    BY <1>5 DEF TypeOK
  <2> QED
    BY <1>5, <2>1, <2>2 DEF IdsUnique
<1>6. CASE Chain(t)
  <2>1. PICK before : pending' = [pending EXCEPT ![t] = @ \cup
             {ChainedRow(rowId[t], begun[t], zone[t], chainSeq', before)}]
    BY <1>6 DEF Chain, TriggerBody
  <2>2. ChainedRow(rowId[t], begun[t], zone[t], chainSeq', before).id = rowId[t]
    BY DEF ChainedRow
  <2> QED
    BY <1>5, <1>6, <2>1, <2>2 DEF Chain, TriggerBody
<1>7. CASE Unchained(t)
  <2>1. PlainRow(rowId[t], begun[t]).id = rowId[t]
    BY DEF PlainRow
  <2> QED
    BY <1>5, <1>7, <2>1 DEF Unchained
<1>8. CASE Savepoint(t)
  BY <1>8 DEF Savepoint, IdsUnique, AllRows
<1>9. ASSUME AllRows' \subseteq AllRows, rowId' = rowId,
             \A u \in Txn : status'[u] = "waiting" => status[u] = "waiting"
      PROVE  IdsUnique'
  BY <1>9 DEF IdsUnique
<1>10. CASE RollbackTo(t)
  <2>1. AllRows' \subseteq AllRows
    BY <1>10, InAllRows DEF RollbackTo, TypeOK
  <2> QED
    BY <1>9, <1>10, <2>1 DEF RollbackTo, TypeOK
<1>11. CASE Commit(t)
  <2>1. AllRows' \subseteq AllRows
    BY <1>11, InAllRows DEF Commit, Finish, TypeOK
  <2> QED
    BY <1>9, <1>11, <2>1 DEF Commit, Finish, TypeOK
<1>12. CASE Abort(t)
  <2>1. AllRows' \subseteq AllRows
    BY <1>12, InAllRows DEF Abort, Finish, TypeOK
  <2> QED
    BY <1>9, <1>12, <2>1 DEF Abort, Finish, TypeOK
<1> QED
  BY <1>3, <1>4, <1>6, <1>7, <1>8, <1>10, <1>11, <1>12 DEF TxnStep

(* The log only grows, so a captured tip stays in it. *)
LEMMA AnchorKeeps ==
    ASSUME AnchorPresent, log \subseteq log', anchor' = anchor
    PROVE  AnchorPresent'
BY DEF AnchorPresent

(***************************************************************************)
(* The inductive invariant: under READ COMMITTED every row is chained to   *)
(* the newest row before it, committed rows first.                         *)
(***************************************************************************)
THEOREM ChainInvariant ==
    ASSUME Isolation = "read_committed"
    PROVE  Spec => []ChainInv
<1>1. Init => ChainInv
  <2> SUFFICES ASSUME Init PROVE ChainInv
    OBVIOUS
  <2>1. /\ log = {} /\ Chained({}) = {} /\ AllRows = {}
        /\ \A t \in Txn : /\ pending[t] = {} /\ savepoint[t].rows = {}
                          /\ ~ savepoint[t].held /\ status[t] = "idle"
    BY DEF Init, NoSavepoint, Chained, AllRows
  <2>2. LockCoversUncommitted
    BY <2>1 DEF LockCoversUncommitted
  <2>3. SeqOrder
    BY <2>1 DEF SeqOrder, Precedes, Chained
  <2>4. Newests /\ Links
    BY <2>1 DEF Newests, Links, HasNewest
  <2>5. IdsUnique /\ AnchorPresent
    BY <2>1 DEF IdsUnique, AnchorPresent, Init
  <2> QED
    BY <2>2, <2>3, <2>4, <2>5 DEF ChainInv
<1>2. TypeOK /\ ChainInv /\ [Next]_vars => ChainInv'
  <2> SUFFICES ASSUME TypeOK, ChainInv, [Next]_vars PROVE ChainInv'
    OBVIOUS
  <2>1. CASE Enable \/ UNCHANGED vars
    <3>1. UNCHANGED <<log, pending, savepoint, lock, status, rowId, anchor>>
      BY <2>1 DEF Enable, vars
    <3>2. IdsUnique' /\ AnchorPresent'
      BY <3>1 DEF ChainInv, IdsUnique, AnchorPresent, AllRows
    <3> QED
      BY <3>1, <3>2, ChainFrame DEF ChainInv
  <2>2. CASE CaptureTip
    <3>1. UNCHANGED <<log, pending, savepoint, lock, status, rowId>>
      BY <2>2 DEF CaptureTip
    <3>2. IdsUnique'
      BY <3>1 DEF ChainInv, IdsUnique, AllRows
    <3>3. AnchorPresent'
      <4>1. CASE Chained(log) = {}
        BY <2>2, <4>1 DEF CaptureTip, Tip, AnchorPresent
      <4>2. CASE Chained(log) # {}
        <5>1. Newest(Chained(log)) \in Chained(log)
          BY <4>2, NewestOfNonempty DEF ChainInv, Newests, IsNewest
        <5>2. /\ anchor'.id = Newest(Chained(log)).id
              /\ anchor'.row_hash = Newest(Chained(log)).row_hash
          BY <2>2, <4>2 DEF CaptureTip, Tip
        <5> QED
          BY <3>1, <5>1, <5>2 DEF AnchorPresent, Chained
      <4> QED
        BY <4>1, <4>2
    <3> QED
      BY <3>1, <3>2, <3>3, ChainFrame DEF ChainInv
  <2>3. ASSUME NEW t \in Txn, TxnStep(t) PROVE ChainInv'
    <3>1. IdsUnique'
      BY <2>3, IdsKeep DEF ChainInv
    <3>2. AnchorPresent'
      BY <2>3, AnchorKeeps DEF ChainInv, TxnStep, Begin, Insert, Chain, TriggerBody,
         Unchained, Savepoint, RollbackTo, Commit, Abort, Finish
    <3>3. CASE Begin(t) \/ Insert(t)
      BY <3>1, <3>2, <3>3, ChainFrame DEF ChainInv, Begin, Insert
    <3> QED
      BY <2>3, <3>1, <3>2, <3>3, ChainKeeps, UnchainedKeeps, SavepointKeeps,
         RollbackToKeeps, CommitKeeps, AbortKeeps DEF ChainInv, TxnStep
  <2> QED
    BY <2>1, <2>2, <2>3 DEF Next
<1> QED
  BY <1>1, <1>2, TypeCorrect, PTL DEF Spec

(***************************************************************************)
(* verify_chain never accuses an untouched log, whatever the interleaving  *)
(* of commits, aborts and savepoint rollbacks: under READ COMMITTED, and   *)
(* with one TimeZone for writers and verifier.                             *)
(***************************************************************************)
THEOREM VerifyIsSound ==
    ASSUME Isolation = "read_committed", \A y, z \in Zone : y = z
    PROVE  Spec => []NoFalseAlarm
<1>1. TypeOK /\ ChainInv => NoFalseAlarm
  <2> SUFFICES ASSUME TypeOK, ChainInv, NEW z \in Zone
               PROVE  VerifyChain(log, anchor, z)
    BY DEF NoFalseAlarm
  <2>1. ASSUME NEW r \in Chained(log) PROVE ~ Broken(r, log, z)
    <3>1. LinkedTo(r, log)
      BY DEF ChainInv, Links
    <3> QED
      BY <3>1 DEF LinkedTo, Broken
  <2>2. ~ TipBroken(log, anchor)
    <3>1. CASE anchor = NoAnchor
      BY <3>1 DEF TipBroken
    <3>2. CASE anchor # NoAnchor
      <4>1. PICK r \in log : r.id = anchor.id /\ r.row_hash = anchor.row_hash
        BY <3>2 DEF ChainInv, AnchorPresent
      <4>2. \A s \in log : s.id = anchor.id => s = r
        BY <4>1, InAllRows DEF ChainInv, IdsUnique
      <4>3. ~ (r.id < anchor.id)
        BY <4>1, RowFacts
      <4> QED
        BY <4>1, <4>2, <4>3 DEF TipBroken
    <3> QED
      BY <3>1, <3>2
  <2> QED
    BY <2>1, <2>2 DEF VerifyChain
<1> QED
  BY <1>1, TypeCorrect, ChainInvariant, PTL

(* The fields of an entry.                                                 *)
LEMMA EntryFields ==
    \A r : /\ Entry(r).seq = r.chain_seq
           /\ Entry(r).prev = r.prev_hash
           /\ Entry(r).hash = r.row_hash
BY DEF Entry

(* Linked rows are linked entries. *)
LEMMA LinksGiveLinked ==
    ASSUME NEW rows, \A r \in Chained(rows) : LinkedTo(r, rows)
    PROVE  Abstract!Linked({Entry(r) : r \in Chained(rows)})
<1> DEFINE C == {Entry(r) : r \in Chained(rows)}
<1> SUFFICES ASSUME NEW r \in Chained(rows)
             PROVE  \/ Abstract!Preceding(C, Entry(r)) = {} /\ Entry(r).prev = NoHash
                    \/ \E d \in Abstract!Preceding(C, Entry(r)) :
                          /\ Entry(r).prev = d.hash
                          /\ \A c \in Abstract!Preceding(C, Entry(r)) : c.seq <= d.seq
  BY DEF Abstract!Linked
<1>1. Abstract!Preceding(C, Entry(r)) = {Entry(q) : q \in Before(r, rows)}
  BY EntryFields DEF Abstract!Preceding, Before
<1>2. LinkedTo(r, rows)
  OBVIOUS
<1>3. CASE Before(r, rows) = {}
  BY <1>1, <1>2, <1>3, EntryFields DEF LinkedTo, PrevHash
<1>4. CASE Before(r, rows) # {}
  <2> DEFINE p == Newest(Before(r, rows))
  <2>1. IsNewest(p, Before(r, rows))
    BY <1>2, <1>4, NewestOfNonempty DEF LinkedTo
  <2>2. Entry(r).prev = Entry(p).hash
    BY <1>2, <1>4, EntryFields DEF LinkedTo, PrevHash
  <2> QED
    BY <1>1, <2>1, <2>2, EntryFields DEF IsNewest
<1> QED
  BY <1>3, <1>4

(***************************************************************************)
(* The trigger implements the append-only log: a committed chain only ever *)
(* grows at its end, by linked rows.                                       *)
(***************************************************************************)
THEOREM ImplementsAppendOnlyLog ==
    ASSUME Isolation = "read_committed"
    PROVE  Spec => AppendsOnly
<1> DEFINE bar == {Entry(r) : r \in Chained(log)}
<1>1. Init => Abstract!Init
  BY DEF Init, Abstract!Init, Chained
<1>2. TypeOK /\ ChainInv /\ ChainInv' /\ [Next]_vars => [Abstract!Append]_bar
  <2> SUFFICES ASSUME TypeOK, ChainInv, ChainInv', [Next]_vars, bar' # bar
               PROVE  Abstract!Append
    OBVIOUS
  <2>1. PICK t \in Txn : log' = log \cup pending[t]
    <3>1. log' # log
      OBVIOUS
    <3> QED
      BY <3>1 DEF Next, TxnStep, vars, Enable, CaptureTip, Begin, Insert, Chain,
         TriggerBody, Unchained, Savepoint, RollbackTo, Abort, Commit
  <2>2. bar \subseteq bar'
    BY <2>1 DEF Chained
  <2>3. \A e \in bar' \ bar : \A d \in bar : d.seq < e.seq
    <3> SUFFICES ASSUME NEW r \in Chained(log'), Entry(r) \notin bar, NEW q \in Chained(log)
                 PROVE  Entry(q).seq < Entry(r).seq
      OBVIOUS
    <3>1. r \in Chained(pending[t])
      BY <2>1 DEF Chained
    <3> QED
      BY <3>1, EntryFields DEF ChainInv, SeqOrder, Precedes
  <2>4. Abstract!Linked(bar')
    <3>1. \A r \in Chained(log') : LinkedTo(r, log')
      BY DEF ChainInv, Links
    <3> QED
      BY <3>1, LinksGiveLinked
  <2> QED
    BY <2>2, <2>3, <2>4 DEF Abstract!Append
<1> QED
  BY <1>1, <1>2, TypeCorrect, ChainInvariant, PTL DEF Spec, AppendsOnly, Abstract!Spec

------------------------------------------------------------------------------
(* The chain under retention and an operator who bypasses the triggers.    *)
(* Links, the tip and the order of the log are lost; what the digests were *)
(* computed over is not.                                                   *)

(* The predecessor's chain_seq that the digest of a row was computed over. *)
PrevSeqOf(r) == r.row_hash[2][5]

(* The columns of the audit table that the chain reads or writes. *)
Columns == {"id", "changed_at", "content", "chain_seq", "prev_hash", "row_hash"}
Records == \A r \in AllRows : DOMAIN r = Columns

(* A chain_seq is drawn once, for one row. *)
SeqsUnique == \A r, q \in Chained(AllRows) : r.chain_seq = q.chain_seq => r = q

(* A row is committed or pending in one transaction. *)
Apart ==
    \A t \in Txn : /\ log \cap pending[t] = {}
                   /\ \A u \in Txn : u # t => pending[u] \cap pending[t] = {}

(* Every digest was computed over the content as the application wrote it. *)
Sealed == \A r \in Chained(AllRows) : r.row_hash[2][3] = "written"

(* ... and over a predecessor no earlier than any row still there. *)
Follows ==
    \A q, r \in Chained(AllRows) :
        q.chain_seq < r.chain_seq => q.chain_seq <= PrevSeqOf(r)

(* The id of the stored tip is that of no row with another chain_seq. *)
AnchorOwned ==
    \/ anchor = NoAnchor
    \/ /\ anchor.chain_seq \in 1..chainSeq /\ anchor.id \in 1..idSeq
       /\ \A r \in AllRows : r.id = anchor.id => r.chain_seq = anchor.chain_seq
       /\ \A t \in Txn : status[t] = "waiting" => rowId[t] # anchor.id

(* A damaged chain_seq never comes back, and the rows up to the anchor that *)
(* came after it were hashed over it or over a later row.                   *)
DamageShows ==
    \A s \in damaged :
        /\ s \in 1..chainSeq
        /\ \A r \in AllRows : r.chain_seq = s => r.content = "rewritten"
        /\ \A r \in Chained(AllRows) :
              (s < r.chain_seq /\ r.chain_seq <= anchor.chain_seq) => s <= PrevSeqOf(r)

TamperInv ==
    /\ LockCoversUncommitted /\ IdsUnique /\ SeqsUnique /\ Apart
    /\ Records /\ Sealed /\ Follows /\ AnchorOwned /\ DamageShows

(* What is drawn from the two sequences. *)
LEMMA TamperRows ==
    ASSUME TypeOK
    PROVE  /\ \A r \in AllRows : /\ r.chain_seq \in Nat /\ r.chain_seq <= chainSeq
                                 /\ r.id \in Nat /\ 1 <= r.id /\ r.id <= idSeq
                                 /\ r.row_hash # NoHash <=> r.chain_seq > 0
           /\ chainSeq \in Nat /\ idSeq \in Nat
           /\ \A r \in Chained(AllRows) : r \in AllRows /\ r.chain_seq \in Nat
                                          /\ 1 <= r.chain_seq /\ r.chain_seq <= chainSeq
<1>1. chainSeq \in Nat /\ idSeq \in Nat
  BY BoundsNat DEF TypeOK
<1>2. \A r \in AllRows : r.chain_seq \in 0..chainSeq /\ r.id \in 1..idSeq
                         /\ (r.row_hash # NoHash <=> r.chain_seq > 0)
  BY DEF TypeOK, RowOK
<1>3. \A r \in Chained(AllRows) : r \in AllRows /\ r.row_hash # NoHash
  BY DEF Chained
<1> QED
  BY <1>1, <1>2, <1>3

(* Steps that take rows away and draw nothing keep what is said of rows. *)
LEMMA FewerRows ==
    ASSUME TypeOK, TamperInv, AllRows' \subseteq AllRows,
           UNCHANGED <<anchor, damaged, chainSeq>>, idSeq' = idSeq,
           \A u \in Txn : status'[u] = "waiting" => status[u] = "waiting",
           rowId' = rowId
    PROVE  /\ IdsUnique' /\ SeqsUnique' /\ Records' /\ Sealed' /\ Follows'
           /\ AnchorOwned' /\ DamageShows'
<1>1. Chained(AllRows') \subseteq Chained(AllRows)
  BY DEF Chained
<1>2. IdsUnique'
  BY DEF TamperInv, IdsUnique
<1>3. SeqsUnique'
  BY <1>1 DEF TamperInv, SeqsUnique
<1>4. Sealed'
  BY <1>1 DEF TamperInv, Sealed
<1>5. Follows'
  BY <1>1 DEF TamperInv, Follows
<1>6. AnchorOwned'
  BY DEF TamperInv, AnchorOwned
<1>7. DamageShows'
  BY <1>1 DEF TamperInv, DamageShows
<1>8. Records'
  BY DEF TamperInv, Records
<1> QED
  BY <1>2, <1>3, <1>4, <1>5, <1>6, <1>7, <1>8

(* A row with an id of its own, chained after every other row or not at    *)
(* all, keeps them.                                                        *)
LEMMA OneMoreRow ==
    ASSUME TypeOK, TamperInv, NEW new,
           \A r \in AllRows' : r \in AllRows \/ r = new,
           UNCHANGED <<anchor, damaged>>, chainSeq' \in Nat, chainSeq <= chainSeq',
           idSeq' = idSeq,
           \A u \in Txn : status'[u] = "waiting" => status[u] = "waiting",
           rowId' = rowId,
           DOMAIN new = Columns, anchor # NoAnchor => new.id # anchor.id,
           \/ new.row_hash = NoHash /\ new.chain_seq = 0
           \/ /\ new.row_hash # NoHash /\ new.chain_seq = chainSeq + 1
              /\ chainSeq' = chainSeq + 1
              /\ new.row_hash[2][3] = "written"
              /\ \A r \in Chained(AllRows) : r.chain_seq <= PrevSeqOf(new)
    PROVE  SeqsUnique' /\ Records' /\ Sealed' /\ Follows' /\ AnchorOwned' /\ DamageShows'
<1> USE TamperRows
<1>0. \A r \in Chained(AllRows)' : r \in Chained(AllRows) \/ (r = new /\ r.row_hash # NoHash)
  BY DEF Chained
<1>1. SeqsUnique'
  BY <1>0 DEF TamperInv, SeqsUnique
<1>2. Sealed'
  BY <1>0 DEF TamperInv, Sealed
<1>3. Follows'
  BY <1>0 DEF TamperInv, Follows
<1>4. AnchorOwned'
  BY DEF TamperInv, AnchorOwned
<1>5. DamageShows'
  <2> SUFFICES ASSUME NEW s \in damaged
               PROVE  /\ s \in 1..chainSeq'
                      /\ \A r \in AllRows' : r.chain_seq = s => r.content = "rewritten"
                      /\ \A r \in Chained(AllRows)' :
                            (s < r.chain_seq /\ r.chain_seq <= anchor.chain_seq) => s <= PrevSeqOf(r)
    BY DEF DamageShows
  <2>1. /\ s \in Nat /\ 1 <= s /\ s <= chainSeq
        /\ \A r \in AllRows : r.chain_seq = s => r.content = "rewritten"
        /\ \A r \in Chained(AllRows) :
                            (s < r.chain_seq /\ r.chain_seq <= anchor.chain_seq) => s <= PrevSeqOf(r)
    BY DEF TamperInv, DamageShows
  <2>2. anchor.chain_seq \in Nat /\ anchor.chain_seq <= chainSeq
    BY DEF TamperInv, AnchorOwned, NoAnchor
  <2>3. s \in 1..chainSeq'
    BY <2>1
  <2>4. \A r \in AllRows' : r.chain_seq = s => r.content = "rewritten"
    BY <2>1
  <2>5. \A r \in Chained(AllRows)' :
            (s < r.chain_seq /\ r.chain_seq <= anchor.chain_seq) => s <= PrevSeqOf(r)
    BY <1>0, <2>1, <2>2
  <2> QED
    BY <2>3, <2>4, <2>5
<1>6. Records'
  BY DEF TamperInv, Records
<1> QED
  BY <1>1, <1>2, <1>3, <1>4, <1>5, <1>6

(* Uncommitted chained rows belong to the holder of the lock, whatever     *)
(* happens to the committed ones.                                          *)
LEMMA LockKept ==
    ASSUME TypeOK, LockCoversUncommitted, NEW t \in Txn, TxnStep(t)
    PROVE  LockCoversUncommitted'
<1>0. Chained({}) = {} /\ NoSavepoint.rows = {} /\ NoSavepoint.held = FALSE /\ t # NoTxn
  BY NoTxnOutside DEF Chained, NoSavepoint
<1>1. CASE Begin(t) \/ Insert(t)
  BY <1>1 DEF Begin, Insert, LockCoversUncommitted
<1>2. CASE Chain(t)
  <2>1. /\ \A u \in Txn : u # t => pending'[u] = pending[u]
        /\ savepoint' = savepoint /\ lock' = t /\ lock \in {NoTxn, t}
    BY <1>2 DEF Chain, TriggerBody, TypeOK
  <2> QED
    BY <2>1, NoTxnOutside DEF LockCoversUncommitted
<1>3. CASE Unchained(t)
  <2>1. /\ pending'[t] = pending[t] \cup {PlainRow(rowId[t], begun[t])}
        /\ \A u \in Txn : u # t => pending'[u] = pending[u]
        /\ savepoint' = savepoint /\ lock' = lock
    BY <1>3 DEF Unchained, TypeOK
  <2>2. Chained(pending'[t]) = Chained(pending[t])
    BY <2>1 DEF Chained, PlainRow
  <2> QED
    BY <2>1, <2>2 DEF LockCoversUncommitted
<1>4. CASE Savepoint(t)
  <2>1. /\ savepoint'[t] = [set |-> TRUE, rows |-> pending[t], held |-> lock = t]
        /\ \A u \in Txn : u # t => savepoint'[u] = savepoint[u]
        /\ pending' = pending /\ lock' = lock
    BY <1>4 DEF Savepoint, TypeOK
  <2>2. savepoint'[t].rows = pending[t] /\ savepoint'[t].held = (lock = t)
    BY <2>1
  <2>3. \A u \in Txn : u # t => savepoint'[u].rows = savepoint[u].rows
                                /\ savepoint'[u].held = savepoint[u].held
    BY <2>1
  <2> QED
    BY <2>1, <2>2, <2>3 DEF LockCoversUncommitted
<1>5. CASE RollbackTo(t)
  <2>1. /\ pending'[t] = savepoint[t].rows
        /\ \A u \in Txn : u # t => pending'[u] = pending[u]
        /\ savepoint' = savepoint
        /\ lock' = IF lock = t /\ ~ savepoint[t].held THEN NoTxn ELSE lock
    BY <1>5 DEF RollbackTo, TypeOK
  <2> QED
    BY <2>1 DEF LockCoversUncommitted
<1>6. CASE Commit(t) \/ Abort(t)
  <2>1. /\ pending'[t] = {} /\ savepoint'[t] = NoSavepoint
        /\ \A u \in Txn : u # t => pending'[u] = pending[u] /\ savepoint'[u] = savepoint[u]
        /\ lock' = IF lock = t THEN NoTxn ELSE lock
    BY <1>6 DEF Commit, Abort, Finish, TypeOK
  <2> QED
    BY <1>0, <2>1 DEF LockCoversUncommitted
<1> QED
  BY <1>1, <1>2, <1>3, <1>4, <1>5, <1>6 DEF TxnStep

(* A row stays where it is, or moves from its transaction to the log.      *)
LEMMA ApartKept ==
    ASSUME TypeOK, IdsUnique, Apart, NEW t \in Txn, TxnStep(t)
    PROVE  Apart'
<1>1. CASE Begin(t) \/ Insert(t) \/ Savepoint(t)
  BY <1>1 DEF Begin, Insert, Savepoint, Apart
<1>2. ASSUME NEW new, new.id = rowId[t], status[t] = "waiting",
             pending' = [pending EXCEPT ![t] = @ \cup {new}], log' = log
      PROVE  Apart'
  <2>1. new \notin AllRows
    BY <1>2 DEF IdsUnique
  <2>2. new \notin log /\ \A u \in Txn : new \notin pending[u]
    BY <2>1, InAllRows
  <2>3. /\ pending'[t] = pending[t] \cup {new}
        /\ \A u \in Txn : u # t => pending'[u] = pending[u]
    BY <1>2 DEF TypeOK
  <2> QED
    BY <1>2, <2>2, <2>3 DEF Apart
<1>3. CASE Chain(t)
  <2>1. PICK before : pending' = [pending EXCEPT ![t] = @ \cup
             {ChainedRow(rowId[t], begun[t], zone[t], chainSeq', before)}]
    BY <1>3 DEF Chain, TriggerBody
  <2>2. ChainedRow(rowId[t], begun[t], zone[t], chainSeq', before).id = rowId[t]
    BY DEF ChainedRow
  <2> QED
    BY <1>2, <1>3, <2>1, <2>2 DEF Chain, TriggerBody
<1>4. CASE Unchained(t)
  <2>1. PlainRow(rowId[t], begun[t]).id = rowId[t]
    BY DEF PlainRow
  <2> QED
    BY <1>2, <1>4, <2>1 DEF Unchained
<1>5. CASE RollbackTo(t)
  <2>1. /\ pending'[t] \subseteq pending[t] /\ log' = log
        /\ \A u \in Txn : u # t => pending'[u] = pending[u]
    BY <1>5 DEF RollbackTo, TypeOK
  <2> QED
    BY <2>1 DEF Apart
<1>6. CASE Commit(t) \/ Abort(t)
  <2>1. /\ pending'[t] = {} /\ log' \subseteq log \cup pending[t]
        /\ \A u \in Txn : u # t => pending'[u] = pending[u]
    BY <1>6 DEF Commit, Abort, Finish, TypeOK
  <2> QED
    BY <2>1 DEF Apart
<1> QED
  BY <1>1, <1>3, <1>4, <1>5, <1>6 DEF TxnStep

(* The newest row of rows whose chain_seq are numbers up to a bound. *)
LEMMA NewestOf ==
    ASSUME NEW S, S # {}, NEW n \in Nat,
           \A r \in S : r.chain_seq \in Nat /\ r.chain_seq <= n
    PROVE  Newest(S) \in S /\ \A r \in S : r.chain_seq <= Newest(S).chain_seq
<1> DEFINE seqs == {k \in Nat : \E r \in S : k = r.chain_seq}
<1>1. seqs # {} /\ \A k \in seqs : k <= n
  OBVIOUS
<1>2. PICK k \in seqs : \A m \in seqs : m <= k
  <2> HIDE DEF seqs
  <2>1. seqs \subseteq Nat
    BY DEF seqs
  <2> QED
    BY <1>1, <2>1, Greatest
<1>3. PICK p \in S : k = p.chain_seq
  OBVIOUS
<1>4. IsNewest(p, S)
  BY <1>2, <1>3 DEF IsNewest
<1> QED
  BY <1>4 DEF Newest, IsNewest

(* The row the chain trigger writes is sealed and follows every row.       *)
LEMMA ChainSeals ==
    ASSUME TypeOK, TamperInv, NEW t \in Txn, Chain(t), Isolation = "read_committed"
    PROVE  \E new : /\ pending' = [pending EXCEPT ![t] = @ \cup {new}]
                    /\ new.id = rowId[t] /\ new.row_hash # NoHash
                    /\ new.chain_seq = chainSeq + 1 /\ DOMAIN new = Columns
                    /\ new.row_hash[2][3] = "written"
                    /\ \A r \in Chained(AllRows) : r.chain_seq <= PrevSeqOf(new)
<1> DEFINE before == {q \in Chained(Visible(t)) : q.chain_seq < chainSeq'}
           new == ChainedRow(rowId[t], begun[t], zone[t], chainSeq', before)
<1>1. pending' = [pending EXCEPT ![t] = @ \cup {new}] /\ chainSeq' = chainSeq + 1
  BY DEF Chain, TriggerBody
<1>2. before = Chained(AllRows)
  <2>1. \A u \in Txn : u # t => Chained(pending[u]) = {}
    BY NoTxnOutside DEF Chain, TriggerBody, TamperInv, LockCoversUncommitted
  <2>2. \A r : r \in Chained(Visible(t)) <=> r \in Chained(AllRows)
    BY <2>1, InAllRows DEF Visible, Chained
  <2>3. \A r \in Chained(AllRows) : r.chain_seq < chainSeq'
    BY <1>1, TamperRows
  <2> QED
    BY <2>2, <2>3
<1>3. \A r \in before : r.chain_seq <= PrevSeq(before)
  <2> SUFFICES ASSUME before # {} PROVE \A r \in before : r.chain_seq <= Newest(before).chain_seq
    BY DEF PrevSeq
  <2>1. chainSeq \in Nat /\ \A r \in before : r.chain_seq \in Nat /\ r.chain_seq <= chainSeq
    BY <1>2, TamperRows
  <2> HIDE DEF before
  <2> QED
    BY <2>1, NewestOf
<1> HIDE DEF before
<1>4. /\ new.id = rowId[t] /\ new.chain_seq = chainSeq'
      /\ new.row_hash = <<"sha256", <<rowId[t], <<begun[t], zone[t]>>, "written",
                                      PrevHash(before), PrevSeq(before)>> >>
  BY DEF ChainedRow, RowHash, Digest
<1>5. /\ new.row_hash # NoHash /\ new.row_hash[2][3] = "written"
      /\ PrevSeqOf(new) = PrevSeq(before)
  <2> HIDE DEF new
  <2> QED
    BY <1>4 DEF NoHash, PrevSeqOf
<1>6. \A r \in Chained(AllRows) : r.chain_seq <= PrevSeqOf(new)
  <2> HIDE DEF new
  <2> QED
    BY <1>2, <1>3, <1>5
<1>7. DOMAIN new = Columns
  BY DEF ChainedRow, Columns
<1> HIDE DEF new
<1> QED
  BY <1>1, <1>4, <1>5, <1>6, <1>7

(* Every step of a transaction keeps the invariant.                        *)
LEMMA TxnKeepsTamperInv ==
    ASSUME TypeOK, TamperInv, NEW t \in Txn, TxnStep(t), Isolation = "read_committed"
    PROVE  TamperInv'
<1>1. LockCoversUncommitted' /\ IdsUnique' /\ Apart'
  BY LockKept, IdsKeep, ApartKept DEF TamperInv
<1>2. SUFFICES SeqsUnique' /\ Records' /\ Sealed' /\ Follows' /\ AnchorOwned' /\ DamageShows'
  BY <1>1 DEF TamperInv
<1>3. chainSeq \in Nat /\ idSeq \in Nat
  BY TamperRows
<1>4. CASE Begin(t) \/ Savepoint(t)
  <2>1. /\ AllRows' = AllRows /\ UNCHANGED <<anchor, damaged, chainSeq, idSeq, rowId>>
        /\ \A u \in Txn : status'[u] = "waiting" => status[u] = "waiting"
    BY <1>4 DEF Begin, Savepoint, AllRows, TypeOK
  <2> QED
    BY <2>1, FewerRows
<1>5. CASE Insert(t)
  <2>1. /\ AllRows' = AllRows /\ UNCHANGED <<anchor, damaged, chainSeq>>
        /\ idSeq' = idSeq + 1 /\ rowId'[t] = idSeq + 1
        /\ \A u \in Txn : u # t => rowId'[u] = rowId[u] /\ status'[u] = status[u]
    BY <1>5 DEF Insert, AllRows, TypeOK
  <2>2. SeqsUnique' /\ Records' /\ Sealed' /\ Follows' /\ DamageShows'
    BY <2>1 DEF TamperInv, SeqsUnique, Records, Sealed, Follows, DamageShows
  <2>3. AnchorOwned'
    BY <1>3, <2>1 DEF TamperInv, AnchorOwned
  <2> QED
    BY <2>2, <2>3
<1>6. CASE Chain(t)
  <2>1. PICK new :
            /\ pending' = [pending EXCEPT ![t] = @ \cup {new}]
            /\ new.id = rowId[t] /\ new.row_hash # NoHash
            /\ new.chain_seq = chainSeq + 1 /\ DOMAIN new = Columns
            /\ new.row_hash[2][3] = "written"
            /\ \A r \in Chained(AllRows) : r.chain_seq <= PrevSeqOf(new)
    BY <1>6, ChainSeals
  <2>2. /\ UNCHANGED <<anchor, damaged, idSeq, rowId, log>> /\ chainSeq' = chainSeq + 1
        /\ status[t] = "waiting"
        /\ \A u \in Txn : status'[u] = "waiting" => status[u] = "waiting"
    BY <1>6 DEF Chain, TriggerBody, TypeOK
  <2>3. \A r \in AllRows' : r \in AllRows \/ r = new
    BY <2>1, <2>2, InAllRows DEF TypeOK
  <2>4. anchor # NoAnchor => new.id # anchor.id
    BY <2>1, <2>2 DEF TamperInv, AnchorOwned
  <2>5. chainSeq' \in Nat /\ chainSeq <= chainSeq'
    BY <1>3, <2>2
  <2> QED
    BY <2>1, <2>2, <2>3, <2>4, <2>5, OneMoreRow
<1>7. CASE Unchained(t)
  <2> DEFINE new == PlainRow(rowId[t], begun[t])
  <2>1. /\ new.id = rowId[t] /\ new.row_hash = NoHash /\ new.chain_seq = 0
        /\ DOMAIN new = Columns
    BY DEF PlainRow, Columns
  <2>2. /\ UNCHANGED <<anchor, damaged, idSeq, rowId, log, chainSeq>>
        /\ pending' = [pending EXCEPT ![t] = @ \cup {new}]
        /\ status[t] = "waiting"
        /\ \A u \in Txn : status'[u] = "waiting" => status[u] = "waiting"
    BY <1>7 DEF Unchained, TypeOK
  <2> HIDE DEF new
  <2>3. \A r \in AllRows' : r \in AllRows \/ r = new
    BY <2>2, InAllRows DEF TypeOK
  <2>4. anchor # NoAnchor => new.id # anchor.id
    BY <2>1, <2>2 DEF TamperInv, AnchorOwned
  <2>5. chainSeq' \in Nat /\ chainSeq <= chainSeq'
    BY <1>3, <2>2
  <2> QED
    BY <2>1, <2>2, <2>3, <2>4, <2>5, OneMoreRow
<1>8. CASE RollbackTo(t) \/ Commit(t) \/ Abort(t)
  <2>1. AllRows' \subseteq AllRows
    BY <1>8, InAllRows DEF RollbackTo, Commit, Abort, Finish, TypeOK
  <2>2. /\ UNCHANGED <<anchor, damaged, chainSeq, idSeq, rowId>>
        /\ \A u \in Txn : status'[u] = "waiting" => status[u] = "waiting"
    BY <1>8 DEF RollbackTo, Commit, Abort, Finish, TypeOK
  <2> QED
    BY <2>1, <2>2, FewerRows
<1> QED
  BY <1>4, <1>5, <1>6, <1>7, <1>8 DEF TxnStep

(* A stored tip is the id and chain_seq of a committed row.                *)
LEMMA TipRow ==
    ASSUME TypeOK
    PROVE  \/ Tip(log) = NoAnchor
           \/ \E r \in Chained(log) : /\ Tip(log).id = r.id
                                      /\ Tip(log).chain_seq = r.chain_seq
<1>1. \A r \in Chained(log) : r \in Chained(AllRows)
  BY InAllRows DEF Chained
<1>2. CASE Chained(log) # {}
  <2>1. Newest(Chained(log)) \in Chained(log)
    <3>1. chainSeq \in Nat /\ \A r \in Chained(log) : r.chain_seq \in Nat /\ r.chain_seq <= chainSeq
      BY <1>1, TamperRows
    <3> QED
      BY <1>2, <3>1, NewestOf
  <2> QED
    BY <1>2, <2>1 DEF Tip
<1> QED
  BY <1>2 DEF Tip

(* Enabling the chain and storing its tip keep the invariant.              *)
LEMMA SteadyKeepsTamperInv ==
    ASSUME TypeOK, TamperInv, Enable \/ CaptureTip \/ UNCHANGED vars
    PROVE  TamperInv'
<1>1. CASE Enable \/ UNCHANGED vars
  <2>1. /\ AllRows' \subseteq AllRows
        /\ UNCHANGED <<anchor, damaged, chainSeq, idSeq, rowId, status, log, pending, savepoint, lock>>
    BY <1>1 DEF Enable, vars, AllRows
  <2>2. LockCoversUncommitted' /\ Apart'
    BY <2>1 DEF TamperInv, LockCoversUncommitted, Apart
  <2> QED
    BY <2>1, <2>2, FewerRows DEF TamperInv
<1>2. CASE CaptureTip
  <2>1. /\ AllRows' = AllRows /\ anchor' = Tip(log) /\ damaged' = {}
        /\ UNCHANGED <<chainSeq, idSeq, rowId, status, log, pending, savepoint, lock>>
    BY <1>2 DEF CaptureTip, AllRows
  <2>2. /\ LockCoversUncommitted' /\ Apart' /\ IdsUnique' /\ SeqsUnique'
        /\ Records' /\ Sealed' /\ Follows'
    BY <2>1
    DEF TamperInv, LockCoversUncommitted, Apart, IdsUnique, SeqsUnique, Records, Sealed, Follows
  <2>3. DamageShows'
    BY <2>1 DEF DamageShows
  <2>4. AnchorOwned'
    <3>1. CASE Tip(log) = NoAnchor
      BY <2>1, <3>1 DEF AnchorOwned
    <3>2. ASSUME NEW p \in Chained(log), Tip(log).id = p.id, Tip(log).chain_seq = p.chain_seq
          PROVE  AnchorOwned'
      <4>1. p \in AllRows /\ p \in Chained(AllRows)
        BY InAllRows DEF Chained
      <4>2. anchor'.chain_seq \in 1..chainSeq' /\ anchor'.id \in 1..idSeq'
        BY <2>1, <3>2, <4>1, TamperRows
      <4>3. \A r \in AllRows' : r.id = anchor'.id => r.chain_seq = anchor'.chain_seq
        BY <2>1, <3>2, <4>1 DEF TamperInv, IdsUnique
      <4>4. \A t \in Txn : status'[t] = "waiting" => rowId'[t] # anchor'.id
        BY <2>1, <3>2, <4>1 DEF TamperInv, IdsUnique
      <4> QED
        BY <4>2, <4>3, <4>4 DEF AnchorOwned
    <3> QED
      BY <3>1, <3>2, TipRow
  <2> QED
    BY <2>2, <2>3, <2>4 DEF TamperInv
<1> QED
  BY <1>1, <1>2

(* Rows taken out of the log are damage that shows: nobody else has their  *)
(* chain_seq, and the rows after them were hashed over them or later ones. *)
LEMMA LoseKeeps ==
    ASSUME TypeOK, TamperInv, NEW rows, rows \subseteq log, Lose(rows)
    PROVE  TypeOK' /\ TamperInv'
<1>1. /\ log' = log \ rows
      /\ UNCHANGED <<enabled, pending, savepoint, status, begun, zone, snapshot,
                     rowId, lock, idSeq, chainSeq, clock, anchor>>
  BY DEF Lose
<1>2. damaged' = damaged \cup {r.chain_seq : r \in Chained(rows)}
  BY DEF Lose
<1>3. AllRows' \subseteq AllRows /\ \A u \in Txn : pending[u] \subseteq AllRows'
  BY <1>1, InAllRows
<1>4. TypeOK'
  <2>1. \A r \in AllRows' : RowOK(r)'
    BY <1>1, <1>3 DEF TypeOK, RowOK
  <2>2. pending' \in [Txn -> SUBSET AllRows']
    BY <1>1, <1>3 DEF TypeOK
  <2>3. savepoint' \in [Txn -> [set : BOOLEAN, rows : SUBSET AllRows', held : BOOLEAN]]
    <3> SUFFICES ASSUME NEW u \in Txn
                 PROVE  savepoint[u] \in [set : BOOLEAN, rows : SUBSET AllRows', held : BOOLEAN]
      BY <1>1 DEF TypeOK
    <3>1. /\ savepoint[u] \in [set : BOOLEAN, rows : SUBSET AllRows, held : BOOLEAN]
          /\ savepoint[u].rows \subseteq AllRows'
      BY <1>3 DEF TypeOK
    <3> QED
      BY <3>1
  <2> QED
    BY <1>1, <2>1, <2>2, <2>3 DEF TypeOK
<1>5. LockCoversUncommitted' /\ Apart'
  BY <1>1 DEF TamperInv, LockCoversUncommitted, Apart
<1>6. Chained(AllRows') \subseteq Chained(AllRows)
  BY <1>3 DEF Chained
<1>7. IdsUnique' /\ Records' /\ AnchorOwned'
  BY <1>1, <1>3 DEF TamperInv, IdsUnique, Records, AnchorOwned
<1>8. SeqsUnique' /\ Sealed' /\ Follows'
  BY <1>6 DEF TamperInv, SeqsUnique, Sealed, Follows
<1>9. DamageShows'
  <2> SUFFICES ASSUME NEW s \in damaged'
               PROVE  /\ s \in 1..chainSeq
                      /\ \A r \in AllRows' : r.chain_seq = s => r.content = "rewritten"
                      /\ \A r \in Chained(AllRows') :
                            (s < r.chain_seq /\ r.chain_seq <= anchor.chain_seq) => s <= PrevSeqOf(r)
    BY <1>1 DEF DamageShows
  <2>1. CASE s \in damaged
    BY <1>3, <1>6, <2>1 DEF TamperInv, DamageShows
  <2>2. ASSUME NEW p \in Chained(rows), s = p.chain_seq
        PROVE  /\ s \in 1..chainSeq
               /\ \A r \in AllRows' : r.chain_seq # s
               /\ \A r \in Chained(AllRows') : s < r.chain_seq => s <= PrevSeqOf(r)
    <3>1. p \in Chained(AllRows) /\ p \in rows /\ p \in log
      BY InAllRows DEF Chained
    <3>2. p \notin AllRows'
      BY <1>1, <3>1, InAllRows DEF TamperInv, Apart
    <3>3. s \in 1..chainSeq
      BY <2>2, <3>1, TamperRows
    <3>4. ASSUME NEW r \in AllRows', r.chain_seq = s PROVE FALSE
      <4>1. r \in Chained(AllRows)
        BY <1>3, <3>3, <3>4, TamperRows DEF Chained
      <4> QED
        BY <2>2, <3>1, <3>2, <3>4, <4>1 DEF TamperInv, SeqsUnique
    <3>5. \A r \in Chained(AllRows') : s < r.chain_seq => s <= PrevSeqOf(r)
      BY <1>6, <2>2, <3>1 DEF TamperInv, Follows
    <3> QED
      BY <3>3, <3>4, <3>5
  <2> QED
    BY <1>2, <2>1, <2>2
<1> QED
  BY <1>4, <1>5, <1>7, <1>8, <1>9 DEF TamperInv

(* A row rewritten in place keeps its id, its place in the chain and its   *)
(* digest, and no other row has them.                                      *)
LEMMA RewriteKeeps ==
    ASSUME TypeOK, TamperInv, NEW p \in log, Rewrite(p)
    PROVE  TypeOK' /\ TamperInv'
<1> DEFINE new == [p EXCEPT !.content = "rewritten"]
<1>1. /\ log' = (log \ {p}) \cup {new}
      /\ UNCHANGED <<enabled, pending, savepoint, status, begun, zone, snapshot,
                     rowId, lock, idSeq, chainSeq, clock, anchor>>
  BY DEF Rewrite
<1>2. damaged' = damaged \cup {r.chain_seq : r \in Chained({p})}
  BY DEF Rewrite
<1>3. p \in AllRows /\ DOMAIN p = Columns /\ RowOK(p)
  BY InAllRows DEF TamperInv, Records, TypeOK
<1>4. /\ new.id = p.id /\ new.changed_at = p.changed_at /\ new.content = "rewritten"
      /\ new.chain_seq = p.chain_seq /\ new.prev_hash = p.prev_hash
      /\ new.row_hash = p.row_hash /\ DOMAIN new = Columns
  BY <1>3 DEF Columns
<1> HIDE DEF new
<1>5. /\ \A r \in AllRows' : r \in AllRows \/ r = new
      /\ \A u \in Txn : pending[u] \subseteq AllRows'
      /\ new \in AllRows'
  BY <1>1, InAllRows
<1>6. \A r \in AllRows' : r # new => r # p
  BY <1>1, InAllRows DEF TamperInv, Apart
<1>7. TypeOK'
  <2>1. \A r \in AllRows' : RowOK(r)'
    <3>1. \A r \in AllRows : RowOK(r)'
      BY <1>1 DEF TypeOK, RowOK
    <3>2. RowOK(new)'
      BY <1>1, <1>3, <1>4 DEF RowOK
    <3> QED
      BY <1>5, <3>1, <3>2
  <2>2. pending' \in [Txn -> SUBSET AllRows']
    BY <1>1, <1>5 DEF TypeOK
  <2>3. savepoint' \in [Txn -> [set : BOOLEAN, rows : SUBSET AllRows', held : BOOLEAN]]
    <3> SUFFICES ASSUME NEW u \in Txn
                 PROVE  savepoint[u] \in [set : BOOLEAN, rows : SUBSET AllRows', held : BOOLEAN]
      BY <1>1 DEF TypeOK
    <3>1. /\ savepoint[u] \in [set : BOOLEAN, rows : SUBSET AllRows, held : BOOLEAN]
          /\ savepoint[u].rows \subseteq AllRows'
      BY <1>5 DEF TypeOK
    <3> QED
      BY <3>1
  <2> QED
    BY <1>1, <2>1, <2>2, <2>3 DEF TypeOK
<1>8. IdsUnique'
  <2>1. \A r, q \in AllRows' : r.id = q.id => r = q
    <3>1. \A r \in AllRows' : r # new => r.id # new.id
      BY <1>3, <1>4, <1>5, <1>6 DEF TamperInv, IdsUnique
    <3> QED
      BY <1>5, <3>1 DEF TamperInv, IdsUnique
  <2>2. \A t \in Txn : status[t] = "waiting" => \A r \in AllRows' : r.id # rowId[t]
    BY <1>3, <1>4, <1>5 DEF TamperInv, IdsUnique
  <2> QED
    BY <1>1, <2>1, <2>2 DEF TamperInv, IdsUnique
<1>9. LockCoversUncommitted' /\ Records'
  BY <1>1, <1>4, <1>5 DEF TamperInv, LockCoversUncommitted, Records
<1>10. Apart'
  <2>1. \A u \in Txn : new \notin pending[u]
    <3> SUFFICES ASSUME NEW u \in Txn, new \in pending[u] PROVE FALSE
      OBVIOUS
    <3>1. new \in AllRows
      BY InAllRows
    <3>2. new = p
      BY <1>3, <1>4, <3>1 DEF TamperInv, IdsUnique
    <3> QED
      BY <3>2 DEF TamperInv, Apart
  <2> QED
    BY <1>1, <2>1 DEF TamperInv, Apart
<1>11. \A r \in Chained(AllRows') : \/ r \in Chained(AllRows) /\ r # p
                                    \/ r = new /\ p \in Chained(AllRows)
  BY <1>3, <1>4, <1>5, <1>6 DEF Chained
<1>12. PrevSeqOf(new) = PrevSeqOf(p)
  BY <1>4 DEF PrevSeqOf
<1>13. SeqsUnique'
  BY <1>4, <1>11 DEF TamperInv, SeqsUnique
<1>14. Sealed' /\ Follows'
  <2>1. Sealed'
    BY <1>4, <1>11 DEF TamperInv, Sealed
  <2>2. Follows'
    BY <1>4, <1>11, <1>12 DEF TamperInv, Follows
  <2> QED
    BY <2>1, <2>2
<1>15. AnchorOwned'
  BY <1>1, <1>3, <1>4, <1>5 DEF TamperInv, AnchorOwned
<1>16. DamageShows'
  <2> SUFFICES ASSUME NEW s \in damaged'
               PROVE  /\ s \in 1..chainSeq
                      /\ \A r \in AllRows' : r.chain_seq = s => r.content = "rewritten"
                      /\ \A r \in Chained(AllRows') :
                            (s < r.chain_seq /\ r.chain_seq <= anchor.chain_seq) => s <= PrevSeqOf(r)
    BY <1>1 DEF DamageShows
  <2>1. CASE s \in damaged
    BY <1>4, <1>5, <1>11, <1>12, <2>1 DEF TamperInv, DamageShows
  <2>2. CASE p \in Chained(AllRows) /\ s = p.chain_seq
    <3>1. s \in 1..chainSeq
      BY <2>2, TamperRows
    <3>2. \A r \in AllRows' : r.chain_seq = s => r = new
      <4> SUFFICES ASSUME NEW r \in AllRows, r.chain_seq = s PROVE r = p
        BY <1>5, <1>6
      <4>1. r \in Chained(AllRows)
        BY <3>1, TamperRows DEF Chained
      <4> QED
        BY <2>2, <4>1 DEF TamperInv, SeqsUnique
    <3>3. \A r \in Chained(AllRows') : s < r.chain_seq => s <= PrevSeqOf(r)
      BY <1>4, <1>11, <1>12, <2>2 DEF TamperInv, Follows
    <3> QED
      BY <1>4, <3>1, <3>2, <3>3
  <2>3. s \in damaged \/ (p \in Chained(AllRows) /\ s = p.chain_seq)
    BY <1>2, <1>3 DEF Chained
  <2> QED
    BY <2>1, <2>2, <2>3
<1> QED
  BY <1>7, <1>8, <1>9, <1>10, <1>13, <1>14, <1>15, <1>16 DEF TamperInv

(* The tampered log, when the chain trigger runs under READ COMMITTED:     *)
(* whatever is purged, erased or rewritten and whenever the tip is stored, *)
(* the digests still tell what they were computed over.                    *)
THEOREM TamperInvariant ==
    ASSUME Isolation = "read_committed"
    PROVE  TamperSpec => [](TypeOK /\ TamperInv)
<1>1. Init => TypeOK /\ TamperInv
  <2> SUFFICES ASSUME Init PROVE TypeOK /\ TamperInv
    OBVIOUS
  <2>1. AllRows = {} /\ Chained({}) = {}
    BY DEF Init, AllRows, Chained
  <2>2. TypeOK
    BY TypeInitially
  <2>3. LockCoversUncommitted
    BY <2>1 DEF Init, LockCoversUncommitted, NoSavepoint
  <2>4. /\ IdsUnique /\ SeqsUnique /\ Apart /\ Records /\ Sealed /\ Follows
        /\ AnchorOwned /\ DamageShows
    BY <2>1 DEF Init, IdsUnique, SeqsUnique, Apart, Records, Sealed, Follows,
                AnchorOwned, DamageShows
  <2> QED
    BY <2>2, <2>3, <2>4 DEF TamperInv
<1>2. TypeOK /\ TamperInv /\ [Next \/ PurgeStep \/ TamperStep]_vars => (TypeOK /\ TamperInv)'
  <2> SUFFICES ASSUME TypeOK, TamperInv, [Next \/ PurgeStep \/ TamperStep]_vars
               PROVE  TypeOK' /\ TamperInv'
    OBVIOUS
  <2>1. CASE [Next]_vars
    <3>1. TypeOK'
      BY <2>1, TypeKept
    <3>2. TamperInv'
      BY <2>1, TxnKeepsTamperInv, SteadyKeepsTamperInv DEF Next
    <3> QED
      BY <3>1, <3>2
  <2>2. ASSUME NEW cutoff \in 1..MaxClock, Purge(cutoff) PROVE TypeOK' /\ TamperInv'
    <3> DEFINE old == {r \in log : r.changed_at < cutoff}
    <3>1. old \subseteq log /\ Lose(old)
      BY <2>2 DEF Purge
    <3> HIDE DEF old
    <3> QED
      BY <3>1, LoseKeeps
  <2>3. ASSUME NEW r \in log, Erase(r) PROVE TypeOK' /\ TamperInv'
    <3>1. {r} \subseteq log /\ Lose({r})
      BY <2>3 DEF Erase
    <3> QED
      BY <3>1, LoseKeeps
  <2>4. ASSUME NEW r \in log, Rewrite(r) PROVE TypeOK' /\ TamperInv'
    BY <2>4, RewriteKeeps
  <2> QED
    BY <2>1, <2>2, <2>3, <2>4 DEF PurgeStep, TamperStep
<1> QED
  BY <1>1, <1>2, PTL DEF TamperSpec

(* A row whose content is not what its digest was computed over is broken. *)
LEMMA RewrittenIsBroken ==
    ASSUME TypeOK, TamperInv, NEW r \in Chained(log), r.content = "rewritten", NEW z
    PROVE  Broken(r, log, z)
<1>1. r.row_hash[2][3] = "written"
  BY InAllRows DEF TamperInv, Sealed, Chained
<1> DEFINE hash == RowHash(r.id, r.changed_at, z, r.content,
                           PrevHash(Before(r, log)), PrevSeq(Before(r, log)))
<1>2. hash[2][3] = r.content
  BY DEF RowHash, Digest
<1> HIDE DEF hash
<1>3. r.row_hash # hash
  BY <1>1, <1>2
<1> QED
  BY <1>3 DEF Broken, hash

(***************************************************************************)
(* A row rewritten in place is found by verify_chain without any anchor,   *)
(* wherever it is and whatever was purged, erased or committed since.      *)
(***************************************************************************)
THEOREM RewritesAreFound ==
    ASSUME Isolation = "read_committed"
    PROVE  TamperSpec => []RewriteEvident
<1>1. TypeOK /\ TamperInv => RewriteEvident
  BY RewrittenIsBroken DEF RewriteEvident, VerifyChain
<1> QED
  BY <1>1, TamperInvariant, PTL

(***************************************************************************)
(* Damage up to the stored tip is always found: the first row left after   *)
(* the damaged one was hashed over it or a later row, and no such row is   *)
(* before it any more.                                                     *)
(***************************************************************************)
THEOREM DamageIsFound ==
    ASSUME Isolation = "read_committed"
    PROVE  TamperSpec => []TamperEvident
<1>1. TypeOK /\ TamperInv => TamperEvident
  <2> SUFFICES ASSUME TypeOK, TamperInv,
                      NEW s \in damaged, s <= anchor.chain_seq,
                      NEW z \in Zone, VerifyChain(log, anchor, z)
               PROVE  FALSE
    BY DEF TamperEvident
  <2>1. /\ s \in Nat /\ 1 <= s
        /\ \A r \in AllRows : r.chain_seq = s => r.content = "rewritten"
        /\ \A r \in Chained(AllRows) :
              (s < r.chain_seq /\ r.chain_seq <= anchor.chain_seq) => s <= PrevSeqOf(r)
    BY TamperRows DEF TamperInv, DamageShows
  <2>2. \A r \in Chained(log) : r \in Chained(AllRows) /\ r \in AllRows /\ r.chain_seq \in Nat
    <3>1. \A r \in Chained(log) : r \in Chained(AllRows)
      BY InAllRows DEF Chained
    <3> QED
      BY <3>1, TamperRows
  <2>3. \A r \in Chained(log) : r.chain_seq # s
    BY <2>1, <2>2, RewrittenIsBroken DEF VerifyChain
  <2>4. PICK tip \in log : tip.id = anchor.id /\ anchor # NoAnchor
    BY <2>1 DEF VerifyChain, TipBroken, NoAnchor
  <2>5. tip \in Chained(log) /\ tip.chain_seq = anchor.chain_seq
    <3>1. tip \in AllRows
      BY InAllRows
    <3>2. tip.chain_seq = anchor.chain_seq /\ 1 <= anchor.chain_seq
      BY <2>4, <3>1 DEF TamperInv, AnchorOwned
    <3> QED
      BY <3>1, <3>2, TamperRows DEF Chained
  <2> DEFINE after == {k \in Nat : s < k /\ \E r \in Chained(log) : k = r.chain_seq}
  <2>6. tip.chain_seq \in after
    BY <2>1, <2>2, <2>3, <2>5
  <2>7. PICK k \in after : \A m \in after : k <= m
    <3>1. after \subseteq Nat /\ after # {}
      BY <2>6
    <3> HIDE DEF after
    <3> QED
      BY <3>1, Least
  <2>8. PICK r \in Chained(log) : k = r.chain_seq /\ s < k
    OBVIOUS
  <2>9. s <= PrevSeqOf(r)
    <3>1. k <= tip.chain_seq
      BY <2>6, <2>7
    <3> QED
      BY <2>1, <2>2, <2>5, <2>8, <3>1
  <2>10. PrevSeqOf(r) = PrevSeq(Before(r, log))
    <3> DEFINE hash == RowHash(r.id, r.changed_at, z, r.content,
                               PrevHash(Before(r, log)), PrevSeq(Before(r, log)))
    <3>1. r.row_hash = hash
      BY DEF VerifyChain, Broken
    <3>2. hash[2][5] = PrevSeq(Before(r, log))
      BY DEF RowHash, Digest
    <3> HIDE DEF hash
    <3> QED
      BY <3>1, <3>2 DEF PrevSeqOf
  <2>11. \A q \in Before(r, log) : q.chain_seq \in Nat /\ q.chain_seq < s
    <3> SUFFICES ASSUME NEW q \in Chained(log), q.chain_seq < r.chain_seq
                 PROVE  q.chain_seq \in Nat /\ q.chain_seq < s
      BY DEF Before
    <3>1. q.chain_seq \notin after
      BY <2>2, <2>7, <2>8
    <3> QED
      BY <2>1, <2>2, <2>3, <3>1
  <2>12. PrevSeq(Before(r, log)) < s
    <3>1. CASE Before(r, log) = {}
      BY <2>1, <3>1 DEF PrevSeq
    <3>2. CASE Before(r, log) # {}
      <4>1. Newest(Before(r, log)) \in Before(r, log)
        BY <2>1, <2>11, <3>2, NewestOf
      <4> QED
        BY <2>11, <3>2, <4>1 DEF PrevSeq
    <3> QED
      BY <3>1, <3>2
  <2>13. PrevSeq(Before(r, log)) \in Int
    <3>1. CASE Before(r, log) = {}
      BY <3>1 DEF PrevSeq
    <3>2. CASE Before(r, log) # {}
      <4>1. Newest(Before(r, log)) \in Before(r, log)
        BY <2>1, <2>11, <3>2, NewestOf
      <4> QED
        BY <2>11, <3>2, <4>1 DEF PrevSeq
    <3> QED
      BY <3>1, <3>2
  <2> QED
    BY <2>1, <2>9, <2>10, <2>12, <2>13
<1> QED
  BY <1>1, TamperInvariant, PTL
==============================================================================
