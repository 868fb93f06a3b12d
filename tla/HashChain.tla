------------------------------ MODULE HashChain ------------------------------
(***************************************************************************)
(* The tamper-evidence chain of auditrum/hash_chain.py: the BEFORE INSERT  *)
(* trigger on the audit log, run by concurrent PostgreSQL transactions,    *)
(* get_chain_tip and verify_chain.                                         *)
(*                                                                         *)
(* A transaction sees committed rows (log) and its own uncommitted ones    *)
(* (pending).  Sequences are not transactional.  SHA-256 is taken to be    *)
(* injective: a digest is its tagged payload.                              *)
(***************************************************************************)
EXTENDS Integers, FiniteSets

CONSTANTS
    Txn,        \* database sessions, each running one transaction at a time
    NoTxn,      \* nobody holds the advisory lock
    Zone,       \* TimeZone settings of the sessions
    Isolation,  \* isolation level of every writing transaction
    MaxId,      \* bound: audit rows ever inserted
    MaxClock    \* bound: transactions ever started

ASSUME ChainAssumption ==
    /\ NoTxn \notin Txn
    /\ Zone # {}
    /\ Isolation \in {"read_committed", "repeatable_read"}
    /\ MaxId \in Nat /\ MaxClock \in Nat

VARIABLES
    enabled,    \* the chain trigger exists
    log,        \* committed rows of the audit table
    pending,    \* pending[t]: rows t inserted and has not committed
    savepoint,  \* savepoint[t]: rows and lock of t when it set its savepoint
    status,     \* status[t]: "idle", "open" or "waiting" (inside an INSERT)
    begun,      \* begun[t]: now() of t, the changed_at of its rows
    zone,       \* zone[t]: TimeZone of the session of t
    snapshot,   \* snapshot[t]: rows t sees under repeatable read
    rowId,      \* rowId[t]: id already drawn by the INSERT t is in
    lock,       \* holder of the advisory lock of the chain
    idSeq,      \* last value of the serial id
    chainSeq,   \* last value of <table>_chain_seq
    clock,      \* transactions started so far: the time
    anchor,     \* the externally stored get_chain_tip, or NoAnchor
    damaged     \* ghost: chain_seq of chained rows lost or rewritten since anchor

vars == <<enabled, log, pending, savepoint, status, begun, zone, snapshot,
          rowId, lock, idSeq, chainSeq, clock, anchor, damaged>>

NoHash == <<>>      \* SQL NULL
NoAnchor == [id |-> 0, chain_seq |-> 0, row_hash |-> NoHash]
NoSavepoint == [set |-> FALSE, rows |-> {}, held |-> FALSE]

------------------------------------------------------------------------------
(* Rows and digests *)

Digest(payload) == <<"sha256", payload>>

(* jsonb_build_object renders a timestamptz in the session's TimeZone. *)
RowHash(id, changed_at, z, content, prev, prevSeq) ==
    Digest(<<id, <<changed_at, z>>, content, prev, prevSeq>>)

Chained(rows) == {r \in rows : r.row_hash # NoHash}

(* The newest chained row of a set: ORDER BY chain_seq DESC LIMIT 1. *)
IsNewest(p, rows) == p \in rows /\ \A q \in rows : q.chain_seq <= p.chain_seq
Newest(rows) == CHOOSE p \in rows : IsNewest(p, rows)

PrevHash(rows) == IF rows = {} THEN NoHash ELSE Newest(rows).row_hash
PrevSeq(rows)  == IF rows = {} THEN 0 ELSE Newest(rows).chain_seq

ChainedRow(id, changed_at, z, seq, before) ==
    [id |-> id, changed_at |-> changed_at, content |-> "written",
     chain_seq |-> seq, prev_hash |-> PrevHash(before),
     row_hash |-> RowHash(id, changed_at, z, "written",
                          PrevHash(before), PrevSeq(before))]

PlainRow(id, changed_at) ==
    [id |-> id, changed_at |-> changed_at, content |-> "written",
     chain_seq |-> 0, prev_hash |-> NoHash, row_hash |-> NoHash]

(* What a query inside the trigger sees: a VOLATILE function takes a fresh *)
(* snapshot per statement unless the transaction is bound to its own.      *)
Visible(t) ==
    (IF Isolation = "read_committed" THEN log ELSE snapshot[t]) \cup pending[t]

------------------------------------------------------------------------------
(* get_chain_tip and verify_chain *)

Tip(rows) ==
    LET newest == Newest(Chained(rows))
    IN  IF Chained(rows) = {} THEN NoAnchor
        ELSE [id |-> newest.id, chain_seq |-> newest.chain_seq,
              row_hash |-> newest.row_hash]

Before(r, rows) == {q \in Chained(rows) : q.chain_seq < r.chain_seq}

(* Mutation: the digest is not recomputed. *)
BrokenPointerOnly(r, rows, z) == r.prev_hash # PrevHash(Before(r, rows))

Broken(r, rows, z) ==
    \/ r.prev_hash # PrevHash(Before(r, rows))
    \/ r.row_hash # RowHash(r.id, r.changed_at, z, r.content,
                            PrevHash(Before(r, rows)), PrevSeq(Before(r, rows)))

(* Mutation: only max(id) is compared with the anchor. *)
TipBrokenByMaxId(rows, tip) == tip # NoAnchor /\ \A r \in rows : r.id < tip.id

TipBroken(rows, tip) ==
    /\ tip # NoAnchor
    /\ \/ ~ \E r \in rows : r.id = tip.id
       \/ \E r \in rows : r.id = tip.id /\ r.row_hash # tip.row_hash
       \/ \A r \in rows : r.id < tip.id

VerifyChain(rows, tip, z) ==
    /\ \A r \in Chained(rows) : ~ Broken(r, rows, z)
    /\ ~ TipBroken(rows, tip)

------------------------------------------------------------------------------
(* Transactions *)

Init ==
    /\ enabled = FALSE
    /\ log = {}
    /\ pending = [t \in Txn |-> {}]
    /\ savepoint = [t \in Txn |-> NoSavepoint]
    /\ status = [t \in Txn |-> "idle"]
    /\ begun = [t \in Txn |-> 0]
    /\ zone \in [Txn -> Zone]
    /\ snapshot = [t \in Txn |-> {}]
    /\ rowId = [t \in Txn |-> 0]
    /\ lock = NoTxn
    /\ idSeq = 0 /\ chainSeq = 0 /\ clock = 0
    /\ anchor = NoAnchor
    /\ damaged = {}

(* ALTER TABLE waits for every transaction that has inserted. *)
Enable ==
    /\ ~ enabled
    /\ \A t \in Txn : pending[t] = {} /\ status[t] # "waiting"
    /\ enabled' = TRUE
    /\ UNCHANGED <<log, pending, savepoint, status, begun, zone, snapshot,
                   rowId, lock, idSeq, chainSeq, clock, anchor, damaged>>

(* The first statement of a transaction fixes now() and the snapshot. *)
Begin(t) ==
    /\ status[t] = "idle"
    /\ clock < MaxClock
    /\ clock' = clock + 1
    /\ status' = [status EXCEPT ![t] = "open"]
    /\ begun' = [begun EXCEPT ![t] = clock']
    /\ snapshot' = [snapshot EXCEPT ![t] = log]
    /\ UNCHANGED <<enabled, log, pending, savepoint, zone, rowId, lock,
                   idSeq, chainSeq, anchor, damaged>>

(* Mutation: currval instead of nextval. *)
InsertCurrval(t) ==
    /\ status[t] = "open"
    /\ idSeq < MaxId
    /\ idSeq' = idSeq + 1
    /\ rowId' = [rowId EXCEPT ![t] = idSeq]
    /\ status' = [status EXCEPT ![t] = "waiting"]
    /\ UNCHANGED <<enabled, log, pending, savepoint, begun, zone, snapshot,
                   lock, chainSeq, clock, anchor, damaged>>

(* The audit trigger inserts a row: the serial id is drawn first. *)
Insert(t) ==
    /\ status[t] = "open"
    /\ idSeq < MaxId
    /\ idSeq' = idSeq + 1
    /\ rowId' = [rowId EXCEPT ![t] = idSeq']
    /\ status' = [status EXCEPT ![t] = "waiting"]
    /\ UNCHANGED <<enabled, log, pending, savepoint, begun, zone, snapshot,
                   lock, chainSeq, clock, anchor, damaged>>

(* The trigger body: take the lock, draw chain_seq, look the previous row  *)
(* up in view, hash.                                                       *)
TriggerBody(t, lockGranted, view) ==
    /\ status[t] = "waiting" /\ enabled
    /\ lockGranted
    /\ lock' = t
    /\ chainSeq' = chainSeq + 1
    /\ LET before == {q \in Chained(view) : q.chain_seq < chainSeq'}
       IN  pending' = [pending EXCEPT ![t] = @ \cup
                         {ChainedRow(rowId[t], begun[t], zone[t], chainSeq', before)}]
    /\ status' = [status EXCEPT ![t] = "open"]
    /\ UNCHANGED <<enabled, log, savepoint, begun, zone, snapshot, rowId,
                   idSeq, clock, anchor, damaged>>

(* Mutations: no lock; a STABLE function, blind to the rows of its caller. *)
ChainNoLock(t) == TriggerBody(t, TRUE, Visible(t))
ChainOwnRowsUnseen(t) == TriggerBody(t, lock \in {NoTxn, t}, log)

Chain(t) == TriggerBody(t, lock \in {NoTxn, t}, Visible(t))

(* The same INSERT while the chain is not enabled. *)
Unchained(t) ==
    /\ status[t] = "waiting" /\ ~ enabled
    /\ pending' = [pending EXCEPT ![t] = @ \cup {PlainRow(rowId[t], begun[t])}]
    /\ status' = [status EXCEPT ![t] = "open"]
    /\ UNCHANGED <<enabled, log, savepoint, begun, zone, snapshot, rowId, lock,
                   idSeq, chainSeq, clock, anchor, damaged>>

Savepoint(t) ==
    /\ status[t] = "open" /\ ~ savepoint[t].set
    /\ savepoint' = [savepoint EXCEPT ![t] =
                       [set |-> TRUE, rows |-> pending[t], held |-> lock = t]]
    /\ UNCHANGED <<enabled, log, pending, status, begun, zone, snapshot, rowId,
                   lock, idSeq, chainSeq, clock, anchor, damaged>>

(* Mutation: the savepoint releases the lock whoever held it before. *)
RollbackToUnlocks(t) ==
    /\ status[t] \in {"open", "waiting"} /\ savepoint[t].set
    /\ pending' = [pending EXCEPT ![t] = savepoint[t].rows]
    /\ lock' = IF lock = t THEN NoTxn ELSE lock
    /\ status' = [status EXCEPT ![t] = "open"]
    /\ UNCHANGED <<enabled, log, savepoint, begun, zone, snapshot, rowId,
                   idSeq, chainSeq, clock, anchor, damaged>>

(* Locks taken after the savepoint are released, sequences keep their value. *)
RollbackTo(t) ==
    /\ status[t] \in {"open", "waiting"} /\ savepoint[t].set
    /\ pending' = [pending EXCEPT ![t] = savepoint[t].rows]
    /\ lock' = IF lock = t /\ ~ savepoint[t].held THEN NoTxn ELSE lock
    /\ status' = [status EXCEPT ![t] = "open"]
    /\ UNCHANGED <<enabled, log, savepoint, begun, zone, snapshot, rowId,
                   idSeq, chainSeq, clock, anchor, damaged>>

(* The advisory lock lives until the transaction ends. *)
Finish(t) ==
    /\ lock' = IF lock = t THEN NoTxn ELSE lock
    /\ pending' = [pending EXCEPT ![t] = {}]
    /\ savepoint' = [savepoint EXCEPT ![t] = NoSavepoint]
    /\ status' = [status EXCEPT ![t] = "idle"]
    /\ snapshot' = [snapshot EXCEPT ![t] = {}]
    /\ UNCHANGED <<enabled, begun, zone, rowId, idSeq, chainSeq, clock, anchor,
                   damaged>>

Commit(t) ==
    /\ status[t] = "open"
    /\ log' = log \cup pending[t]
    /\ Finish(t)

Abort(t) ==
    /\ status[t] \in {"open", "waiting"}
    /\ log' = log
    /\ Finish(t)

------------------------------------------------------------------------------
(* The operator of the database *)

CaptureTip ==
    /\ anchor' = Tip(log)
    /\ anchor' # anchor
    /\ damaged' = {}
    /\ UNCHANGED <<enabled, log, pending, savepoint, status, begun, zone,
                   snapshot, rowId, lock, idSeq, chainSeq, clock>>

Lose(rows) ==
    /\ rows # {}
    /\ log' = log \ rows
    /\ damaged' = damaged \cup {r.chain_seq : r \in Chained(rows)}
    /\ UNCHANGED <<enabled, pending, savepoint, status, begun, zone, snapshot,
                   rowId, lock, idSeq, chainSeq, clock, anchor>>

(* auditrum purge: DELETE ... WHERE changed_at < cutoff *)
Purge(cutoff) == Lose({r \in log : r.changed_at < cutoff})

(* A direct DELETE and a direct UPDATE of the audit table. *)
Erase(r) == Lose({r})

Rewrite(r) ==
    /\ r.content = "written"
    /\ log' = (log \ {r}) \cup {[r EXCEPT !.content = "rewritten"]}
    /\ damaged' = damaged \cup {s.chain_seq : s \in Chained({r})}
    /\ UNCHANGED <<enabled, pending, savepoint, status, begun, zone, snapshot,
                   rowId, lock, idSeq, chainSeq, clock, anchor>>

------------------------------------------------------------------------------
TxnStep(t) ==
    \/ Begin(t) \/ Insert(t) \/ Chain(t) \/ Unchained(t)
    \/ Savepoint(t) \/ RollbackTo(t) \/ Commit(t) \/ Abort(t)

Next == Enable \/ CaptureTip \/ \E t \in Txn : TxnStep(t)
PurgeStep == \E cutoff \in 1..MaxClock : Purge(cutoff)
TamperStep == \E r \in log : Erase(r) \/ Rewrite(r)

Spec == Init /\ [][Next]_vars                           \* writers only

(* With retention and with an operator who bypasses the triggers.          *)
TamperSpec == Init /\ [][Next \/ PurgeStep \/ TamperStep]_vars

------------------------------------------------------------------------------
(* Properties *)

AllRows == log \cup UNION {pending[t] : t \in Txn}

RowOK(r) ==
    /\ r.id \in 1..idSeq
    /\ r.changed_at \in 1..clock
    /\ r.content \in {"written", "rewritten"}
    /\ r.chain_seq \in 0..chainSeq
    /\ r.row_hash # NoHash <=> r.chain_seq > 0

(* Type invariant: rows only carry ids, times and chain_seq values that    *)
(* were really drawn, and a chained row is one with a chain_seq.           *)
TypeOK ==
    /\ enabled \in BOOLEAN
    /\ \A r \in AllRows : RowOK(r)
    /\ pending \in [Txn -> SUBSET AllRows]
    /\ savepoint \in [Txn -> [set : BOOLEAN, rows : SUBSET AllRows,
                              held : BOOLEAN]]
    /\ \A t \in Txn : savepoint[t].rows \subseteq pending[t]
    /\ \A t \in Txn : /\ status[t] # "idle" => begun[t] > 0
                      /\ status[t] = "waiting" => rowId[t] > 0
    /\ status \in [Txn -> {"idle", "open", "waiting"}]
    /\ begun \in [Txn -> 0..clock]
    /\ zone \in [Txn -> Zone]
    /\ rowId \in [Txn -> 0..idSeq]
    /\ lock \in Txn \cup {NoTxn}
    /\ idSeq \in 0..MaxId /\ chainSeq \in Nat /\ clock \in 0..MaxClock

(* verify_chain never accuses a log nobody touched: whatever transactions  *)
(* commit, abort or roll back to a savepoint, in whatever order, a session *)
(* in any of the configured time zones finds every committed row chained   *)
(* to the one before it and the stored tip still in place.                 *)
NoFalseAlarm == \A z \in Zone : VerifyChain(log, anchor, z)

(* Damage up to the stored tip is always found: if any chained row with a  *)
(* chain_seq up to the anchor's was deleted or rewritten after the tip was *)
(* captured, verify_chain with expected_tip fails, whatever was committed  *)
(* in between.                                                             *)
TamperEvident ==
    (\E s \in damaged : s <= anchor.chain_seq) =>
        \A z \in Zone : ~ VerifyChain(log, anchor, z)

(* A row rewritten in place is found without any anchor, wherever it is.   *)
RewriteEvident ==
    (\E r \in Chained(log) : r.content = "rewritten") =>
        \A z \in Zone : ~ VerifyChain(log, NoAnchor, z)

(* The committed chain grows only at its end and stays linked, so that     *)
(* chain_seq order is commit order although ids are drawn outside the      *)
(* lock: the trigger implements the append-only log.                       *)
Entry(r) == [seq |-> r.chain_seq, prev |-> r.prev_hash, hash |-> r.row_hash]

Abstract == INSTANCE AppendOnlyLog WITH
                chain <- {Entry(r) : r \in Chained(log)}, NoHash <- NoHash

AppendsOnly == Abstract!Spec

(* Two committed rows never chain to the same previous row.                *)
NoFork == \A r, s \in Chained(log) : r.prev_hash = s.prev_hash => r = s

------------------------------------------------------------------------------
(* The inductive invariant behind NoFalseAlarm and AppendsOnly *)

HasNewest(rows) == rows = {} \/ \E p \in rows : IsNewest(p, rows)

(* Uncommitted chained rows belong to the transaction that holds the lock, *)
(* and a savepoint remembers the lock exactly when it is still held.       *)
LockCoversUncommitted ==
    \A t \in Txn :
        /\ Chained(pending[t]) # {} => lock = t
        /\ Chained(savepoint[t].rows) # {} => savepoint[t].held
        /\ savepoint[t].held => lock = t

(* Uncommitted rows come after committed ones, later savepoint after       *)
(* earlier ones.                                                           *)
Precedes(A, B) == \A r \in Chained(A), q \in Chained(B) : r.chain_seq < q.chain_seq

SeqOrder ==
    \A t \in Txn :
        /\ Precedes(log, pending[t])
        /\ Precedes(savepoint[t].rows, pending[t] \ savepoint[t].rows)

Newests ==
    /\ HasNewest(Chained(log))
    /\ \A t \in Txn : /\ HasNewest(Chained(pending[t]))
                      /\ HasNewest(Chained(savepoint[t].rows))

LinkedTo(r, rows) ==
    /\ HasNewest(Before(r, rows))
    /\ r.prev_hash = PrevHash(Before(r, rows))
    /\ \E z \in Zone :
          r.row_hash = RowHash(r.id, r.changed_at, z, r.content,
                               PrevHash(Before(r, rows)), PrevSeq(Before(r, rows)))

Links ==
    /\ \A r \in Chained(log) : LinkedTo(r, log)
    /\ \A t \in Txn : \A r \in Chained(pending[t]) : LinkedTo(r, log \cup pending[t])

(* An id is drawn once, for one row. *)
IdsUnique ==
    /\ \A r, s \in AllRows : r.id = s.id => r = s
    /\ \A t \in Txn : status[t] = "waiting" =>
          /\ \A r \in AllRows : r.id # rowId[t]
          /\ \A u \in Txn : status[u] = "waiting" /\ rowId[u] = rowId[t] => u = t

AnchorPresent ==
    anchor = NoAnchor \/ \E r \in log : r.id = anchor.id /\ r.row_hash = anchor.row_hash

(* Every transaction chains at the end of what is committed: the lock      *)
(* covers the uncommitted rows, which follow the committed ones, and every *)
(* row is linked to the newest one before it.                              *)
ChainInv ==
    /\ LockCoversUncommitted /\ SeqOrder /\ Newests
    /\ Links /\ IdsUnique /\ AnchorPresent
==============================================================================
