------------------------------- MODULE AuditLog -------------------------------
(***************************************************************************)
(* A tracked table, its audit trigger and time travel: concurrent          *)
(* transactions change rows under row locks, the trigger rendered from     *)
(* tracking/templates/audit_trigger.sql writes audit events, and           *)
(* _audit_reconstruct_row and _audit_reconstruct_table rebuild past        *)
(* states from the events and the live rows.                               *)
(*                                                                         *)
(* Writers run under READ COMMITTED, PostgreSQL's default.  A jsonb object *)
(* is a function from columns to values; a column of a row may be NULL,    *)
(* which the log shows as JSON null.                                       *)
(***************************************************************************)
EXTENDS Integers, FiniteSets

CONSTANTS
    Obj,        \* primary keys of the tracked table
    Col,        \* its columns
    Tracked,    \* the columns the field filter lets through
    Val,        \* column values
    Txn,        \* sessions, each running one transaction at a time
    NoRow,      \* SQL NULL in place of a row or a snapshot
    Null,       \* NULL in a column, JSON null in the log
    Error,      \* an exception raised by a reconstruct function
    Skipped,    \* NEW rows for which log_condition is false
    Modes,      \* storage modes a deployment switches between
    MaxEvents,  \* bound: audit rows ever written
    MaxClock    \* bound: instants

Cell == Val \cup {Null}
Row == [Col -> Cell]

(* The jsonb objects: rows, snapshots, sides of a diff, rebuilt rows. *)
Object == UNION {[C -> Cell] : C \in SUBSET Col}

ASSUME AuditAssumption ==
    /\ Tracked \subseteq Col
    /\ NoRow \notin Object /\ NoRow \notin Cell /\ Null \notin Val
    /\ Error \notin [Obj -> Object \cup {NoRow}]
    /\ Skipped \subseteq Row
    /\ Modes \subseteq {"full", "diff"} /\ Modes # {}
    /\ "diff" \in Modes => Skipped = {}     \* TrackSpec refuses the combination
    /\ MaxEvents \in Nat /\ MaxClock \in Nat \ {0}

VARIABLES
    live,       \* committed rows of the tracked table
    dirty,      \* dirty[t]: rows t locked by writing them, with its versions
    audit,      \* committed events
    pending,    \* pending[t]: events of t not yet committed
    begun,      \* begun[t]: now() of t, 0 when no transaction is open
    storage,    \* storage mode of the installed trigger and of the registry
    idSeq,      \* last value of the serial id
    clock,      \* the current instant
    cutoff,     \* retention: events with changed_at < cutoff were purged
    past        \* ghost: committed tables, as they came to be

vars == <<live, dirty, audit, pending, begun, storage, idSeq, clock, cutoff, past>>

------------------------------------------------------------------------------
(* The trigger *)

Filter(row) == [c \in Tracked |-> row[c]]

(* Mutation: the two sides are swapped. *)
JsonbDiffSwapped(old, new) ==
    [c \in {d \in DOMAIN new : old[d] # new[d]} |-> [old |-> new[c], new |-> old[c]]]

(* Mutation: columns that kept their value are in the diff. *)
JsonbDiffAll(old, new) == [c \in DOMAIN new |-> [old |-> old[c], new |-> new[c]]]

JsonbDiff(old, new) ==
    [c \in {d \in DOMAIN new : old[d] # new[d]} |-> [old |-> old[c], new |-> new[c]]]

Operation(old, new) ==
    CASE old = NoRow -> "INSERT" [] new = NoRow -> "DELETE" [] OTHER -> "UPDATE"

(* What a diff shows of a side: NULL where there is no row.                *)
Shown(row, c) == IF row = NoRow THEN Null ELSE row[c]

(* INSERT and DELETE name every tracked column, also one that is NULL on   *)
(* both sides; UPDATE names those that changed.                            *)
Diff(old, new) ==
    CASE old = NoRow -> [c \in Tracked |-> [old |-> Null, new |-> new[c]]]
      [] new = NoRow -> [c \in Tracked |-> [old |-> old[c], new |-> Null]]
      [] OTHER -> JsonbDiff(Filter(old), Filter(new))

(* jsonb_object_agg over nothing is NULL, and then no event is written.  A *)
(* log_condition on NEW is unknown on DELETE, which does not skip.         *)
Logs(old, new) == new \notin Skipped /\ DOMAIN Diff(old, new) # {}

Snapshot(row) == IF storage = "diff" \/ row = NoRow THEN NoRow ELSE Filter(row)

Event(id, at, o, old, new) ==
    [id |-> id, changed_at |-> at, object_id |-> o, operation |-> Operation(old, new),
     diff |-> Diff(old, new), old_data |-> Snapshot(old), new_data |-> Snapshot(new)]

------------------------------------------------------------------------------
(* Time travel.  A reader sees a set of events A and a table L; spec is    *)
(* what _audit_tracked_spec returns: the storage mode, or "none".          *)

FirstEvent(S) == CHOOSE e \in S : \A f \in S : e.id <= f.id
LastEvent(S)  == CHOOSE e \in S : \A f \in S : f.id <= e.id

Of(A, o) == {e \in A : e.object_id = o}

(* Mutation: changed_at >= at. *)
SuffixInclusive(A, o, at) == {e \in Of(A, o) : e.changed_at >= at}

Suffix(A, o, at) == {e \in Of(A, o) : e.changed_at > at}

LiveRow(L, o) == IF L[o] = NoRow THEN NoRow ELSE Filter(L[o])

(* A paired entry has exactly the keys old and new; the jsonb_diff of      *)
(* releases before 0.4 wrote the new value alone, whose -> 'old' is NULL.  *)
Paired(entry) == entry \in [old : Cell, new : Cell]
OldSide(entry) == IF Paired(entry) THEN entry.old ELSE Null

(* Mutation: the latest event wins. *)
UndoLatest(A, o, first) ==
    LET suffix == {e \in Of(A, o) : e.id >= first.id}
        touching(c) == {e \in suffix : c \in DOMAIN e.diff}
    IN  [c \in UNION {DOMAIN e.diff : e \in suffix} |->
            OldSide(LastEvent(touching(c)).diff[c])]

(* Per column, the "old" of the earliest event from first on. *)
Undo(A, o, first) ==
    LET suffix == {e \in Of(A, o) : e.id >= first.id}
        touching(c) == {e \in suffix : c \in DOMAIN e.diff}
    IN  [c \in UNION {DOMAIN e.diff : e \in suffix} |->
            OldSide(FirstEvent(touching(c)).diff[c])]

(* Mutation: only columns of the live row are restored. *)
OverlayLiveOnly(row, undo) ==
    [c \in IF row = NoRow THEN {} ELSE DOMAIN row |->
        IF c \in DOMAIN undo THEN undo[c] ELSE row[c]]

Overlay(row, undo) ==
    LET base == IF row = NoRow THEN {} ELSE DOMAIN row
    IN  [c \in base \cup DOMAIN undo |-> IF c \in DOMAIN undo THEN undo[c] ELSE row[c]]

ReconstructRow(A, L, spec, o, at) ==
    LET first == FirstEvent(Suffix(A, o, at))
        last == LastEvent(Of(A, o))
    IN  IF Suffix(A, o, at) # {} THEN
            CASE first.operation = "INSERT" -> NoRow
              [] first.operation # "INSERT" /\ first.old_data # NoRow -> first.old_data
              [] OTHER -> IF spec = "none" THEN Error
                          ELSE Overlay(LiveRow(L, o), Undo(A, o, first))
        ELSE IF Of(A, o) # {} THEN
            CASE last.new_data # NoRow -> last.new_data
              [] last.new_data = NoRow /\ last.operation = "DELETE" -> NoRow
              [] OTHER -> IF spec = "none" THEN Error ELSE LiveRow(L, o)
        ELSE IF spec = "diff" THEN LiveRow(L, o) ELSE NoRow

(* Mutation: a DELETE in full storage passes for a diff-only event. *)
HasDiffRowsNewOnly(A, spec) == spec # "diff" /\ \E e \in A : e.new_data = NoRow

HasDiffRows(A, spec) ==
    spec # "diff" /\ \E e \in A : e.old_data = NoRow /\ e.new_data = NoRow

(* Every object's row at once; the rows that come out NULL are left out.   *)
ReconstructTable(A, L, spec, at) ==
    LET hasDiffRows == HasDiffRows(A, spec)
        liveOf(o) == IF spec = "diff" \/ hasDiffRows THEN LiveRow(L, o) ELSE NoRow
        changed(o) ==
            LET first == FirstEvent(Suffix(A, o, at))
            IN  CASE first.operation = "INSERT" -> NoRow
                  [] first.operation # "INSERT" /\ first.old_data # NoRow -> first.old_data
                  [] OTHER -> Overlay(liveOf(o), Undo(A, o, first))
        untouched(o) ==
            LET last == LastEvent(Of(A, o))
            IN  CASE last.operation = "DELETE" -> NoRow
                  [] last.operation # "DELETE" /\ last.new_data # NoRow -> last.new_data
                  [] OTHER -> liveOf(o)
    IN  IF spec = "none" /\ hasDiffRows THEN Error
        ELSE [o \in Obj |->
                IF Suffix(A, o, at) # {} THEN changed(o)
                ELSE IF Of(A, o) # {} THEN untouched(o)
                ELSE IF spec = "diff" THEN liveOf(o) ELSE NoRow]

------------------------------------------------------------------------------
(* Transactions *)

Open(t) == begun[t] > 0
Calm == \A t \in Txn : ~ Open(t)

(* The table and the log as transaction t sees them. *)
TableOf(t) == [o \in Obj |-> IF o \in DOMAIN dirty[t] THEN dirty[t][o] ELSE live[o]]
EventsOf(t) == audit \cup pending[t]

Record(rows, at, calm) == past' = past \cup {[rows |-> rows, at |-> at, calm |-> calm]}

Init ==
    /\ live \in [Obj -> Row \cup {NoRow}]       \* rows that predate tracking
    /\ dirty = [t \in Txn |-> [o \in {} |-> NoRow]]
    /\ audit = {}
    /\ pending = [t \in Txn |-> {}]
    /\ begun = [t \in Txn |-> 0]
    /\ storage \in Modes
    /\ idSeq = 0 /\ clock = 1 /\ cutoff = 0
    /\ past = {}

Begin(t) ==
    /\ ~ Open(t)
    /\ begun' = [begun EXCEPT ![t] = clock]
    /\ UNCHANGED <<live, dirty, audit, pending, storage, idSeq, clock, cutoff, past>>

(* t holds the row lock, or nobody does. *)
MayWrite(t, o) == Open(t) /\ \A u \in Txn \ {t} : o \notin DOMAIN dirty[u]

SetRow(t, o, row) ==
    dirty' = [dirty EXCEPT ![t] =
                [p \in DOMAIN dirty[t] \cup {o} |-> IF p = o THEN row ELSE dirty[t][p]]]

(* INSERT, UPDATE or DELETE of one row, the audit trigger included.  An    *)
(* UPDATE that changes nothing writes no event and is left out.            *)
Write(t, o, new) ==
    LET old == TableOf(t)[o]
    IN  /\ MayWrite(t, o)
        /\ new # old
        /\ SetRow(t, o, new)
        /\ IF Logs(old, new)
           THEN /\ idSeq < MaxEvents
                /\ idSeq' = idSeq + 1
                /\ pending' = [pending EXCEPT ![t] = @ \cup
                                 {Event(idSeq', begun[t], o, old, new)}]
           ELSE UNCHANGED <<idSeq, pending>>
        /\ UNCHANGED <<live, audit, begun, storage, clock, cutoff, past>>

Finish(t) ==
    /\ Open(t)
    /\ dirty' = [dirty EXCEPT ![t] = [o \in {} |-> NoRow]]
    /\ pending' = [pending EXCEPT ![t] = {}]
    /\ begun' = [begun EXCEPT ![t] = 0]
    /\ UNCHANGED <<storage, idSeq, clock, cutoff>>

Commit(t) ==
    /\ Finish(t)
    /\ live' = TableOf(t)
    /\ audit' = EventsOf(t)
    /\ Record(live', clock, FALSE)

Abort(t) ==
    /\ Finish(t)
    /\ UNCHANGED <<live, audit, past>>

(* Installing the trigger with another storage mode.  CREATE TRIGGER waits *)
(* for every transaction that has written the table.                       *)
SetStorage(mode) ==
    /\ mode # storage
    /\ \A t \in Txn : DOMAIN dirty[t] = {}
    /\ storage' = mode
    /\ UNCHANGED <<live, dirty, audit, pending, begun, idSeq, clock, cutoff, past>>

Tick ==
    /\ clock < MaxClock
    /\ clock' = clock + 1
    /\ Record(live, clock', Calm)
    /\ UNCHANGED <<live, dirty, audit, pending, begun, storage, idSeq, cutoff>>

(* Mutation: changed_at <= cutoff. *)
PurgeInclusive(at) ==
    /\ at > cutoff
    /\ \E e \in audit : e.changed_at <= at
    /\ audit' = {e \in audit : e.changed_at > at}
    /\ cutoff' = at
    /\ UNCHANGED <<live, dirty, pending, begun, storage, idSeq, clock, past>>

(* auditrum purge: DELETE FROM auditlog WHERE changed_at < cutoff *)
Purge(at) ==
    /\ at > cutoff
    /\ \E e \in audit : e.changed_at < at
    /\ audit' = {e \in audit : e.changed_at >= at}
    /\ cutoff' = at
    /\ UNCHANGED <<live, dirty, pending, begun, storage, idSeq, clock, past>>

TxnStep(t) ==
    \/ Begin(t) \/ Commit(t) \/ Abort(t)
    \/ \E o \in Obj, new \in Row \cup {NoRow} : Write(t, o, new)

Next ==
    \/ Tick
    \/ \E mode \in Modes : SetStorage(mode)
    \/ \E t \in Txn : TxnStep(t)

PurgeStep == \E at \in 2..clock : Purge(at)

Spec == Init /\ [][Next]_vars

------------------------------------------------------------------------------
(* Properties *)

AllEvents == audit \cup UNION {pending[t] : t \in Txn}

EventOK(e) ==
    /\ e.id \in 1..idSeq
    /\ e.changed_at \in 1..clock
    /\ e.object_id \in Obj
    /\ e.operation \in {"INSERT", "UPDATE", "DELETE"}
    /\ DOMAIN e.diff # {} /\ DOMAIN e.diff \subseteq Tracked
    /\ IF e.operation = "UPDATE"
       THEN \A c \in DOMAIN e.diff : e.diff[c].old # e.diff[c].new
       ELSE DOMAIN e.diff = Tracked
    /\ e.old_data \in [Tracked -> Cell] \cup {NoRow}
    /\ e.new_data \in [Tracked -> Cell] \cup {NoRow}

(* Type invariant: events carry drawn ids and past times, and their diff   *)
(* names at least one column and only columns inside the field filter:     *)
(* those that changed in an UPDATE, all of them in an INSERT or DELETE,    *)
(* NULL columns included.                                                  *)
TypeOK ==
    /\ live \in [Obj -> Row \cup {NoRow}]
    /\ \A t \in Txn : /\ DOMAIN dirty[t] \subseteq Obj
                      /\ dirty[t] \in [DOMAIN dirty[t] -> Row \cup {NoRow}]
    /\ \A e \in AllEvents : EventOK(e)
    /\ begun \in [Txn -> 0..clock]
    /\ storage \in Modes
    /\ idSeq \in 0..MaxEvents /\ clock \in 1..MaxClock /\ cutoff \in 0..clock

Rebuilt(o, at) == ReconstructRow(audit, live, storage, o, at)

(* A table in full storage does not know the rows that have no event. *)
Unknown(o) == storage = "full" /\ Of(audit, o) = {}

RebuiltAs(o, at, row) ==
    \/ Rebuilt(o, at) = IF row = NoRow THEN NoRow ELSE Filter(row)
    \/ Unknown(o) /\ Rebuilt(o, at) = NoRow

(* Time travel is exact: for an instant with no transaction open at its    *)
(* end, every object is rebuilt as the row that was committed then,        *)
(* whatever was written, aborted or switched between full and diff since.  *)
TimeTravelExact ==
    \A s \in past : s.calm => \A o \in Obj : RebuiltAs(o, s.at - 1, s.rows[o])

(* For any instant, transactions open or not, the row rebuilt is one that  *)
(* was committed at that instant or later: never an older one, and never   *)
(* one that only existed inside a transaction or not at all.               *)
NeverInvented ==
    \A o \in Obj, at \in 1..clock - 1 :
        \E s \in past : s.at > at /\ RebuiltAs(o, at, s.rows[o])

(* _audit_reconstruct_row and _audit_reconstruct_table agree on every      *)
(* object, for a committed reader and for one inside a transaction, with   *)
(* and without access to the registry.  Only where the table form raises   *)
(* may they differ, and then some event is diff-only.                      *)
AgreeFor(A, L, spec, at) ==
    LET table == ReconstructTable(A, L, spec, at)
    IN  IF table = Error THEN \E e \in A : e.old_data = NoRow /\ e.new_data = NoRow
        ELSE \A o \in Obj : table[o] = ReconstructRow(A, L, spec, o, at)

RowTableAgree ==
    \A at \in 0..clock, spec \in {storage, "none"} :
        /\ AgreeFor(audit, live, spec, at)
        /\ \A t \in Txn : Open(t) => AgreeFor(EventsOf(t), TableOf(t), spec, at)

HasSnapshot(e) == e.old_data # NoRow \/ e.new_data # NoRow
Cleared(A, S) ==
    (A \ S) \cup {[e EXCEPT !.old_data = NoRow, !.new_data = NoRow] : e \in S}

(* Dropping the snapshots of any set of events of a diff table, which is   *)
(* what compaction does, changes no past state.                            *)
SnapshotsRedundant ==
    storage = "diff" =>
        \A S \in SUBSET {e \in audit : HasSnapshot(e)}, o \in Obj, at \in 0..clock :
            ReconstructRow(Cleared(audit, S), live, storage, o, at) = Rebuilt(o, at)

(* id is the write order: what an event says a column was is what the      *)
(* event before it, by id, said the column became.                         *)
IdIsWriteOrder ==
    \A e, f \in audit :
        /\ e.object_id = f.object_id /\ e.id < f.id
        => \A c \in DOMAIN e.diff \cap DOMAIN f.diff :
              \/ \E g \in Of(audit, e.object_id) :
                    e.id < g.id /\ g.id < f.id /\ c \in DOMAIN g.diff
              \/ e.diff[c].new = f.diff[c].old
==============================================================================
