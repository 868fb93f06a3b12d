----------------------------- MODULE AuditReaders -----------------------------
(***************************************************************************)
(* The Python readers of the log: the history of one column, blame and     *)
(* revert.  Each decides per event whether the value it wants is in a      *)
(* snapshot or in the diff.  A history is a set of entries with event ids. *)
(***************************************************************************)
EXTENDS AuditLog

(* _diff_side *)
Side(diff, side) == [c \in DOMAIN diff |-> IF Paired(diff[c]) THEN diff[c][side] ELSE Null]

(* The row before and after an event, as far as the event knows it: a      *)
(* missing snapshot is replaced by one side of the diff.                   *)
RowBefore(e) ==
    IF e.old_data = NoRow /\ e.operation # "INSERT" THEN Side(e.diff, "old") ELSE e.old_data

(* Mutation: the reader was not taught about diff-only events. *)
RowAfterSnapshotOnly(e) == e.new_data

RowAfter(e) ==
    IF e.new_data = NoRow /\ e.operation # "DELETE" THEN Side(e.diff, "new") ELSE e.new_data

Has(row, c) == row # NoRow /\ c \in DOMAIN row
ValueIn(row, c) == IF Has(row, c) THEN row[c] ELSE Null

(* The events that say something about column c. *)
Touches(e, c) ==
    CASE e.operation = "UPDATE" -> c \in DOMAIN e.diff
      [] e.operation = "INSERT" -> Has(RowAfter(e), c)
      [] OTHER -> Has(RowBefore(e), c)

(* Mutation: an UPDATE is in the history of every column of its snapshot. *)
FieldHistoryOfSnapshots(A, o, c) ==
    {[id |-> e.id, at |-> e.changed_at, value |-> ValueIn(RowAfter(e), c)] :
        e \in {f \in Of(A, o) : f.operation = "DELETE" \/ Has(RowAfter(f), c)}}

(* reconstruct_field_history: a DELETE always ends the history. *)
FieldHistory(A, o, c) ==
    {[id |-> e.id, at |-> e.changed_at,
      value |-> IF e.operation = "DELETE" THEN Null ELSE ValueIn(RowAfter(e), c)] :
        e \in {f \in Of(A, o) : f.operation = "DELETE" \/ Touches(f, c)}}

(* fetch_blame for one column. *)
Blame(A, o, c) ==
    {[id |-> e.id, at |-> e.changed_at, operation |-> e.operation,
      old |-> IF e.operation = "INSERT" THEN Null ELSE ValueIn(RowBefore(e), c),
      new |-> IF e.operation = "DELETE" THEN Null ELSE ValueIn(RowAfter(e), c)] :
        e \in {f \in Of(A, o) : Touches(f, c)}}

(* Mutation: every column of the snapshot is reverted. *)
RevertRowWhole(e, row) ==
    LET before == IF e.old_data # NoRow THEN e.old_data ELSE Side(e.diff, "old")
    IN  [c \in DOMAIN row |-> IF c \in DOMAIN before THEN before[c] ELSE row[c]]

(* What reverting UPDATE event e makes of a row: the columns of its diff,  *)
(* from the snapshot if there is one, NULL where neither has them.         *)
RevertRow(e, row) ==
    LET before == IF e.old_data # NoRow THEN e.old_data ELSE Side(e.diff, "old")
    IN  [c \in DOMAIN row |-> IF c \in DOMAIN e.diff THEN ValueIn(before, c) ELSE row[c]]

(* auditrum revert <table> <record_id> <log_id>, of record o and event e:   *)
(* refuses all but UPDATE events, and updates no row when the record is    *)
(* gone.  Nothing asks whether the event is one of the record's.  The      *)
(* write goes through the trigger.                                         *)
Revert(t, o, e) ==
    /\ e \in EventsOf(t) /\ e.operation = "UPDATE"
    /\ TableOf(t)[o] # NoRow
    /\ Write(t, o, RevertRow(e, TableOf(t)[o]))

ReadersNext ==
    \/ Next
    \/ \E t \in Txn, o \in Obj : \E e \in EventsOf(t) : Revert(t, o, e)

ReadersSpec == Init /\ [][ReadersNext]_vars

------------------------------------------------------------------------------
(* Properties *)

(* The events of e's object up to e, and no later ones, are of             *)
(* transactions begun by the instant e's began.                            *)
LastOfItsInstant(A, e) ==
    \A f \in Of(A, e.object_id) : f.id > e.id <=> f.changed_at > e.changed_at

(* The history of a column, blame and time travel tell the same story:     *)
(* what an entry says the column became is what the row is rebuilt as at   *)
(* the instant of the event, in every storage mode.                        *)
HistoryAgreesWithTravel ==
    \A o \in Obj, c \in Tracked : \A e \in Of(audit, o) :
        LastOfItsInstant(audit, e) =>
            LET rebuilt == ReconstructRow(audit, live, storage, o, e.changed_at)
            IN  /\ \A h \in FieldHistory(audit, o, c) :
                      h.id = e.id => h.value = Shown(rebuilt, c)
                /\ \A b \in Blame(audit, o, c) :
                      b.id = e.id => b.new = Shown(rebuilt, c)

(* Reverting the first event after an instant, an UPDATE of the record,    *)
(* takes the columns it names back to where time travel sees them at that  *)
(* instant, and so the whole row when no later event names another column; *)
(* the columns only later events name keep what those made of them.  (A    *)
(* later change of the same column is lost: nothing promises otherwise.)   *)
RevertUndoes ==
    \A o \in Obj, at \in 0..clock :
        LET suffix == Suffix(audit, o, at)
            e == FirstEvent(suffix)
            later == {f \in Of(audit, o) : f.id > e.id}
            row == RevertRow(e, live[o])
        IN  suffix # {} /\ live[o] # NoRow /\ e.operation = "UPDATE" =>
               \A c \in Tracked :
                  IF c \in DOMAIN e.diff \/ \A f \in later : c \notin DOMAIN f.diff
                  THEN row[c] = Rebuilt(o, at)[c]
                  ELSE row[c] = live[o][c]

(* The readers do not miss the snapshots of a diff table: without them     *)
(* every column has the same history and the same blame.  (An entry is     *)
(* made of one event, so that dropping only some changes nothing either.)  *)
ReadersNeedNoSnapshots ==
    storage = "diff" =>
        LET bare == Cleared(audit, audit)
        IN  \A o \in Obj, c \in Tracked :
                /\ FieldHistory(bare, o, c) = FieldHistory(audit, o, c)
                /\ Blame(bare, o, c) = Blame(audit, o, c)
==============================================================================
