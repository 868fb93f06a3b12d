------------------------------ MODULE Retention ------------------------------
(***************************************************************************)
(* Month partitions of the audit log and the two ways purge enforces       *)
(* retention: DELETE, and dropping whole partitions.  An instant of        *)
(* AuditLog is a month here; an event is in the partition of the month its *)
(* transaction began in when there is one, else in the default partition.  *)
(***************************************************************************)
EXTENDS DiffChain

CONSTANT MonthsAhead    \* the months values create-partitions is run with

VARIABLE parts          \* months that have a partition

retentionVars == <<chainVars, parts>>

InDefault(e) == e.changed_at \notin parts

(* generate_auditlog_partitions_sql: this month and the following, IF NOT  *)
(* EXISTS, in one transaction.  A month with rows in the default partition *)
(* makes the whole run fail, and nothing is created.                       *)
CreatePartitions(months) ==
    LET ahead == clock..clock + months - 1
    IN  /\ ~ ahead \subseteq parts
        /\ \A e \in audit : InDefault(e) => e.changed_at \notin ahead
        /\ parts' = parts \cup ahead
        /\ UNCHANGED chainVars

(* drop_old_partitions: every partition whose upper bound is not past the  *)
(* cutoff, never the default one.                                          *)
DropOldPartitions(at) ==
    LET old == {m \in parts : m + 1 <= at}
    IN  /\ old # {}
        /\ audit' = {e \in audit : e.changed_at \notin old}
        /\ parts' = parts \ old
        /\ cutoff' = IF at > cutoff THEN at ELSE cutoff
        /\ UNCHANGED <<live, dirty, pending, begun, storage, idSeq, clock, past, release, ghosts>>

RetentionInit == ChainInit /\ parts \in {{}} \cup {1..n : n \in MonthsAhead}

RetentionNext ==
    \/ ChainNext /\ UNCHANGED parts
    \/ PurgeStep /\ UNCHANGED <<release, ghosts, parts>>
    \/ \E months \in MonthsAhead : CreatePartitions(months)
    \/ \E at \in 2..clock : DropOldPartitions(at)

RetentionSpec == RetentionInit /\ [][RetentionNext]_retentionVars

------------------------------------------------------------------------------
(* Properties *)

(* Retention left no event from before its cutoff, and no transaction was  *)
(* open across it.  It does leave some when an old month was in the        *)
(* default partition and a later one was dropped, or when a transaction    *)
(* that began before the cutoff writes after it.                           *)
CalmCutoff ==
    /\ cutoff = 0 \/ \E s \in past : s.calm /\ s.at = cutoff
    /\ \A e \in audit : e.changed_at >= cutoff

(* In diff storage, after a calm cutoff, every object written through the  *)
(* trigger alone is rebuilt exactly from the cutoff on.                    *)
RetentionExact ==
    storage = "diff" /\ CalmCutoff =>
        \A s \in past, o \in Obj : s.calm /\ s.at >= cutoff /\ bypassed[o] = 0 =>
            Seen(Rebuilt(o, s.at - 1)) = LiveRow(s.rows, o)

(* An event that is silent about a column it changed, though an earlier    *)
(* event named that column: release 0.3 kept no diff of an INSERT or a     *)
(* DELETE and stripped the columns an UPDATE set to NULL.                  *)
Unsaid(A, e) ==
    \E c \in Tracked \ DOMAIN e.diff :
        /\ \E f \in Before(A, e) : c \in DOMAIN f.diff
        /\ Get(e.old_data, c) # Get(e.new_data, c)

(* An object every write of which went through the trigger is never named, *)
(* in any window, whatever its history, the release and storage mode each  *)
(* event was written under, and whatever events are gone after a calm      *)
(* cutoff.  With the diff body this holds of objects without changes that  *)
(* release 0.3 left out of its diffs, which still produce findings; the    *)
(* snapshots know those changes, so the body that reads them names none.   *)
UntouchedClean ==
    CalmCutoff => \A o \in Obj : bypassed[o] = 0 =>
        /\ o \notin Named(Verify(audit, live, "snapshots", 0))
        /\ (\A e \in Of(audit, o) : ~ Unsaid(audit, e)) =>
              o \notin Named(Verify(audit, live, "diff", 0))
==============================================================================
