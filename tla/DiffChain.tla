------------------------------ MODULE DiffChain ------------------------------
(***************************************************************************)
(* verify_diff_chain: the audit log of one table checked against itself    *)
(* and against the live rows, to find writes that bypassed the trigger.    *)
(*                                                                         *)
(* The trigger, the events and time travel are those of AuditLog.  A       *)
(* transaction here is one write; an event carries the instant its         *)
(* transaction began, which may be long before the write.  A deployment    *)
(* starts on an old release and is upgraded, so that its log holds events  *)
(* of every shape the readers provide for.                                 *)
(***************************************************************************)
EXTENDS AuditLog

CONSTANTS
    Releases,       \* releases the deployment runs, see Rank
    TrackedThen,    \* the columns the field filter let through before the current release
    Predating,      \* objects that may have a row before tracking starts
    MaxBypass       \* bound: unaudited writes, per object

Rank == [r \in {"0.3", "0.6.1", "current"} |->
            CASE r = "0.3" -> 1 [] r = "0.6.1" -> 2 [] OTHER -> 3]

ASSUME DiffChainAssumption ==
    /\ Releases \subseteq DOMAIN Rank /\ "current" \in Releases
    /\ TrackedThen \subseteq Tracked /\ Predating \subseteq Obj
    /\ Skipped = {}         \* tables with a log_condition are refused
    /\ MaxBypass \in Nat

VARIABLES
    release,    \* release whose trigger and jsonb_diff are installed
    claimed,    \* ghost: claimed[o][c]: what the last event naming c made of it
    breaks,     \* ghost: events whose old row was not the row the log claimed
    bypassed    \* ghost: bypassed[o]: writes of o the log does not know of

ghosts == <<claimed, breaks, bypassed>>
unused == <<dirty, pending, begun>>     \* open transactions of AuditLog
chainVars == <<vars, release, claimed, breaks, bypassed>>

------------------------------------------------------------------------------
(* The verification query.  A key/value row is one column of one event,    *)
(* with the value it had before and after it.                              *)

Absent == NoRow         \* SQL NULL in place of a value

Get(row, c) == IF row # NoRow /\ c \in DOMAIN row THEN row[c] ELSE Absent
Keys(row) == IF row = NoRow THEN {} ELSE DOMAIN row
NewSide(entry) == IF Paired(entry) THEN entry.new ELSE entry

(* Snapshots are read through the current field filter. *)
Seen(row) == IF row = NoRow THEN NoRow ELSE [c \in Keys(row) \cap Tracked |-> row[c]]

OldValue(e, c) ==
    IF c \in DOMAIN e.diff /\ Paired(e.diff[c]) THEN e.diff[c].old
    ELSE Get(Seen(e.old_data), c)

NewValue(e, c) ==
    IF c \in DOMAIN e.diff THEN NewSide(e.diff[c]) ELSE Get(Seen(e.new_data), c)

(* n_all: the new value of every key the event touches. *)
NAll(e) ==
    [c \in DOMAIN e.diff \cup (Keys(e.new_data) \cap Tracked) |-> NewValue(e, c)]

Before(A, e) == {f \in Of(A, e.object_id) : f.id < e.id}
After(A, e) == {f \in Of(A, e.object_id) : f.id > e.id}
HasSnapshots(e) == e.old_data # NoRow /\ e.new_data # NoRow

OutsideDiff(row, e) == [c \in Keys(Seen(row)) \ DOMAIN e.diff |-> row[c]]

(* Mutation: the last row of a run of snapshots is skipped as well. *)
SkippedAlways(A, e) ==
    /\ Before(A, e) # {} /\ HasSnapshots(e)
    /\ OutsideDiff(e.old_data, e) = OutsideDiff(e.new_data, e)

(* A full UPDATE inside a full run whose snapshots say nothing new outside *)
(* its diff contributes only its diff keys.                                *)
SkippedEvent(A, e) ==
    /\ Before(A, e) # {}
    /\ After(A, e) # {} /\ HasSnapshots(FirstEvent(After(A, e)))
    /\ HasSnapshots(e)
    /\ OutsideDiff(e.old_data, e) = OutsideDiff(e.new_data, e)
    /\ LET prior == NAll(LastEvent(Before(A, e)))
       IN  \A c \in Keys(Seen(e.old_data)) : c \in DOMAIN prior /\ prior[c] = e.old_data[c]

Bodies == {"diff", "snapshots"}

(* The columns event e contributes; "unskipped" is the snapshot body       *)
(* without its shortcut.                                                   *)
Contributes(A, e, body) ==
    IF body = "diff" \/ (body = "snapshots" /\ SkippedEvent(A, e)) THEN DOMAIN e.diff
    ELSE DOMAIN e.diff \cup Keys(Seen(e.old_data)) \cup Keys(Seen(e.new_data))

(* LAG over the rows of one key, which the snapshot body takes from the    *)
(* previous event when that one touches the key.                           *)
PreviousNew(A, e, c, body) ==
    LET prior == {f \in Before(A, e) : c \in Contributes(A, f, body)}
        last == LastEvent(Before(A, e))
    IN  IF body = "snapshots" /\ Before(A, e) # {} /\ c \in DOMAIN NAll(last) THEN NAll(last)[c]
        ELSE IF prior = {} THEN Absent ELSE NewValue(LastEvent(prior), c)

(* chain_guard: only paired entries have an old value in the diff body. *)
OldSideOf(e, c, body) ==
    IF body = "diff" /\ ~ Paired(e.diff[c]) THEN Absent ELSE OldValue(e, c)

Mismatch(e, kind, at) == [object_id |-> e.object_id, audit_id |-> e.id, kind |-> kind, at |-> at]

Always == MaxClock + 1      \* changed_at NULL: findings about the current state

Chain(A, o, body) ==
    {Mismatch(e, "chain", e.changed_at) : e \in {f \in Of(A, o) :
        \E c \in Contributes(A, f, body) :
            LET old == OldSideOf(f, c, body)
                previous == PreviousNew(A, f, c, body)
            IN  old # Absent /\ previous # Absent /\ old # previous}}

(* Mutation: the first event left by retention has to be an INSERT. *)
LifecycleFromInsert(A, o) ==
    {Mismatch(e, "lifecycle", e.changed_at) : e \in {f \in Of(A, o) :
        (f.operation = "INSERT") #
            (Before(A, f) = {} \/ LastEvent(Before(A, f)).operation = "DELETE")}}

Lifecycle(A, o) ==
    {Mismatch(e, "lifecycle", e.changed_at) : e \in {f \in Of(A, o) :
        /\ Before(A, f) # {}
        /\ (f.operation = "INSERT") # (LastEvent(Before(A, f)).operation = "DELETE")}}

AtTheEnd(A, L, o) ==
    {Mismatch(e, "lifecycle", Always) : e \in {f \in Of(A, o) :
        After(A, f) = {} /\ (f.operation = "DELETE") = (L[o] # NoRow)}}

(* Mutation: only the columns of the object's last event are compared. *)
LiveLastEvent(A, L, o, body) ==
    {Mismatch(e, "live", Always) : e \in {f \in Of(A, o) :
        /\ After(A, f) = {}
        /\ \E c \in Contributes(A, f, body) \cap Keys(LiveRow(L, o)) :
              NewValue(f, c) # L[o][c]}}

Live(A, L, o, body) ==
    {Mismatch(e, "live", Always) : e \in {f \in Of(A, o) :
        \E c \in Contributes(A, f, body) \cap Keys(LiveRow(L, o)) :
            /\ \A g \in After(A, f) : c \notin Contributes(A, g, body)
            /\ NewValue(f, c) # L[o][c]}}

Mismatches(A, L, o, body) ==
    Chain(A, o, body) \cup Lifecycle(A, o) \cup AtTheEnd(A, L, o) \cup Live(A, L, o, body)

KindRank == [lifecycle |-> 0, chain |-> 1, live |-> 2]

First(M) ==
    CHOOSE m \in M : \A n \in M :
        \/ m.audit_id < n.audit_id
        \/ m.audit_id = n.audit_id /\ KindRank[m.kind] <= KindRank[n.kind]

(* Mutation: the first finding of the object, if it is in the window. *)
VerifyFirstOnly(A, L, body, since) ==
    LET inScope == {o \in Obj : \E e \in Of(A, o) : e.changed_at >= since}
        found(o) == Mismatches(A, L, o, body)
    IN  {m \in {First(M) : M \in {found(o) : o \in inScope} \ {{}}} : m.at >= since}

(* One finding per object in scope; since = 0 is --full. *)
Verify(A, L, body, since) ==
    LET inScope == {o \in Obj : \E e \in Of(A, o) : e.changed_at >= since}
        found(o) == {m \in Mismatches(A, L, o, body) : m.at >= since}
    IN  {First(M) : M \in {found(o) : o \in inScope} \ {{}}}

Named(findings) == {m.object_id : m \in findings}

------------------------------------------------------------------------------
(* Writes *)

(* Release 0.3 wrote a diff for UPDATE only, with the new values alone,    *)
(* and jsonb_strip_nulls dropped the columns set to NULL; an SQL NULL diff *)
(* has no columns here.  Later releases pair old and new for every         *)
(* operation.                                                              *)
Changed(old, new) == {c \in TrackedThen : old # NoRow /\ new # NoRow /\ old[c] # new[c]}

LegacyDiff(old, new) ==
    IF release = "0.3" THEN [c \in {d \in Changed(old, new) : new[d] # Null} |-> new[c]]
    ELSE [c \in IF Operation(old, new) = "UPDATE" THEN Changed(old, new) ELSE TrackedThen |->
            [old |-> Shown(old, c), new |-> Shown(new, c)]]

(* Before 0.6.2 the snapshots were not filtered.                           *)
LegacyEvent(id, at, o, old, new) ==
    [id |-> id, changed_at |-> at, object_id |-> o, operation |-> Operation(old, new),
     diff |-> LegacyDiff(old, new), old_data |-> old, new_data |-> new]

EventNow(id, at, o, old, new) ==
    IF release = "current" THEN Event(id, at, o, old, new)
    ELSE LegacyEvent(id, at, o, old, new)

Claim(o, e) ==
    claimed' = [claimed EXCEPT ![o] =
        [c \in DOMAIN e.diff \cup DOMAIN @ |->
            IF c \in DOMAIN e.diff THEN NewSide(e.diff[c]) ELSE @[c]]]

(* The log claims another row than the one the event started from.  The    *)
(* log speaks of the columns it named before; a values-only entry makes no *)
(* statement about the old value.                                          *)
Contradicts(o, e) ==
    \/ Of(audit, o) # {} /\ (e.operation = "INSERT") #
                            (LastEvent(Of(audit, o)).operation = "DELETE")
    \/ \E c \in DOMAIN e.diff \cap DOMAIN claimed[o] :
          Paired(e.diff[c]) /\ e.diff[c].old # claimed[o][c]

(* A transaction that began at the instant at leaves no calm instant until *)
(* it commits.                                                             *)
LongTransaction(at) ==
    past' = {[s EXCEPT !.calm = s.calm /\ s.at <= at] : s \in past}

(* No event is written for a diff that is NULL.  In 0.3 that was before    *)
(* the nulls were stripped, and for UPDATE only: an UPDATE that sets       *)
(* columns to NULL and no others has an event with an empty diff.          *)
Logged(e, old, new) ==
    IF release = "0.3" THEN e.operation = "UPDATE" => Changed(old, new) # {}
    ELSE DOMAIN e.diff # {}

(* An audited write.  (A write under an old release of columns its filter  *)
(* leaves out, and no others, writes no event: it is a Bypass here.)       *)
Audited(o, new, at) ==
    LET old == live[o]
        e == EventNow(idSeq + 1, at, o, old, new)
    IN  /\ new # old /\ Logged(e, old, new)
        /\ idSeq < MaxEvents
        /\ idSeq' = idSeq + 1
        /\ audit' = audit \cup {e}
        /\ live' = [live EXCEPT ![o] = new]
        /\ LongTransaction(at)
        /\ Claim(o, e)
        /\ breaks' = IF Contradicts(o, e)
                 THEN breaks \cup {[object_id |-> o, at |-> at]} ELSE breaks
        /\ UNCHANGED <<unused, storage, clock, cutoff, release, bypassed>>

(* DISABLE TRIGGER, session_replication_role = replica, TRUNCATE: the row  *)
(* changes and no event is written.                                        *)
Bypass(o, new) ==
    /\ new # live[o]
    /\ bypassed[o] < MaxBypass
    /\ live' = [live EXCEPT ![o] = new]
    /\ bypassed' = [bypassed EXCEPT ![o] = @ + 1]
    /\ UNCHANGED <<unused, audit, storage, idSeq, clock, cutoff, past, release, claimed, breaks>>

Upgrade(r) ==
    /\ Rank[release] < Rank[r]
    /\ release' = r
    /\ UNCHANGED <<vars, ghosts>>

SwitchStorage(mode) ==
    /\ release = "current"
    /\ SetStorage(mode)
    /\ UNCHANGED <<release, ghosts>>

ChainInit ==
    /\ live \in {l \in [Obj -> Row \cup {NoRow}] : \A o \in Obj \ Predating : l[o] = NoRow}
    /\ dirty = [t \in Txn |-> [o \in {} |-> NoRow]]
    /\ audit = {} /\ pending = [t \in Txn |-> {}] /\ begun = [t \in Txn |-> 0]
    /\ storage = "full" /\ idSeq = 0 /\ clock = 1 /\ cutoff = 0
    /\ past = {[rows |-> live, at |-> 1, calm |-> TRUE]}
    /\ release = CHOOSE r \in Releases : \A s \in Releases : Rank[r] <= Rank[s]
    /\ claimed = [o \in Obj |-> [c \in {} |-> Null]]
    /\ breaks = {} /\ bypassed = [o \in Obj |-> 0]

ChainNext ==
    \/ Tick /\ UNCHANGED <<release, ghosts>>
    \/ \E o \in Obj, new \in Row \cup {NoRow} :
          \/ Bypass(o, new)
          \/ \E at \in 1..clock : Audited(o, new, at)
    \/ \E r \in Releases : Upgrade(r)
    \/ \E mode \in Modes : SwitchStorage(mode)

ChainSpec == ChainInit /\ [][ChainNext]_chainVars

------------------------------------------------------------------------------
(* Properties *)

ClaimedRowDiffers(o) ==
    /\ Of(audit, o) # {}
    /\ \/ (LastEvent(Of(audit, o)).operation = "DELETE") = (live[o] # NoRow)
       \/ \E c \in DOMAIN claimed[o] \cap Keys(LiveRow(live, o)) : claimed[o][c] # live[o][c]

(* A run names exactly the objects that have an event in its window and    *)
(* either broke in the window, when an event was written over a row other  *)
(* than the one the log claimed, or now differ from what the log claims:   *)
(* a break before the window hides none in it.  Purging forgets claims.    *)
VerifyExact ==
    cutoff = 0 => \A since \in {0} \cup 2..clock :     \* nothing is older than 1
        Named(Verify(audit, live, "diff", since)) =
            {o \in Obj :
                /\ \E e \in Of(audit, o) : e.changed_at >= since
                /\ \/ \E b \in breaks : b.object_id = o /\ b.at >= since
                   \/ ClaimedRowDiffers(o)}

(* An object a full run with snapshots does not name can be trusted: of an *)
(* object that had no row when tracking began, was inserted under the      *)
(* trigger and was bypassed at most once, a past state that is not rebuilt *)
(* as it was is always reported.  (A row that predates tracking and leaves *)
(* past the trigger leaves no trace when the log begins with an INSERT.)   *)
Misrebuilt(o) ==
    \E s \in past : s.calm /\
        Seen(ReconstructRow(audit, live, storage, o, s.at - 1)) # LiveRow(s.rows, o)

NewToTable(o) == \E s \in past : s.at = 1 /\ s.rows[o] = NoRow

CleanMeansExact ==
    cutoff = 0 => \A o \in Obj :
        /\ NewToTable(o)
        /\ Of(audit, o) # {} /\ FirstEvent(Of(audit, o)).operation = "INSERT"
        /\ bypassed[o] <= 1
        /\ Misrebuilt(o)
        => o \in Named(Verify(audit, live, "snapshots", 0))

(* The shortcut of the snapshot body changes no finding: not the objects,  *)
(* and not the event or the kind reported for them, for any window.        *)
ShortcutSound ==
    \A o \in Obj : (\E e \in Of(audit, o) : SkippedEvent(audit, e)) =>
        Mismatches(audit, live, o, "snapshots") = Mismatches(audit, live, o, "unskipped")
==============================================================================
