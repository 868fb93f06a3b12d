--------------------------- MODULE CompactionProofs ---------------------------
(***************************************************************************)
(* Theorems about Compaction, for every number of objects, events, jobs    *)
(* and sizes of a batch.  The first half is about the paging of a job: it  *)
(* forgets nothing that was eligible.  The second half is about what it    *)
(* clears: an object that passes the check has snapshots that only repeat  *)
(* its diffs and the live row (CheckedRestores), later writes keep that so *)
(* (RestoresAppend), and then the past is rebuilt without them (PastKept). *)
(***************************************************************************)
EXTENDS Compaction, AuditLogProofs

------------------------------------------------------------------------------
(* The inductive invariant *)

Columns == {"id", "changed_at", "object_id", "operation", "diff", "old_data", "new_data"}

(* Ids come from a sequence, and an event is a row of the audit table.     *)
EventsDrawn ==
    /\ idSeq \in Nat
    /\ \A e \in audit : /\ e.id \in Nat /\ e.id <= idSeq
                        /\ e.object_id \in Obj /\ DOMAIN e = Columns

Working == pc \in {"next", "compare", "clear"}

(* Of a job that runs: what it looked up when it started is true of the    *)
(* events there were then, and the batch is between two of its statements. *)
JobState ==
    /\ pc = "idle" \/ Working
    /\ hashFrom \in Nat /\ after \in Nat /\ batch \subseteq Obj
    /\ pc = "idle" => after = 0
    /\ pc \in {"idle", "next"} => batch = {}
    /\ Working => /\ upTo \in Nat /\ upTo <= idSeq
                  /\ seesHash <=> hashFrom <= upTo + 1

(* Left(e): the job had to clear e and did not. *)
Left(e) == /\ e.id <= upTo /\ Eligible(e, before)
           /\ e.object_id \notin excluded /\ e.id < hashFrom

(* Nothing is left of the objects the job is past. *)
PassedIsDone ==
    Working => \A e \in audit : Left(e) => e.object_id > after \/ e.object_id \in batch

JobInv == EventsDrawn /\ JobState /\ PassedIsDone

------------------------------------------------------------------------------
(* The events of the application *)

(* The fields of an event, whatever release writes it.                     *)
LEMMA EventFields ==
    ASSUME NEW id, NEW at, NEW o, NEW old, NEW new
    PROVE  LET e == EventNow(id, at, o, old, new)
           IN  /\ e.id = id /\ e.object_id = o /\ e.changed_at = at /\ DOMAIN e = Columns
<1>1. LET e == Event(id, at, o, old, new)
      IN  /\ e.id = id /\ e.object_id = o /\ e.changed_at = at /\ DOMAIN e = Columns
  BY DEF Event, Columns
<1>2. LET e == LegacyEvent(id, at, o, old, new)
      IN  /\ e.id = id /\ e.object_id = o /\ e.changed_at = at /\ DOMAIN e = Columns
  BY DEF LegacyEvent, Columns
<1> QED
  BY <1>1, <1>2 DEF EventNow

(* The application only adds events, under ids past every one drawn.       *)
LEMMA ApplicationAppends ==
    ASSUME EventsDrawn, Application
    PROVE  /\ EventsDrawn' /\ idSeq <= idSeq'
           /\ \A e \in audit' : e \in audit \/ e.id = idSeq + 1
<1>1. ASSUME UNCHANGED <<audit, idSeq>>
      PROVE  EventsDrawn' /\ idSeq <= idSeq' /\ \A e \in audit' : e \in audit \/ e.id = idSeq + 1
  BY <1>1 DEF EventsDrawn
<1>2. ASSUME NEW o \in Obj, NEW new \in Row \cup {NoRow}, NEW at \in 1..clock,
             Audited(o, new, at)
      PROVE  EventsDrawn' /\ idSeq <= idSeq' /\ \A e \in audit' : e \in audit \/ e.id = idSeq + 1
  <2> DEFINE e == EventNow(idSeq + 1, at, o, live[o], new)
  <2>1. audit' = audit \cup {e} /\ idSeq' = idSeq + 1
    BY <1>2 DEF Audited
  <2>2. e.id = idSeq + 1 /\ e.object_id = o /\ DOMAIN e = Columns
    BY EventFields
  <2> HIDE DEF e
  <2>3. /\ idSeq \in Nat
        /\ \A f \in audit : /\ f.id \in Nat /\ f.id <= idSeq
                            /\ f.object_id \in Obj /\ DOMAIN f = Columns
    BY DEF EventsDrawn
  <2>4. \A f \in audit' : f \in audit \/ f = e
    BY <2>1
  <2>5. \A f \in audit' : /\ f.id \in Nat /\ f.id <= idSeq'
                          /\ f.object_id \in Obj /\ DOMAIN f = Columns
    BY <2>1, <2>2, <2>3, <2>4
  <2> QED
    BY <2>1, <2>2, <2>3, <2>4, <2>5 DEF EventsDrawn
<1>3. ChainNext
  BY DEF Application
<1>4. CASE Tick \/ (\E o \in Obj, new \in Row \cup {NoRow} : Bypass(o, new))
           \/ (\E r \in Releases : Upgrade(r)) \/ (\E mode \in Modes : SwitchStorage(mode))
  BY <1>1, <1>4 DEF Tick, Bypass, Upgrade, SwitchStorage, SetStorage, vars
<1> QED
  BY <1>2, <1>3, <1>4 DEF ChainNext

------------------------------------------------------------------------------
(* The statements of the job *)

(* The lowest objects past the last batch are the batch: none is passed    *)
(* over.                                                                   *)
LEMMA BatchIsLowest ==
    ASSUME NEW rest, rest \subseteq Obj, rest # {}
    PROVE  /\ FirstOf(rest) # {} /\ FirstOf(rest) \subseteq rest
           /\ \E o \in FirstOf(rest) : \A p \in FirstOf(rest) : p <= o
           /\ \A o \in rest, p \in FirstOf(rest) : o <= p => o \in FirstOf(rest)
<1>0. rest \subseteq Nat /\ IsFiniteSet(rest) /\ BatchSize \in Nat /\ 0 < BatchSize
  <2>1. Obj \subseteq Nat /\ IsFiniteSet(Obj) /\ BatchSize \in Nat /\ 0 < BatchSize
    BY CompactionAssumption
  <2> QED
    BY <2>1, FS_Subset
<1> DEFINE Below(o) == {p \in rest : p < o}
<1>1. \A o : IsFiniteSet(Below(o)) /\ Cardinality(Below(o)) \in Nat
  BY <1>0, FS_Subset, FS_CardinalityType
<1>2. PICK least \in rest : \A p \in rest : least <= p
  BY <1>0, Least
<1>3. Below(least) = {}
  <2>1. \A p \in rest : ~ (p < least)
    <3> SUFFICES ASSUME NEW p \in rest PROVE ~ (p < least)
      OBVIOUS
    <3>1. p \in Nat /\ least \in Nat /\ least <= p
      BY <1>0, <1>2
    <3> QED
      BY <3>1
  <2> QED
    BY <2>1
<1>4. Cardinality(Below(least)) = 0
  BY <1>3, FS_EmptySet
<1>5. least \in FirstOf(rest)
  BY <1>0, <1>2, <1>4 DEF FirstOf
<1>6. FirstOf(rest) \subseteq rest
  BY DEF FirstOf
<1>7. \E o \in FirstOf(rest) : \A p \in FirstOf(rest) : p <= o
  <2>1. FirstOf(rest) \subseteq Nat /\ IsFiniteSet(FirstOf(rest)) /\ FirstOf(rest) # {}
    BY <1>0, <1>5, <1>6, FS_Subset
  <2> QED
    BY <2>1, GreatestOfFinite
<1>8. ASSUME NEW o \in rest, NEW p \in FirstOf(rest), o <= p PROVE o \in FirstOf(rest)
  <2>1. Below(o) \subseteq Below(p)
    <3> SUFFICES ASSUME NEW q \in rest, q < o PROVE q < p
      OBVIOUS
    <3>1. o \in Nat /\ p \in Nat /\ q \in Nat
      BY <1>0, <1>6
    <3> QED
      BY <1>8, <3>1
  <2>2. Cardinality(Below(o)) <= Cardinality(Below(p))
    BY <1>1, <2>1, FS_Subset
  <2>3. Cardinality(Below(p)) < BatchSize
    BY DEF FirstOf
  <2>4. Cardinality(Below(o)) < BatchSize
    <3>1. Cardinality(Below(o)) \in Nat /\ Cardinality(Below(p)) \in Nat
      BY <1>1
    <3> HIDE DEF Below
    <3> QED
      BY <1>0, <2>2, <2>3, <3>1
  <2> QED
    BY <2>4 DEF FirstOf
<1> QED
  BY <1>5, <1>6, <1>7, <1>8

(* The next batch is the first of the objects the job is not past.         *)
LEMMA NextBatchKeeps ==
    ASSUME JobInv, NextBatch
    PROVE  JobInv'
<1>1. /\ pc = "next" /\ pc' = "compare" /\ batch' = FirstOf(Rest) /\ Rest # {}
      /\ after' = CHOOSE o \in batch' : \A p \in batch' : p <= o
      /\ excluded \subseteq excluded'
      /\ UNCHANGED <<audit, idSeq, before, hashFrom, seesHash, upTo>>
  BY DEF NextBatch, chainVars, vars, jobGhosts
<1>2. Rest \subseteq Obj /\ Obj \subseteq Nat
  BY CompactionAssumption DEF Rest
<1>3. /\ batch' # {} /\ batch' \subseteq Rest
      /\ \E o \in batch' : \A p \in batch' : p <= o
      /\ \A o \in Rest, p \in batch' : o <= p => o \in batch'
  BY <1>1, <1>2, BatchIsLowest
<1>4. after' \in batch'
  BY <1>1, <1>3
<1>5. EventsDrawn'
  BY <1>1 DEF JobInv, EventsDrawn
<1>6. JobState'
  BY <1>1, <1>2, <1>3, <1>4 DEF JobInv, JobState, Working
<1>7. PassedIsDone'
  <2> SUFFICES ASSUME NEW e \in audit, Left(e)'
               PROVE  e.object_id > after' \/ e.object_id \in batch'
    BY <1>1 DEF PassedIsDone
  <2>1. Left(e)
    BY <1>1 DEF Left
  <2>2. e.object_id > after
    BY <1>1, <2>1 DEF JobInv, PassedIsDone, JobState, Working
  <2>3. e.object_id \in Obj
    BY DEF JobInv, EventsDrawn
  <2>4. e.object_id \in Rest
    BY <2>2, <2>3 DEF Rest, Of
  <2>5. e.object_id <= after' => e.object_id \in batch'
    BY <1>3, <1>4, <2>4
  <2>6. e.object_id \in Nat /\ after' \in Nat
    BY <1>2, <1>3, <1>4, <2>3
  <2> QED
    BY <2>5, <2>6
<1> QED
  BY <1>5, <1>6, <1>7 DEF JobInv

(* The UPDATE clears every eligible event of the batch.                    *)
LEMMA ClearBatchKeeps ==
    ASSUME JobInv, ClearBatch
    PROVE  JobInv'
<1> DEFINE cleared == {e \in audit : /\ e.object_id \in batch \ excluded
                                     /\ Eligible(e, before)
                                     /\ seesHash => e.id < hashFrom}
<1>1. /\ pc = "clear" /\ pc' = "next" /\ batch' = {} /\ audit' = Cleared(audit, cleared)
      /\ UNCHANGED <<idSeq, before, after, excluded, seesHash, hashFrom, upTo>>
  BY DEF ClearBatch
<1>2. \A f \in audit' : \/ f \in audit /\ f \notin cleared
                        \/ \E e \in cleared : f = [e EXCEPT !.old_data = NoRow, !.new_data = NoRow]
  BY <1>1 DEF Cleared
<1>3. ASSUME NEW e \in audit, NEW f, f = [e EXCEPT !.old_data = NoRow, !.new_data = NoRow]
      PROVE  /\ f.id = e.id /\ f.object_id = e.object_id /\ DOMAIN f = Columns
             /\ f.old_data = NoRow /\ f.new_data = NoRow
  <2>1. DOMAIN e = Columns
    BY DEF JobInv, EventsDrawn
  <2> QED
    BY <1>3, <2>1 DEF Columns
<1>4. \A e \in cleared : e \in audit
  OBVIOUS
<1> HIDE DEF cleared
<1>5. EventsDrawn'
  <2>1. \A f \in audit' : /\ f.id \in Nat /\ f.id <= idSeq
                          /\ f.object_id \in Obj /\ DOMAIN f = Columns
    BY <1>2, <1>3, <1>4 DEF JobInv, EventsDrawn
  <2> QED
    BY <1>1, <2>1 DEF JobInv, EventsDrawn
<1>6. JobState'
  BY <1>1 DEF JobInv, JobState, Working
<1>7. PassedIsDone'
  <2> SUFFICES ASSUME NEW f \in audit', Left(f)'
               PROVE  f.object_id > after
    BY <1>1 DEF PassedIsDone
  <2>1. Left(f)
    BY <1>1 DEF Left
  <2>2. f \in audit /\ f \notin cleared
    BY <1>2, <1>3, <1>4, <2>1 DEF Left, Eligible, HasSnapshot
  <2>3. f.object_id > after \/ f.object_id \in batch
    BY <1>1, <2>1, <2>2 DEF JobInv, PassedIsDone, JobState, Working
  <2>4. f.object_id \notin batch
    BY <2>1, <2>2 DEF Left, cleared
  <2> QED
    BY <2>3, <2>4
<1> QED
  BY <1>5, <1>6, <1>7 DEF JobInv

(***************************************************************************)
(* The inductive invariant: of the objects a job is past nothing that was  *)
(* eligible when it started is left, but of the excluded ones, and what it *)
(* knows of the hash chain is true of the events there were then.          *)
(***************************************************************************)
THEOREM JobInvariant == CompactionSpec => []JobInv
<1>1. CompactionInit => JobInv
  <2> SUFFICES ASSUME CompactionInit PROVE JobInv
    OBVIOUS
  <2>1. HashedFrom \subseteq Nat
    BY CompactionAssumption
  <2>2. EventsDrawn
    BY DEF CompactionInit, ChainInit, EventsDrawn
  <2>3. JobState /\ PassedIsDone
    BY <2>1 DEF CompactionInit, JobState, PassedIsDone, Working
  <2> QED
    BY <2>2, <2>3 DEF JobInv
<1>2. JobInv /\ [CompactionNext]_compactionVars => JobInv'
  <2> SUFFICES ASSUME JobInv, [CompactionNext]_compactionVars PROVE JobInv'
    OBVIOUS
  <2>0. hashFrom \in Nat /\ idSeq \in Nat
    BY DEF JobInv, JobState, EventsDrawn
  <2>1. CASE Application
    <3>1. UNCHANGED <<pc, before, after, batch, excluded, seesHash, hashFrom, upTo>>
      BY <2>1 DEF Application, jobVars
    <3>2. /\ EventsDrawn' /\ idSeq <= idSeq'
          /\ \A e \in audit' : e \in audit \/ e.id = idSeq + 1
      BY <2>1, ApplicationAppends DEF JobInv
    <3>3. idSeq' \in Nat
      BY <3>2 DEF EventsDrawn
    <3>4. JobState'
      BY <2>0, <3>1, <3>2, <3>3 DEF JobInv, JobState, Working
    <3>5. PassedIsDone'
      <4> SUFFICES ASSUME Working, NEW e \in audit', Left(e)'
                   PROVE  e.object_id > after \/ e.object_id \in batch
        BY <3>1 DEF PassedIsDone, Working
      <4>1. Left(e)
        BY <3>1 DEF Left
      <4>2. e \in audit
        BY <2>0, <3>2, <4>1 DEF JobInv, JobState, Left
      <4> QED
        BY <4>1, <4>2 DEF JobInv, PassedIsDone
    <3> QED
      BY <3>2, <3>4, <3>5 DEF JobInv
  <2>2. ASSUME NEW limit \in 2..Always, Start(limit) PROVE JobInv'
    <3>1. /\ pc = "idle" /\ pc' = "next" /\ upTo' = idSeq
          /\ seesHash' = (hashFrom <= idSeq + 1)
          /\ UNCHANGED <<audit, idSeq, after, batch, excluded, hashFrom>>
      BY <2>2 DEF Start, chainVars, vars
    <3>2. EventsDrawn'
      BY <3>1 DEF JobInv, EventsDrawn
    <3>3. JobState'
      <4>1. after = 0 /\ batch = {} /\ hashFrom \in Nat
        BY <3>1 DEF JobInv, JobState
      <4>2. idSeq <= idSeq
        BY <2>0
      <4> QED
        BY <2>0, <3>1, <4>1, <4>2 DEF JobState, Working
    <3>4. PassedIsDone'
      <4>1. \A e \in audit : e.object_id > 0
        <5> SUFFICES ASSUME NEW e \in audit PROVE e.object_id > 0
          OBVIOUS
        <5>1. e.object_id \in Nat \ {0}
          BY CompactionAssumption DEF JobInv, EventsDrawn
        <5> QED
          BY <5>1
      <4> QED
        BY <3>1, <4>1 DEF JobInv, JobState, PassedIsDone
    <3> QED
      BY <3>2, <3>3, <3>4 DEF JobInv
  <2>3. CASE NextBatch
    BY <2>3, NextBatchKeeps
  <2>4. CASE CompareBatch
    <3>1. /\ pc = "compare" /\ pc' = "clear" /\ excluded \subseteq excluded'
          /\ UNCHANGED <<audit, idSeq, before, after, batch, seesHash, hashFrom, upTo>>
      BY <2>4 DEF CompareBatch, chainVars, vars, jobGhosts
    <3>2. EventsDrawn'
      BY <3>1 DEF JobInv, EventsDrawn
    <3>3. JobState'
      BY <3>1 DEF JobInv, JobState, Working
    <3>4. PassedIsDone'
      BY <3>1 DEF JobInv, PassedIsDone, Left, Working
    <3> QED
      BY <3>2, <3>3, <3>4 DEF JobInv
  <2>5. CASE ClearBatch
    BY <2>5, ClearBatchKeeps
  <2>6. CASE EndJob \/ Interrupt
    <3>1. /\ pc' = "idle" /\ after' = 0 /\ batch' = {}
          /\ UNCHANGED <<audit, idSeq, hashFrom>>
      BY <2>6 DEF EndJob, Interrupt, Reset, chainVars, vars
    <3> QED
      BY <3>1 DEF JobInv, EventsDrawn, JobState, PassedIsDone, Working
  <2>7. CASE UNCHANGED compactionVars
    BY <2>7 DEF compactionVars, chainVars, vars, jobVars, jobGhosts, JobInv, EventsDrawn,
                JobState, PassedIsDone, Working, Left
  <2> QED
    BY <2>1, <2>2, <2>3, <2>4, <2>5, <2>6, <2>7 DEF CompactionNext
<1> QED
  BY <1>1, <1>2, PTL DEF CompactionSpec

(***************************************************************************)
(* A job of compact_snapshots that comes to its end has cleared every      *)
(* event that was eligible when it started, but those of the objects it    *)
(* reports and those of the hash chain, in batches of any size and         *)
(* whatever the application writes in between.                             *)
(***************************************************************************)
THEOREM JobsAreComplete == CompactionSpec => CompactionComplete
<1>1. ASSUME JobInv, EndJob, NEW e \in audit, e.id <= upTo, Eligible(e, before)
      PROVE  e.object_id \in excluded \/ e.id >= hashFrom
  <2>1. e.id \in Nat /\ e.object_id \in Obj /\ hashFrom \in Nat /\ Obj \subseteq Nat /\ after \in Nat
    BY <1>1, CompactionAssumption DEF JobInv, EventsDrawn, JobState
  <2>2. pc = "next" /\ batch = {}
    BY <1>1 DEF EndJob, JobInv, JobState
  <2>3. ~ (e.object_id > after)
    BY <1>1, <2>1 DEF EndJob, Rest, Of
  <2>4. ~ Left(e)
    BY <1>1, <2>2, <2>3 DEF JobInv, PassedIsDone, Working
  <2> QED
    BY <1>1, <2>1, <2>4 DEF Left
<1>2. JobInv => (EndJob => \A e \in audit :
          e.id <= upTo /\ Eligible(e, before) => e.object_id \in excluded \/ e.id >= hashFrom)
  BY <1>1
<1> QED
  BY <1>2, JobInvariant, PTL DEF CompactionComplete

------------------------------------------------------------------------------
(* What the check of an object establishes *)

(* The sides of the diff and the snapshots of one event belong together.   *)
Agrees(e) ==
    /\ e.operation = "INSERT" => e.old_data = NoRow
    /\ e.operation = "DELETE" => e.new_data = NoRow
    /\ e.operation = "UPDATE" => (e.old_data = NoRow <=> e.new_data = NoRow)
    /\ e.operation = "DELETE" => e.old_data # NoRow \/ DOMAIN e.diff = Tracked
    /\ e.operation = "UPDATE" /\ DOMAIN e.diff = {} =>
          /\ e.old_data # NoRow
          /\ \E c \in Tracked : e.old_data[c] # e.new_data[c]
    /\ \A c \in DOMAIN e.diff : Paired(e.diff[c]) =>
          /\ e.old_data # NoRow => e.old_data[c] = e.diff[c].old
          /\ e.new_data # NoRow => e.new_data[c] = e.diff[c].new

(* The diff leaves out nothing of what the event was: what some release    *)
(* recorded in the snapshots alone is not cleared.                         *)
Whole(e) ==
    /\ e.operation = "DELETE" => DOMAIN e.diff = Tracked
    /\ e.operation = "UPDATE" => DOMAIN e.diff # {}

(* The releases come one after the other: after a diff of pairs, which an  *)
(* empty one is not, there are only pairs.                                 *)
Aged(A) ==
    \A e, f \in A : e.id < f.id =>
        (DOMAIN e.diff # {} /\ PairsOnly(e) => PairsOnly(f))

(* The events after e can be undone. *)
Settled(V, e) == \A f \in V : f.id > e.id => PairsOnly(f)

(* The snapshots of e hold nothing that the diffs and the live row do not. *)
Restores(V, row, e) ==
    /\ e.old_data # NoRow =>
          \A c \in Tracked : e.old_data[c] = Was(From(V, e.id), row, c)
    /\ e.new_data # NoRow /\ Settled(V, e) =>
          \A c \in Tracked : e.new_data[c] = Was(From(V, e.id + 1), row, c)

(* Every finding has an instant, and so is in the window of a full run.    *)
LEMMA FindingAt ==
    ASSUME NEW A, \A e \in A : e.changed_at \in Nat, NEW L, NEW o, NEW body,
           NEW m \in Mismatches(A, L, o, body)
    PROVE  m.at \in Nat
<1>1. PICK e \in Of(A, o) :
          \E kind : \E at \in {e.changed_at, Always} : m = Mismatch(e, kind, at)
  BY DEF Mismatches, Chain, Lifecycle, AtTheEnd, Live
<1>2. m.at \in {e.changed_at, Always} /\ e.changed_at \in Nat
  BY <1>1 DEF Mismatch, Of
<1>3. Always \in Nat
  BY Assumed DEF Always
<1> QED
  BY <1>2, <1>3

(* A full run that does not name an object that has events found nothing   *)
(* about it.                                                               *)
LEMMA NothingFound ==
    ASSUME Basis, NEW o \in Obj, Of(audit, o) # {},
           o \notin Named(Verify(audit, live, "snapshots", 0))
    PROVE  Mismatches(audit, live, o, "unskipped") = {}
<1>1. \A e \in audit : e.id \in Nat /\ e.changed_at \in Nat
  BY BasisFacts
<1>2. \E e \in Of(audit, o) : e.changed_at >= 0
  BY <1>1 DEF Of
<1>3. \A m \in Mismatches(audit, live, o, "snapshots") : m.at >= 0
  <2> SUFFICES ASSUME NEW m \in Mismatches(audit, live, o, "snapshots") PROVE m.at >= 0
    OBVIOUS
  <2>1. m.at \in Nat
    BY <1>1, FindingAt
  <2> QED
    BY <2>1
<1>4. Mismatches(audit, live, o, "snapshots") = {}
  BY <1>1, <1>2, <1>3, VerifyNames
<1> QED
  BY <1>4, LogOf, ShortcutChangesNothing

(* What it says of the log that nothing is found.                          *)
LEMMA CleanFacts ==
    ASSUME NEW A, NEW L, NEW o, Mismatches(A, L, o, "unskipped") = {}, NEW f \in Of(A, o)
    PROVE  /\ \A c \in Contributes(A, f, "unskipped") :
                 \/ OldValue(f, c) = Absent
                 \/ PreviousNew(A, f, c, "unskipped") = Absent
                 \/ OldValue(f, c) = PreviousNew(A, f, c, "unskipped")
           /\ Before(A, f) # {} =>
                 (f.operation = "INSERT" <=> LastEvent(Before(A, f)).operation = "DELETE")
           /\ After(A, f) = {} => (f.operation = "DELETE" <=> L[o] = NoRow)
           /\ \A c \in Contributes(A, f, "unskipped") \cap Keys(LiveRow(L, o)) :
                 (\A g \in After(A, f) : c \notin Contributes(A, g, "unskipped"))
                 => NewValue(f, c) = L[o][c]
<1>0. /\ Chain(A, o, "unskipped") = {} /\ Lifecycle(A, o) = {}
      /\ AtTheEnd(A, L, o) = {} /\ Live(A, L, o, "unskipped") = {}
  BY DEF Mismatches
<1>1. \A c \in Contributes(A, f, "unskipped") :
          \/ OldValue(f, c) = Absent
          \/ PreviousNew(A, f, c, "unskipped") = Absent
          \/ OldValue(f, c) = PreviousNew(A, f, c, "unskipped")
  BY <1>0 DEF Chain, OldSideOf
<1>2. Before(A, f) # {} =>
          (f.operation = "INSERT" <=> LastEvent(Before(A, f)).operation = "DELETE")
  BY <1>0 DEF Lifecycle
<1>3. After(A, f) = {} => (f.operation = "DELETE" <=> L[o] = NoRow)
  BY <1>0 DEF AtTheEnd
<1>4. \A c \in Contributes(A, f, "unskipped") \cap Keys(LiveRow(L, o)) :
          (\A g \in After(A, f) : c \notin Contributes(A, g, "unskipped"))
          => NewValue(f, c) = L[o][c]
  BY <1>0 DEF Live
<1> QED
  BY <1>1, <1>2, <1>3, <1>4

(* An event that has a snapshot shows every column in it.                  *)
LEMMA ShownBySnapshot ==
    ASSUME NEW e, Entered(e), NEW c \in Tracked
    PROVE  /\ e.old_data # NoRow => /\ Get(Seen(e.old_data), c) = e.old_data[c]
                                    /\ Get(e.old_data, c) = e.old_data[c]
                                    /\ e.old_data[c] \in Cell /\ e.old_data[c] # Absent
                                    /\ c \in Keys(Seen(e.old_data)) /\ c \in Keys(e.old_data)
           /\ e.new_data # NoRow => /\ Get(Seen(e.new_data), c) = e.new_data[c]
                                    /\ Get(e.new_data, c) = e.new_data[c]
                                    /\ e.new_data[c] \in Cell /\ e.new_data[c] # Absent
                                    /\ c \in Keys(Seen(e.new_data)) /\ c \in Keys(e.new_data)
           /\ e.new_data = NoRow => Get(Seen(e.new_data), c) = Absent
<1>1. \A snap \in SnapshotRow : snap # NoRow =>
          /\ Get(Seen(snap), c) = snap[c] /\ Get(snap, c) = snap[c]
          /\ snap[c] \in Cell /\ snap[c] # Absent
          /\ c \in Keys(Seen(snap)) /\ c \in Keys(snap)
  <2> SUFFICES ASSUME NEW snap \in SnapshotRow, snap # NoRow
               PROVE  /\ Get(Seen(snap), c) = snap[c] /\ Get(snap, c) = snap[c]
                      /\ snap[c] \in Cell /\ snap[c] # Absent
                      /\ c \in Keys(Seen(snap)) /\ c \in Keys(snap)
    OBVIOUS
  <2>1. /\ Keys(Seen(snap)) = Tracked /\ Seen(snap) # NoRow
        /\ Seen(snap)[c] = snap[c] /\ snap[c] \in Cell
    BY SeenSnapshot
  <2>2. c \in DOMAIN snap
    BY Assumed DEF SnapshotRow, Row
  <2> QED
    BY <2>1, <2>2, ChainAssumed DEF Get, Keys, Absent
<1>2. e.old_data \in SnapshotRow /\ e.new_data \in SnapshotRow
  BY DEF Entered
<1>3. e.new_data = NoRow => Get(Seen(e.new_data), c) = Absent
  BY DEF Get, Seen
<1> QED
  BY <1>1, <1>2, <1>3

(* Where no snapshot records what its diff does not: an UPDATE kept the    *)
(* columns it does not name, and named some, and a DELETE names all.       *)
LEMMA SnapshotsAdd ==
    ASSUME NEW A, NEW o, ~ SnapshotOnly(A, o), NEW e \in Of(A, o), Entered(e), Agrees(e)
    PROVE  /\ Whole(e)
           /\ e.operation = "UPDATE" /\ e.old_data # NoRow =>
                 \A c \in Tracked \ DOMAIN e.diff : e.old_data[c] = e.new_data[c]
<1>1. \A c \in OnlyInSnapshot(e) :
          /\ e.operation = "UPDATE" => Get(e.old_data, c) = Get(e.new_data, c)
          /\ e.operation = "DELETE" => c \notin Keys(e.old_data)
  BY DEF SnapshotOnly
<1>2. \A c \in Tracked \ DOMAIN e.diff : e.old_data # NoRow => c \in OnlyInSnapshot(e)
  BY ShownBySnapshot DEF OnlyInSnapshot
<1>3. DOMAIN e.diff \subseteq Tracked
  BY DEF Entered
<1>4. e.operation = "DELETE" => DOMAIN e.diff = Tracked
  BY <1>1, <1>2, <1>3, ShownBySnapshot DEF Agrees
<1>5. ASSUME e.operation = "UPDATE", e.old_data # NoRow, NEW c \in Tracked \ DOMAIN e.diff
      PROVE  e.old_data[c] = e.new_data[c]
  <2>1. Get(e.old_data, c) = Get(e.new_data, c)
    BY <1>1, <1>2, <1>5
  <2>2. e.new_data # NoRow
    BY <1>5 DEF Agrees
  <2> QED
    BY <1>5, <2>1, <2>2, ShownBySnapshot
<1>6. e.operation = "UPDATE" => DOMAIN e.diff # {}
  BY <1>5 DEF Agrees
<1> QED
  BY <1>4, <1>5, <1>6 DEF Whole

(* Events that do not name a column do not change what it was.             *)
LEMMA WasSkips ==
    ASSUME NEW V, Ordered(V), NEW row, NEW c, NEW i \in Nat, NEW j \in Nat, i <= j,
           \A g \in V : g.id >= i /\ c \in DOMAIN g.diff => g.id >= j
    PROVE  Was(From(V, i), row, c) = Was(From(V, j), row, c)
<1>1. \A g \in V : g.id \in Nat
  BY DEF Ordered
<1>2. Naming(From(V, i), c) = Naming(From(V, j), c)
  BY <1>1 DEF Naming, From
<1> QED
  BY <1>2 DEF Was

(* The first event to name it says what it was.                            *)
LEMMA WasFirst ==
    ASSUME NEW V, Ordered(V), NEW row, NEW e \in V, NEW c \in DOMAIN e.diff,
           NEW i \in Nat, i <= e.id,
           \A g \in V : g.id >= i /\ c \in DOMAIN g.diff => g.id >= e.id
    PROVE  Was(From(V, i), row, c) = OldOf(e, c)
<1>1. e.id \in Nat /\ Ordered(From(V, i))
  BY FromOrdered DEF Ordered
<1>2. e \in From(V, i)
  BY <1>1 DEF From
<1>3. \A g \in From(V, i) : c \in DOMAIN g.diff => e.id <= g.id
  <2> SUFFICES ASSUME NEW g \in V, g.id >= i, c \in DOMAIN g.diff PROVE e.id <= g.id
    BY DEF From
  <2>1. g.id >= e.id /\ g.id \in Nat
    BY DEF Ordered
  <2> QED
    BY <1>1, <2>1
<1> QED
  BY <1>1, <1>2, <1>3, WasFacts

(* An object that was checked: nothing was found, and no snapshot records  *)
(* what its diff does not.                                                 *)
Checked(A, L, o, n) ==
    /\ Log(A, o, n) /\ L[o] \in AnyRow
    /\ Aged(Of(A, o)) /\ \A e \in Of(A, o) : Agrees(e)
    /\ Mismatches(A, L, o, "unskipped") = {} /\ ~ SnapshotOnly(A, o)

(* What an event of a checked object is.                                   *)
LEMMA CheckedEvent ==
    ASSUME NEW A, NEW L, NEW o, NEW n, Checked(A, L, o, n), NEW e \in Of(A, o)
    PROVE  /\ Entered(e) /\ Agrees(e) /\ e.id \in Nat /\ e.id <= n /\ n \in Nat
           /\ Contributes(A, e, "unskipped") \subseteq Tracked
           /\ DOMAIN e.diff \subseteq Contributes(A, e, "unskipped")
           /\ e.old_data # NoRow \/ e.new_data # NoRow => Contributes(A, e, "unskipped") = Tracked
           /\ e.old_data = NoRow /\ e.new_data = NoRow =>
                 Contributes(A, e, "unskipped") = DOMAIN e.diff
           /\ Whole(e)
           /\ e.operation = "UPDATE" /\ e.old_data # NoRow =>
                 \A c \in Tracked \ DOMAIN e.diff : e.old_data[c] = e.new_data[c]
<1>1. Entered(e) /\ Agrees(e) /\ e.id \in Nat /\ e.id <= n /\ n \in Nat
  BY DEF Checked, Log
<1>2. DOMAIN e.diff \subseteq Tracked
  BY <1>1 DEF Entered
<1>3. Contributes(A, e, "unskipped") =
          IF e.old_data = NoRow /\ e.new_data = NoRow THEN DOMAIN e.diff ELSE Tracked
  BY <1>1, ContributesFacts
<1>4. ~ SnapshotOnly(A, o)
  BY DEF Checked
<1>5. /\ Whole(e)
      /\ e.operation = "UPDATE" /\ e.old_data # NoRow =>
            \A c \in Tracked \ DOMAIN e.diff : e.old_data[c] = e.new_data[c]
  BY <1>1, <1>4, SnapshotsAdd
<1> QED
  BY <1>1, <1>2, <1>3, <1>5

(* What a diff with pairs alone says that a column became.                 *)
LEMMA NewValueOfPair ==
    ASSUME NEW e, NEW c \in DOMAIN e.diff, PairsOnly(e)
    PROVE  NewValue(e, c) = e.diff[c].new /\ OldValue(e, c) = e.diff[c].old
BY DEF PairsOnly, NewValue, OldValue, NewSide

(* The last event to say something of a column, if it left a row, says     *)
(* what it is now.                                                         *)
LEMMA SaidLast ==
    ASSUME NEW A, NEW L, NEW o, NEW n, Checked(A, L, o, n), NEW e \in Of(A, o),
           e.operation # "DELETE", NEW c \in Contributes(A, e, "unskipped"),
           \A g \in After(A, e) : c \notin Contributes(A, g, "unskipped")
    PROVE  NewValue(e, c) = ValueOf(L[o], c)
<1>1. c \in Tracked /\ L[o] \in AnyRow /\ e.id \in Nat /\ e.object_id = o
  BY CheckedEvent DEF Checked, Of
<1>2. CASE L[o] # NoRow
  <2>1. L[o] \in Row
    BY <1>1, <1>2 DEF AnyRow
  <2>2. Keys(LiveRow(L, o)) = Tracked
    BY <1>2, <2>1, Filtered DEF LiveRow, Keys, Filter
  <2>3. NewValue(e, c) = L[o][c]
    BY <1>1, <2>2, CleanFacts DEF Checked
  <2> QED
    BY <1>1, <2>1, <2>3, Filtered
<1>3. CASE L[o] = NoRow
  <2> DEFINE V == Of(A, o)
             last == LastEvent(V)
  <2>1. last \in V /\ \A f \in V : f.id <= last.id
    <3>1. \A f \in V : f.id \in Nat /\ f.id <= n /\ n \in Nat
      BY CheckedEvent
    <3> HIDE DEF V
    <3> QED
      BY <3>1, LastEventOf DEF V
  <2> HIDE DEF last
  <2>2. last.id \in Nat /\ last.object_id = o
    BY <2>1, CheckedEvent DEF Of
  <2>3. After(A, last) = {}
    <3> SUFFICES ASSUME NEW f \in V, f.id > last.id PROVE FALSE
      BY <2>2 DEF After
    <3>1. f.id <= last.id /\ f.id \in Nat
      BY <2>1, CheckedEvent
    <3> QED
      BY <2>2, <3>1
  <2>4. last.operation = "DELETE"
    BY <1>3, <2>1, <2>3, CleanFacts DEF Checked
  <2>5. c \in Contributes(A, last, "unskipped")
    BY <1>1, <2>1, <2>4, CheckedEvent DEF Whole
  <2>6. last = e
    <3>1. last \notin After(A, e)
      BY <2>5
    <3>2. ~ last.id > e.id /\ e.id <= last.id
      BY <1>1, <2>1, <3>1 DEF After
    <3>3. last.id = e.id
      BY <1>1, <2>2, <3>2
    <3> QED
      BY <2>1, <3>3 DEF Checked, Log, Ordered
  <2> QED
    BY <2>4, <2>6
<1> QED
  BY <1>2, <1>3

(* f is the next event after e that says something of column c.            *)
NextFor(A, e, f, c) ==
    /\ f \in After(A, e) /\ c \in Contributes(A, f, "unskipped")
    /\ \A g \in After(A, e) : c \in Contributes(A, g, "unskipped") => f.id <= g.id

(* It says that the column was what e says it became, or nothing of that.  *)
LEMMA SaidNext ==
    ASSUME NEW A, NEW L, NEW o, NEW n, Checked(A, L, o, n), NEW e \in Of(A, o),
           NEW c \in Contributes(A, e, "unskipped"), NewValue(e, c) # Absent,
           NEW f \in Of(A, o), NextFor(A, e, f, c)
    PROVE  OldValue(f, c) = Absent \/ OldValue(f, c) = NewValue(e, c)
<1> DEFINE prior == {g \in Before(A, f) : c \in Contributes(A, g, "unskipped")}
<1>1. e.id \in Nat /\ f.id \in Nat /\ e.object_id = o /\ f.object_id = o
  BY CheckedEvent DEF Of
<1>2. f.id > e.id
  BY DEF NextFor, After
<1>3. e \in prior
  BY <1>1, <1>2 DEF Before
<1>4. \A g \in prior : g.id <= e.id
  <2> SUFFICES ASSUME NEW g \in prior, g.id > e.id PROVE FALSE
    <3>1. \A g \in prior : g.id \in Nat
      BY <1>1, CheckedEvent DEF Before
    <3> QED
      BY <1>1, <3>1
  <2>1. g \in Of(A, o) /\ g.id < f.id /\ g.id \in Nat
    BY <1>1, CheckedEvent DEF Before
  <2>2. g \in After(A, e)
    BY <1>1, <2>1 DEF After
  <2>3. f.id <= g.id
    BY <2>2 DEF NextFor
  <2> QED
    BY <1>1, <2>1, <2>3
<1>5. Ordered(prior)
  BY <1>1 DEF Checked, Log, Ordered, Before
<1>6. LastEvent(prior) = e
  <2> HIDE DEF prior
  <2> QED
    BY <1>3, <1>4, <1>5, LastIs
<1>7. PreviousNew(A, f, c, "unskipped") = NewValue(e, c)
  BY <1>3, <1>6 DEF PreviousNew
<1>8. c \in Contributes(A, f, "unskipped")
  BY DEF NextFor
<1> QED
  BY <1>7, <1>8, CleanFacts DEF Checked

(* It comes after no INSERT but one of a row that e left behind: before an *)
(* INSERT there is a DELETE, which names every column.                     *)
LEMMA NextNoInsert ==
    ASSUME NEW A, NEW L, NEW o, NEW n, Checked(A, L, o, n), NEW e \in Of(A, o),
           e.operation # "DELETE", NEW c \in Tracked, NEW f \in Of(A, o), NextFor(A, e, f, c)
    PROVE  f.operation # "INSERT"
<1> SUFFICES ASSUME f.operation = "INSERT" PROVE FALSE
  OBVIOUS
<1>1. e.id \in Nat /\ f.id \in Nat /\ e.object_id = o /\ f.object_id = o
  BY CheckedEvent DEF Of
<1>2. f.id > e.id
  BY DEF NextFor, After
<1> DEFINE d == LastEvent(Before(A, f))
<1>3. e \in Before(A, f)
  BY <1>1, <1>2 DEF Before
<1>4. d \in Before(A, f) /\ \A g \in Before(A, f) : g.id <= d.id
  <2>1. \A g \in Before(A, f) : g.id \in Nat /\ g.id <= n /\ n \in Nat
    BY <1>1, CheckedEvent DEF Before
  <2>2. Before(A, f) # {} /\ n \in Nat
    BY <1>3, CheckedEvent
  <2> QED
    BY <2>1, <2>2, LastEventOf
<1>5. d.operation = "DELETE"
  BY <1>3, CleanFacts DEF Checked
<1> HIDE DEF d
<1>6. d \in Of(A, o) /\ d.id < f.id /\ d.id \in Nat /\ e.id <= d.id
  BY <1>1, <1>3, <1>4, CheckedEvent DEF Before
<1>7. c \in Contributes(A, d, "unskipped")
  BY <1>5, <1>6, CheckedEvent DEF Whole
<1>8. d \notin After(A, e)
  BY <1>1, <1>6, <1>7 DEF NextFor
<1>9. d.id = e.id
  BY <1>1, <1>6, <1>8 DEF After
<1>10. d = e
  BY <1>6, <1>9 DEF Checked, Log, Ordered
<1> QED
  BY <1>5, <1>10

(* If it does not name the column it is an UPDATE with snapshots, for a    *)
(* DELETE names every column.                                              *)
LEMMA NextUnnamed ==
    ASSUME NEW A, NEW L, NEW o, NEW n, Checked(A, L, o, n), NEW e \in Of(A, o),
           e.operation # "DELETE", NEW c \in Tracked, NEW f \in Of(A, o), NextFor(A, e, f, c),
           c \notin DOMAIN f.diff
    PROVE  f.operation = "UPDATE" /\ f.old_data # NoRow /\ f.new_data # NoRow
<1>1. Entered(f) /\ Agrees(f)
  BY CheckedEvent
<1>2. f.old_data # NoRow \/ f.new_data # NoRow
  BY CheckedEvent DEF NextFor
<1>3. f.operation # "DELETE" /\ f.operation # "INSERT"
  BY CheckedEvent, NextNoInsert DEF Whole
<1>4. f.operation = "UPDATE"
  BY <1>1, <1>3 DEF Entered
<1> QED
  BY <1>1, <1>2, <1>4 DEF Agrees

(* Whatever an event that left a row says that a column became is what     *)
(* undoing the later events leads to, if they can be undone.               *)
Missed(A, L, e, c, V) ==
    /\ e.operation # "DELETE"
    /\ c \in Contributes(A, e, "unskipped") /\ Settled(V, e) /\ NewValue(e, c) # Absent
    /\ NewValue(e, c) # Was(From(V, e.id + 1), L[e.object_id], c)

LEMMA SaidIsWas ==
    ASSUME NEW A, NEW L, NEW o, NEW n, Checked(A, L, o, n), NEW c \in Tracked
    PROVE  \A e \in Of(A, o) : ~ Missed(A, L, e, c, Of(A, o))
<1> DEFINE V == Of(A, o)
           row == L[o]
           ids == {i \in Nat : \E e \in V : e.id = i /\ Missed(A, L, e, c, V)}
<1>0. /\ Ordered(V)
      /\ \A e \in V : /\ e.id \in Nat /\ e.id <= n /\ n \in Nat /\ e.object_id = o
                      /\ DOMAIN e.diff \subseteq Contributes(A, e, "unskipped")
  BY CheckedEvent DEF Checked, Log, Of
<1> SUFFICES ASSUME ids # {} PROVE FALSE
  BY <1>0
<1>1. PICK i \in ids : \A j \in ids : j <= i
  <2>1. ids \subseteq Nat /\ n \in Nat /\ \A j \in ids : j <= n
    BY <1>0
  <2> HIDE DEF ids
  <2> QED
    BY <2>1, Greatest
<1>2. PICK e \in V : e.id = i /\ Missed(A, L, e, c, V)
  OBVIOUS
<1>3. \A f \in V : f.id > e.id => ~ Missed(A, L, f, c, V)
  <2> SUFFICES ASSUME NEW f \in V, f.id > e.id, Missed(A, L, f, c, V) PROVE FALSE
    OBVIOUS
  <2>1. f.id \in ids
    BY <1>0
  <2>2. f.id <= i
    BY <1>1, <2>1
  <2> QED
    BY <1>0, <1>2, <2>2
<1> HIDE DEF ids
<1>4. /\ c \in Contributes(A, e, "unskipped") /\ Settled(V, e) /\ NewValue(e, c) # Absent
      /\ NewValue(e, c) # Was(From(V, e.id + 1), row, c) /\ e.operation # "DELETE"
  BY <1>0, <1>2 DEF Missed
<1>5. \A g : g \in After(A, e) <=> g \in V /\ g.id > e.id
  BY <1>0 DEF After
<1>6. CASE \A g \in After(A, e) : c \notin Contributes(A, g, "unskipped")
  <2>1. NewValue(e, c) = ValueOf(row, c)
    BY <1>4, <1>6, SaidLast
  <2>2. Naming(From(V, e.id + 1), c) = {}
    BY <1>0, <1>5, <1>6 DEF Naming, From
  <2> QED
    BY <1>4, <2>1, <2>2 DEF Was
<1>7. CASE \E g \in After(A, e) : c \in Contributes(A, g, "unskipped")
  <2> DEFINE G == {g \in After(A, e) : c \in Contributes(A, g, "unskipped")}
             f == FirstEvent(G)
  <2>1. f \in G /\ \A g \in G : f.id <= g.id
    <3>1. G # {} /\ \A g \in G : g.id \in Nat
      BY <1>0, <1>5, <1>7
    <3> HIDE DEF G
    <3> QED
      BY <3>1, FirstEventOf
  <2>2. NextFor(A, e, f, c)
    BY <2>1 DEF NextFor
  <2> HIDE DEF f, G
  <2>3. f \in V /\ f.id \in Nat /\ e.id \in Nat /\ f.id > e.id
    BY <1>0, <1>5, <2>2 DEF NextFor
  <2>4. \A g \in V : g.id >= e.id + 1 /\ c \in DOMAIN g.diff => g.id >= f.id
    <3> SUFFICES ASSUME NEW g \in V, g.id >= e.id + 1, c \in DOMAIN g.diff PROVE g.id >= f.id
      OBVIOUS
    <3>1. g \in After(A, e) /\ c \in Contributes(A, g, "unskipped") /\ g.id \in Nat
      BY <1>0, <1>5, <2>3
    <3>2. f.id <= g.id
      BY <2>2, <3>1 DEF NextFor
    <3> QED
      BY <2>3, <3>1, <3>2
  <2>5. PairsOnly(f) /\ Settled(V, f)
    BY <1>0, <1>4, <2>3 DEF Settled
  <2>6. OldValue(f, c) = Absent \/ OldValue(f, c) = NewValue(e, c)
    BY <1>4, <2>2, <2>3, SaidNext
  <2>7. CASE c \in DOMAIN f.diff
    <3>1. OldValue(f, c) = f.diff[c].old /\ f.diff[c] \in Val \cup PairedEntry
      BY <2>3, <2>5, <2>7, NewValueOfPair, CheckedEvent DEF Entered
    <3>2. OldValue(f, c) # Absent
      BY <2>5, <2>7, <3>1, NewSideIsValue DEF PairsOnly
    <3>3. Was(From(V, e.id + 1), row, c) = f.diff[c].old
      <4>1. e.id + 1 \in Nat /\ e.id + 1 <= f.id /\ f \in V /\ Ordered(V)
        BY <1>0, <2>3
      <4>2. f.operation # "INSERT"
        BY <1>4, <2>2, <2>3, NextNoInsert
      <4> HIDE DEF V
      <4> QED
        BY <2>4, <2>7, <4>1, <4>2, WasFirst DEF OldOf
    <3> QED
      BY <1>4, <2>6, <3>1, <3>2, <3>3
  <2>8. CASE c \notin DOMAIN f.diff
    <3>1. f.operation = "UPDATE" /\ f.old_data # NoRow /\ f.new_data # NoRow
      BY <1>4, <2>2, <2>3, <2>8, NextUnnamed
    <3>2. /\ Get(Seen(f.old_data), c) = f.old_data[c] /\ f.old_data[c] # Absent
          /\ Get(Seen(f.new_data), c) = f.new_data[c] /\ f.new_data[c] # Absent
      BY <2>3, <3>1, CheckedEvent, ShownBySnapshot
    <3>3. f.old_data[c] = f.new_data[c]
      BY <2>3, <2>8, <3>1, CheckedEvent
    <3>4. OldValue(f, c) = f.old_data[c] /\ NewValue(f, c) = f.new_data[c]
      BY <2>8, <3>2 DEF OldValue, NewValue
    <3>5. NewValue(f, c) = Was(From(V, f.id + 1), row, c)
      <4>1. ~ Missed(A, L, f, c, V)
        BY <1>3, <2>3
      <4> QED
        BY <1>0, <2>2, <2>3, <2>5, <3>1, <3>2, <3>4, <4>1 DEF Missed, NextFor
    <3>6. Was(From(V, e.id + 1), row, c) = Was(From(V, f.id + 1), row, c)
      <4>1. \A g \in V : g.id >= e.id + 1 /\ c \in DOMAIN g.diff => g.id >= f.id + 1
        <5> SUFFICES ASSUME NEW g \in V, g.id >= e.id + 1, c \in DOMAIN g.diff
                     PROVE  g.id >= f.id + 1
          OBVIOUS
        <5>1. g.id >= f.id /\ g.id \in Nat
          BY <1>0, <2>4
        <5>2. g.id # f.id
          BY <1>0, <2>3, <2>8 DEF Ordered
        <5> QED
          BY <2>3, <5>1, <5>2
      <4>2. e.id + 1 \in Nat /\ f.id + 1 \in Nat /\ e.id + 1 <= f.id + 1
        BY <2>3
      <4> QED
        BY <1>0, <4>1, <4>2, WasSkips
    <3> QED
      BY <1>4, <2>6, <3>2, <3>3, <3>4, <3>5, <3>6
  <2> QED
    BY <2>7, <2>8
<1> QED
  BY <1>6, <1>7

(***************************************************************************)
(* The check is sound: of an object that a full run with snapshots does    *)
(* not name, and whose snapshots record nothing their diffs do not, the    *)
(* snapshots the job may clear can be restored from what is left.          *)
(***************************************************************************)
LEMMA CheckedRestores ==
    ASSUME NEW A, NEW L, NEW o, NEW n, Checked(A, L, o, n), NEW e \in Of(A, o), FullyPaired(e)
    PROVE  Restores(Of(A, o), L[o], e)
<1> DEFINE V == Of(A, o)
           row == L[o]
<1>0. /\ Ordered(V) /\ Aged(V) /\ PairsOnly(e)
      /\ Entered(e) /\ Agrees(e) /\ e.id \in Nat /\ e.object_id = o
      /\ DOMAIN e.diff \subseteq Tracked
  BY CheckedEvent DEF Checked, Log, Of, FullyPaired, PairsOnly, Entered
<1>01. Whole(e)
  BY CheckedEvent
<1>1. ASSUME e.new_data # NoRow, Settled(V, e), NEW c \in Tracked
      PROVE  e.new_data[c] = Was(From(V, e.id + 1), row, c)
  <2>1. /\ Get(Seen(e.new_data), c) = e.new_data[c] /\ e.new_data[c] # Absent
        /\ c \in Contributes(A, e, "unskipped")
    BY <1>0, <1>1, ShownBySnapshot, CheckedEvent
  <2>2. NewValue(e, c) = e.new_data[c]
    <3>1. CASE c \in DOMAIN e.diff
      <4>1. NewValue(e, c) = e.diff[c].new
        BY <1>0, <3>1, NewValueOfPair
      <4> QED
        BY <1>0, <1>1, <3>1, <4>1 DEF Agrees, PairsOnly
    <3>2. CASE c \notin DOMAIN e.diff
      BY <2>1, <3>2 DEF NewValue
    <3> QED
      BY <3>1, <3>2
  <2>3. ~ Missed(A, L, e, c, V)
    BY SaidIsWas
  <2> QED
    BY <1>0, <1>1, <2>1, <2>2, <2>3 DEF Missed, Agrees
<1>2. ASSUME e.old_data # NoRow, NEW c \in Tracked
      PROVE  e.old_data[c] = Was(From(V, e.id), row, c)
  <2>0. \A g \in V : g.id \in Nat
    BY <1>0 DEF Ordered
  <2>1. CASE c \in DOMAIN e.diff
    <3>1. e.old_data[c] = e.diff[c].old
      BY <1>0, <1>2, <2>1 DEF Agrees, PairsOnly
    <3>2. Was(From(V, e.id), row, c) = e.diff[c].old
      <4>1. e \in V /\ e.id <= e.id /\ OldOf(e, c) = e.diff[c].old
        BY <1>0, <1>2 DEF Agrees, OldOf
      <4>2. \A g \in V : g.id >= e.id /\ c \in DOMAIN g.diff => g.id >= e.id
        OBVIOUS
      <4> HIDE DEF V
      <4> QED
        BY <1>0, <2>1, <4>1, <4>2, WasFirst
    <3> QED
      BY <3>1, <3>2
  <2>2. CASE c \notin DOMAIN e.diff
    <3>1. e.operation = "UPDATE"
      BY <1>0, <1>01, <1>2, <2>2 DEF Entered, Agrees, Whole
    <3>2. e.new_data # NoRow /\ e.old_data[c] = e.new_data[c]
      BY <1>0, <1>2, <2>2, <3>1, CheckedEvent DEF Agrees
    <3>3. Settled(V, e)
      BY <1>0, <1>01, <2>0, <3>1 DEF Settled, Aged, Whole
    <3>4. e.new_data[c] = Was(From(V, e.id + 1), row, c)
      BY <1>1, <3>2, <3>3
    <3>5. Was(From(V, e.id), row, c) = Was(From(V, e.id + 1), row, c)
      <4>1. \A g \in V : g.id >= e.id /\ c \in DOMAIN g.diff => g.id >= e.id + 1
        <5> SUFFICES ASSUME NEW g \in V, g.id >= e.id, c \in DOMAIN g.diff
                     PROVE  g.id >= e.id + 1
          OBVIOUS
        <5>1. g.id # e.id
          BY <1>0, <2>2 DEF Ordered
        <5> QED
          BY <1>0, <2>0, <5>1
      <4>2. e.id + 1 \in Nat /\ e.id <= e.id + 1
        BY <1>0
      <4> HIDE DEF V
      <4> QED
        BY <1>0, <4>1, <4>2, WasSkips
    <3> QED
      BY <3>2, <3>4, <3>5
  <2> QED
    BY <2>1, <2>2
<1> QED
  BY <1>1, <1>2 DEF Restores

------------------------------------------------------------------------------
(* Events without their snapshots, and the events of later writes *)

Stripped(e) == [e EXCEPT !.old_data = NoRow, !.new_data = NoRow]

(* A cleared event keeps all but its snapshots.                            *)
LEMMA StrippedFacts ==
    ASSUME NEW e, Entered(e)
    PROVE  /\ Twin(Stripped(e), e) /\ Entered(Stripped(e))
           /\ Stripped(e).object_id = e.object_id /\ Stripped(e).operation = e.operation
           /\ Stripped(e).old_data = NoRow /\ Stripped(e).new_data = NoRow
<1> DEFINE a == [e EXCEPT !.old_data = NoRow]
           b == [a EXCEPT !.new_data = NoRow]
<1>1. DOMAIN e = {"id", "changed_at", "object_id", "operation", "diff", "old_data", "new_data"}
  BY DEF Entered
<1>2. /\ DOMAIN a = DOMAIN e /\ a.id = e.id /\ a.changed_at = e.changed_at
      /\ a.object_id = e.object_id /\ a.operation = e.operation /\ a.diff = e.diff
      /\ a.old_data = NoRow
  BY <1>1
<1> HIDE DEF a
<1>3. /\ DOMAIN b = DOMAIN e /\ b.id = e.id /\ b.changed_at = e.changed_at
      /\ b.object_id = e.object_id /\ b.operation = e.operation /\ b.diff = e.diff
      /\ b.old_data = NoRow /\ b.new_data = NoRow
  BY <1>1, <1>2
<1> HIDE DEF b
<1>4. Entered(b)
  BY <1>3 DEF Entered, SnapshotRow
<1>5. b = Stripped(e)
  BY DEF a, b, Stripped
<1> QED
  BY <1>3, <1>4, <1>5 DEF Twin

(* Where the snapshots of an event are redundant they stay so when others  *)
(* are cleared.                                                            *)
LEMMA RestoresAlike ==
    ASSUME NEW V, NEW W, Ordered(V), Ordered(W), Alike(W, V), NEW row,
           NEW e, Restores(V, row, e)
    PROVE  Restores(W, row, e)
<1>1. \A i, c : Was(From(W, i), row, c) = Was(From(V, i), row, c)
  <2> SUFFICES ASSUME NEW i, NEW c PROVE Was(From(W, i), row, c) = Was(From(V, i), row, c)
    OBVIOUS
  <2>1. Alike(From(W, i), From(V, i)) /\ Ordered(From(W, i)) /\ Ordered(From(V, i))
    BY PartsAlike, FromOrdered
  <2> QED
    BY <2>1, WasAlike
<1>2. Settled(W, e) => Settled(V, e)
  BY DEF Settled, Alike, Twin, PairsOnly
<1> QED
  BY <1>1, <1>2 DEF Restores

(* A later write of the current release keeps them redundant, and its own  *)
(* snapshots are.                                                          *)
LEMMA RestoresAppend ==
    ASSUME NEW V, Ordered(V), NEW e, e.id \in Nat, \A f \in V : f.id < e.id,
           NEW row, NEW new, Changes(e, row, new)
    PROVE  /\ \A k : k.id \in Nat /\ k.id < e.id /\ Restores(V, row, k) =>
                 Restores(V \cup {e}, new, k)
           /\ Restores(V \cup {e}, new, e)
<1> DEFINE W == V \cup {e}
<1>0. \A f \in V : f.id \in Nat
  BY DEF Ordered
<1>1. \A i : i <= e.id => From(W, i) = From(V, i) \cup {e}
  BY <1>0 DEF From
<1>2. \A i, c : c \in Tracked /\ i <= e.id => Was(From(W, i), new, c) = Was(From(V, i), row, c)
  <2> SUFFICES ASSUME NEW i, NEW c \in Tracked, i <= e.id
               PROVE  Was(From(W, i), new, c) = Was(From(V, i), row, c)
    OBVIOUS
  <2>1. Ordered(From(V, i)) /\ \A f \in From(V, i) : f.id < e.id
    BY FromOrdered DEF From
  <2>2. Was(From(V, i) \cup {e}, new, c) = Was(From(V, i), row, c)
    BY <2>1, WasAppend
  <2> QED
    BY <1>1, <2>2
<1>3. ASSUME NEW k, k.id \in Nat, k.id < e.id, Restores(V, row, k)
      PROVE  Restores(W, new, k)
  <2>1. k.id <= e.id /\ k.id + 1 <= e.id
    BY <1>3
  <2>2. Settled(W, k) => Settled(V, k)
    BY DEF Settled
  <2> HIDE DEF W
  <2> QED
    BY <1>2, <1>3, <2>1, <2>2 DEF Restores
<1>4. Restores(W, new, e)
  <2>1. From(V, e.id) = {} /\ From(W, e.id + 1) = {} /\ e.id <= e.id
    BY <1>0 DEF From
  <2>2. \A r, c : Was({}, r, c) = ValueOf(r, c)
    BY DEF Was, Naming
  <2>3. \A c \in Tracked : Was(From(W, e.id), new, c) = ValueOf(row, c)
    BY <1>2, <2>1, <2>2
  <2>4. \A c \in Tracked : Was(From(W, e.id + 1), new, c) = ValueOf(new, c)
    BY <2>1, <2>2
  <2> HIDE DEF W
  <2> QED
    BY <2>3, <2>4 DEF Restores, Changes
<1> QED
  BY <1>3, <1>4

------------------------------------------------------------------------------
(* The log, whatever releases wrote it *)

(* Which releases wrote the events there are: the first one wrote no diff  *)
(* of pairs.                                                               *)
Written ==
    /\ \A e \in audit : Agrees(e)
    /\ Aged(audit)
    /\ release = "0.3" => \A e \in audit : DOMAIN e.diff # {} => ~ PairsOnly(e)

LogState ==
    /\ Basis /\ storage \in {"full", "diff"} /\ release \in Releases
    /\ Written

(* What a snapshot says of the row it was taken of.                        *)
LEMMA SnapshotOf ==
    ASSUME NEW snap \in SnapshotRow, snap # NoRow, NEW row \in AnyRow, row # NoRow,
           Seen(snap) = Filter(row), NEW c \in Tracked
    PROVE  snap[c] = ValueOf(row, c) /\ snap[c] = Shown(row, c)
<1>1. row \in Row
  BY DEF AnyRow
<1>2. /\ Seen(snap)[c] = snap[c] /\ Filter(row)[c] = row[c]
      /\ ValueOf(row, c) = row[c] /\ Shown(row, c) = row[c]
  BY <1>1, SeenSnapshot, Filtered
<1> QED
  BY <1>2

(* The parts of an event the trigger writes belong together.               *)
LEMMA AgreesNow ==
    ASSUME NEW e, Entered(e), NEW row \in AnyRow, NEW new \in AnyRow,
           Tells(e, row, new), Plain(e, row, new), Current(e, row, new) \/ Old(e, row, new),
           e.operation = "UPDATE" /\ DOMAIN e.diff = {} =>
               /\ Old(e, row, new)
               /\ \E c \in Tracked : Shown(row, c) # Shown(new, c)
    PROVE  Agrees(e)
<1>1. /\ e.operation \in {"INSERT", "UPDATE", "DELETE"} /\ DOMAIN e.diff \subseteq Tracked
      /\ e.old_data \in SnapshotRow /\ e.new_data \in SnapshotRow
  BY DEF Entered
<1>2. /\ e.operation = "INSERT" <=> row = NoRow
      /\ e.operation = "DELETE" <=> new = NoRow
      /\ e.old_data # NoRow => row # NoRow /\ Seen(e.old_data) = Filter(row)
      /\ e.new_data # NoRow => new # NoRow /\ Seen(e.new_data) = Filter(new)
  BY DEF Tells
<1>3. e.operation = "UPDATE" => row # NoRow /\ new # NoRow
  BY <1>2
<1>4. /\ e.operation = "UPDATE" => (e.old_data = NoRow <=> e.new_data = NoRow)
      /\ e.operation = "DELETE" => e.old_data # NoRow \/ DOMAIN e.diff = Tracked
  <2>1. CASE Current(e, row, new)
    BY <1>2, <1>3, <2>1 DEF Current
  <2>2. CASE Old(e, row, new)
    <3>1. e.operation = "DELETE" => row # NoRow
      BY <1>2
    <3> QED
      BY <1>2, <1>3, <2>2, <3>1 DEF Old
  <2> QED
    BY <2>1, <2>2
<1>5. ASSUME NEW c \in DOMAIN e.diff, Paired(e.diff[c])
      PROVE  /\ e.old_data # NoRow => e.old_data[c] = e.diff[c].old
             /\ e.new_data # NoRow => e.new_data[c] = e.diff[c].new
  <2>1. e.diff[c].old = Shown(row, c) /\ e.diff[c].new = Shown(new, c) /\ c \in Tracked
    BY <1>1, <1>5 DEF Plain
  <2> QED
    BY <1>1, <1>2, <2>1, SnapshotOf
<1>6. ASSUME e.operation = "UPDATE", DOMAIN e.diff = {}
      PROVE  e.old_data # NoRow /\ \E c \in Tracked : e.old_data[c] # e.new_data[c]
  <2>1. e.old_data # NoRow /\ e.new_data # NoRow /\ row # NoRow /\ new # NoRow
    BY <1>3, <1>6 DEF Old
  <2>2. PICK c \in Tracked : Shown(row, c) # Shown(new, c)
    BY <1>6
  <2>3. e.old_data[c] = Shown(row, c) /\ e.new_data[c] = Shown(new, c)
    BY <1>1, <1>2, <2>1, SnapshotOf
  <2> QED
    BY <2>1, <2>2, <2>3
<1> QED
  BY <1>2, <1>4, <1>5, <1>6 DEF Agrees

(* Under the current release it is a change of all the filter lets         *)
(* through.                                                                *)
LEMMA ChangesNow ==
    ASSUME NEW e, Entered(e), NEW row \in AnyRow, NEW new \in AnyRow,
           Tells(e, row, new), Plain(e, row, new), Current(e, row, new)
    PROVE  Changes(e, row, new)
<1>1. e.old_data \in SnapshotRow /\ e.new_data \in SnapshotRow
  BY DEF Entered
<1>2. /\ e.operation = "INSERT" <=> row = NoRow
      /\ e.operation = "DELETE" <=> new = NoRow
      /\ e.old_data # NoRow => row # NoRow /\ Seen(e.old_data) = Filter(row)
      /\ e.new_data # NoRow => new # NoRow /\ Seen(e.new_data) = Filter(new)
  BY DEF Tells
<1> SUFFICES ASSUME NEW c \in Tracked
             PROVE  /\ c \in DOMAIN e.diff => /\ OldOf(e, c) = ValueOf(row, c)
                                              /\ NewOf(e, c) = ValueOf(new, c)
                    /\ c \notin DOMAIN e.diff => ValueOf(new, c) = ValueOf(row, c)
                    /\ e.old_data # NoRow => e.old_data[c] = ValueOf(row, c)
                    /\ e.new_data # NoRow => e.new_data[c] = ValueOf(new, c)
  BY DEF Changes
<1>0. \A r \in AnyRow : r # NoRow => ValueOf(r, c) = Shown(r, c)
  BY Filtered DEF AnyRow
<1>3. c \in DOMAIN e.diff => /\ OldOf(e, c) = ValueOf(row, c)
                             /\ NewOf(e, c) = ValueOf(new, c)
  <2> SUFFICES ASSUME c \in DOMAIN e.diff
               PROVE  OldOf(e, c) = ValueOf(row, c) /\ NewOf(e, c) = ValueOf(new, c)
    OBVIOUS
  <2>1. e.diff[c].old = Shown(row, c) /\ e.diff[c].new = Shown(new, c)
    BY DEF Plain, Current
  <2> QED
    BY <1>0, <1>2, <2>1, NoValues DEF OldOf, NewOf
<1>4. c \notin DOMAIN e.diff => ValueOf(new, c) = ValueOf(row, c)
  <2> SUFFICES ASSUME c \notin DOMAIN e.diff PROVE ValueOf(new, c) = ValueOf(row, c)
    OBVIOUS
  <2>1. Shown(row, c) = Shown(new, c) /\ row # NoRow /\ new # NoRow
    BY DEF Current
  <2> QED
    BY <1>0, <2>1
<1> QED
  BY <1>1, <1>2, <1>3, <1>4, SnapshotOf

(* An audited write adds an event whose parts belong together, and which   *)
(* is as its release writes them.                                          *)
LEMMA WrittenAppend ==
    ASSUME LogState, Distinguishable, NEW o \in Obj, NEW new \in AnyRow, NEW at \in 1..clock,
           Audited(o, new, at)
    PROVE  Written'
<1>0. live[o] \in AnyRow
  BY DEF LogState, Basis
<1>1. PICK e : /\ e.id = idSeq + 1 /\ Entered(e) /\ e.changed_at = at
               /\ Tells(e, live[o], new)
               /\ release # "0.3" \/ Val \cap PairedEntry = {} => Plain(e, live[o], new)
               /\ release # "0.3" => PairsOnly(e)
               /\ release = "0.3" /\ Val \cap PairedEntry = {} /\ DOMAIN e.diff # {} =>
                     ~ PairsOnly(e)
               /\ DOMAIN e.diff = {} =>
                     /\ release = "0.3"
                     /\ e.operation = "UPDATE" =>
                           \E c \in Tracked : Shown(live[o], c) # Shown(new, c)
               /\ release = "current" => Current(e, live[o], new)
               /\ release # "current" => Old(e, live[o], new)
               /\ audit' = audit \cup {e} /\ release' = release
  BY AuditedFacts DEF LogState
<1>2. release = "0.3" => Val \cap PairedEntry = {}
  BY DEF LogState, Distinguishable
<1>3. Agrees(e)
  BY <1>0, <1>1, <1>2, AgreesNow
<1>4. \A f \in audit : f.id \in Nat /\ f.id < e.id
  BY <1>1, BasisAppend DEF LogState
<1>5. Aged(audit')
  <2> SUFFICES ASSUME NEW f \in audit', NEW g \in audit', f.id < g.id,
                      DOMAIN f.diff # {}, PairsOnly(f)
               PROVE  PairsOnly(g)
    BY DEF Aged
  <2>1. CASE f \in audit /\ g \in audit
    BY <2>1 DEF LogState, Written, Aged
  <2>2. CASE f \in audit /\ g = e
    BY <1>1, <2>2 DEF LogState, Written
  <2>3. CASE f = e
    <3>1. g = e \/ g.id < e.id
      BY <1>1, <1>4
    <3>2. e.id \in Nat
      BY <1>1 DEF Entered
    <3>3. g.id \in Nat
      BY <1>1, <1>4, <3>2
    <3> QED
      BY <2>3, <3>1, <3>2, <3>3
  <2> QED
    BY <1>1, <2>1, <2>2, <2>3
<1> QED
  BY <1>1, <1>2, <1>3, <1>5 DEF LogState, Written

(* An upgrade is to a later release: never to the first one, never from    *)
(* the current one.                                                        *)
LEMMA UpgradesGoUp ==
    ASSUME release \in Releases, NEW r \in Releases, Upgrade(r)
    PROVE  release' \in Releases /\ release # "current" /\ release' # "0.3"
<1>1. Releases \subseteq {"0.3", "0.6.1", "current"}
  BY Ranks, DiffChainAssumption
<1>2. Rank[release] < Rank[r] /\ release' = r
  BY DEF Upgrade
<1>3. Rank[release] \in 1..3 /\ Rank[r] \in 1..3
  BY <1>1, Ranks
<1>4. release # "current"
  BY <1>2, <1>3, Ranks
<1>5. r # "0.3"
  BY <1>2, <1>3, Ranks
<1> QED
  BY <1>2, <1>4, <1>5

(* Whatever the application does, the log stays what the releases write.   *)
LEMMA LogStateChain ==
    ASSUME LogState, Distinguishable, ChainNext
    PROVE  LogState'
<1>1. Basis'
  BY BasisChain DEF LogState
<1>2. ASSUME UNCHANGED <<audit, storage, release>>
      PROVE  LogState'
  BY <1>1, <1>2 DEF LogState, Written, Aged
<1>3. CASE Tick /\ UNCHANGED <<release, ghosts>>
  BY <1>2, <1>3 DEF Tick
<1>4. ASSUME NEW o \in Obj, NEW new \in Row \cup {NoRow}, Bypass(o, new)
      PROVE  LogState'
  BY <1>2, <1>4 DEF Bypass
<1>5. ASSUME NEW o \in Obj, NEW new \in Row \cup {NoRow}, NEW at \in 1..clock, Audited(o, new, at)
      PROVE  LogState'
  <2>1. storage' = storage /\ release' = release
    BY <1>5 DEF Audited
  <2>2. Written'
    BY <1>5, WrittenAppend DEF AnyRow
  <2> QED
    BY <1>1, <2>1, <2>2 DEF LogState
<1>6. ASSUME NEW r \in Releases, Upgrade(r)
      PROVE  LogState'
  <2>1. UNCHANGED <<audit, storage>>
    BY <1>6 DEF Upgrade, vars
  <2>2. release' \in Releases /\ release # "current" /\ release' # "0.3"
    BY <1>6, UpgradesGoUp DEF LogState
  <2>3. Written'
    BY <2>1, <2>2 DEF LogState, Written, Aged
  <2> QED
    BY <1>1, <2>1, <2>2, <2>3 DEF LogState
<1>7. ASSUME NEW mode \in Modes, SwitchStorage(mode)
      PROVE  LogState'
  <2>1. UNCHANGED <<audit, release>> /\ storage' = mode
    BY <1>7 DEF SwitchStorage, SetStorage
  <2>2. mode \in {"full", "diff"}
    BY Assumed
  <2>3. Written'
    BY <2>1 DEF LogState, Written, Aged
  <2> QED
    BY <1>1, <2>1, <2>2, <2>3 DEF LogState
<1> QED
  BY <1>3, <1>4, <1>5, <1>6, <1>7 DEF ChainNext

------------------------------------------------------------------------------
(* The invariant of the job and the log *)

(* Diff storage, and so a job and whatever it cleared, takes the current   *)
(* release.                                                                *)
Modern == pc # "idle" \/ storage = "diff" \/ kept # {} => release = "current"

(* What a cleared event was, of which only the stripped one is left, can   *)
(* be restored.                                                            *)
KeptState ==
    /\ \A k \in kept : /\ Stripped(k) \in audit /\ Entered(k) /\ FullyPaired(k)
                       /\ Agrees(k) /\ Whole(k)
    /\ \A k, l \in kept : k.id = l.id => k = l

KeptRestored ==
    \A k \in kept : k.object_id \notin raced =>
        Restores(Of(audit, k.object_id), live[k.object_id], k)

(* So can the events that may be cleared, from the check on.               *)
Restorable(o) == \A e \in Of(audit, o) : FullyPaired(e) => Restores(Of(audit, o), live[o], e)

BatchState ==
    /\ pc = "compare" =>
          \A o \in batch \ (excluded \cup raced) : SnapshotOnly(audit, o) \/ Restorable(o)
    /\ pc = "clear" =>
          /\ \A o \in batch \ (excluded \cup raced) : Restorable(o)
          /\ \A o \in batch \ excluded : \A e \in Of(audit, o) : Whole(e)

ClearInv == LogState /\ Modern /\ KeptState /\ KeptRestored /\ BatchState

(* A write under the current release leaves what can be restored so.       *)
LEMMA AuditedKeeps ==
    ASSUME ClearInv, NEW o \in Obj, NEW new \in AnyRow, NEW at \in 1..clock,
           Audited(o, new, at), release = "current"
    PROVE  /\ audit \subseteq audit'
           /\ \A p \in Obj : \A k :
                 k.id \in Nat /\ k.id <= idSeq /\ Restores(Of(audit, p), live[p], k) =>
                     Restores(Of(audit', p), live'[p], k)
           /\ \A p \in Obj : Restorable(p) => Restorable(p)'
           /\ \A e \in audit' \ audit : Whole(e)
<1>1. Basis /\ live[o] \in AnyRow /\ live \in [Obj -> AnyRow] /\ idSeq \in Nat
  BY DEF ClearInv, LogState, Basis
<1>2. PICK e : /\ e.id = idSeq + 1 /\ Entered(e) /\ e.changed_at = at /\ e.object_id = o
               /\ Tells(e, live[o], new)
               /\ release # "0.3" \/ Val \cap PairedEntry = {} => Plain(e, live[o], new)
               /\ DOMAIN e.diff = {} => release = "0.3"
               /\ release = "current" => Current(e, live[o], new)
               /\ audit' = audit \cup {e} /\ live' = [live EXCEPT ![o] = new]
  BY <1>1, AuditedFacts
<1>3. Changes(e, live[o], new)
  BY <1>1, <1>2, ChangesNow
<1>4. /\ \A f \in audit : f.id \in Nat /\ f.id < e.id
      /\ \A p : Ordered(Of(audit, p))
      /\ e.id \in Nat
  <2>1. e.changed_at \in 1..clock
    BY <1>2
  <2>2. \A f \in audit : f.id \in Nat /\ f.id < e.id
    BY <1>1, <1>2, <2>1, BasisAppend
  <2>3. e.id \in Nat
    BY <1>1, <1>2
  <2> QED
    BY <1>1, <2>2, <2>3, BasisFacts
<1>5. /\ Of(audit', o) = Of(audit, o) \cup {e}
      /\ \A p : p # o => Of(audit', p) = Of(audit, p)
  <2>1. /\ Of(audit \cup {e}, e.object_id) = Of(audit, e.object_id) \cup {e}
        /\ \A p : p # e.object_id => Of(audit \cup {e}, p) = Of(audit, p)
    BY <1>4, AppendedEvent
  <2> QED
    BY <1>2, <2>1
<1>6. /\ live'[o] = new /\ \A p \in Obj : p # o => live'[p] = live[p]
  BY <1>1, <1>2
<1>7. /\ \A k : k.id \in Nat /\ k.id < e.id /\ Restores(Of(audit, o), live[o], k) =>
            Restores(Of(audit', o), new, k)
      /\ Restores(Of(audit', o), new, e)
  <2>1. Ordered(Of(audit, o)) /\ e.id \in Nat /\ \A f \in Of(audit, o) : f.id < e.id
    BY <1>1, <1>2, <1>4 DEF Of
  <2> QED
    BY <1>3, <1>5, <2>1, RestoresAppend
<1>8. ASSUME NEW p \in Obj, NEW k, k.id \in Nat, k.id <= idSeq, Restores(Of(audit, p), live[p], k)
      PROVE  Restores(Of(audit', p), live'[p], k)
  <2>1. CASE p = o
    <3>1. k.id < e.id
      BY <1>1, <1>2, <1>8
    <3> QED
      BY <1>6, <1>7, <1>8, <2>1, <3>1
  <2>2. CASE p # o
    BY <1>5, <1>6, <1>8, <2>2
  <2> QED
    BY <2>1, <2>2
<1>9. ASSUME NEW p \in Obj, Restorable(p) PROVE Restorable(p)'
  <2> SUFFICES ASSUME NEW f \in Of(audit', p), FullyPaired(f)
               PROVE  Restores(Of(audit', p), live'[p], f)
    BY DEF Restorable
  <2>1. CASE f \in Of(audit, p)
    <3>1. f.id \in Nat /\ f.id <= idSeq
      BY <1>1, <2>1, BasisFacts DEF Basis, Of
    <3> QED
      BY <1>8, <1>9, <2>1, <3>1 DEF Restorable
  <2>2. CASE f \notin Of(audit, p)
    BY <1>5, <1>6, <1>7, <2>2
  <2> QED
    BY <2>1, <2>2
<1>10. Whole(e)
  BY <1>2 DEF Tells, Current, Whole
<1> QED
  BY <1>2, <1>8, <1>9, <1>10

(* A cleared event has an id of the log and an object.                     *)
LEMMA KeptIds ==
    ASSUME ClearInv, NEW k \in kept
    PROVE  k.object_id \in Obj /\ k.id \in Nat /\ k.id <= idSeq
<1>1. Entered(k) /\ Stripped(k) \in audit
  BY DEF ClearInv, KeptState
<1>2. Stripped(k).id = k.id
  BY <1>1, StrippedFacts DEF Twin
<1>3. k.object_id \in Obj /\ k.id \in Nat
  BY <1>1 DEF Entered
<1> QED
  BY <1>1, <1>2, <1>3 DEF ClearInv, LogState, Basis

(* A step that changes neither the log nor the rows disturbs nothing.      *)
LEMMA ClearFrame ==
    ASSUME ClearInv, UNCHANGED <<audit, live, pc, batch, excluded, kept>>, raced \subseteq raced'
    PROVE  KeptState' /\ KeptRestored' /\ BatchState'
<1>1. KeptState'
  BY DEF ClearInv, KeptState
<1>2. KeptRestored'
  BY DEF ClearInv, KeptRestored
<1>3. \A o : Restorable(o) => Restorable(o)'
  BY DEF Restorable
<1>4. BatchState'
  BY <1>3 DEF ClearInv, BatchState
<1> QED
  BY <1>1, <1>2, <1>4

(* A write past the trigger races with the job where it concerns the batch *)
(* or what was cleared, and disturbs nothing else.                         *)
LEMMA ClearBypass ==
    ASSUME JobInv, ClearInv, Application, NEW o \in Obj, NEW new \in AnyRow, Bypass(o, new)
    PROVE  Modern' /\ KeptState' /\ KeptRestored' /\ BatchState'
<1>1. /\ UNCHANGED <<audit, storage, release, pc, batch, excluded, kept>>
      /\ live' = [live EXCEPT ![o] = new]
      /\ bypassed' = [bypassed EXCEPT ![o] = @ + 1]
  BY DEF Application, Bypass, jobVars
<1>2. live \in [Obj -> AnyRow] /\ bypassed \in [Obj -> Nat]
  BY DEF ClearInv, LogState, Basis
<1>3. bypassed'[o] # bypassed[o] /\ \A p \in Obj : p # o => live'[p] = live[p]
  BY <1>1, <1>2
<1>4. /\ raced \subseteq raced'
      /\ (\E k \in kept : k.object_id = o) \/ o \in batch => o \in raced'
  BY <1>3 DEF Application
<1>5. Modern' /\ KeptState'
  BY <1>1 DEF ClearInv, Modern, KeptState
<1>6. KeptRestored'
  <2> SUFFICES ASSUME NEW k \in kept, k.object_id \notin raced'
               PROVE  Restores(Of(audit, k.object_id), live'[k.object_id], k)
    BY <1>1 DEF KeptRestored
  <2>1. k.object_id # o /\ k.object_id \notin raced /\ k.object_id \in Obj
    BY <1>4, KeptIds
  <2> QED
    BY <1>3, <2>1 DEF ClearInv, KeptRestored
<1>7. \A p \in batch \ raced' : p \in batch \ raced /\ (Restorable(p) => Restorable(p)')
  <2> SUFFICES ASSUME NEW p \in batch \ raced'
               PROVE  p \in batch \ raced /\ (Restorable(p) => Restorable(p)')
    OBVIOUS
  <2>1. p # o /\ p \in Obj /\ p \notin raced
    BY <1>4 DEF JobInv, JobState
  <2> QED
    BY <1>1, <1>3, <2>1 DEF Restorable
<1>8. BatchState'
  BY <1>1, <1>7 DEF ClearInv, BatchState
<1> QED
  BY <1>5, <1>6, <1>8

(* A write through the trigger: under an old release there is no job, and  *)
(* under the current one what can be restored stays so.                    *)
LEMMA ClearAudited ==
    ASSUME JobInv, ClearInv, Application, NEW o \in Obj, NEW new \in AnyRow,
           NEW at \in 1..clock, Audited(o, new, at)
    PROVE  Modern' /\ KeptState' /\ KeptRestored' /\ BatchState'
<1>1. UNCHANGED <<storage, release, pc, batch, excluded, kept>> /\ raced \subseteq raced'
  BY DEF Application, Audited, jobVars
<1>2. Modern'
  BY <1>1 DEF ClearInv, Modern
<1>3. CASE release # "current"
  <2>1. pc = "idle" /\ kept = {}
    BY <1>3 DEF ClearInv, Modern
  <2> QED
    BY <1>1, <1>2, <2>1 DEF KeptState, KeptRestored, BatchState
<1>4. CASE release = "current"
  <2>1. /\ audit \subseteq audit'
        /\ \A p \in Obj : \A k :
              k.id \in Nat /\ k.id <= idSeq /\ Restores(Of(audit, p), live[p], k) =>
                  Restores(Of(audit', p), live'[p], k)
        /\ \A p \in Obj : Restorable(p) => Restorable(p)'
        /\ \A e \in audit' \ audit : Whole(e)
    BY <1>4, AuditedKeeps
  <2>2. KeptState'
    BY <1>1, <2>1 DEF ClearInv, KeptState
  <2>3. KeptRestored'
    <3> SUFFICES ASSUME NEW k \in kept, k.object_id \notin raced
                 PROVE  Restores(Of(audit', k.object_id), live'[k.object_id], k)
      BY <1>1 DEF KeptRestored
    <3>1. k.object_id \in Obj /\ k.id \in Nat /\ k.id <= idSeq
      BY KeptIds
    <3> QED
      BY <2>1, <3>1 DEF ClearInv, KeptRestored
  <2>4. \A p : SnapshotOnly(audit, p) => SnapshotOnly(audit', p)
    <3>1. \A p : Of(audit, p) \subseteq Of(audit', p)
      BY <2>1 DEF Of
    <3> QED
      BY <3>1 DEF SnapshotOnly
  <2>5. batch \subseteq Obj
    BY DEF JobInv, JobState
  <2>6. pc = "compare" => \A p \in batch \ (excluded \cup raced') :
            SnapshotOnly(audit', p) \/ Restorable(p)'
    BY <1>1, <2>1, <2>4, <2>5 DEF ClearInv, BatchState
  <2>7. pc = "clear" =>
            /\ \A p \in batch \ (excluded \cup raced') : Restorable(p)'
            /\ \A p \in batch \ excluded : \A e \in Of(audit', p) : Whole(e)
    <3>1. pc = "clear" => \A p \in batch \ excluded : \A e \in Of(audit, p) : Whole(e)
      BY DEF ClearInv, BatchState
    <3>2. \A p : \A e \in Of(audit', p) : e \in Of(audit, p) \/ e \in audit' \ audit
      BY DEF Of
    <3> QED
      BY <1>1, <2>1, <2>5, <3>1, <3>2 DEF ClearInv, BatchState
  <2>8. BatchState'
    BY <1>1, <2>6, <2>7 DEF BatchState
  <2> QED
    BY <1>2, <2>2, <2>3, <2>8
<1> QED
  BY <1>3, <1>4

(* Whatever the application does meanwhile.                                *)
LEMMA ClearApplication ==
    ASSUME JobInv, ClearInv, Distinguishable, Application
    PROVE  ClearInv'
<1>0. ChainNext /\ LogState'
  BY LogStateChain DEF Application, ClearInv
<1>1. UNCHANGED <<pc, batch, excluded, kept>> /\ raced \subseteq raced'
  BY DEF Application, jobVars
<1>2. ASSUME UNCHANGED <<audit, live>>
      PROVE  KeptState' /\ KeptRestored' /\ BatchState'
  BY <1>1, <1>2, ClearFrame
<1>3. CASE Tick /\ UNCHANGED <<release, ghosts>>
  <2>1. UNCHANGED <<audit, live, storage, release>>
    BY <1>3 DEF Tick
  <2> QED
    BY <1>0, <1>1, <1>2, <2>1 DEF ClearInv, Modern
<1>4. ASSUME NEW r \in Releases, Upgrade(r)
      PROVE  ClearInv'
  <2>1. UNCHANGED <<audit, live, storage>> /\ release # "current"
    BY <1>4, UpgradesGoUp DEF Upgrade, vars, ClearInv, LogState
  <2> QED
    BY <1>0, <1>1, <1>2, <2>1 DEF ClearInv, Modern
<1>5. ASSUME NEW mode \in Modes, SwitchStorage(mode)
      PROVE  ClearInv'
  <2>1. UNCHANGED <<audit, live>> /\ release' = "current"
    BY <1>5 DEF SwitchStorage, SetStorage
  <2> QED
    BY <1>0, <1>2, <2>1 DEF ClearInv, Modern
<1>6. ASSUME NEW o \in Obj, NEW new \in Row \cup {NoRow}, Bypass(o, new)
      PROVE  ClearInv'
  BY <1>0, <1>6, ClearBypass DEF ClearInv, AnyRow
<1>7. ASSUME NEW o \in Obj, NEW new \in Row \cup {NoRow}, NEW at \in 1..clock, Audited(o, new, at)
      PROVE  ClearInv'
  BY <1>0, <1>7, ClearAudited DEF ClearInv, AnyRow
<1> QED
  BY <1>0, <1>3, <1>4, <1>5, <1>6, <1>7 DEF ChainNext

(* The check of a batch: what it does not exclude can be restored, but for *)
(* what only snapshots record, which the comparison excludes next.         *)
LEMMA ClearNextBatch ==
    ASSUME JobInv, ClearInv, NextBatch
    PROVE  ClearInv'
<1>1. /\ pc = "next" /\ pc' = "compare" /\ batch' = FirstOf(Rest)
      /\ excluded' = excluded \cup (batch' \cap Named(Verify(audit, live, "snapshots", 0)))
      /\ UNCHANGED <<chainVars, kept, raced>>
  BY DEF NextBatch, jobGhosts
<1>2. UNCHANGED <<audit, live, storage, release, idSeq, clock, cutoff, claimed, bypassed>>
  BY <1>1 DEF chainVars, vars
<1>3. LogState'
  BY <1>2, BasisFrame DEF ClearInv, LogState, Written, Aged, Basis
<1>4. Modern' /\ KeptState' /\ KeptRestored'
  BY <1>1, <1>2 DEF ClearInv, Modern, KeptState, KeptRestored
<1>5. ASSUME NEW o \in batch' \ excluded', ~ SnapshotOnly(audit, o)
      PROVE  Restorable(o)
  <2>1. o \in Obj /\ Of(audit, o) # {} /\ o \notin Named(Verify(audit, live, "snapshots", 0))
    BY <1>1 DEF FirstOf, Rest
  <2>2. Mismatches(audit, live, o, "unskipped") = {}
    BY <2>1, NothingFound DEF ClearInv, LogState
  <2>3. Log(audit, o, idSeq) /\ live[o] \in AnyRow
    BY <2>1, LogOf, BasisFacts DEF ClearInv, LogState
  <2>4. Aged(Of(audit, o)) /\ \A e \in Of(audit, o) : Agrees(e)
    BY DEF ClearInv, LogState, Written, Aged, Of
  <2>5. Checked(audit, live, o, idSeq)
    BY <1>5, <2>2, <2>3, <2>4 DEF Checked
  <2> QED
    BY <2>5, CheckedRestores DEF Restorable
<1>6. BatchState'
  <2>1. \A o \in batch' \ (excluded' \cup raced') : SnapshotOnly(audit', o) \/ Restorable(o)'
    BY <1>2, <1>5 DEF Restorable
  <2> QED
    BY <1>1, <2>1 DEF BatchState
<1> QED
  BY <1>3, <1>4, <1>6 DEF ClearInv

(* The comparison of a batch leaves only events whose diffs are whole.     *)
LEMMA ClearCompareBatch ==
    ASSUME JobInv, ClearInv, CompareBatch
    PROVE  ClearInv'
<1>1. /\ pc = "compare" /\ pc' = "clear" /\ batch' = batch
      /\ excluded' = excluded \cup {o \in batch : SnapshotOnly(audit, o)}
      /\ UNCHANGED <<chainVars, kept, raced>>
  BY DEF CompareBatch, jobGhosts
<1>2. UNCHANGED <<audit, live, storage, release, idSeq, clock, cutoff, claimed, bypassed>>
  BY <1>1 DEF chainVars, vars
<1>3. LogState'
  BY <1>2, BasisFrame DEF ClearInv, LogState, Written, Aged, Basis
<1>4. Modern' /\ KeptState' /\ KeptRestored'
  BY <1>1, <1>2 DEF ClearInv, Modern, KeptState, KeptRestored
<1>5. ASSUME NEW o \in batch' \ (excluded' \cup raced') PROVE Restorable(o)
  BY <1>1, <1>5 DEF ClearInv, BatchState
<1>6. ASSUME NEW o \in batch' \ excluded', NEW e \in Of(audit, o)
      PROVE  Whole(e)
  <2>1. ~ SnapshotOnly(audit, o) /\ Entered(e) /\ Agrees(e)
    BY <1>1 DEF ClearInv, LogState, Basis, Written, Of
  <2> QED
    BY <1>6, <2>1, SnapshotsAdd
<1>7. BatchState'
  <2>1. \A o \in batch' \ (excluded' \cup raced') : Restorable(o)'
    BY <1>1, <1>2, <1>5 DEF Restorable
  <2> QED
    BY <1>1, <1>2, <1>6, <2>1 DEF BatchState
<1> QED
  BY <1>3, <1>4, <1>7 DEF ClearInv

(* The log when some of its events are stripped.                           *)
LEMMA ClearedLog ==
    ASSUME LogState, NEW S \in SUBSET audit, NEW B, B = Cleared(audit, S)
    PROVE  /\ \A b \in B : \E e \in audit :
                 /\ Twin(b, e) /\ Entered(b) /\ Entered(e)
                 /\ b.object_id = e.object_id /\ b.operation = e.operation
                 /\ (e \notin S /\ b = e) \/ (e \in S /\ b = Stripped(e))
           /\ \A e \in audit : (IF e \in S THEN Stripped(e) ELSE e) \in B
           /\ \A a, b \in B : a.id = b.id => a = b
           /\ \A o : Ordered(Of(B, o)) /\ Alike(Of(B, o), Of(audit, o))
<1>0. /\ \A e \in audit : Entered(e) /\ e.id \in Nat
      /\ \A e, f \in audit : e.id = f.id => e = f
  <2>1. Basis
    BY DEF LogState
  <2>2. \A e \in audit : e.id \in Nat
    BY <2>1, BasisFacts
  <2>3. \A e \in audit : Entered(e)
    BY <2>1 DEF Basis
  <2>4. \A e, f \in audit : e.id = f.id => e = f
    BY <2>1 DEF Basis
  <2> QED
    BY <2>2, <2>3, <2>4
<1>1. \A b : b \in B <=> b \in audit \ S \/ \E e \in S : b = Stripped(e)
  <2>1. B = (audit \ S) \cup {Stripped(e) : e \in S}
    BY Zenon DEF Cleared, Stripped
  <2> QED
    BY <2>1
<1>2. \A e \in audit : /\ Twin(Stripped(e), e) /\ Entered(Stripped(e))
                       /\ Stripped(e).object_id = e.object_id
                       /\ Stripped(e).operation = e.operation
  BY <1>0, StrippedFacts
<1>3. ASSUME NEW b \in B
      PROVE  \E e \in audit :
                /\ Twin(b, e) /\ Entered(b) /\ Entered(e)
                /\ b.object_id = e.object_id /\ b.operation = e.operation
                /\ (e \notin S /\ b = e) \/ (e \in S /\ b = Stripped(e))
  <2>1. CASE b \in audit \ S
    BY <1>0, <2>1 DEF Twin
  <2>2. CASE \E e \in S : b = Stripped(e)
    BY <1>0, <1>2, <2>2
  <2> QED
    BY <1>1, <2>1, <2>2
<1>4. \A e \in audit : (IF e \in S THEN Stripped(e) ELSE e) \in B
  BY <1>1
<1>5. ASSUME NEW a \in B, NEW b \in B, a.id = b.id PROVE a = b
  <2>1. PICK e \in audit :
            Twin(a, e) /\ ((e \notin S /\ a = e) \/ (e \in S /\ a = Stripped(e)))
    BY <1>3
  <2>2. PICK f \in audit :
            Twin(b, f) /\ ((f \notin S /\ b = f) \/ (f \in S /\ b = Stripped(f)))
    BY <1>3
  <2>3. e.id = f.id
    BY <1>5, <2>1, <2>2 DEF Twin
  <2>4. e = f
    BY <1>0, <2>3
  <2> QED
    BY <2>1, <2>2, <2>4
<1>6. ASSUME NEW o PROVE Ordered(Of(B, o)) /\ Alike(Of(B, o), Of(audit, o))
  <2>1. \A b \in B : b.id \in Nat
    BY <1>3 DEF Entered
  <2>2. Ordered(Of(B, o))
    BY <1>5, <2>1 DEF Ordered, Of
  <2>3. \A b \in Of(B, o) : \E e \in Of(audit, o) : Twin(b, e)
    BY <1>3 DEF Of
  <2>4. \A e \in Of(audit, o) : \E b \in Of(B, o) : Twin(b, e)
    <3> SUFFICES ASSUME NEW e \in audit, e.object_id = o PROVE \E b \in Of(B, o) : Twin(b, e)
      BY DEF Of
    <3>1. CASE e \in S
      BY <1>2, <1>4, <3>1 DEF Of
    <3>2. CASE e \notin S
      BY <1>4, <3>2 DEF Of, Twin
    <3> QED
      BY <3>1, <3>2
  <2> QED
    BY <2>2, <2>3, <2>4 DEF Alike
<1> QED
  BY <1>3, <1>4, <1>5, <1>6

(* The UPDATE clears what can be restored, and what it clears is kept.     *)
LEMMA ClearClearBatch ==
    ASSUME JobInv, ClearInv, ClearBatch
    PROVE  ClearInv'
<1> DEFINE cleared == {e \in audit : /\ e.object_id \in batch \ excluded
                                     /\ Eligible(e, before)
                                     /\ seesHash => e.id < hashFrom}
<1>1. /\ pc = "clear" /\ pc' = "next" /\ batch' = {} /\ kept' = kept \cup cleared
      /\ audit' = Cleared(audit, cleared)
      /\ UNCHANGED <<live, storage, release, idSeq, clock, cutoff, claimed, bypassed, raced>>
  BY DEF ClearBatch, ghosts
<1>2. /\ cleared \subseteq audit
      /\ \A e \in cleared : /\ e.object_id \in batch \ excluded
                            /\ HasSnapshot(e) /\ FullyPaired(e)
  BY DEF Eligible
<1> HIDE DEF cleared
<1>3. /\ \A b \in audit' : \E e \in audit :
             /\ Twin(b, e) /\ Entered(b) /\ Entered(e)
             /\ b.object_id = e.object_id /\ b.operation = e.operation
             /\ (e \notin cleared /\ b = e) \/ (e \in cleared /\ b = Stripped(e))
      /\ \A e \in audit : (IF e \in cleared THEN Stripped(e) ELSE e) \in audit'
      /\ \A a, b \in audit' : a.id = b.id => a = b
      /\ \A o : Ordered(Of(audit', o)) /\ Alike(Of(audit', o), Of(audit, o))
  <2>1. LogState /\ cleared \in SUBSET audit
    BY <1>2 DEF ClearInv
  <2> QED
    BY <1>1, <2>1, ClearedLog
<1>4. Basis /\ release = "current" /\ \A e \in audit : Entered(e) /\ Agrees(e)
  BY <1>1 DEF ClearInv, LogState, Modern, Written, Basis
<1>5. \A e \in cleared : /\ Whole(e)
                         /\ e.object_id \notin raced => Restorable(e.object_id)
  BY <1>1, <1>2 DEF ClearInv, BatchState, Of
<1>6. Basis'
  <2>1. \A b \in audit' : Entered(b) /\ b.id <= idSeq /\ b.changed_at \in 1..clock
    BY <1>3, <1>4 DEF Basis, Twin
  <2> QED
    BY <1>1, <1>3, <1>4, <2>1 DEF Basis
<1>7. \A b \in audit' : Agrees(b)
  <2> SUFFICES ASSUME NEW b \in audit' PROVE Agrees(b)
    OBVIOUS
  <2>1. PICK e \in audit : \/ e \notin cleared /\ b = e
                           \/ e \in cleared /\ b = Stripped(e)
    BY <1>3
  <2>2. CASE b = e
    BY <1>4, <2>2
  <2>3. CASE e \in cleared /\ b = Stripped(e)
    <3>1. /\ b.diff = e.diff /\ b.operation = e.operation
          /\ b.old_data = NoRow /\ b.new_data = NoRow
      BY <1>4, <2>3, StrippedFacts DEF Twin
    <3>2. Agrees(e) /\ Whole(e)
      BY <1>4, <1>5, <2>3
    <3> QED
      BY <3>1, <3>2 DEF Agrees, Whole
  <2> QED
    BY <2>1, <2>2, <2>3
<1>8. Aged(audit')
  <2>1. \A b \in audit' : \E e \in audit : /\ b.id = e.id /\ b.operation = e.operation
                                           /\ b.diff = e.diff
    BY <1>3 DEF Twin
  <2>2. Aged(audit)
    BY DEF ClearInv, LogState, Written
  <2> QED
    BY <2>1, <2>2 DEF Aged, PairsOnly
<1>9. LogState' /\ Modern'
  <2>1. Written'
    BY <1>1, <1>4, <1>7, <1>8 DEF Written
  <2> QED
    BY <1>1, <1>4, <1>6, <2>1 DEF ClearInv, LogState, Modern
<1>10. \A k \in kept : /\ Entered(k) /\ Stripped(k) \in audit /\ Stripped(k) \notin cleared
                       /\ Stripped(k).id = k.id
  <2> SUFFICES ASSUME NEW k \in kept
               PROVE  /\ Entered(k) /\ Stripped(k) \in audit /\ Stripped(k) \notin cleared
                      /\ Stripped(k).id = k.id
    OBVIOUS
  <2>1. Entered(k) /\ Stripped(k) \in audit
    BY DEF ClearInv, KeptState
  <2>2. Stripped(k).id = k.id /\ ~ HasSnapshot(Stripped(k))
    BY <2>1, StrippedFacts DEF Twin, HasSnapshot
  <2> QED
    BY <1>2, <2>1, <2>2
<1>11. KeptState'
  <2>1. ASSUME NEW k \in kept'
        PROVE  /\ Stripped(k) \in audit' /\ Entered(k) /\ FullyPaired(k)
               /\ Agrees(k) /\ Whole(k)
    <3>1. CASE k \in kept
      BY <1>3, <1>10, <3>1 DEF ClearInv, KeptState
    <3>2. CASE k \in cleared
      BY <1>2, <1>3, <1>4, <1>5, <3>2
    <3> QED
      BY <1>1, <3>1, <3>2
  <2>2. \A k \in kept, l \in cleared : k.id # l.id
    BY <1>2, <1>4, <1>10 DEF Basis
  <2>3. \A k, l \in cleared : k.id = l.id => k = l
    BY <1>2, <1>4 DEF Basis
  <2>4. ASSUME NEW k \in kept', NEW l \in kept', k.id = l.id PROVE k = l
    BY <1>1, <2>2, <2>3, <2>4 DEF ClearInv, KeptState
  <2> QED
    BY <2>1, <2>4 DEF KeptState
<1>12. KeptRestored'
  <2> SUFFICES ASSUME NEW k \in kept', k.object_id \notin raced
               PROVE  Restores(Of(audit', k.object_id), live[k.object_id], k)
    BY <1>1 DEF KeptRestored
  <2> DEFINE o == k.object_id
  <2>1. k \in kept => Restores(Of(audit, o), live[o], k)
    BY DEF ClearInv, KeptRestored
  <2>2. k \in cleared => Restores(Of(audit, o), live[o], k)
    <3> SUFFICES ASSUME k \in cleared PROVE Restores(Of(audit, o), live[o], k)
      OBVIOUS
    <3>1. Restorable(o) /\ FullyPaired(k) /\ k \in Of(audit, o)
      BY <1>2, <1>5 DEF Of
    <3> QED
      BY <3>1 DEF Restorable
  <2>3. Restores(Of(audit, o), live[o], k)
    BY <1>1, <2>1, <2>2
  <2>4. Ordered(Of(audit, o)) /\ Ordered(Of(audit', o)) /\ Alike(Of(audit', o), Of(audit, o))
    BY <1>3, <1>4, BasisFacts
  <2> HIDE DEF o
  <2>5. Restores(Of(audit', o), live[o], k)
    BY <2>3, <2>4, RestoresAlike
  <2> QED
    BY <2>5 DEF o
<1>13. BatchState'
  BY <1>1 DEF BatchState
<1> QED
  BY <1>9, <1>11, <1>12, <1>13 DEF ClearInv

(***************************************************************************)
(* The inductive invariant of compaction: whatever was cleared can be      *)
(* restored from the diffs and the live row that are left, unless a write  *)
(* bypassed the trigger after the check, and from the check on so can what *)
(* the job is about to clear.                                              *)
(***************************************************************************)
THEOREM ClearInvariant == ASSUME Distinguishable PROVE CompactionSpec => []ClearInv
<1>1. CompactionInit => ClearInv
  <2> SUFFICES ASSUME CompactionInit PROVE ClearInv
    OBVIOUS
  <2>1. /\ ChainInit /\ pc = "idle" /\ kept = {} /\ audit = {} /\ storage = "full"
    BY DEF CompactionInit, ChainInit
  <2>2. Basis /\ release \in Releases
    BY <2>1, BasisInit, FirstRelease
  <2>3. LogState
    BY <2>1, <2>2 DEF LogState, Written, Aged
  <2>4. Modern /\ KeptState /\ KeptRestored /\ BatchState
    BY <2>1 DEF Modern, KeptState, KeptRestored, BatchState
  <2> QED
    BY <2>3, <2>4 DEF ClearInv
<1>2. JobInv /\ ClearInv /\ [CompactionNext]_compactionVars => ClearInv'
  <2> SUFFICES ASSUME JobInv, ClearInv, [CompactionNext]_compactionVars PROVE ClearInv'
    OBVIOUS
  <2>1. ASSUME UNCHANGED <<chainVars, kept, raced>>,
               pc' # "idle" => release = "current",
               pc' \notin {"compare", "clear"} \/ UNCHANGED <<pc, batch, excluded>>
        PROVE  ClearInv'
    <3>1. UNCHANGED <<audit, live, storage, release, idSeq, clock, cutoff, claimed, bypassed>>
      BY <2>1 DEF chainVars, vars
    <3>2. LogState'
      BY <3>1, BasisFrame DEF ClearInv, LogState, Written, Aged, Basis
    <3>3. Modern' /\ KeptState' /\ KeptRestored'
      BY <2>1, <3>1 DEF ClearInv, Modern, KeptState, KeptRestored
    <3>4. \A o : Restorable(o) => Restorable(o)'
      BY <3>1 DEF Restorable
    <3>5. BatchState'
      BY <2>1, <3>1, <3>4 DEF ClearInv, BatchState
    <3> QED
      BY <3>2, <3>3, <3>5 DEF ClearInv
  <2>2. CASE Application
    BY <2>2, ClearApplication
  <2>3. ASSUME NEW limit \in 2..Always, Start(limit) PROVE ClearInv'
    <3>1. /\ UNCHANGED <<chainVars, kept, raced>> /\ pc' = "next" /\ storage = "diff"
      BY <2>3 DEF Start
    <3> QED
      BY <2>1, <3>1 DEF ClearInv, Modern
  <2>4. CASE NextBatch
    BY <2>4, ClearNextBatch
  <2>5. CASE CompareBatch
    BY <2>5, ClearCompareBatch
  <2>6. CASE ClearBatch
    BY <2>6, ClearClearBatch
  <2>7. CASE EndJob \/ Interrupt
    <3>1. UNCHANGED <<chainVars, kept, raced>> /\ pc' = "idle"
      BY <2>7 DEF EndJob, Interrupt, Reset
    <3> QED
      BY <2>1, <3>1
  <2>8. CASE UNCHANGED compactionVars
    <3>1. UNCHANGED <<chainVars, kept, raced, pc, batch, excluded>>
      BY <2>8 DEF compactionVars, jobVars, jobGhosts
    <3>2. pc' # "idle" => release = "current"
      BY <3>1 DEF ClearInv, Modern
    <3> QED
      BY <2>1, <3>1, <3>2
  <2> QED
    BY <2>2, <2>3, <2>4, <2>5, <2>6, <2>7, <2>8 DEF CompactionNext
<1> QED
  BY <1>1, <1>2, JobInvariant, PTL DEF CompactionSpec

------------------------------------------------------------------------------
(* The past with and without the snapshots that were cleared *)

(* A snapshot, read through the filter, is a row of the tracked columns.   *)
LEMMA SeenAs ==
    ASSUME NEW snap \in SnapshotRow, snap # NoRow
    PROVE  Seen(snap) = [c \in Tracked |-> snap[c]]
<1>1. DOMAIN snap \cap Tracked = Tracked
  BY Assumed DEF SnapshotRow, Row
<1> QED
  BY <1>1 DEF Seen, Keys

(* Sets of the same ids have the same first and the same last one.         *)
LEMMA AlikeEnds ==
    ASSUME NEW U, NEW V, Ordered(U), Ordered(V), Alike(U, V), U # {}
    PROVE  /\ V # {}
           /\ FirstEvent(U) \in U /\ FirstEvent(V) \in V /\ FirstEvent(U).id = FirstEvent(V).id
           /\ \A n \in Nat : (\A e \in U : e.id <= n) =>
                 /\ LastEvent(U) \in U /\ LastEvent(V) \in V
                 /\ LastEvent(U).id = LastEvent(V).id
                 /\ \A e \in U : e.id <= LastEvent(U).id
<1>1. V # {} /\ (\A b \in U : b.id \in Nat) /\ \A e \in V : e.id \in Nat
  BY DEF Alike, Ordered
<1>2. FirstEvent(U) \in U /\ FirstEvent(V) \in V /\ FirstEvent(U).id = FirstEvent(V).id
  <2>1. /\ FirstEvent(U) \in U /\ \A f \in U : FirstEvent(U).id <= f.id
        /\ FirstEvent(V) \in V /\ \A f \in V : FirstEvent(V).id <= f.id
    BY <1>1, FirstEventOf
  <2>2. FirstEvent(U).id <= FirstEvent(V).id /\ FirstEvent(V).id <= FirstEvent(U).id
    BY <2>1 DEF Alike, Twin
  <2> QED
    BY <1>1, <2>1, <2>2
<1>3. ASSUME NEW n \in Nat, \A e \in U : e.id <= n
      PROVE  /\ LastEvent(U) \in U /\ LastEvent(V) \in V /\ LastEvent(U).id = LastEvent(V).id
             /\ \A e \in U : e.id <= LastEvent(U).id
  <2>1. \A e \in V : e.id <= n
    BY <1>3 DEF Alike, Twin
  <2>2. /\ LastEvent(U) \in U /\ \A f \in U : f.id <= LastEvent(U).id
        /\ LastEvent(V) \in V /\ \A f \in V : f.id <= LastEvent(V).id
    BY <1>1, <1>3, <2>1, LastEventOf
  <2>3. LastEvent(U).id <= LastEvent(V).id /\ LastEvent(V).id <= LastEvent(U).id
    BY <2>2 DEF Alike, Twin
  <2> QED
    BY <1>1, <2>2, <2>3
<1> QED
  BY <1>1, <1>2, <1>3

(* What is undone depends on ids and diffs alone.                          *)
LEMMA UndoAlike ==
    ASSUME NEW A, NEW B, NEW o, Ordered(Of(A, o)), Ordered(Of(B, o)), Alike(Of(A, o), Of(B, o)),
           NEW a, NEW b, a.id = b.id
    PROVE  Undo(A, o, a) = Undo(B, o, b)
<1> DEFINE U == From(Of(A, o), a.id)
           V == From(Of(B, o), a.id)
           C(W) == UNION {DOMAIN e.diff : e \in W}
           Undone(W, c) == OldSide(FirstEvent(Naming(W, c)).diff[c])
<1>1. Undo(A, o, a) = [c \in C(U) |-> Undone(U, c)]
  BY DEF Undo, Naming, From
<1>2. Undo(B, o, b) = [c \in C(V) |-> Undone(V, c)]
  BY DEF Undo, Naming, From
<1>3. Ordered(U) /\ Ordered(V) /\ Alike(U, V)
  BY FromOrdered, PartsAlike
<1> HIDE DEF U, V
<1>4. C(U) = C(V)
  BY <1>3 DEF Alike, Twin
<1>5. ASSUME NEW c \in C(U) PROVE Undone(U, c) = Undone(V, c)
  <2>1. /\ Naming(U, c) # {} /\ Ordered(Naming(U, c)) /\ Ordered(Naming(V, c))
        /\ Alike(Naming(U, c), Naming(V, c))
    BY <1>3 DEF Naming, Ordered, Alike, Twin
  <2>2. /\ FirstEvent(Naming(U, c)) \in U /\ FirstEvent(Naming(V, c)) \in V
        /\ FirstEvent(Naming(U, c)).id = FirstEvent(Naming(V, c)).id
    BY <2>1, AlikeEnds DEF Naming
  <2>3. FirstEvent(Naming(U, c)).diff = FirstEvent(Naming(V, c)).diff
    BY <1>3, <2>2 DEF Alike, Twin, Ordered
  <2> QED
    BY <2>3
<1> HIDE DEF C, Undone
<1> QED
  BY <1>1, <1>2, <1>4, <1>5

(* What is undone over the events U: every column some event of U names,   *)
(* with its value before them.                                             *)
Undoes(undo, U, row) ==
    /\ DOMAIN undo \subseteq Tracked
    /\ \A c : c \in DOMAIN undo <=> Naming(U, c) # {}
    /\ \A c \in DOMAIN undo : Was(U, row, c) # NoRow => undo[c] = Was(U, row, c)

(* Undo has the old value of every column some event names, where the      *)
(* first event names all of them or those after it have pairs.             *)
LEMMA UndoneIs ==
    ASSUME NEW A, NEW o, Ordered(Of(A, o)), \A e \in Of(A, o) : DOMAIN e.diff \subseteq Tracked,
           NEW first \in Of(A, o), PairsOnly(first),
           DOMAIN first.diff = Tracked \/ Settled(Of(A, o), first), NEW row
    PROVE  Undoes(Undo(A, o, first), From(Of(A, o), first.id), row)
<1> DEFINE U == From(Of(A, o), first.id)
           C == UNION {DOMAIN e.diff : e \in U}
           undo == Undo(A, o, first)
<1>1. undo = [c \in C |-> OldSide(FirstEvent(Naming(U, c)).diff[c])]
  BY DEF Undo, Naming, From
<1> HIDE DEF undo
<1>2. DOMAIN undo = C
  BY <1>1
<1>3. \A c : c \in C <=> Naming(U, c) # {}
  BY DEF Naming
<1>4. C \subseteq Tracked
  BY DEF From
<1>5. ASSUME NEW c \in C, Was(U, row, c) # NoRow PROVE undo[c] = Was(U, row, c)
  <2> DEFINE e == FirstEvent(Naming(U, c))
  <2>1. Naming(U, c) # {} /\ \A f \in Naming(U, c) : f.id \in Nat
    BY <1>3 DEF Naming, From, Ordered
  <2>2. e \in Naming(U, c) /\ \A f \in Naming(U, c) : e.id <= f.id
    BY <2>1, FirstEventOf
  <2>3. undo[c] = OldSide(e.diff[c])
    BY <1>1
  <2>4. Was(U, row, c) = e.diff[c].old
    BY <1>5, <2>1 DEF Was, OldOf
  <2>5. first.id \in Nat /\ first \in U
    BY DEF From, Ordered
  <2> HIDE DEF e
  <2>6. e \in Of(A, o) /\ e.id >= first.id /\ e.id \in Nat /\ c \in DOMAIN e.diff
    BY <2>1, <2>2 DEF Naming, From
  <2>7. CASE e = first
    BY <2>3, <2>4, <2>6, <2>7 DEF OldSide, PairsOnly
  <2>8. CASE e # first
    <3>1. e.id > first.id
      BY <2>5, <2>6, <2>8 DEF Ordered
    <3>2. ~ (e.id <= first.id)
      BY <2>5, <2>6, <3>1
    <3>3. c \in Tracked /\ first \notin Naming(U, c)
      BY <1>4, <2>2, <3>2
    <3>4. Settled(Of(A, o), first)
      BY <2>5, <3>3 DEF Naming
    <3>5. Paired(e.diff[c])
      BY <2>6, <3>1, <3>4 DEF Settled, PairsOnly
    <3> QED
      BY <2>3, <2>4, <3>5 DEF OldSide
  <2> QED
    BY <2>7, <2>8
<1> QED
  BY <1>2, <1>3, <1>4, <1>5 DEF undo, Undoes

(* Undoing the events from one that was cleared on restores what its       *)
(* snapshot showed.                                                        *)
LEMMA OverlayRestores ==
    ASSUME NEW A, NEW L, NEW o, Ordered(Of(A, o)), L[o] \in AnyRow,
           \A e \in Of(A, o) : DOMAIN e.diff \subseteq Tracked,
           NEW first \in Of(A, o), PairsOnly(first),
           DOMAIN first.diff = Tracked \/ Settled(Of(A, o), first),
           NEW snap \in SnapshotRow, snap # NoRow,
           \A c \in Tracked : snap[c] = Was(From(Of(A, o), first.id), L[o], c)
    PROVE  Seen(Overlay(LiveRow(L, o), Undo(A, o, first))) = Seen(snap)
<1> DEFINE U == From(Of(A, o), first.id)
           undo == Undo(A, o, first)
           now == LiveRow(L, o)
           base == IF now = NoRow THEN {} ELSE DOMAIN now
           R == Overlay(now, undo)
<1>1. /\ DOMAIN undo \subseteq Tracked
      /\ \A c : c \in DOMAIN undo <=> Naming(U, c) # {}
      /\ \A c \in DOMAIN undo : Was(U, L[o], c) # NoRow => undo[c] = Was(U, L[o], c)
  <2>1. Undoes(Undo(A, o, first), From(Of(A, o), first.id), L[o])
    BY UndoneIs
  <2> QED
    BY <2>1 DEF Undoes
<1>2. \A c \in Tracked : snap[c] = Was(U, L[o], c) /\ snap[c] \in Cell /\ snap[c] # NoRow
  BY SeenSnapshot, Assumed
<1>3. /\ L[o] # NoRow => now = Filter(L[o]) /\ now # NoRow /\ base = Tracked
      /\ L[o] = NoRow => base = {}
      /\ L[o] # NoRow => \A c \in Tracked : now[c] = ValueOf(L[o], c)
  <2>1. CASE L[o] = NoRow
    BY <2>1 DEF LiveRow
  <2>2. CASE L[o] # NoRow
    <3>1. L[o] \in Row /\ now = Filter(L[o])
      BY <2>2 DEF AnyRow, LiveRow
    <3>2. now # NoRow /\ \A c \in Tracked : now[c] = L[o][c] /\ ValueOf(L[o], c) = L[o][c]
      BY <3>1, Filtered
    <3>3. DOMAIN now = Tracked
      BY <3>1 DEF Filter
    <3> QED
      BY <2>2, <3>1, <3>2, <3>3
  <2> QED
    BY <2>1, <2>2
<1>4. R = [c \in base \cup DOMAIN undo |-> IF c \in DOMAIN undo THEN undo[c] ELSE now[c]]
  BY DEF Overlay
<1> HIDE DEF U, undo, now, base, R
<1>5. \A c \in Tracked : c \notin DOMAIN undo => snap[c] = ValueOf(L[o], c) /\ L[o] # NoRow
  <2> SUFFICES ASSUME NEW c \in Tracked, c \notin DOMAIN undo
               PROVE  snap[c] = ValueOf(L[o], c) /\ L[o] # NoRow
    OBVIOUS
  <2>1. snap[c] = ValueOf(L[o], c) /\ snap[c] # NoRow
    BY <1>1, <1>2 DEF Was
  <2> QED
    BY <2>1, NoValues, Assumed
<1>6. base \cup DOMAIN undo = Tracked
  BY <1>1, <1>3, <1>5
<1>7. R = [c \in Tracked |-> snap[c]]
  <2>1. \A c \in Tracked : (IF c \in DOMAIN undo THEN undo[c] ELSE now[c]) = snap[c]
    BY <1>1, <1>2, <1>3, <1>5
  <2> QED
    BY <1>4, <1>6, <2>1
<1>8. R # NoRow /\ DOMAIN R = Tracked
  <2>1. R \in [Tracked -> Cell]
    BY <1>2, <1>7
  <2> QED
    BY <2>1, Assumed
<1>9. Seen(R) = [c \in Tracked |-> snap[c]]
  BY <1>7, <1>8 DEF Seen, Keys
<1> QED
  BY <1>9, SeenAs DEF R, now, undo

(* The events a and u are the same one, with its snapshots or without.     *)
Matched(a, u) ==
    /\ Twin(a, u) /\ a.operation = u.operation /\ a.object_id = u.object_id
    /\ u = a \/ (u \in kept /\ a = Stripped(u))

(* The log and the log with what was cleared match event by event.         *)
LEMMA UncompactedLog ==
    ASSUME ClearInv
    PROVE  /\ \A a \in audit : \E u \in Uncompacted : Matched(a, u)
           /\ \A u \in Uncompacted : \E a \in audit : Matched(a, u)
           /\ \A u \in Uncompacted : Entered(u)
           /\ \A u, v \in Uncompacted : u.id = v.id => u = v
           /\ \A o : /\ Ordered(Of(audit, o)) /\ Ordered(Of(Uncompacted, o))
                     /\ Alike(Of(audit, o), Of(Uncompacted, o))
<1> DEFINE U == Uncompacted
<1>1. /\ \A e \in audit : Entered(e)
      /\ \A e, f \in audit : e.id = f.id => e = f
  BY DEF ClearInv, LogState, Basis
<1>2. /\ \A k \in kept : Stripped(k) \in audit /\ Entered(k) /\ Matched(Stripped(k), k)
      /\ \A k, l \in kept : k.id = l.id => k = l
  BY StrippedFacts DEF ClearInv, KeptState, Matched
<1>3. \A u : u \in U <=> u \in kept \/ (u \in audit /\ \A k \in kept : k.id # u.id)
  BY DEF Uncompacted
<1> HIDE DEF U
<1>4. \A a \in audit : \E u \in U : Matched(a, u)
  <2> SUFFICES ASSUME NEW a \in audit PROVE \E u \in U : Matched(a, u)
    OBVIOUS
  <2>1. CASE \E k \in kept : k.id = a.id
    <3>1. PICK k \in kept : k.id = a.id
      BY <2>1
    <3>2. Stripped(k) = a
      BY <1>1, <1>2, <3>1 DEF Matched, Twin
    <3> QED
      BY <1>2, <1>3, <3>2
  <2>2. CASE \A k \in kept : k.id # a.id
    BY <1>3, <2>2 DEF Matched, Twin
  <2> QED
    BY <2>1, <2>2
<1>5. \A u \in U : \E a \in audit : Matched(a, u)
  BY <1>2, <1>3 DEF Matched, Twin
<1>6. \A u \in U : Entered(u)
  BY <1>1, <1>2, <1>3
<1>7. \A u, v \in U : u.id = v.id => u = v
  BY <1>1, <1>2, <1>3
<1>8. ASSUME NEW o
      PROVE  /\ Ordered(Of(audit, o)) /\ Ordered(Of(U, o))
             /\ Alike(Of(audit, o), Of(U, o))
  <2>1. Ordered(Of(audit, o))
    BY BasisFacts DEF ClearInv, LogState
  <2>2. Ordered(Of(U, o))
    BY <1>6, <1>7 DEF Ordered, Of, Entered
  <2>3. Alike(Of(audit, o), Of(U, o))
    BY <1>4, <1>5 DEF Alike, Of, Matched
  <2> QED
    BY <2>1, <2>2, <2>3
<1> QED
  BY <1>4, <1>5, <1>6, <1>7, <1>8 DEF U

(* So do the first events after an instant, and the last ones.             *)
LEMMA SameEnds ==
    ASSUME ClearInv, NEW o, NEW at
    PROVE  /\ Suffix(audit, o, at) = {} <=> Suffix(Uncompacted, o, at) = {}
           /\ Suffix(audit, o, at) # {} =>
                 LET a == FirstEvent(Suffix(audit, o, at))
                     u == FirstEvent(Suffix(Uncompacted, o, at))
                 IN  a \in Of(audit, o) /\ u \in Of(Uncompacted, o) /\ Matched(a, u)
           /\ Of(audit, o) = {} <=> Of(Uncompacted, o) = {}
           /\ Of(audit, o) # {} =>
                 LET a == LastEvent(Of(audit, o))
                     u == LastEvent(Of(Uncompacted, o))
                 IN  /\ a \in Of(audit, o) /\ u \in Of(Uncompacted, o) /\ Matched(a, u)
                     /\ \A e \in Of(audit, o) : e.id <= a.id
<1> DEFINE V == Of(audit, o)
           W == Of(Uncompacted, o)
           X == Suffix(audit, o, at)
           Y == Suffix(Uncompacted, o, at)
<1>1. /\ Ordered(V) /\ Ordered(W) /\ Alike(V, W)
      /\ \A u \in W : \E a \in V : Matched(a, u)
  BY UncompactedLog DEF Of, Matched
<1>2. idSeq \in Nat /\ \A e \in V : e.id <= idSeq
  BY DEF ClearInv, LogState, Basis, Of
<1>3. X = {e \in V : e.changed_at > at} /\ Y = {e \in W : e.changed_at > at}
  BY DEF Suffix
<1> HIDE DEF V, W, X, Y
<1>4. Ordered(X) /\ Ordered(Y) /\ Alike(X, Y)
  BY <1>1, <1>3 DEF Ordered, Alike, Twin
<1>5. \A a \in V, u \in W : a.id = u.id => Matched(a, u)
  <2> SUFFICES ASSUME NEW a \in V, NEW u \in W, a.id = u.id PROVE Matched(a, u)
    OBVIOUS
  <2>1. PICK b \in V : Matched(b, u)
    BY <1>1
  <2>2. b = a
    BY <1>1, <2>1 DEF Matched, Twin, Ordered
  <2> QED
    BY <2>1, <2>2
<1>6. (X = {} <=> Y = {}) /\ (V = {} <=> W = {})
  BY <1>1, <1>4 DEF Alike
<1>7. X # {} => /\ FirstEvent(X) \in V /\ FirstEvent(Y) \in W
                /\ Matched(FirstEvent(X), FirstEvent(Y))
  <2> SUFFICES ASSUME X # {}
               PROVE  /\ FirstEvent(X) \in V /\ FirstEvent(Y) \in W
                      /\ Matched(FirstEvent(X), FirstEvent(Y))
    OBVIOUS
  <2>1. FirstEvent(X) \in X /\ FirstEvent(Y) \in Y /\ FirstEvent(X).id = FirstEvent(Y).id
    BY <1>4, AlikeEnds
  <2> QED
    BY <1>3, <1>5, <2>1
<1>8. V # {} => /\ LastEvent(V) \in V /\ LastEvent(W) \in W
                /\ Matched(LastEvent(V), LastEvent(W))
                /\ \A e \in V : e.id <= LastEvent(V).id
  <2> SUFFICES ASSUME V # {}
               PROVE  /\ LastEvent(V) \in V /\ LastEvent(W) \in W
                      /\ Matched(LastEvent(V), LastEvent(W))
                      /\ \A e \in V : e.id <= LastEvent(V).id
    OBVIOUS
  <2>1. /\ LastEvent(V) \in V /\ LastEvent(W) \in W /\ LastEvent(V).id = LastEvent(W).id
        /\ \A e \in V : e.id <= LastEvent(V).id
    BY <1>1, <1>2, AlikeEnds
  <2> QED
    BY <1>5, <2>1
<1> QED
  BY <1>6, <1>7, <1>8 DEF V, W, X, Y

(* Every past state of an object is the one it was with the snapshots.     *)
LEMMA PastKept ==
    ASSUME ClearInv, NEW o \in Obj \ raced, NEW at
    PROVE  Seen(ReconstructRow(audit, live, storage, o, at)) =
               Seen(ReconstructRow(Uncompacted, live, storage, o, at))
<1> DEFINE R == ReconstructRow(audit, live, storage, o, at)
           S == ReconstructRow(Uncompacted, live, storage, o, at)
           V == Of(audit, o)
<1>1. /\ storage # "none" /\ live[o] \in AnyRow /\ Ordered(V)
      /\ \A e \in V : DOMAIN e.diff \subseteq Tracked /\ e.id \in Nat
  <2>1. Basis /\ storage # "none"
    BY DEF ClearInv, LogState
  <2> QED
    BY <2>1, BasisFacts DEF Basis, Entered, Of
<1>2. \A k \in kept : k.object_id = o =>
          /\ Restores(V, live[o], k) /\ Entered(k) /\ FullyPaired(k)
          /\ Agrees(k) /\ Whole(k)
  BY DEF ClearInv, KeptState, KeptRestored
<1>3. \A k \in kept : Stripped(k).old_data = NoRow /\ Stripped(k).new_data = NoRow
  BY StrippedFacts DEF ClearInv, KeptState
<1>4. CASE Suffix(audit, o, at) # {}
  <2> DEFINE a == FirstEvent(Suffix(audit, o, at))
             u == FirstEvent(Suffix(Uncompacted, o, at))
             undone == Overlay(LiveRow(live, o), Undo(audit, o, a))
  <2>1. Suffix(Uncompacted, o, at) # {} /\ a \in V /\ u \in Of(Uncompacted, o) /\ Matched(a, u)
    BY <1>4, SameEnds
  <2>2. Undo(audit, o, a) = Undo(Uncompacted, o, u)
    <3>1. Ordered(V) /\ Ordered(Of(Uncompacted, o)) /\ Alike(V, Of(Uncompacted, o))
      BY UncompactedLog
    <3>2. a.id = u.id
      BY <2>1 DEF Matched, Twin
    <3> HIDE DEF a, u
    <3> QED
      BY <3>1, <3>2, UndoAlike
  <2>3. /\ a.operation = "INSERT" => R = NoRow
        /\ a.operation # "INSERT" /\ a.old_data # NoRow => R = a.old_data
        /\ a.operation # "INSERT" /\ a.old_data = NoRow => R = undone
    BY <1>1, <1>4, RowCases
  <2>4. /\ u.operation = "INSERT" => S = NoRow
        /\ u.operation # "INSERT" /\ u.old_data # NoRow => S = u.old_data
        /\ u.operation # "INSERT" /\ u.old_data = NoRow => S = undone
    BY <1>1, <2>1, <2>2, RowCases
  <2> HIDE DEF a, u, R, S
  <2>5. CASE u = a
    BY <2>3, <2>4, <2>5 DEF R, S
  <2>6. CASE u \in kept /\ a = Stripped(u)
    <3>1. /\ a.old_data = NoRow /\ u.object_id = o /\ a.operation = u.operation
          /\ a.id = u.id /\ a.diff = u.diff
      BY <1>3, <2>1, <2>6 DEF Matched, Twin, Of
    <3>2. CASE u.operation = "INSERT" \/ u.old_data = NoRow
      BY <2>3, <2>4, <3>1, <3>2 DEF R, S
    <3>3. CASE u.operation # "INSERT" /\ u.old_data # NoRow
      <4>1. /\ Restores(V, live[o], u) /\ Entered(u) /\ PairsOnly(u) /\ Whole(u)
        BY <1>2, <2>6, <3>1 DEF FullyPaired, PairsOnly
      <4>2. PairsOnly(a) /\ Whole(a)
        BY <3>1, <4>1 DEF PairsOnly, Whole
      <4>3. a.operation = "UPDATE" => Settled(V, a)
        <5>1. a \in audit /\ V \subseteq audit
          BY <2>1 DEF Of
        <5>2. \A f \in V : f.id > a.id => a.id < f.id
          BY <1>1, <2>1
        <5> QED
          BY <4>2, <5>1, <5>2 DEF ClearInv, LogState, Written, Aged, Settled, Whole
      <4>4. DOMAIN a.diff = Tracked \/ Settled(V, a)
        BY <3>1, <3>3, <4>1, <4>2, <4>3 DEF Entered, Whole
      <4>5. /\ u.old_data \in SnapshotRow
            /\ \A c \in Tracked : u.old_data[c] = Was(From(V, a.id), live[o], c)
        BY <3>1, <3>3, <4>1 DEF Restores, Entered
      <4>6. Seen(undone) = Seen(u.old_data)
        <5>1. \A e \in V : DOMAIN e.diff \subseteq Tracked
          BY <1>1
        <5>2. Ordered(V) /\ live[o] \in AnyRow /\ a \in V /\ PairsOnly(a)
          BY <1>1, <2>1, <4>2
        <5>3. \A snap \in SnapshotRow :
                  /\ snap # NoRow
                  /\ \A c \in Tracked : snap[c] = Was(From(V, a.id), live[o], c)
                  => Seen(undone) = Seen(snap)
          BY <4>4, <5>1, <5>2, OverlayRestores
        <5> QED
          BY <3>3, <4>5, <5>3
      <4> QED
        BY <2>3, <2>4, <3>1, <3>3, <4>6 DEF R, S
    <3> QED
      BY <3>2, <3>3
  <2> QED
    BY <2>1, <2>5, <2>6 DEF Matched
<1>5. CASE Suffix(audit, o, at) = {} /\ V # {}
  <2> DEFINE a == LastEvent(V)
             u == LastEvent(Of(Uncompacted, o))
  <2>1. /\ Suffix(Uncompacted, o, at) = {} /\ Of(Uncompacted, o) # {}
        /\ a \in V /\ Matched(a, u) /\ \A e \in V : e.id <= a.id
    BY <1>5, SameEnds
  <2>2. /\ a.new_data # NoRow => R = a.new_data
        /\ a.new_data = NoRow /\ a.operation = "DELETE" => R = NoRow
        /\ a.new_data = NoRow /\ a.operation # "DELETE" => R = LiveRow(live, o)
    BY <1>1, <1>5, RowCases
  <2>3. /\ u.new_data # NoRow => S = u.new_data
        /\ u.new_data = NoRow /\ u.operation = "DELETE" => S = NoRow
        /\ u.new_data = NoRow /\ u.operation # "DELETE" => S = LiveRow(live, o)
    BY <1>1, <2>1, RowCases
  <2> HIDE DEF a, u, R, S
  <2>4. CASE u = a
    BY <2>2, <2>3, <2>4 DEF R, S
  <2>5. CASE u \in kept /\ a = Stripped(u)
    <3>1. /\ a.new_data = NoRow /\ u.object_id = o /\ a.operation = u.operation /\ a.id = u.id
      BY <1>3, <2>1, <2>5 DEF Matched, Twin, Of
    <3>2. CASE u.new_data = NoRow
      BY <2>2, <2>3, <3>1, <3>2 DEF R, S
    <3>3. CASE u.new_data # NoRow
      <4>1. /\ Restores(V, live[o], u) /\ Entered(u) /\ FullyPaired(u) /\ Whole(u)
            /\ u.operation # "DELETE"
        BY <1>2, <2>5, <3>1, <3>3 DEF Agrees
      <4>2. \A e \in V : ~ (e.id > u.id) /\ ~ (e.id >= u.id + 1)
        <5> SUFFICES ASSUME NEW e \in V PROVE ~ (e.id > u.id) /\ ~ (e.id >= u.id + 1)
          OBVIOUS
        <5>1. e.id \in Nat /\ u.id \in Nat /\ e.id <= u.id
          BY <1>1, <2>1, <3>1
        <5> QED
          BY <5>1
      <4>3. Settled(V, u) /\ From(V, u.id + 1) = {}
        BY <4>2 DEF Settled, From
      <4>4. \A c \in Tracked : u.new_data[c] = ValueOf(live[o], c) /\ u.new_data[c] \in Cell
        <5>1. \A c : Was({}, live[o], c) = ValueOf(live[o], c)
          BY DEF Was, Naming
        <5>2. \A c \in Tracked : u.new_data[c] \in Cell
          BY <3>3, <4>1, SeenSnapshot DEF Entered
        <5> QED
          BY <3>3, <4>1, <4>3, <5>1, <5>2 DEF Restores
      <4>5. live[o] \in Row /\ live[o] # NoRow
        <5>1. PICK c \in Tracked : TRUE
          BY <4>1 DEF FullyPaired, Entered, Whole
        <5>2. ValueOf(live[o], c) \in Cell
          BY <4>4
        <5> QED
          BY <1>1, <5>2, NoValues, Assumed DEF AnyRow
      <4>6. LiveRow(live, o) = [c \in Tracked |-> u.new_data[c]]
        <5>1. LiveRow(live, o) = [c \in Tracked |-> live[o][c]]
          BY <4>5 DEF LiveRow, Filter
        <5>2. \A c \in Tracked : live[o][c] = u.new_data[c]
          BY <4>4, <4>5 DEF ValueOf
        <5> QED
          BY <5>1, <5>2
      <4>7. Seen(LiveRow(live, o)) = LiveRow(live, o)
        BY <1>1, LiveRowIs, SeenFiltered
      <4>8. Seen(u.new_data) = [c \in Tracked |-> u.new_data[c]]
        BY <3>3, <4>1, SeenAs DEF Entered
      <4> QED
        BY <2>2, <2>3, <3>1, <3>3, <4>1, <4>6, <4>7, <4>8 DEF R, S
    <3> QED
      BY <3>2, <3>3
  <2> QED
    BY <2>1, <2>4, <2>5 DEF Matched
<1>6. CASE Suffix(audit, o, at) = {} /\ V = {}
  <2>1. Suffix(Uncompacted, o, at) = {} /\ Of(Uncompacted, o) = {}
    BY <1>6, SameEnds
  <2>2. R = S
    BY <1>6, <2>1, RowCases
  <2> QED
    BY <2>2
<1> QED
  BY <1>4, <1>5, <1>6

(***************************************************************************)
(* Compaction loses nothing: in batches of any size, whatever is written   *)
(* meanwhile, and whatever bypassed the trigger before an object was       *)
(* checked, every past state of it is rebuilt as with all snapshots in     *)
(* place, until a write bypasses the trigger after the check.              *)
(***************************************************************************)
THEOREM CompactionLosesNothing ==
    ASSUME Distinguishable PROVE CompactionSpec => []CompactionLossless
<1>1. ClearInv => CompactionLossless
  <2> SUFFICES ASSUME ClearInv, NEW k \in kept, k.object_id \notin raced, NEW at \in 0..clock
               PROVE  Seen(ReconstructRow(audit, live, storage, k.object_id, at)) =
                          Seen(ReconstructRow(Uncompacted, live, storage, k.object_id, at))
    BY DEF CompactionLossless
  <2>1. k.object_id \in Obj \ raced
    BY KeptIds
  <2> QED
    BY <2>1, PastKept
<1> QED
  BY <1>1, ClearInvariant, PTL
==============================================================================
