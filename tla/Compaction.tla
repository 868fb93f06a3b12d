------------------------------ MODULE Compaction ------------------------------
(***************************************************************************)
(* compact_snapshots: a job that clears old_data and new_data of the       *)
(* events of a table now in diff storage, a batch of objects at a time,    *)
(* while the application keeps writing.  Each statement of the job sees    *)
(* what is committed when it runs, and each batch commits on its own.      *)
(***************************************************************************)
EXTENDS DiffChain

CONSTANTS
    BatchSize,      \* objects per batch
    HashedFrom,     \* first ids the hash chain may cover, past MaxEvents for none
    MaxJobs         \* bound: runs of the command

ASSUME CompactionAssumption ==
    /\ BatchSize \in Nat \ {0} /\ MaxJobs \in Nat
    /\ HashedFrom \subseteq Nat \ {0}
    /\ Obj \subseteq Nat \ {0}      \* object ids are ordered
    /\ IsFiniteSet(Obj)

VARIABLES
    pc,         \* the next statement of the job
    before,     \* --older-than: clear only events with changed_at < before
    after,      \* the last object id of the batches so far, 0 at first
    batch,      \* object ids of the current batch
    excluded,   \* objects kept because of a finding
    seesHash,   \* the audit log had a row_hash column when the job started
    hashFrom,   \* the hash chain is enabled before this id is drawn, or never
    kept,       \* ghost: the events as they were before they were cleared
    upTo,       \* ghost: idSeq when the job started
    jobs,       \* ghost: jobs started
    raced       \* ghost: objects bypassed after the check that let them be cleared

jobVars == <<pc, before, after, batch, excluded, seesHash>>
jobGhosts == <<kept, upTo, jobs, raced>>
compactionVars == <<chainVars, jobVars, jobGhosts, hashFrom>>

FullyPaired(e) ==
    /\ e.operation = "UPDATE" \/ DOMAIN e.diff # {}
    /\ \A c \in DOMAIN e.diff : Paired(e.diff[c])

(* _ELIGIBLE, for the objects of a batch: a diff that is NULL, which is    *)
(* that of a 0.3 INSERT or DELETE, is not eligible, an empty one is.       *)
Eligible(e, limit) == HasSnapshot(e) /\ FullyPaired(e) /\ e.changed_at < limit

OnlyInSnapshot(e) == (Keys(Seen(e.old_data)) \cup Keys(Seen(e.new_data))) \ DOMAIN e.diff

(* Mutation: only UPDATE events are looked at. *)
SnapshotOnlyUpdates(A, o) ==
    \E e \in Of(A, o) : \E c \in OnlyInSnapshot(e) :
        e.operation = "UPDATE" /\ Get(e.old_data, c) # Get(e.new_data, c)

(* _snapshot_only_changes: a snapshot records what the diff does not. *)
SnapshotOnly(A, o) ==
    \E e \in Of(A, o) : \E c \in OnlyInSnapshot(e) :
        \/ e.operation = "UPDATE" /\ Get(e.old_data, c) # Get(e.new_data, c)
        \/ e.operation = "DELETE" /\ c \in Keys(e.old_data)

(* A table that is not in diff storage is refused. *)
Start(limit) ==
    /\ pc = "idle" /\ storage = "diff"
    /\ jobs < MaxJobs /\ jobs' = jobs + 1
    /\ pc' = "next" /\ before' = limit
    /\ seesHash' = (hashFrom <= idSeq + 1)
    /\ upTo' = idSeq
    /\ UNCHANGED <<chainVars, after, batch, excluded, hashFrom, kept, raced>>

Rest == {o \in Obj : o > after /\ Of(audit, o) # {}}

(* The lowest object ids past those of the last batch. *)
FirstOf(rest) == {o \in rest : Cardinality({p \in rest : p < o}) < BatchSize}

(* Mutation: the next batch starts past the id after the last one. *)
NextBatchSkipping ==
    /\ pc = "next" /\ Rest # {}
    /\ batch' = FirstOf(Rest)
    /\ after' = 1 + CHOOSE o \in batch' : \A p \in batch' : p <= o
    /\ excluded' = excluded \cup (batch' \cap Named(Verify(audit, live, "snapshots", 0)))
    /\ pc' = "compare"
    /\ UNCHANGED <<chainVars, before, seesHash, hashFrom, jobGhosts>>

(* List a batch, then verify it.  No event is ever deleted here, so that   *)
(* what is listed is still so when it is verified.                         *)
NextBatch ==
    /\ pc = "next" /\ Rest # {}
    /\ batch' = FirstOf(Rest)
    /\ after' = CHOOSE o \in batch' : \A p \in batch' : p <= o
    /\ excluded' = excluded \cup (batch' \cap Named(Verify(audit, live, "snapshots", 0)))
    /\ pc' = "compare"
    /\ UNCHANGED <<chainVars, before, seesHash, hashFrom, jobGhosts>>

CompareBatch ==
    /\ pc = "compare"
    /\ excluded' = excluded \cup {o \in batch : SnapshotOnly(audit, o)}
    /\ pc' = "clear"
    /\ UNCHANGED <<chainVars, before, after, batch, seesHash, hashFrom, jobGhosts>>

(* One UPDATE.  Whether there is a row_hash to look at was decided when    *)
(* the job started.                                                        *)
ClearBatch ==
    LET cleared == {e \in audit : /\ e.object_id \in batch \ excluded
                                  /\ Eligible(e, before)
                                  /\ seesHash => e.id < hashFrom}
    IN  /\ pc = "clear"
        /\ audit' = Cleared(audit, cleared)
        /\ kept' = kept \cup cleared
        /\ pc' = "next" /\ batch' = {}
        /\ UNCHANGED <<live, unused, storage, idSeq, clock, cutoff, past, release, ghosts,
                       before, after, excluded, seesHash, hashFrom, upTo, jobs, raced>>

Reset ==
    /\ pc' = "idle" /\ before' = 0 /\ after' = 0 /\ batch' = {} /\ excluded' = {}
    /\ seesHash' = FALSE /\ upTo' = 0
    /\ UNCHANGED <<chainVars, hashFrom, kept, jobs, raced>>

EndJob == pc = "next" /\ Rest = {} /\ Reset

(* A statement fails or the process dies: the batches that were cleared    *)
(* stay so, and the command goes on with the next table.                   *)
Interrupt == pc # "idle" /\ Reset

(* The application meanwhile. *)
Application ==
    /\ ChainNext
    /\ raced' = raced \cup {o \in Obj :
          /\ bypassed'[o] # bypassed[o]
          /\ \/ \E e \in kept : e.object_id = o
             \/ o \in batch}
    /\ UNCHANGED <<jobVars, hashFrom, kept, upTo, jobs>>

CompactionInit ==
    /\ ChainInit
    /\ pc = "idle" /\ before = 0 /\ after = 0 /\ batch = {} /\ excluded = {}
    /\ seesHash = FALSE /\ hashFrom \in HashedFrom
    /\ kept = {} /\ upTo = 0 /\ jobs = 0 /\ raced = {}

CompactionNext ==
    \/ Application
    \/ \E limit \in 2..Always : Start(limit)
    \/ NextBatch \/ CompareBatch \/ ClearBatch \/ EndJob \/ Interrupt

CompactionSpec == CompactionInit /\ [][CompactionNext]_compactionVars

------------------------------------------------------------------------------
(* Properties *)

Uncompacted == {e \in audit : \A f \in kept : f.id # e.id} \cup kept

(* Compaction loses nothing: whatever was written and bypassed before the  *)
(* check of an object, every past state of it is rebuilt as it would be    *)
(* with all snapshots in place, unless a write bypasses the trigger after  *)
(* the check, when diffs are all that is left of the past.                 *)
CompactionLossless ==
    \A o \in {e.object_id : e \in kept} \ raced, at \in 0..clock :
        Seen(ReconstructRow(audit, live, storage, o, at)) =
            Seen(ReconstructRow(Uncompacted, live, storage, o, at))

(* A job that ends has cleared every event that was eligible when it       *)
(* started, of every object but those it reports as excluded, whatever     *)
(* objects came or went between its batches.                               *)
CompactionComplete ==
    [][EndJob => \A e \in audit :
          e.id <= upTo /\ Eligible(e, before) => e.object_id \in excluded \/ e.id >= hashFrom
      ]_compactionVars
==============================================================================
