---------------------------- MODULE TriggerManager ----------------------------
(***************************************************************************)
(* Concurrent deploys: TriggerManager of auditrum/tracking/manager.py      *)
(* installs and removes one audit trigger and keeps its checksum in the    *)
(* registry auditrum_applied_triggers, under a session-level advisory      *)
(* lock.  Each deploy uses its own connection, in autocommit mode or in a  *)
(* transaction it commits after the call.                                  *)
(*                                                                         *)
(* Locks are keyed by trigger name and the registry has one row per name,  *)
(* so one name is modelled.  A checksum identifies the body it is of.      *)
(***************************************************************************)
EXTENDS Integers

CONSTANTS
    Deploy,     \* deploys, each with a connection
    Body,       \* rendered trigger bodies
    None,       \* no trigger, no registry row, no lock holder
    Modes,      \* TRUE: connections in a transaction, FALSE: in autocommit mode
    MaxCalls    \* bound: calls ever made

ASSUME ManagerAssumption ==
    /\ None \notin Body \cup Deploy
    /\ Modes \subseteq BOOLEAN /\ Modes # {}
    /\ MaxCalls \in Nat

VARIABLES
    trigger,    \* the body of the committed trigger
    registry,   \* the body the committed registry row has the checksum of
    inTx,       \* inTx[d]: d works in a transaction
    pc,         \* pc[d]: the next step of d
    op,         \* op[d]: the call d is in
    target,     \* target[d]: the body it wants, None to remove the trigger
    wrote,      \* wrote[d]: what the open transaction of d changed
    error,      \* error[d]: the call of d raised
    lock,       \* session holding the advisory lock
    depth,      \* times it has acquired the lock
    calls,      \* calls made so far
    torn,       \* ghost: an autocommit deploy died between its two statements
    refused     \* ghost: sessions whose unlock was refused

vars == <<trigger, registry, inTx, pc, op, target, wrote, error, lock, depth,
          calls, torn, refused>>

Installs == {"install", "force", "sync"}    \* install(), install(force=True), sync()
Removals == {"uninstall", "prune"}          \* uninstall(), sync(prune=True)
Planned == {"sync", "prune"}                \* read the registry before locking

Init ==
    /\ trigger = None /\ registry = None
    /\ inTx \in [Deploy -> Modes]
    /\ pc = [d \in Deploy |-> "idle"]
    /\ op = [d \in Deploy |-> "install"]
    /\ target = [d \in Deploy |-> None]
    /\ wrote = [d \in Deploy |-> {}]
    /\ error = [d \in Deploy |-> FALSE]
    /\ lock = None /\ depth = 0
    /\ calls = 0
    /\ torn = FALSE /\ refused = {}

Goto(d, step) == pc' = [pc EXCEPT ![d] = step]

------------------------------------------------------------------------------
(* A call *)

Call(d, o, body) ==
    /\ pc[d] = "idle"
    /\ calls < MaxCalls
    /\ calls' = calls + 1
    /\ op' = [op EXCEPT ![d] = o]
    /\ target' = [target EXCEPT ![d] = IF o \in Removals THEN None ELSE body]
    /\ Goto(d, IF o \in Planned THEN "plan" ELSE "lock")
    /\ UNCHANGED <<trigger, registry, inTx, wrote, error, lock, depth, torn,
                   refused>>

(* sync() reads the whole registry once, without a lock, and skips what is *)
(* current.                                                                *)
Plan(d) ==
    /\ pc[d] = "plan"
    /\ Goto(d, IF registry = target[d] THEN "done" ELSE "lock")
    /\ UNCHANGED <<trigger, registry, inTx, op, target, wrote, error, lock, depth,
                   calls, torn, refused>>

AcquireIf(d, granted) ==
    /\ pc[d] = "lock"
    /\ granted
    /\ lock' = d /\ depth' = depth + 1
    /\ Goto(d, IF op[d] = "install" THEN "check" ELSE "ddl")
    /\ UNCHANGED <<trigger, registry, inTx, op, target, wrote, error, calls,
                   torn, refused>>

(* Mutation: _acquire_lock is not called. *)
AcquireAlways(d) == AcquireIf(d, TRUE)

(* pg_advisory_lock; a session may acquire it again. *)
Acquire(d) == AcquireIf(d, lock \in {None, d})

(* Mutation: an early return that skips the finally block. *)
CheckReturnsLocked(d) ==
    /\ pc[d] = "check"
    /\ Goto(d, IF registry = target[d] THEN "done" ELSE "ddl")
    /\ UNCHANGED <<trigger, registry, inTx, op, target, wrote, error, lock, depth,
                   calls, torn, refused>>

(* install(force=False) looks at the registry again under the lock. *)
Check(d) ==
    /\ pc[d] = "check"
    /\ Goto(d, IF registry = target[d] THEN "unlock" ELSE "ddl")
    /\ UNCHANGED <<trigger, registry, inTx, op, target, wrote, error, lock, depth,
                   calls, torn, refused>>

(* An open transaction holds the table and the function it changed. *)
Conflict(d) == \E e \in Deploy \ {d} : "trigger" \in wrote[e]

(* install_sql or uninstall_sql: one submission, so all of it or nothing. *)
Ddl(d) ==
    /\ pc[d] = "ddl" /\ ~ Conflict(d)
    /\ IF inTx[d]
       THEN /\ wrote' = [wrote EXCEPT ![d] = @ \cup {"trigger"}]
            /\ trigger' = trigger
       ELSE trigger' = target[d] /\ wrote' = wrote
    /\ Goto(d, "upsert")
    /\ UNCHANGED <<registry, inTx, op, target, error, lock, depth, calls, torn,
                   refused>>

DdlWaits(d) ==
    /\ pc[d] = "ddl" /\ Conflict(d)
    /\ Goto(d, "blocked")
    /\ UNCHANGED <<trigger, registry, inTx, op, target, wrote, error, lock, depth,
                   calls, torn, refused>>

(* _upsert_tracking or _delete_tracking *)
Upsert(d) ==
    /\ pc[d] = "upsert"
    /\ IF inTx[d]
       THEN /\ wrote' = [wrote EXCEPT ![d] = @ \cup {"registry"}]
            /\ registry' = registry
       ELSE registry' = target[d] /\ wrote' = wrote
    /\ Goto(d, "unlock")
    /\ UNCHANGED <<trigger, inTx, op, target, error, lock, depth, calls, torn,
                   refused>>

(* A statement of the call raises: lock or statement timeout, privileges.  *)
(* Only what comes after the acquisition is inside the try block.          *)
Fail(d) ==
    /\ pc[d] \in {"plan", "lock", "check", "ddl", "blocked", "upsert"}
    /\ error' = [error EXCEPT ![d] = TRUE]
    /\ torn' = (torn \/ (pc[d] = "upsert" /\ ~ inTx[d]))
    /\ Goto(d, IF pc[d] \in {"plan", "lock"} THEN "done" ELSE "unlock")
    /\ UNCHANGED <<trigger, registry, inTx, op, target, wrote, lock, depth, calls,
                   refused>>

Release ==
    /\ depth' = depth - 1
    /\ lock' = IF depth = 1 THEN None ELSE lock

(* finally: pg_advisory_unlock.  In a transaction that failed the server   *)
(* refuses the statement, and session locks survive a rollback.            *)
Unlock(d) ==
    /\ pc[d] = "unlock"
    /\ IF error[d] /\ inTx[d]
       THEN refused' = refused \cup {d} /\ UNCHANGED <<lock, depth>>
       ELSE refused' = refused /\ Release
    /\ Goto(d, "done")
    /\ UNCHANGED <<trigger, registry, inTx, op, target, wrote, error, calls,
                   torn>>

------------------------------------------------------------------------------
(* The end of the call and of its transaction *)

(* After a commit the function another session waited to replace is not    *)
(* the one it saw: CREATE OR REPLACE fails, DROP IF EXISTS goes on.        *)
WakeUp(d, committed) ==
    LET fails(e) == committed /\ target[e] # None
        woken == {e \in Deploy \ {d} : pc[e] = "blocked" /\ "trigger" \in wrote[d]}
    IN  /\ pc' = [e \in Deploy |->
                    IF e = d THEN "idle"
                    ELSE IF e \notin woken THEN pc[e]
                    ELSE IF fails(e) THEN "unlock" ELSE "ddl"]
        /\ error' = [e \in Deploy |->
                       IF e = d THEN FALSE ELSE error[e] \/ (e \in woken /\ fails(e))]

Commit(d) ==
    /\ pc[d] = "done" /\ ~ (error[d] /\ inTx[d])
    /\ trigger' = IF "trigger" \in wrote[d] THEN target[d] ELSE trigger
    /\ registry' = IF "registry" \in wrote[d] THEN target[d] ELSE registry
    /\ wrote' = [wrote EXCEPT ![d] = {}]
    /\ WakeUp(d, TRUE)
    /\ UNCHANGED <<inTx, op, target, lock, depth, calls, torn, refused>>

Rollback(d) ==
    /\ pc[d] = "done" /\ inTx[d]
    /\ wrote' = [wrote EXCEPT ![d] = {}]
    /\ WakeUp(d, FALSE)
    /\ UNCHANGED <<trigger, registry, inTx, op, target, lock, depth, calls,
                   torn, refused>>

(* The session ends, in the middle of a call or between calls. *)
Disconnect(d) ==
    /\ pc[d] # "idle" \/ lock = d
    /\ torn' = (torn \/ (pc[d] = "upsert" /\ ~ inTx[d]))
    /\ wrote' = [wrote EXCEPT ![d] = {}]
    /\ IF lock = d THEN lock' = None /\ depth' = 0 ELSE UNCHANGED <<lock, depth>>
    /\ refused' = refused \ {d}
    /\ WakeUp(d, FALSE)
    /\ UNCHANGED <<trigger, registry, inTx, op, target, calls>>

Step(d) ==
    \/ Plan(d) \/ Acquire(d) \/ Check(d) \/ Ddl(d) \/ DdlWaits(d) \/ Upsert(d)
    \/ Unlock(d) \/ Commit(d) \/ Rollback(d)

Next ==
    \E d \in Deploy :
        \/ Step(d) \/ Fail(d) \/ Disconnect(d)
        \/ \E o \in Installs \cup Removals, body \in Body : Call(d, o, body)

(* A deploy keeps going, and PostgreSQL grants a lock to its waiters in    *)
(* the order they came.                                                    *)
Fairness == \A d \in Deploy : WF_vars(Step(d)) /\ SF_vars(Acquire(d))

Spec == Init /\ [][Next]_vars
LiveSpec == Spec /\ Fairness

------------------------------------------------------------------------------
(* Properties *)

Steps == {"idle", "plan", "lock", "check", "ddl", "blocked", "upsert", "unlock",
          "done"}
Critical == {"check", "ddl", "blocked", "upsert", "unlock"}

(* Type invariant: only transactions hold uncommitted changes, and the     *)
(* steps of install() and uninstall() run by the session holding the lock. *)
TypeOK ==
    /\ {trigger, registry} \subseteq Body \cup {None}
    /\ inTx \in [Deploy -> Modes]
    /\ pc \in [Deploy -> Steps]
    /\ op \in [Deploy -> Installs \cup Removals]
    /\ target \in [Deploy -> Body \cup {None}]
    /\ wrote \in [Deploy -> SUBSET {"trigger", "registry"}]
    /\ error \in [Deploy -> BOOLEAN]
    /\ lock \in Deploy \cup {None}
    /\ depth \in Nat /\ (depth = 0 <=> lock = None)
    /\ calls \in 0..MaxCalls
    /\ torn \in BOOLEAN /\ refused \subseteq Deploy
    /\ \A d \in Deploy :
          /\ wrote[d] # {} => inTx[d] /\ pc[d] \in {"upsert", "unlock", "done"}
          /\ error[d] => pc[d] \in {"unlock", "done"}
          /\ pc[d] \in Critical => lock = d

(* Between the two statements of d in autocommit mode.                     *)
Halfway(d) == pc[d] = "upsert" /\ ~ inTx[d]

(* The registry is right about the trigger: whatever deploys, in           *)
(* autocommit or in transactions, interleave, commit, fail, roll back or   *)
(* lose their connection, the registry row and the trigger are of the same *)
(* body, except between the two statements of an autocommit deploy or      *)
(* after one died there.                                                   *)
Agreement ==
    \/ torn
    \/ \E d \in Deploy : Halfway(d)
    \/ trigger = registry

(* A session in no call holds no advisory lock.                            *)
NoLockLeft == \A d \in Deploy : pc[d] = "idle" => lock # d

(* A deploy waiting for the advisory lock gets it, unless the server has   *)
(* refused the unlock of some session.                                     *)
LockProgress ==
    \A d \in Deploy : pc[d] = "lock" ~> (pc[d] # "lock" \/ refused # {})

------------------------------------------------------------------------------
(* The inductive invariant behind Agreement *)

(* A transaction that can still commit has written both or neither.        *)
WritesBoth ==
    \A d \in Deploy :
        /\ "registry" \in wrote[d] => "trigger" \in wrote[d]
        /\ "trigger" \in wrote[d] /\ pc[d] # "upsert" /\ ~ error[d] =>
              "registry" \in wrote[d]
        /\ pc[d] = "upsert" /\ inTx[d] => "trigger" \in wrote[d]

(* Halfway means that the trigger is the one the registry is about to      *)
(* name, and that no transaction is going to replace it by committing.     *)
HalfwayOwnsTrigger ==
    \A d \in Deploy : Halfway(d) =>
        /\ trigger = target[d]
        /\ \A e \in Deploy : "trigger" \notin wrote[e]

DeployInv == WritesBoth /\ HalfwayOwnsTrigger /\ Agreement
==============================================================================
