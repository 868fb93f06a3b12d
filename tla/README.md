# auditrum in TLA+

A verification development of auditrum: an audit log for PostgreSQL tables,
written by triggers, with a tamper-evidence chain, time travel, retention and
a manager that installs the triggers. Paths below are relative to `src/`.

## The system

| part | code | state it keeps | operations |
|---|---|---|---|
| audit trigger, event log | `auditrum/tracking/templates/audit_trigger.sql`, `tracking/spec.py`, `schema.py` | rows of `auditlog`, the serial `id` | one event per changed row: operation, paired diff, snapshots (full storage) or none (diff storage) |
| hash chain | `auditrum/hash_chain.py` | `chain_seq`, `prev_hash`, `row_hash`, the sequence, an advisory lock, a tip stored elsewhere | chain trigger, `get_chain_tip`, `verify_chain` |
| time travel | `templates/audit_reconstruct_{helpers,row,table}.sql`, `timetravel.py`, `blame.py` | none: reads events, live rows and the registry | `_audit_reconstruct_row`, `_audit_reconstruct_table` |
| retention, partitions | `retention.py`, `schema.py` | which events and partitions exist | purge, `drop_old_partitions`, month partitions |
| trigger manager | `tracking/manager.py` | installed triggers, `auditrum_applied_triggers`, a session lock per trigger name | `install`, `uninstall`, `sync`, `diff`, `inspect`, `bootstrap` |
| readers | `blame.py`, `timetravel.py`, `revert.py` | none | `fetch_blame`, `reconstruct_field_history`, the revert UPDATE |
| diff chain, compaction | `diff_chain.py`, `compaction.py` | snapshots of old events | verify the diffs against each other and the live row; clear verified snapshots |
| runtime context | `integrations/django/runtime.py`, `middleware.py`, `tasks.py`, `audit_attach_context.sql` | a `ContextVar` stack, transaction-local settings, context rows | enter, exit, nest, update, inject before a statement, attach in the trigger |
| framework-neutral context | `context.py`, `executor.py` | metadata and a stack of reasons per task, variables `session.myapp_*` of the transaction | `set`, `push_change_reason`, `use`, `use_change_reason` |
| Django migrations | `integrations/django/operations.py`, `autodetector.py` | the `@track` registry, migration files | track, `auditrum_makemigrations`, the check W001, operations forwards and backwards |
| the rest | CLI, admin, models, hardening grants, observability, SQLAlchemy | little or none | wiring, formatting, single statements |

How they meet: a write to a tracked table fires the audit trigger in the same
transaction; its INSERT fires the chain trigger, which takes one advisory lock
per log and holds it to the end of the transaction. Both see the snapshot rules
of the calling transaction. Time travel reads what the audit trigger wrote, the
live rows and the registry the manager keeps. Purge and compaction change events
after the fact. The runtime context reaches the trigger through settings of
the transaction.

What is hard, per part, and what makes the part correct:

- *hash chain*: concurrent inserts, ids drawn outside the lock, savepoints that
  release the lock, isolation levels, settings of sessions. Correct: an untouched
  log always verifies, a damaged one never does, and the committed chain only
  grows at its end.
- *time travel*: `changed_at` is the transaction's start while `id` is the write
  order; storage modes change under way; events disappear. Correct: the state
  rebuilt for an instant is the one that was committed then.
- *trigger manager*: two sessions, autocommit or transactions, failures and lost
  connections between lock, DDL, upsert and unlock. Correct: the registry
  describes the trigger that is there, and nobody waits for a lock no one uses.
- *readers (blame, field history, revert)*: each decides per event whether snapshot or
  diff holds a value. Correct: they tell the same story as time travel.
- *diff chain verification*: events of several releases and storage modes, windows,
  a shortcut over runs of snapshots. Correct: it names the objects that were
  written behind the trigger's back, and no others.
- *compaction*: statements in autocommit beside a writing application; interrupted
  jobs. Correct: no past state is lost and nothing eligible is forgotten.
- *partitions*: months created ahead of time, a default partition that swallows the
  rest. Correct: what is left after retention is exact.
- *runtime context*: nesting, objects shared by calls, tasks that inherit a context,
  settings that live as long as a transaction. Correct: an event never gets the context
  of another task or of an earlier transaction, and leaving restores.
- *framework-neutral context*: blocks, savepoints and transactions that nest in any order,
  entries that fail. Correct: the variables of the transaction say what the open blocks say.
- *migrations*: files in several apps, databases at different points, models that
  move. Correct: a database whose migrations are applied has the declared triggers.

PROJECT.json lists every hazard at its line with the properties that cover it.

## Modules

| module | models |
|---|---|
| `AppendOnlyLog` | the promise of the chain: committed entries form one line and are only appended after the last |
| `HashChain` | chain trigger, tip and verification under concurrent transactions; purge and tampering |
| `HashChainProofs` | theorems about `HashChain` |
| `AuditLog` | tracked table, audit trigger, storage modes, purge, time travel |
| `AuditReaders` | extends `AuditLog` by blame, field history and revert |
| `AuditLogProofs` | theorems about `AuditLog` and `AuditReaders`, lemmas about `DiffChain`: what the trigger of each release writes, what the query finds |
| `DiffChain` | extends `AuditLog` by old releases, bypass writes and `verify_diff_chain` |
| `Retention` | extends `DiffChain` by purge, month partitions and `drop_old_partitions` |
| `RetentionProofs` | theorems about `DiffChain` and `Retention` |
| `Compaction` | extends `DiffChain` by `compact_snapshots` |
| `CompactionProofs` | theorems about `Compaction` |
| `RuntimeContext` | Django runtime context, decorators, Celery signals, settings of a transaction, context rows |
| `RuntimeContextProofs` | theorems about `RuntimeContext` |
| `AuditContext` | the class `AuditContext` of `context.py` and its variables of a transaction |
| `AuditContextProofs` | theorems about `AuditContext` |
| `Migrations` | registry, migration files and databases |
| `TriggerManager` | deploys that install and remove one trigger |
| `TriggerManagerProofs` | theorems about `TriggerManager` |
| `NumberSets` | lemmas: sets of numbers have a least, finite ones a greatest element |
| `MC*` | instances for TLC: symmetry sets and views; `MCContexts` of both contexts |

Operators whose comment begins with *Mutation* are deliberately wrong variants of
the definition that follows them. Nothing uses them; replacing the definition by
its variant must break the property PROJECT.json names, which shows that the
property depends on the code.

### HashChain

`log` holds the committed rows and `pending[t]` those of an open transaction;
`Visible(t)` is what a query inside the trigger of `t` sees: under READ COMMITTED
everything committed and its own rows, under REPEATABLE READ the snapshot its
first statement took. `Insert` draws the serial id (the default is evaluated
before BEFORE triggers) and waits; `Chain` is the trigger: lock, `nextval`, look
up, hash, all before the row is written. Nothing of another session can come
between its statements that matters: the lookup runs with the lock held and only
lock holders add chained rows. `RollbackTo` undoes rows and a lock taken after the
savepoint, but no sequence. SHA-256 is taken to be injective, so a digest is its
payload; `changed_at` enters the payload rendered in the session's zone, because
`jsonb_build_object` does that. `CaptureTip` is `get_chain_tip`, `VerifyChain` is
`verify_chain` over a committed snapshot. Rows hashed before `chain_seq` existed
(`chain_seq IS NULL`) are left out; rows without a hash, from before the chain was
enabled, are in (`Unchained`).

### AuditLog

`live` and `dirty[t]` are committed rows and the versions of rows a transaction
has locked by writing them; `Write` is a row write with its audit trigger. A column
may be NULL; the diff of an INSERT or a DELETE names it all the same (`Shown`), with
null on both sides, that of an UPDATE only if it changed.
Writers use READ COMMITTED. `storage` stands for the installed trigger and its
registry row: `install()` writes both under locks (module TriggerManager says
when that can fail). A past instant is *calm* when no transaction was open when
it ended; `past` records what was committed at every instant. `log_condition` is
the constant `Skipped`, allowed without diff storage only, as `TrackSpec` requires;
the runs leave it empty, since skipped writes leave gaps by design.
The primary key does not change and other triggers on the table are left out: an
AFTER trigger that sorts before `audit_` and updates the row again makes `id`
something else than the write order.

### AuditReaders

`RowBefore` and `RowAfter` are what the Python readers take for the row before and
after an event: the snapshot, or one side of the diff. A history is a set of
entries that carry the event's id, since the queries order by it. `Revert` composes
the UPDATE from one event and runs it on one record as any other write, under the row lock and
through the trigger; the transactions of `AuditLog` go on beside it. Record and
event are independent, as in the code, which compares the two nowhere: with the id of an event of another
record `auditrum revert` gives this one values it never had. `RevertUndoes` says what reverting
an event of the record does.
`HistoryAgreesWithTravel` compares entries with time travel at the
instant of the event, for events that are the last of theirs.

### DiffChain

A deployment starts on release 0.3 and is upgraded: `Upgrade` replaces trigger and
`jsonb_diff`. `LegacyEvent` is what older triggers wrote, read off the changelog, the docstring of
`jsonb_diff` and the cases the verifier's guards provide for: release 0.3 wrote a diff for
UPDATE only, with the new values alone and without the columns set to NULL; before 0.6.2
snapshots were wider than the filter. `Audited` is one committed write; its event may carry an earlier
instant, as that of a long transaction does. `Bypass` changes a row without an event.

The verification query is translated body by body: a key/value row of the SQL is
a column of an event, `LAG` is `PreviousNew`, the two bodies share the findings
(`Chain`, `Lifecycle`, `AtTheEnd`, `Live`), DISTINCT ON is `First`. The ghosts say
independently of the query what should be found: `claimed` is what the
log says each column is, `breaks` the writes that started from another
row. `VerifyExact` compares the two for every window; `UntouchedClean`
and `CleanMeansExact` relate the verifier to the writes and to time travel.
What 0.3 left out of its diffs (`Unsaid`) is named by the diff body although nobody bypassed
the trigger, as `docs/diff-chain.md` says; the snapshot body does not name it.
An object bypassed twice may be hidden (the second write can restore what the first
one changed), hence `bypassed[o] <= 1` there. One that predates tracking may be removed
past the trigger without a trace when its log begins with a later INSERT, hence
`NewToTable(o)`: with `Predating = {o1}` TLC finds that in three steps when the premise
is dropped, and nothing with it.

### Retention

An instant of `AuditLog` is a month. An event is in the partition of the month its
transaction began in or, without one, in the default partition. `Purge` and
`DropOldPartitions` are the two modes of `auditrum purge`. `CalmCutoff`
is the condition under which what remains is exact: no event from before the cutoff
is left and no transaction was open across it.

### Compaction

`pc` is the next statement of the job; each statement reads what is
committed when it runs. Listing and verifying a batch are one step: nothing deletes
events here and the objects of a batch stay listed. `Interrupt` is an
error or the end of the process at any point. `kept` remembers
the events as they were before they were cleared, so `CompactionLossless` can ask what would be
rebuilt with the snapshots in place. `raced` holds the objects bypassed
after the check that cleared them: after it diffs are all that is left.
`hashFrom` is the id from which the hash chain covers rows.

### RuntimeContext

A task is a thread or an async task with its own copy of the context variables
and its own connection. `blocks[t]` is the stack of its open blocks, each with the
token of the ContextVar it got; `token[d]` is the single token of an
`auditrum_context` object used as a decorator, `active` the registry of the Celery
signals. `Statement` is the execute wrapper, the statement and the trigger's
`_audit_attach_context`. `guc` is the settings local to the
transaction; `upserts` are uncommitted context rows. `Spawn` copies the variables
as `create_task` and `to_thread` do.

A behaviour has one `style`, because the state space of all together is out of
reach: blocks with the database; decorators and Celery signals with
blocks, without the database, which no block looks at.

`clashed` holds tasks that shared a decorator object or an active task id
while it was in use. The code restores nothing for these (see below) and
`ContextRestored` excepts them.

### AuditContext

One task with its connection. `data` and `stack` are the two context variables,
`session` the variables `session.myapp_*` of the transaction, `frames` the open blocks and savepoints with
what they put back. `Set` and `PushChangeReason` change what is said without telling the
transaction; so do the end of a block with `reset=False` and an entry that fails (`UseFails`,
`UseChangeReasonFails`), after which `loose` holds until the transaction ends. Outside
of a transaction a local setting ends with its own statement. Savepoints
restore the variables, never the context variables. No trigger of the current release reads `session.myapp_*`;
the variables are for triggers and functions of the application, and
the properties say what such a reader finds.

### Migrations

`files` are the migrations on disk in the order they were written, with what they depend
on; `Plan` is the order Django's graph gives, which `migrated_trigger_state`
replays. `MakeMigrations(upTo)` is a run that may die after any app.
A database applies and reverses migrations one by one, in any order the dependencies
allow. One trigger operation is atomic, TriggerManager has its
steps. A checksum is the release that renders the body; 0 is a
migration from before checksums.

`Ordered(n)` says that the dependencies order all migrations that name trigger `n`.
`OrderedNeverStale`, `OrderedSilence` and `OneRunSuffices` speak of these triggers; what W001 is
said to do speaks of all of them (`SilenceIsTrue`) and is violated, see below. No two models use the same
table or trigger name, ever.

### TriggerManager

One step of `pc[d]` per statement of `install` (forced and not), `uninstall`,
`sync` and its prune. A session works in autocommit mode or in a transaction that
ends after the call; there `wrote[d]` is uncommitted, and a session that needs the
same trigger or function waits in the DDL (`blocked`) until that transaction
ends. After a commit the waiter's CREATE OR REPLACE FUNCTION fails ("tuple
concurrently updated"), DROP ... IF EXISTS goes on. Any statement may fail and any
session may end. Transactions use READ COMMITTED. One trigger name: the lock and
the registry row are per name.

## Runs

| run | bounds | shows |
|---|---|---|
| HashChainWriters | 2 sessions, 4 rows, 3 transactions | `TypeOK`, `NoFalseAlarm`, the inductive invariant `ChainInv`, refinement `AppendsOnly` |
| HashChainTamper | 2 sessions, 3 rows, 3 transactions, purge, erase, rewrite | `TamperEvident`, `RewriteEvident` |
| HashChainZones | two zones | `NoFalseAlarm` is violated |
| HashChainSnapshot | REPEATABLE READ | `NoFork` is violated |
| AuditLogTravel | 1 row of 2 columns, a value and NULL, 2 transactions at a time, 3 events, 2 instants, both modes, reverts | `TimeTravelExact`, `NeverInvented`, `SnapshotsRedundant`, `IdIsWriteOrder`, `RowTableAgree`, `HistoryAgreesWithTravel`, `ReadersNeedNoSnapshots`, `RevertUndoes`, `TypeOK` |
| AuditLogPurge | 1 row of 2 columns (1 tracked before the upgrade), a value and NULL, 3 events, 2 months, 1 bypass, releases 0.3 and current, both modes, purge and partitions | `UntouchedClean`, `VerifyExact`, `CleanMeansExact`, `ShortcutSound`, `RetentionExact` |
| Compaction | 2 objects of 2 columns (1 tracked before the last upgrade), a value and NULL, releases 0.3, 0.6.1 and current, 2 events, batches of 1, 1 job, 1 bypass per object, hash chain from id 2 | `CompactionLossless`, `CompactionComplete` |
| TriggerManagerDeploys | 2 sessions, 2 bodies, 4 calls, autocommit and transactions | `TypeOK`, `Agreement`, `LockProgress` |
| TriggerManagerLeak | 2 sessions in transactions, 2 calls | `NoLockLeft` is violated |
| Contexts | 2 tasks, 1 decorator, 1 task id, 1 metadata key with 1 value, 2 contexts, 3 open blocks; or 1 variable with 2 texts, 1 reason pushed up to twice, 3 open blocks and savepoints | `ContextRestored`, `AttributionLocal`, `RootKept`, `TypeOK`; `NeverStale`, `Stamped`, `VariablesTypeOK` |
| Migrations | 1 model, 2 apps, 2 tables, 2 versions, 1 database, 2 releases, 6 files, 4 edits | `OrderedNeverStale`, `OrderedSilence`, `OneRunSuffices`, `TypeOK` |
| MigrationsSilence | as Migrations | `SilenceIsTrue` is violated |

Why the bounds are enough to be interesting: three chained rows give one with a
predecessor and a successor to delete, and a fourth lets a rolled-back one leave a
gap; two sessions suffice for every lock conflict. Three events over two instants let a transaction that began
earlier write after one that began later, with a third event of the other storage
mode. Two columns let events overlap on one and differ on the other; a value and NULL are two
contents of a cell, so that every UPDATE changes a column to or from NULL. Four calls let one session come back
while the other is still in its first call.

Three events on one object give the verifier a first, a middle and a last one, which
is what its shortcut, its windows and the comparison with the live row tell
apart; each may be of another release and storage mode, and the objects of a log
do not meet in the query. Compaction needs two objects for two batches; two events suffice for one in each
object or both in one. No row is there before tracking starts: the bypass write that
each object is allowed can put one there that the log does not know of. Two tasks with three blocks give
a block nested in one that spawned or shares something with another task. In `AuditContext` three blocks
are a block in a savepoint in a block, and two texts let a stale one differ from a current one. Six files and four edits
let a model be tracked, moved or renamed and tracked again, with the runs of
`auditrum_makemigrations` in between.

Every module is finite only through `MaxId`, `MaxClock`, `MaxEvents`, `MaxCalls`,
`MaxBypass`, `MaxJobs`, `MaxCtx`, `MaxBlocks`, `MaxFrames`, `MaxReasons`, `MaxRelease`, `MaxFiles` and `MaxEdits`,
which occur in guards of actions that the environment starts; therefore a model
stops when they are used up and deadlock is not checked.

Symmetry is used for runs that check invariants, and in Compaction and
Contexts beside action properties too, which relate two successive states and
permute with them. It is not used for liveness. The views drop what cannot be told
apart: `JobView` the ghosts that neither a property nor a guard of that run
reads; `LaterView` the tables recorded in the first instant, since every instant
asked about is the first or later and is compared with tables recorded after it;
`AskedView` the variables of a transaction that has failed or that was not told of a
change, whose properties ask nothing before it ends or is rolled back to a savepoint;
`CalmView` the ghosts that follow from the rest of the state as long as nothing was
purged and are not read afterwards, and the partition of the last month, which no
step can drop any more.

### What the violations say

- *HashChainZones*: the canonical payload depends on the session's TimeZone. One
  zone for writers and verifier is an assumption of `VerifyIsSound`.
- *HashChainSnapshot*: the lock serialises inserts, but a REPEATABLE READ
  transaction still looks up its predecessor in an old snapshot. READ COMMITTED
  is an assumption of the theorems.
- *MigrationsSilence*: when a tracked model moves to another app, its uninstall goes to
  the app that installed the trigger and its next install to the new app, with
  no dependency between them. A database that migrates the new app first ends without
  a trigger, and neither `migrated_trigger_state` nor W001, which reads it, knows.
- *TriggerManagerLeak*: the session lock outlives a failed transaction. It is why
  `LockProgress` has to except the states where an unlock was refused (`refused`).

Purge and the chain do not go together either: what is left after a purge does not
verify, since its first row has a predecessor that is gone. To `verify_chain` a
purge is damage (`Purge` is a step of `TamperSpec`), and `docs/hardening.md`
schedules both daily.

### What the properties except

Where a property excepts states, it is because the code does not keep it there:

- `clashed` (ContextRestored, AttributionLocal): an `auditrum_context` object used as a
  decorator keeps one `_token` (`runtime.py` 378-382). A recursive or concurrent
  call overwrites it; the outer exit then resets nothing, or another task's token raises
  ValueError, and the context stays, although the docstring of the class offers it as a decorator and says that
  the outer context is restored verbatim. A Celery task id redelivered to a process where it still
  runs gets no context of its own, and the first postrun closes
  the one both use (`tasks.py` 121).
- `loose` (NeverStale, Stamped): `set()`, `push_change_reason()`, blocks with `reset=False` and entries that
  fail change what is said and not the variables, for the rest of the transaction. What a failed entry
  said stays in the task, and later blocks apply it (`context.py` 148).
- `emptied` (Stamped): a `use` block has ended and emptied the variables of the outer blocks (`context.py` 160), a change
  reason included, although `with_change_reason` says that it stamps every event;
  `NeverStale` therefore says "empty or current".
- statements after a block in its transaction keep its context, as the settings are
  local to the transaction: `AttributionLocal` accepts a context of the same transaction (`inside`).
- statements that start with an ignored word ("with ...") get no context injected,
  therefore `AttributionLocal` says "never a wrong one", not "always one".
- `Ordered` (OrderedNeverStale, OrderedSilence, OneRunSuffices): triggers whose migrations no dependency orders
  (MigrationsSilence). For them `auditrum_makemigrations` may also write the same
  change again and again.
- an update that is reversed drops the trigger, as `docs/django.md` says, so
  `OrderedNeverStale` says nothing of a missing one.
- `Unsaid` (UntouchedClean): changes release 0.3 left out of its diffs, for the diff body.
- `torn` (Agreement): an autocommit deploy that died between DDL and upsert. A later `install()` repairs
  what it sees, not a torn uninstall or an update taken back to the registered body.
- `CalmCutoff`: the default partition is never dropped (`retention.py` 117). When an
  old month is in it and a later one is dropped, the log has a hole: the
  verifier reports breaks nobody caused, and full-mode time travel returns the
  older row.
- `raced` (CompactionLossless): a bypass write between the check of a batch and its UPDATE.

Steps of the models whose effect no run asks about:

- rows hashed after a compaction job has begun lose their snapshots (`compaction.py` 237): the `row_hash` column is
  looked up once per job. The docstring says that rows of the hash chain are never touched.
- the context row keeps the metadata of the last statement (`Attach`): tasks that
  inherited one context overwrite each other's keys there, although the context objects are immutable.
  `RootKept` says what remains, the keys of the outermost block.
- purge deletes the last event of a row that has not changed since; in full
  storage, where a row is known by its events only, it is then rebuilt as absent
  inside the retained window. `RetentionExact` states what does hold: in diff storage, after a
  calm cutoff, for objects without bypass writes.

Seen while modelling and not in a model: reversing an auditrum migration after
the tracked table was renamed fails, as the old name is gone; an explicit
`trigger_name` that moves to another table leaves the old trigger, and
`_upsert_tracking` does not update `table_name` (`manager.py` 267-270);
`bootstrap()` tolerates a concurrent CREATE TABLE only in autocommit mode, as in a
transaction the check after the error is refused.

### Fairness

Only `TriggerManager!LiveSpec` assumes any: weak fairness of a session's steps (a
deploy script goes on, a transaction ends) and strong fairness of `Acquire`, since
PostgreSQL grants a lock to its waiters in the order they came. Calls,
failures and disconnections are not fair.

## Proofs

`HashChainProofs`, for every number of sessions, rows and transactions:

- `TypeCorrect`: `Spec => []TypeOK`.
- `ChainInvariant`: `Spec => []ChainInv` under READ COMMITTED. `NoFalseAlarm` is not
  inductive: it says nothing of uncommitted rows, which a commit adds. `ChainInv`
  adds that uncommitted chained rows exist only in the transaction holding the
  lock, that a savepoint with such rows remembers the lock, that they follow the
  committed rows, that every row is linked to the newest before it (committed
  or its own transaction's), that ids are unique, those of waiting INSERTs included, and
  that a captured tip stays. There is one lemma per action (`ChainKeeps`,
  `RollbackToKeeps`, `CommitKeeps`, ...).
- `VerifyIsSound`: `Spec => []NoFalseAlarm` under READ COMMITTED and one zone, from
  `ChainInv`: a linked row has the digest the verifier computes.
- `ImplementsAppendOnlyLog`: `Spec => AppendsOnly` under READ COMMITTED; the
  mapping keeps `chain_seq`, `prev_hash` and `row_hash` of the committed
  chained rows, a commit is `Append` or a stutter, every other step a stutter.

- `RewritesAreFound`, `DamageIsFound`: `RewriteEvident` and `TamperEvident` of
  `TamperSpec` (purge, deletes and rewrites included), under READ COMMITTED; under
  REPEATABLE READ two rows may share a predecessor, and removing one of them does not show. The
  invariant `TamperInv` does not follow hashes back: the first row after a
  damaged place was hashed over that place or over a later one (`DamageShows`, `Follows`), and what
  it was hashed over is gone or changed. `Sealed`: digests are of contents the
  application wrote, so that a rewritten row never matches its own.

`TriggerManagerProofs`, for every number of sessions, bodies and calls:

- `TypeCorrect`: `Spec => []TypeOK`. `TypeOK` holds the discipline of the lock, without
  which it is not inductive: a session between acquire and release is the
  holder, and a transaction with uncommitted changes is past its DDL.
- `RegistryAgrees`: `Spec => []Agreement`. `Agreement` speaks of committed bodies only,
  so it is not inductive. `DeployInv` adds `WritesBoth` (a transaction that wrote one of
  the trigger and the registry and can still commit has written both, or
  has its upsert ahead) and `HalfwayOwnsTrigger` (while an
  autocommit deploy is between its statements, the committed trigger is the body
  it will register, and no open transaction has a trigger change to commit).
  Commits need the first, the autocommit upsert the second.

`AuditLogProofs`, for every number of rows, columns, values, transactions and events:

- `TypeCorrect`: `Spec => []TypeOK`, with the columns each operation's diff names.
- `LogInvariant`, from which `TimeTravelIsExact`, `NothingInvented`, `IdsInWriteOrder` and
  `SnapshotsAreRedundant` follow. None of these properties is inductive: they speak of committed
  events, and a commit adds those of a transaction. `Was(U, row, c)` is the value
  of column `c` before the events `U` of a row that is now `row`: the old side of the first that
  names it, else what the row has. `Explained` says that the log of every row, as
  the readers and as each transaction sees it, is such an explanation; `CalmKept`, that undoing the
  events after a calm instant yields the row of that instant; `NeverNew`, that undoing
  those after any instant yields a row committed then or later; `Locked`, that no two
  transactions have written the same row. Under a `log_condition` (`Skipped # {}`)
  changes are missing from the log by design, so these theorems assume there is none,
  and, where rows are rebuilt, that the field filter lets a column through.
- `RowAndTableAgree`: holds for every log the trigger can write, gaps included.

- `ReadersAreWriters`: a revert is a `Write`, so that everything proved
  of `Spec` holds of `ReadersSpec` (`ReadersKeepTheLog`). `HistoryIsTravel` and
  `RevertRestores` (no `log_condition`) and `ReadersReadDiffs` follow from `LogInvariant`.

`RetentionProofs` (with the lemmas about `DiffChain` in `AuditLogProofs`), for every number of objects, columns, releases, bypass writes, months and events:

- `VerifyIsExact`: `VerifyExact`. `ClaimsKept` reads the ghosts off the log: `claimed` is what the
  last event naming a column says, `breaks` are the events that contradict the ones before.
  Then the query's findings are the same sets: `LAG` is the last event before that
  contributes the column.
- `ShortcutIsSound`: `ShortcutSound`. An event the shortcut skips repeats, outside its diff,
  what the event before it says, so the neighbours see the same values without it.
- `UntouchedStaysClean`, `RetainedIsExact`, `CleanCanBeTrusted`: `UntouchedClean`, `RetentionExact`,
  `CleanMeansExact`. The events of an object since a calm instant are a `Window` from the row of
  that instant to the live row: operations alternate, each event continues the last one that
  told of the column, snapshots and both ends fit. It is what an audited write
  of any release preserves (`WindowAppend`), what makes the verifier silent (`WindowClean`) and
  time travel exact (`RebuiltFromWindow`). A bypass write breaks it and is then
  `Flagged`, which audited writes cannot undo (`FlaggedAppend`). These three assume `Distinguishable`: with release 0.3
  in the log, no column value is itself an object with exactly the keys `old` and
  `new`. Such a value is taken for a pair by `chain_guard` and the readers alike, and
  nothing in the log tells them apart.

`CompactionProofs`, for every number of objects, events, releases, jobs and batch sizes:

- `JobsAreComplete` (`CompactionComplete`) from `JobInv`:
  every event the job had to clear and has not is of an object after its last batch, or in the
  batch. Keyset paging over a set that changes is what this is about.
- `CompactionLosesNothing`: `CompactionLossless`. It speaks of what is cleared already; what
  makes it true is what the job found out two statements before it clears, so it is not
  inductive. `ClearInv` says of every cleared event, and from the check of a batch on of
  every event about to be cleared, that it `Restores`: its old
  snapshot holds, column by column, what undoing the events from it on leads to, and
  its new snapshot what undoing the later ones leads to, if these can be undone.
  The check is sound (`CheckedRestores`): if `verify_diff_chain` does not name the object and
  `_snapshot_only_changes` does not either, walking back from the live row each event says that
  a column was what the one before it says it became (`SaidIsWas`, on the greatest id that would
  contradict this). For that the shortcut of the query must hide nothing (`ShortcutChangesNothing`),
  and a column that only snapshots tell of must not have changed in them.
  A write of the current release keeps what `Restores` (`RestoresAppend`); diff storage, and so a job,
  takes that release (`Modern`), and an event that is undone holds pairs because the releases come in order
  (`Aged`). Clearing an event leaves the diffs by which another is restored (`RestoresAlike`).
  `raced` is needed: a write past the trigger changes the live row the diffs are undone from. The theorem
  assumes `Distinguishable`, as above. `ClearInv` was model-checked before it was proved, exhaustively
  with one object, three events and two jobs and by simulation with more.

`RuntimeContextProofs`, for every number of tasks, decorators, task ids, contexts and blocks:
`TypeCorrect`, `BlocksRestore` (`ContextRestored`), `AttributedLocally` (`AttributionLocal`) and `RootIsKept`,
from `RuntimeInv`. Its main part, `OwnershipInv`,
says of a task outside `clashed` that its outermost block returns it to the context it
was spawned with; that a decorator object or task id of one of its blocks is used by that
block alone, so that the token kept there is the block's own; and that the
settings of its transaction were set inside the context they name.

`AuditContextProofs`, for every number of keys, values, reasons, blocks and savepoints: `VariablesTyped` (`TypeOK`),
`VariablesNeverStale` (`NeverStale`) and `BlocksStamp` (`Stamped`), from `VariablesInv`. Neither
property is inductive: what a rollback to a savepoint brings back was said when the savepoint
began. `SaveOk` says of every savepoint that its variables agree with what will be
said when it is on top again, which the next block above it remembers (`Was`); `Inner`, that a
variable that differs from what was said outside of a `use` block was applied by
it and goes with it; `CoverOk`, that a savepoint in a block has what the block applied.

They rest on the assumptions named in the modules and, for the chain, on an injective digest.
Proving changed the models. `CleanMeansExact` lacked `NewToTable`. `CASE`
arms that overlapped in `ReconstructRow` and `PreviousNew`, where the
first was meant, exclude each other now. And the assumptions
on the constants name what the proofs needed: `NoRow` and `Error` are no values, JSON null
is no column value, `NoToken` is no token, the objects of a table are finitely many.

Model-checked only: `Migrations`, whose plan is a recursive function of the dependencies and whose states are
folds over sequences of operations, so that `OrderedNeverStale`, `OrderedSilence`, `OneRunSuffices` and the
shape of databases in `TypeOK` need induction over data; and `LockProgress`, as liveness
under fairness is out of the prover's reach.

## Plan

Done: the modules above with their proofs. Next:

1. Several trigger names in one sync, and the first `bootstrap`.
2. The transactions of `AuditLog` in `Compaction`: a writer that began before a batch was
   checked and commits after it was cleared.

## Not modelled

What only formats, parses, configures or grants: argument parsing and output of the
CLI, admin, models, settings, observability, hardening, legacy triggers. The limit of blame, `--dry-run`
modes, streaming of whole tables, `_audit_current_user_id` (a cast of one metadata
key) and extra meta fields do not change what the properties speak of. Row locks and
the chain lock together can deadlock; PostgreSQL then aborts one transaction, which
`HashChain` has as `Abort`.
