------------------------------ MODULE Migrations ------------------------------
(***************************************************************************)
(* Django migrations for audit triggers.  auditrum_makemigrations compares *)
(* the @track registry with what the migrations on disk install, in        *)
(* dependency order, and writes InstallTrigger and UninstallTrigger        *)
(* operations into the apps of the models; migrate applies and reverses    *)
(* them in databases that differ in how far they are.  Models are tracked, *)
(* renamed, moved to another app (keeping their table), and auditrum is    *)
(* upgraded, in between.                                                   *)
(*                                                                         *)
(* One trigger operation is atomic here: module TriggerManager has its     *)
(* steps.  No two models ever use the same table name or trigger name.     *)
(***************************************************************************)
EXTENDS Integers, Sequences, FiniteSets, SequencesExt

CONSTANTS
    Model,
    App,            \* numbers, in the order of the app labels
    TableName,
    Version,        \* what a spec says besides its table and trigger name
    Database,
    None,           \* no table, no trigger, no spec, no trigger_name
    MaxRelease,     \* bound: releases of auditrum
    MaxFiles,       \* bound: migrations on disk
    MaxEdits        \* bound: edits of the models

ASSUME MigrationsAssumption ==
    /\ App \subseteq Nat
    /\ Model \cap TableName = {}
    /\ None \notin Model \cup TableName
    /\ MaxRelease \in Nat /\ MaxFiles \in Nat /\ MaxEdits \in Nat

(* A trigger without a name is called after its table, one with a name     *)
(* after its model here.                                                   *)
TriggerName == TableName \cup Model
TrackSpec == [table : TableName, version : Version, trigger_name : Model \cup {None}]

VARIABLES
    app,        \* app[m]: the app of the model
    db_table,   \* db_table[m]: its table
    tracked,    \* tracked[m]: arguments of @track, or None
    release,    \* the release of auditrum that is installed
    files,      \* migrations in the order they were written
    edits,      \* edits made
    databases,  \* databases[d]: see Empty
    complete    \* ghost: no edit since makemigrations ran to its end

code == <<app, db_table, tracked, release>>
vars == <<code, files, edits, databases, complete>>

effective_trigger_name(s) == IF s.trigger_name = None THEN s.table ELSE s.trigger_name

(* Operations of a migration.  A checksum stands for the release that      *)
(* renders the body; 0 is a migration from before checksums.               *)
InstallTrigger(s, checksum) == [kind |-> "install", spec |-> s, checksum |-> checksum]
UninstallTrigger(s) == [kind |-> "uninstall", spec |-> s]
AlterTable(m, from, to) == [kind |-> "table", model |-> m, from |-> from, to |-> to]

Migration(a, needs, ops) == [app |-> a, needs |-> needs, operations |-> ops]

(* The last migration of app a among those in fs, the only leaf it has. *)
Leaf(fs, a) ==
    LET own == {f \in DOMAIN fs : fs[f].app = a}
    IN  {f \in own : \A g \in own : g <= f}

SpecOf(m) == [table |-> db_table[m], version |-> tracked[m].version,
              trigger_name |-> tracked[m].trigger_name]

------------------------------------------------------------------------------
(* auditrum_makemigrations *)

(* Django: what f depends on, then f; depth first, the parents from the    *)
(* last app to the first.                                                  *)
Extend(plan, more) ==
    LET seen == ToSet(plan)
    IN  plan \o SelectSeq(more, LAMBDA f : f \notin seen)
forwards_plan ==
    LET plan[f \in DOMAIN files] ==
            LET parents == SetToSortSeq(files[f].needs,
                                        LAMBDA g, h : files[g].app > files[h].app)
            IN  Append(FoldLeft(LAMBDA seen, g : Extend(seen, plan[g]), <<>>, parents), f)
    IN  plan

Plan ==
    LET leaves == SetToSortSeq(UNION {Leaf(files, a) : a \in App},
                               LAMBDA f, g : files[f].app < files[g].app)
    IN  FoldLeft(LAMBDA seen, f : Extend(seen, forwards_plan[f]), <<>>, leaves)

Concerns(o, n) == o.kind # "table" /\ effective_trigger_name(o.spec) = n
FilesOf(n) ==
    {f \in DOMAIN files : \E i \in DOMAIN files[f].operations : Concerns(files[f].operations[i], n)}

(* What the migrations in F leave, replayed in the order of the plan: the  *)
(* last operation on a name decides.                                       *)
Replay(F) ==
    LET plan == Plan
        left(f, n) ==
            LET o == Last(SelectSeq(files[f].operations, LAMBDA op : Concerns(op, n)))
            IN  IF o.kind = "uninstall" THEN None
                ELSE [app |-> files[f].app, spec |-> o.spec, checksum |-> o.checksum]
    IN  [n \in TriggerName |->
            LET mine == F \cap FilesOf(n)
                on == SelectSeq(plan, LAMBDA f : f \in mine)
            IN  IF on = <<>> THEN None ELSE left(Last(on), n)]

migrated_trigger_state == Replay(DOMAIN files)

(* Mutation: only the spec is compared, not the checksum. *)
NeedsUpdateSpecOnly(old, s) == old = None \/ old.spec # s

(* New, changed, without a checksum, or rendered differently by now. *)
NeedsUpdate(old, s) == old = None \/ old.spec # s \/ old.checksum # release

current == {effective_trigger_name(SpecOf(m)) : m \in {m \in Model : tracked[m] # None}}

(* Each change with the app its migration goes to: uninstalls to the app   *)
(* that installed the trigger, installs to the app of the model.           *)
detect_changes ==
    LET migrated == migrated_trigger_state
        gone == {n \in TriggerName \ current : migrated[n] # None}
        due == {m \in Model : tracked[m] # None /\
                   NeedsUpdate(migrated[effective_trigger_name(SpecOf(m))], SpecOf(m))}
    IN  {[app |-> migrated[n].app, kind |-> "uninstall", spec |-> migrated[n].spec] : n \in gone}
        \cup {[app |-> app[m], kind |-> "install", spec |-> SpecOf(m)] : m \in due}

(* Mutation: only new triggers get a checksum. *)
_change_to_operationUnsummed(c) ==
    IF c.kind = "uninstall" THEN UninstallTrigger(c.spec)
    ELSE InstallTrigger(c.spec,
            IF migrated_trigger_state[effective_trigger_name(c.spec)] = None
            THEN release ELSE 0)

_change_to_operation(c) ==
    IF c.kind = "uninstall" THEN UninstallTrigger(c.spec)
    ELSE InstallTrigger(c.spec, release)

(* The file for app a: uninstalls first. *)
Written(a, changes) ==
    LET mine == SetToSortSeq({c \in changes : c.app = a},
                             LAMBDA c, e : c.kind = "uninstall" /\ e.kind = "install")
    IN  Migration(a, Leaf(files, a), [i \in DOMAIN mine |-> _change_to_operation(mine[i])])

(* A file per app with changes, in the order of the labels; a run that     *)
(* fails or is killed stops after the app upTo.                            *)
MakeMigrations(upTo) ==
    LET changes == detect_changes
        apps == SetToSortSeq({a \in {c.app : c \in changes} : a <= upTo}, <)
    IN  /\ apps # <<>>
        /\ Len(files) + Len(apps) <= MaxFiles
        /\ files' = files \o [i \in DOMAIN apps |-> Written(apps[i], changes)]
        /\ complete' = (\A c \in changes : c.app <= upTo)
        /\ UNCHANGED <<code, edits, databases>>

------------------------------------------------------------------------------
(* Edits of the code: the registry and the migrations Django writes *)

Edit ==
    /\ edits < MaxEdits /\ edits' = edits + 1
    /\ complete' = FALSE /\ UNCHANGED databases

(* @track or register() on m, or its removal; again overwrites. *)
Track(m, args) ==
    /\ Edit /\ tracked' = [tracked EXCEPT ![m] = args]
    /\ UNCHANGED <<app, db_table, release, files>>

RenameTable(m, t) ==
    /\ Edit /\ Len(files) < MaxFiles
    /\ \A k \in Model : db_table[k] # t
    /\ \A f \in DOMAIN files : \A i \in DOMAIN files[f].operations :
          LET o == files[f].operations[i]
          IN  o.kind = "table" /\ o.model # m => t \notin {o.from, o.to}
    /\ db_table' = [db_table EXCEPT ![m] = t]
    /\ files' = Append(files, Migration(app[m], Leaf(files, app[m]),
                                        <<AlterTable(m, db_table[m], t)>>))
    /\ UNCHANGED <<app, tracked, release>>

(* Only Django's state changes, in a migration that needs the old app's. *)
MoveModel(m, a) ==
    /\ Edit /\ Len(files) < MaxFiles /\ a # app[m]
    /\ app' = [app EXCEPT ![m] = a]
    /\ files' = Append(files, Migration(a, Leaf(files, a) \cup Leaf(files, app[m]), <<>>))
    /\ UNCHANGED <<db_table, tracked, release>>

Upgrade ==
    /\ Edit /\ release < MaxRelease /\ release' = release + 1
    /\ UNCHANGED <<app, db_table, tracked, files>>

------------------------------------------------------------------------------
(* migrate *)

(* A database: applied migrations, tables by model, functions by name, and *)
(* triggers <<name, m>> on the tables.                                     *)
Empty == [applied |-> {}, table |-> [m \in Model |-> None],
          body |-> [n \in TriggerName |-> None], on |-> {}]
Failed == None

(* install() and uninstall() act on a table by its name; the functions'    *)
(* removal cascades to every trigger that uses it.                         *)
Uninstall(x, s) ==
    LET n == effective_trigger_name(s)
    IN  [x EXCEPT !.body[n] = None, !.on = {p \in @ : p[1] # n}]

(* Mutation: install() without force keeps the trigger that is there. *)
InstallUnforced(x, s) ==
    LET n == effective_trigger_name(s)
        tables == {m \in Model : x.table[m] = s.table}
    IN  IF tables = {} THEN Failed
        ELSE IF x.body[n] # None THEN x
        ELSE [x EXCEPT !.body[n] = [spec |-> s, checksum |-> release],
                       !.on = @ \cup {<<n, m>> : m \in tables}]

Install(x, s) ==
    LET n == effective_trigger_name(s)
        tables == {m \in Model : x.table[m] = s.table}
    IN  IF tables = {} THEN Failed
        ELSE [x EXCEPT !.body[n] = [spec |-> s, checksum |-> release],
                       !.on = @ \cup {<<n, m>> : m \in tables}]

database_forwards(x, o) ==
    IF x = Failed THEN Failed
    ELSE CASE o.kind = "install" -> Install(x, o.spec)
           [] o.kind = "uninstall" -> Uninstall(x, o.spec)
           [] OTHER -> [x EXCEPT !.table[o.model] = o.to]

(* Reversing an install removes the trigger, whatever was there before.    *)
database_backwards(x, o) ==
    IF x = Failed THEN Failed
    ELSE CASE o.kind = "install" -> Uninstall(x, o.spec)
           [] o.kind = "uninstall" -> Install(x, o.spec)
           [] OTHER -> [x EXCEPT !.table[o.model] = o.from]

Becomes(d, x) ==
    /\ x # Failed
    /\ databases' = [databases EXCEPT ![d] = x]
    /\ UNCHANGED <<code, files, edits, complete>>

(* A migration is one transaction; migrate may be told where to go, or     *)
(* stop between two.                                                       *)
Migrate(d, f) ==
    LET x == databases[d]
    IN  /\ f \notin x.applied /\ files[f].needs \subseteq x.applied
        /\ Becomes(d, FoldLeft(database_forwards, [x EXCEPT !.applied = @ \cup {f}],
                               files[f].operations))

(* Mutation: migrations that need f may stay applied. *)
UnapplyAnyway(d, f) ==
    LET x == databases[d]
    IN  /\ f \in x.applied
        /\ Becomes(d, FoldRight(LAMBDA o, y : database_backwards(y, o),
                                files[f].operations,
                                [x EXCEPT !.applied = @ \ {f}]))

Unapply(d, f) ==
    LET x == databases[d]
    IN  /\ f \in x.applied /\ \A g \in x.applied : f \notin files[g].needs
        /\ Becomes(d, FoldRight(LAMBDA o, y : database_backwards(y, o),
                                files[f].operations,
                                [x EXCEPT !.applied = @ \ {f}]))

(* A new database: a test run, another environment. *)
Recreate(d) == databases[d] # Empty /\ Becomes(d, Empty)

------------------------------------------------------------------------------

(* The migrations that create the tables; and maybe, from an early release,*)
(* one that installs a trigger and has no checksum.                        *)
Init ==
    /\ app \in [Model -> App]
    /\ db_table \in {t \in [Model -> TableName] : IsInjective(t)}
    /\ release = 1 /\ edits = 0 /\ complete = FALSE
    /\ databases = [d \in Database |-> Empty]
    /\ \E order \in {s \in [1..Cardinality(Model) -> Model] : IsInjective(s)},
         args \in {None} \cup [version : Version, trigger_name : {None}] :
          /\ tracked = [m \in Model |-> args]
          /\ files = [i \in DOMAIN order |->
                LET m == order[i]
                    create == AlterTable(m, None, db_table[m])
                    install == InstallTrigger(SpecOf(m), 0)
                IN  Migration(app[m], Leaf([j \in 1..(i - 1) |-> [app |-> app[order[j]]]], app[m]),
                              IF args = None THEN <<create>> ELSE <<create, install>>)]

Next ==
    \/ \E a \in App : MakeMigrations(a)
    \/ \E m \in Model :
          \/ Track(m, None)
          \/ \E v \in Version, n \in {m, None} :
                Track(m, [version |-> v, trigger_name |-> n])
          \/ \E t \in TableName : RenameTable(m, t)
          \/ \E a \in App : MoveModel(m, a)
    \/ Upgrade
    \/ \E d \in Database :
          \/ Recreate(d)
          \/ \E f \in DOMAIN files : Migrate(d, f) \/ Unapply(d, f)

Spec == Init /\ [][Next]_vars

------------------------------------------------------------------------------
(* Properties *)

Before(f) == ToSet(forwards_plan[f])
(* The dependencies say in which order the migrations of n run.  They do   *)
(* not after a model moved and its old app got the uninstall.              *)
Ordered(n) ==
    LET plan == forwards_plan
    IN  \A f, g \in FilesOf(n) : f \in ToSet(plan[g]) \/ g \in ToSet(plan[f])

(* Type invariant: migrations depend on earlier ones, and databases have   *)
(* applied what the applied ones need.                                     *)
TypeOK ==
    /\ app \in [Model -> App]
    /\ db_table \in [Model -> TableName]
    /\ tracked \in [Model -> [version : Version, trigger_name : Model \cup {None}] \cup {None}]
    /\ release \in 1..MaxRelease /\ edits \in 0..MaxEdits /\ complete \in BOOLEAN
    /\ Len(files) <= MaxFiles
    /\ \A f \in DOMAIN files : files[f].app \in App /\ files[f].needs \subseteq 1..(f - 1)
    /\ \A d \in Database :
          LET x == databases[d]
          IN  /\ x.applied \subseteq DOMAIN files
              /\ \A f \in x.applied : Before(f) \subseteq x.applied
              /\ x.table \in [Model -> TableName \cup {None}]
              /\ x.body \in [TriggerName -> [spec : TrackSpec, checksum : 1..MaxRelease] \cup {None}]
              /\ \A p \in x.on : p \in TriggerName \X Model /\ x.body[p[1]] # None

(* Where dependencies order its migrations, an installed trigger has the   *)
(* spec of the last applied operation on it, in whatever order apps are    *)
(* migrated, reversed and migrated again.  Excepted are the names for      *)
(* which they do not, see SilenceIsTrue, and nothing is said of a trigger  *)
(* that is missing: reversing an update removes it, as docs/django.md says.*)
OrderedNeverStale ==
    \A d \in Database :
        LET x == databases[d]
            migrated == Replay(x.applied)
        IN  \A n \in TriggerName :
                x.body[n] # None /\ Ordered(n) =>
                    migrated[n] # None /\ x.body[n].spec = migrated[n].spec

(* The trigger of name n fires on the table it is declared for and on no   *)
(* other, with the declared spec rendered by the installed release.        *)
AsDeclared(x, n) ==
    LET owner == {m \in Model : tracked[m] # None /\ effective_trigger_name(SpecOf(m)) = n}
    IN  /\ {p[2] : p \in {p \in x.on : p[1] = n}} = owner
        /\ \A m \in owner : x.body[n] = [spec |-> SpecOf(m), checksum |-> release]

(* Silent is auditrum.W001 when registry and migrations agree; the         *)
(* database d has applied them all.                                        *)
Silent(d) == detect_changes = {} /\ databases[d].applied = DOMAIN files

(* When auditrum.W001 is silent, every trigger whose migrations the        *)
(* dependencies order is as declared, however the database got there.  Of  *)
(* the others see SilenceIsTrue.                                           *)
OrderedSilence ==
    \A d \in Database : Silent(d) =>
        \A n \in TriggerName : Ordered(n) => AsDeclared(databases[d], n)

(* What the check is for: when it is silent, migrate has not kept an old   *)
(* trigger body, nor none at all.                                          *)
SilenceIsTrue ==
    \A d \in Database : Silent(d) => \A n \in TriggerName : AsDeclared(databases[d], n)

(* A complete run of auditrum_makemigrations leaves nothing to write: the  *)
(* next one, or --check, reports no change of a trigger whose migrations   *)
(* the dependencies order.                                                 *)
OneRunSuffices ==
    complete => \A c \in detect_changes : ~ Ordered(effective_trigger_name(c.spec))
===============================================================================
