---------------------------- MODULE RuntimeContext ----------------------------
(***************************************************************************)
(* The audit context of the Django integration, from the block that opens  *)
(* it to the audit_context row: auditrum_context, its uses as middleware,  *)
(* decorator and Celery signal, the execute wrapper that hands it to the   *)
(* database, and _audit_attach_context.                                    *)
(*                                                                         *)
(* A task is a thread or an async task with its own copy of the context    *)
(* variables and its own connection.                                       *)
(***************************************************************************)
EXTENDS Integers, Sequences, FiniteSets

CONSTANTS
    Task,
    Decorator,  \* auditrum_context objects that decorate a function
    Job,        \* Celery task ids
    Key, Val,   \* metadata keys and values
    NoCtx,      \* no context
    NoToken,    \* no token
    MaxCtx,     \* bound: contexts ever opened
    MaxBlocks   \* bound: blocks open at a time

Metadata == UNION {[K -> Val] : K \in SUBSET Key}
NoData == [k \in {} |-> 0]
Merge(m, n) == [k \in DOMAIN m \cup DOMAIN n |-> IF k \in DOMAIN n THEN n[k] ELSE m[k]]

Context == [id : 1..MaxCtx, metadata : Metadata]

ASSUME RuntimeAssumption ==
    /\ NoCtx \notin Context
    /\ NoToken \notin [task : Task, old : Context \cup {NoCtx}]
    /\ Decorator \cap Job = {}
    /\ MaxCtx \in Nat /\ MaxBlocks \in Nat

VARIABLES
    style,      \* what the behaviour is about, see Next
    tracker,    \* tracker[t]: the _tracker variable as t sees it
    blocks,     \* blocks[t]: open blocks, innermost last
    token,      \* token[d]: _token of the object behind decorator d
    active,     \* task id -> token of the block its prerun opened
    open,       \* open[t]: t is inside a transaction
    guc,        \* guc[t]: auditrum.context_id and context_metadata
    upserts,    \* upserts[t]: audit_context rows of t's transaction
    rows,       \* committed audit_context rows: id -> metadata
    lastId,     \* ids of contexts drawn
    base,       \* ghost: the context a task was spawned with
    root,       \* ghost: id -> metadata of the outermost block
    inside,     \* ghost: inside[t]: contexts t wrote inside of, in its transaction
    clashed     \* ghost: tasks that shared a block object or a task id

inProcess == <<tracker, blocks, token, active>>
inDatabase == <<open, guc, upserts, rows, inside>>
ghosts == <<base, root, clashed>>
vars == <<style, inProcess, inDatabase, lastId, ghosts>>

Styles == {"blocks", "decorator", "celery"}

------------------------------------------------------------------------------
(* Blocks *)

Top(t) == blocks[t][Len(blocks[t])]
Pushed(t, b) == blocks' = [blocks EXCEPT ![t] = Append(@, b)]
Popped(t) == blocks' = [blocks EXCEPT ![t] = SubSeq(@, 1, Len(@) - 1)]
OpenBlocks == UNION {{<<t, i>> : i \in DOMAIN blocks[t]} : t \in Task}
Room == Cardinality(OpenBlocks) < MaxBlocks
Holders(key) == {t \in Task : \E i \in DOMAIN blocks[t] : blocks[t][i].key = key}

TokenOf(t) == [task |-> t, old |-> tracker[t]]

(* Mutation: nested metadata replaces the outer block's. *)
EnteredReplacing(t, m) ==
    IF tracker[t] = NoCtx THEN [id |-> lastId + 1, metadata |-> m]
    ELSE [id |-> tracker[t].id, metadata |-> m]

(* Mutation: nested blocks take an id of their own. *)
EnteredDrawing(t, m) ==
    [id |-> lastId + 1,
     metadata |-> IF tracker[t] = NoCtx THEN m ELSE Merge(tracker[t].metadata, m)]

(* The outermost block draws an id, nested ones inherit it. *)
Entered(t, m) ==
    IF tracker[t] = NoCtx THEN [id |-> lastId + 1, metadata |-> m]
    ELSE [id |-> tracker[t].id, metadata |-> Merge(tracker[t].metadata, m)]

(* __enter__ with metadata m. *)
Enter(t, m) ==
    /\ tracker' = [tracker EXCEPT ![t] = Entered(t, m)]
    /\ IF tracker[t] = NoCtx
       THEN /\ lastId < MaxCtx /\ lastId' = lastId + 1
            /\ root' = [i \in DOMAIN root \cup {lastId'} |->
                            IF i = lastId' THEN m ELSE root[i]]
       ELSE UNCHANGED <<lastId, root>>
    /\ UNCHANGED <<base, inDatabase>>

Block(t, kind, key) == [kind |-> kind, key |-> key, token |-> TokenOf(t)]

(* with auditrum_context(...), AuditrumMiddleware and @audit_task: a new   *)
(* object each time.                                                       *)
EnterWith(t, m) ==
    /\ Room /\ Enter(t, m) /\ Pushed(t, Block(t, "with", 0))
    /\ UNCHANGED <<token, active, clashed>>

(* Calling a function decorated with an auditrum_context object: the one   *)
(* object enters at every call and keeps only its last token.              *)
EnterDecorator(t, d) ==
    /\ Room /\ Enter(t, NoData) /\ Pushed(t, Block(t, "decorator", d))
    /\ token' = [token EXCEPT ![d] = TokenOf(t)]
    /\ clashed' = IF Holders(d) = {} THEN clashed ELSE clashed \cup Holders(d) \cup {t}
    /\ UNCHANGED active

(* task_prerun: a task id that is already active gets no context. *)
Prerun(t, j) ==
    /\ Room /\ Pushed(t, Block(t, "job", j))
    /\ IF j \in DOMAIN active
       THEN UNCHANGED <<tracker, active, lastId, root, base, inDatabase>>
       ELSE /\ Enter(t, NoData)
            /\ active' = [i \in DOMAIN active \cup {j} |-> IF i = j THEN TokenOf(t) ELSE active[i]]
    /\ clashed' = IF Holders(j) = {} THEN clashed ELSE clashed \cup Holders(j) \cup {t}
    /\ UNCHANGED token

(* Mutation: a block that ends clears the context. *)
ResetClears(t, tok) == tracker' = [tracker EXCEPT ![t] = NoCtx]

(* _tracker.reset(): a token of another task raises ValueError. *)
Reset(t, tok) ==
    tracker' = IF tok # NoToken /\ tok.task = t THEN [tracker EXCEPT ![t] = tok.old]
               ELSE tracker

Exit(t, kind) ==
    /\ blocks[t] # <<>> /\ Top(t).kind = kind /\ Popped(t)
    /\ UNCHANGED <<open, guc, upserts, rows, inside, lastId, ghosts>>

ExitWith(t) ==
    /\ Exit(t, "with") /\ Reset(t, Top(t).token)
    /\ UNCHANGED <<token, active>>

ExitDecorator(t) ==
    /\ Exit(t, "decorator")
    /\ Reset(t, token[Top(t).key])
    /\ token' = [token EXCEPT ![Top(t).key] = NoToken]
    /\ UNCHANGED <<active>>

(* task_postrun, after success and after failure. *)
Postrun(t) ==
    LET j == Top(t).key
    IN  /\ Exit(t, "job")
        /\ Reset(t, IF j \in DOMAIN active THEN active[j] ELSE NoToken)
        /\ active' = [i \in DOMAIN active \ {j} |-> active[i]]
        /\ UNCHANGED <<token>>

(* update_current_context, which has no block of its own. *)
Update(t, m) ==
    LET merged == [tracker[t] EXCEPT !.metadata = Merge(@, m)]
    IN  /\ tracker[t] # NoCtx /\ merged # tracker[t]
        /\ tracker' = [tracker EXCEPT ![t] = merged]
        /\ base' = IF blocks[t] = <<>> THEN [base EXCEPT ![t] = merged] ELSE base
        /\ UNCHANGED <<blocks, token, active, inDatabase, lastId, root, clashed>>

(* create_task, to_thread: the child starts with a copy of the variables.  *)
Spawn(t, u) ==
    /\ t # u /\ tracker[t] # NoCtx
    /\ blocks[u] = <<>> /\ tracker[u] = NoCtx /\ ~ open[u]
    /\ tracker' = [tracker EXCEPT ![u] = tracker[t]]
    /\ base' = [base EXCEPT ![u] = tracker[t]]
    /\ UNCHANGED <<blocks, token, active, inDatabase, lastId, root, clashed>>

Ended(u) ==
    /\ base[u] # NoCtx /\ blocks[u] = <<>> /\ ~ open[u]
    /\ tracker' = [tracker EXCEPT ![u] = NoCtx]
    /\ base' = [base EXCEPT ![u] = NoCtx]
    /\ UNCHANGED <<blocks, token, active, inDatabase, lastId, root, clashed>>

------------------------------------------------------------------------------
(* Statements.  Of an audit event only the context it names matters.       *)

Upsert(table, id, row) ==
    [i \in DOMAIN table \cup {id} |-> IF i = id THEN row ELSE table[i]]

(* The committed rows with those of _audit_attach_context in place.  The   *)
(* last statement of a context determines its metadata.                    *)
Attach(table, new) == Merge(table, new)

Inside(t) == blocks[t] # <<>> \/ base[t] # NoCtx

(* A statement that fires an audit trigger.  Before it, the wrapper sets   *)
(* the variables of the transaction, unless there is no context or the     *)
(* statement starts with an ignored word such as "with" or "select".  An   *)
(* executemany opens its own transaction if there is none.  The upsert     *)
(* waits for a transaction that has touched the same row.                  *)
Statement(t, injectable) ==
    LET injected == injectable /\ tracker[t] # NoCtx
        now == IF injected THEN tracker[t] ELSE guc[t]
        new == Upsert(upserts[t], now.id, now.metadata)
    IN  /\ now # NoCtx
        /\ \A u \in Task \ {t} : now.id \notin DOMAIN upserts[u]
        /\ IF open[t]
           THEN /\ guc' = [guc EXCEPT ![t] = now]
                /\ upserts' = [upserts EXCEPT ![t] = new]
                /\ inside' = [inside EXCEPT ![t] =
                                 IF injected /\ Inside(t) THEN @ \cup {now.id} ELSE @]
                /\ UNCHANGED rows
           ELSE /\ rows' = Attach(rows, new)
                /\ UNCHANGED <<guc, upserts, inside>>
        /\ UNCHANGED <<inProcess, open, lastId, ghosts>>

Begin(t) ==
    /\ ~ open[t]
    /\ open' = [open EXCEPT ![t] = TRUE]
    /\ UNCHANGED <<inProcess, guc, upserts, rows, inside, lastId, ghosts>>

(* Mutation: set_config with is_local = false. *)
CloseKeepingVariables(t) ==
    /\ open[t]
    /\ open' = [open EXCEPT ![t] = FALSE]
    /\ upserts' = [upserts EXCEPT ![t] = NoData]
    /\ inside' = [inside EXCEPT ![t] = {}]
    /\ UNCHANGED <<inProcess, guc, lastId, ghosts>>

(* The variables are local to the transaction. *)
Close(t) ==
    /\ open[t]
    /\ open' = [open EXCEPT ![t] = FALSE]
    /\ guc' = [guc EXCEPT ![t] = NoCtx]
    /\ upserts' = [upserts EXCEPT ![t] = NoData]
    /\ inside' = [inside EXCEPT ![t] = {}]
    /\ UNCHANGED <<inProcess, lastId, ghosts>>

Commit(t) == Close(t) /\ rows' = Attach(rows, upserts[t])

Rollback(t) == Close(t) /\ UNCHANGED rows

------------------------------------------------------------------------------
Init ==
    /\ style \in Styles
    /\ tracker = [t \in Task |-> NoCtx] /\ blocks = [t \in Task |-> <<>>]
    /\ token = [d \in Decorator |-> NoToken] /\ active = [j \in {} |-> NoToken]
    /\ open = [t \in Task |-> FALSE] /\ guc = [t \in Task |-> NoCtx]
    /\ upserts = [t \in Task |-> NoData]
    /\ rows = NoData /\ lastId = 0
    /\ base = [t \in Task |-> NoCtx] /\ root = NoData /\ clashed = {}
    /\ inside = [t \in Task |-> {}]

BlockStep(t) ==
    \/ \E m \in Metadata : EnterWith(t, m) \/ Update(t, m)
    \/ ExitWith(t) \/ Ended(t)
    \/ \E u \in Task : Spawn(t, u)

DecoratorStep(t) == ExitDecorator(t) \/ \E d \in Decorator : EnterDecorator(t, d)

CeleryStep(t) == Postrun(t) \/ \E j \in Job : Prerun(t, j)

DatabaseStep(t) ==
    \/ \E injectable \in BOOLEAN : Statement(t, injectable)
    \/ Begin(t) \/ Commit(t) \/ Rollback(t)

(* No block looks at the database, so that decorators and signals are      *)
(* checked without it.                                                     *)
Next ==
    /\ UNCHANGED style
    /\ \E t \in Task :
          \/ BlockStep(t)
          \/ style = "blocks" /\ DatabaseStep(t)
          \/ style = "decorator" /\ DecoratorStep(t)
          \/ style = "celery" /\ CeleryStep(t)

Spec == Init /\ [][Next]_vars

------------------------------------------------------------------------------
(* Properties *)

(* Type invariant: contexts carry drawn ids, and a task or object only     *)
(* holds tokens of tasks.                                                  *)
TypeOK ==
    /\ tracker \in [Task -> Context \cup {NoCtx}]
    /\ guc \in [Task -> Context \cup {NoCtx}]
    /\ token \in [Decorator -> [task : Task, old : Context \cup {NoCtx}] \cup {NoToken}]
    /\ DOMAIN active \subseteq Job
    /\ lastId \in 0..MaxCtx /\ DOMAIN root = 1..lastId
    /\ \A t \in Task : tracker[t] # NoCtx => tracker[t].id <= lastId
    /\ \A i \in DOMAIN rows : i \in 1..lastId /\ rows[i] \in Metadata

(* When a block ends, its task has the context it had when the block       *)
(* began, whatever was nested, updated or raised inside and whatever other *)
(* tasks did: no request, job or call inherits the context of an earlier   *)
(* one.  Excepted are tasks that shared one decorator object or one task   *)
(* id while it was in use, recursion included.                             *)
Ending(t) == blocks[t] # <<>> /\ blocks'[t] = SubSeq(blocks[t], 1, Len(blocks[t]) - 1)

ContextRestored ==
    [][\A t \in Task \ clashed : Ending(t) => tracker'[t] = Top(t).token.old]_vars

(* An event is never given the context of another task, of an earlier      *)
(* transaction or of a block that ended before its transaction: what the   *)
(* trigger finds was set inside the context by a statement of the same     *)
(* transaction, and a task without a block has no context to set.          *)
AttributionLocal ==
    \A t \in Task \ clashed :
        /\ guc[t] # NoCtx => guc[t].id \in inside[t]
        /\ tracker[t] # NoCtx => Inside(t)

(* The row of a context always names everything the outermost block said,  *)
(* whatever nested blocks, updates and concurrent tasks of the same        *)
(* context wrote there.                                                    *)
RootKept == \A i \in DOMAIN rows : DOMAIN root[i] \subseteq DOMAIN rows[i]
===============================================================================
