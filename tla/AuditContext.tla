----------------------------- MODULE AuditContext -----------------------------
(***************************************************************************)
(* AuditContext: metadata and change reasons that a task keeps for itself  *)
(* and sets as variables session.myapp_* of the current transaction.       *)
(*                                                                         *)
(* One task with a connection of its own: context variables are copied per *)
(* task and DjangoExecutor hands each thread its connection.  A key is an  *)
(* identifier other than change_reason, a value is not None, and the text  *)
(* of several reasons is the sequence it joins.                            *)
(***************************************************************************)
EXTENDS Integers, Sequences

CONSTANTS
    Name, Text, Reason,
    NoVal,      \* a key not named, a variable that is empty
    MaxFrames,  \* bound: blocks and savepoints open at a time
    MaxReasons  \* bound: reasons on the stack

ASSUME ContextAssumption == NoVal \notin Text /\ MaxFrames \in Nat /\ MaxReasons \in Nat

VARIABLES
    data,       \* _data
    stack,      \* _reason_stack
    frames,     \* use() and use_change_reason() blocks and savepoints, open
    atomic,     \* the transaction: "none", "open" or "failed"
    session,    \* the variables of the transaction
    loose,      \* ghost: in this transaction data or stack changed, or a block
                \* ended, without the session being told
    emptied     \* ghost: in this transaction a use() block has ended

contextVars == <<data, stack, frames, atomic, session, loose, emptied>>

Said == [Name -> Text \cup {NoVal}]
Silent == [k \in Name |-> NoVal]
Over(m, n) == [k \in Name |-> IF n[k] # NoVal THEN n[k] ELSE m[k]]
Without(m, K) == [k \in Name |-> IF k \in K THEN NoVal ELSE m[k]]
Named(m) == {k \in Name : m[k] # NoVal}

Unset == [data |-> Silent, reason |-> <<>>]

MayNest == Len(frames) < MaxFrames
Innermost == frames[Len(frames)]
FrameEnds == frames' = SubSeq(frames, 1, Len(frames) - 1)

(* A block remembers what it replaced, the variables it applied, or as a   *)
(* savepoint keeps, and whether it began in the transaction that is open.  *)
FrameBegins(kind, reset, old, set) ==
    frames' = Append(frames, [kind |-> kind, reset |-> reset, old |-> old, set |-> set,
                              live |-> atomic = "open"])

(* Outside a transaction a local setting ends with its own statement. *)
Apply(set) == session' = IF atomic = "open" THEN set ELSE session

Works == atomic # "failed"
Fails == atomic' \in IF atomic = "open" THEN {"open", "failed"} ELSE {atomic}
Untold == loose' = (loose \/ atomic # "none")

------------------------------------------------------------------------------
Set(k, v) ==
    /\ data' = [data EXCEPT ![k] = v]
    /\ Untold
    /\ UNCHANGED <<stack, frames, atomic, session, emptied>>

PushChangeReason(r) ==
    /\ Len(stack) < MaxReasons
    /\ stack' = Append(stack, r)
    /\ Untold
    /\ UNCHANGED <<data, frames, atomic, session, emptied>>

(* use(): all that is said by now is applied, not only m. *)
Use(m, reset) ==
    LET said == Over(data, m)
    IN  /\ MayNest /\ (Works \/ (said = Silent /\ stack = <<>>))
        /\ data' = said
        /\ Apply([data |-> Over(session.data, said),
                  reason |-> IF stack # <<>> THEN stack ELSE session.reason])
        /\ FrameBegins("use", reset, [data |-> data, reason |-> <<>>], [data |-> said, reason |-> stack])
        /\ UNCHANGED <<stack, atomic, loose, emptied>>

(* A set_config of the entry is refused, by the server, which fails the    *)
(* transaction, or by the driver, which does not, after the keys in done.  *)
(* No block is open, but data is what the block would have had.            *)
UseFails(m) ==
    LET said == Over(data, m)
    IN  /\ said # Silent \/ stack # <<>>
        /\ data' = said /\ Fails
        /\ \E done \in SUBSET Named(said) :
              Apply([session EXCEPT !.data = Over(@, Without(said, Name \ done))])
        /\ Untold
        /\ UNCHANGED <<stack, frames, emptied>>

(* Every variable applied at the entry is emptied, the ones that an outer  *)
(* block had set included.  In a failed transaction that raises, after     *)
(* data was put back.                                                      *)
ExitUse ==
    /\ frames # <<>> /\ Innermost.kind = "use" /\ FrameEnds
    /\ data' = Innermost.old.data
    /\ IF Innermost.reset
       THEN /\ Apply([data |-> Without(session.data, Named(Innermost.set.data)),
                      reason |-> IF Innermost.set.reason # <<>> THEN <<>> ELSE session.reason])
            /\ emptied' = (emptied \/ atomic = "open")
            /\ UNCHANGED loose
       ELSE Untold /\ UNCHANGED <<session, emptied>>
    /\ UNCHANGED <<stack, atomic>>

UseChangeReason(r, reset) ==
    /\ MayNest /\ Works /\ Len(stack) < MaxReasons
    /\ stack' = Append(stack, r)
    /\ Apply([session EXCEPT !.reason = stack'])
    /\ FrameBegins("reason", reset, [data |-> Silent, reason |-> stack], Unset)
    /\ UNCHANGED <<data, atomic, loose, emptied>>

UseChangeReasonFails(r) ==
    /\ Len(stack) < MaxReasons
    /\ stack' = Append(stack, r) /\ Fails
    /\ Untold
    /\ UNCHANGED <<data, frames, session, emptied>>

(* Mutation: the outer reason is not put back. *)
ExitChangeReasonKeeps ==
    /\ frames # <<>> /\ Innermost.kind = "reason" /\ FrameEnds
    /\ stack' = Innermost.old.reason
    /\ UNCHANGED <<data, atomic, session, loose, emptied>>

(* Mutation: the reason is emptied, as use() does. *)
ExitChangeReasonEmpties ==
    /\ frames # <<>> /\ Innermost.kind = "reason" /\ FrameEnds
    /\ stack' = Innermost.old.reason
    /\ Apply([session EXCEPT !.reason = <<>>])
    /\ UNCHANGED <<data, atomic, loose, emptied>>

(* The outer reason is applied again. *)
ExitChangeReason ==
    /\ frames # <<>> /\ Innermost.kind = "reason" /\ FrameEnds
    /\ stack' = Innermost.old.reason
    /\ IF Innermost.reset THEN Apply([session EXCEPT !.reason = stack']) /\ UNCHANGED loose
       ELSE Untold /\ UNCHANGED session
    /\ UNCHANGED <<data, atomic, emptied>>

------------------------------------------------------------------------------
(* The transaction, which the application opens and closes where it likes. *)

BeginTransaction ==
    /\ atomic = "none" /\ atomic' = "open"
    /\ UNCHANGED <<data, stack, frames, session, loose, emptied>>

(* A statement of the application fails. *)
FailStatement ==
    /\ atomic = "open" /\ atomic' = "failed"
    /\ UNCHANGED <<data, stack, frames, session, loose, emptied>>

Savepoints == {i \in DOMAIN frames : frames[i].kind = "savepoint"}

(* Mutation: set_config with is_local = false. *)
EndTransactionKeeps ==
    /\ atomic # "none" /\ Savepoints = {} /\ atomic' = "none"
    /\ frames' = [i \in DOMAIN frames |-> [frames[i] EXCEPT !.live = FALSE]]
    /\ loose' = FALSE /\ emptied' = FALSE
    /\ UNCHANGED <<data, stack, session>>

(* COMMIT or ROLLBACK: the variables are local to the transaction. *)
EndTransaction ==
    /\ atomic # "none" /\ Savepoints = {} /\ atomic' = "none"
    /\ session' = Unset
    /\ frames' = [i \in DOMAIN frames |-> [frames[i] EXCEPT !.live = FALSE]]
    /\ loose' = FALSE /\ emptied' = FALSE
    /\ UNCHANGED <<data, stack>>

(* A nested atomic(). *)
Savepoint ==
    /\ MayNest /\ atomic = "open" /\ FrameBegins("savepoint", FALSE, Unset, session)
    /\ UNCHANGED <<data, stack, atomic, session, loose, emptied>>

Release ==
    /\ frames # <<>> /\ Innermost.kind = "savepoint" /\ atomic = "open" /\ FrameEnds
    /\ UNCHANGED <<data, stack, atomic, session, loose, emptied>>

RollbackTo ==
    /\ frames # <<>> /\ Innermost.kind = "savepoint" /\ FrameEnds
    /\ atomic' = "open" /\ session' = Innermost.set
    /\ UNCHANGED <<data, stack, loose, emptied>>

------------------------------------------------------------------------------
ContextInit ==
    /\ data \in Said
    /\ stack = <<>> /\ frames = <<>>
    /\ atomic = "none" /\ session = Unset /\ loose = FALSE /\ emptied = FALSE

UseStep ==
    \/ \E m \in Said : UseFails(m) \/ \E reset \in BOOLEAN : Use(m, reset)
    \/ ExitUse

ReasonStep ==
    \/ \E r \in Reason : UseChangeReasonFails(r) \/ \E reset \in BOOLEAN : UseChangeReason(r, reset)
    \/ ExitChangeReason

DirectStep ==
    \/ \E k \in Name, v \in Text : Set(k, v)
    \/ \E r \in Reason : PushChangeReason(r)

TransactionStep == BeginTransaction \/ FailStatement \/ EndTransaction \/ Savepoint \/ Release \/ RollbackTo

ContextNext == UseStep \/ ReasonStep \/ DirectStep \/ TransactionStep

ContextSpec == ContextInit /\ [][ContextNext]_contextVars

------------------------------------------------------------------------------
(* Properties *)

(* Type invariant: variables are set inside a transaction only. *)
VariablesTypeOK ==
    /\ data \in Said
    /\ stack \in Seq(Reason) /\ Len(stack) <= MaxReasons
    /\ atomic \in {"none", "open", "failed"}
    /\ session.data \in Said /\ session.reason \in Seq(Reason)
    /\ Len(frames) <= MaxFrames
    /\ atomic = "none" => session = Unset

(* Through any nesting of use(), use_change_reason() and savepoints, with  *)
(* entries and statements that fail and transactions that begin and end    *)
(* inside blocks, a variable is empty or says what get() and               *)
(* get_change_reason() say, so that no write is stamped with what a block  *)
(* that ended has said.  Excepted is the rest of a transaction in which    *)
(* set() or push_change_reason() was called, a block with reset=False      *)
(* ended or an entry failed: these change what get() says and leave the    *)
(* variables alone.                                                        *)
NeverStale ==
    atomic = "open" /\ ~ loose =>
        /\ \A k \in Named(session.data) : session.data[k] = data[k]
        /\ session.reason \in {<<>>, stack}

(* Until a use() block ends, nothing is missing either: a block that began *)
(* in the transaction has its keys and its reason in the variables,        *)
(* whatever began, ended or was rolled back to a savepoint inside it.      *)
Stamped ==
    atomic = "open" /\ ~ loose /\ ~ emptied =>
        \A i \in DOMAIN frames :
            frames[i].live =>
                /\ \A k \in Named(frames[i].set.data) : session.data[k] = data[k]
                /\ frames[i].kind = "reason" => session.reason = stack
===============================================================================
