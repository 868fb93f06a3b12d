---------------------------- MODULE AppendOnlyLog ----------------------------
(***************************************************************************)
(* What the hash chain promises a reader of the audit log: the committed   *)
(* chained rows form one line, each linked to the row right before it, and *)
(* a commit only ever adds rows after the last one.                        *)
(***************************************************************************)
EXTENDS Integers

CONSTANT NoHash     \* "no previous row"

VARIABLE chain      \* a set of entries [seq, prev, hash]

Preceding(C, e) == {d \in C : d.seq < e.seq}

Linked(C) ==
    \A e \in C :
        \/ Preceding(C, e) = {} /\ e.prev = NoHash
        \/ \E d \in Preceding(C, e) :
              /\ e.prev = d.hash
              /\ \A c \in Preceding(C, e) : c.seq <= d.seq

Init == chain = {}

(***************************************************************************)
(* Any block of rows may be appended, so chain' is constrained rather than *)
(* enumerated.                                                             *)
(***************************************************************************)
Append ==
    /\ chain \subseteq chain'
    /\ chain' # chain
    /\ \A e \in chain' \ chain : \A d \in chain : d.seq < e.seq
    /\ Linked(chain')

Spec == Init /\ [][Append]_chain
==============================================================================
