------------------------- MODULE RuntimeContextProofs -------------------------
(***************************************************************************)
(* Theorems about RuntimeContext, for any number of tasks, decorators,     *)
(* jobs, keys, contexts and open blocks.                                   *)
(***************************************************************************)
EXTENDS RuntimeContext, SequenceTheorems, TLAPS

------------------------------------------------------------------------------
(* Metadata and contexts *)

(* The assumptions on the constants, in the form the proofs use. *)
LEMMA Assumed ==
    /\ NoCtx \notin Context /\ Decorator \cap Job = {}
    /\ MaxCtx \in Nat /\ MaxBlocks \in Nat
BY RuntimeAssumption

(* Metadata is a function from keys to values, on any set of keys. *)
LEMMA MetadataIs ==
    /\ \A K \in SUBSET Key : \A m \in [K -> Val] : m \in Metadata
    /\ \A m \in Metadata : DOMAIN m \subseteq Key /\ m \in [DOMAIN m -> Val]
    /\ NoData \in Metadata /\ DOMAIN NoData = {}
<1>1. \A K \in SUBSET Key : \A m \in [K -> Val] : m \in Metadata
  BY DEF Metadata
<1>2. \A m \in Metadata : DOMAIN m \subseteq Key /\ m \in [DOMAIN m -> Val]
  BY DEF Metadata
<1>3. NoData \in [{} -> Val] /\ DOMAIN NoData = {}
  BY DEF NoData
<1>4. {} \in SUBSET Key
  OBVIOUS
<1> QED
  BY <1>1, <1>2, <1>3, <1>4

(* Merging keeps every key of both sides, with the values of the second. *)
LEMMA MergeIs ==
    ASSUME NEW m \in Metadata, NEW n \in Metadata
    PROVE  /\ Merge(m, n) \in Metadata /\ DOMAIN Merge(m, n) = DOMAIN m \cup DOMAIN n
           /\ \A k \in DOMAIN n : Merge(m, n)[k] = n[k]
           /\ \A k \in DOMAIN m \ DOMAIN n : Merge(m, n)[k] = m[k]
<1> DEFINE D == DOMAIN m \cup DOMAIN n
           g == [k \in D |-> IF k \in DOMAIN n THEN n[k] ELSE m[k]]
<1>1. D \in SUBSET Key /\ m \in [DOMAIN m -> Val] /\ n \in [DOMAIN n -> Val]
  BY MetadataIs
<1>2. \A k \in D : (IF k \in DOMAIN n THEN n[k] ELSE m[k]) \in Val
  BY <1>1
<1>3. g \in [D -> Val]
  BY <1>2
<1>4. Merge(m, n) = g
  BY DEF Merge
<1>5. /\ DOMAIN g = D /\ \A k \in DOMAIN n : g[k] = n[k]
      /\ \A k \in DOMAIN m \ DOMAIN n : g[k] = m[k]
  OBVIOUS
<1> HIDE DEF g
<1>6. g \in Metadata
  BY <1>1, <1>3, MetadataIs
<1> QED
  BY <1>4, <1>5, <1>6

(* A context, as far as tasks, tokens and transactions hold one: it has a  *)
(* drawn id, at most n, and names all its outermost block said, r.         *)
Held(c, n, r) ==
    \/ c = NoCtx
    \/ /\ c \in Context /\ c.id <= n
       /\ DOMAIN r[c.id] \subseteq DOMAIN c.metadata

(* What a block makes of the context it finds. *)
LEMMA EnteredIs ==
    ASSUME NEW t \in Task, NEW m \in Metadata, lastId \in 0..MaxCtx, Held(tracker[t], lastId, root), Enter(t, m),
           tracker \in [Task -> Context \cup {NoCtx}], DOMAIN root = 1..lastId
    PROVE  /\ tracker'[t] \in Context
           /\ \A u \in Task \ {t} : tracker'[u] = tracker[u]
           /\ tracker' \in [Task -> Context \cup {NoCtx}]
           /\ lastId' \in 0..MaxCtx /\ lastId <= lastId' /\ DOMAIN root' = 1..lastId'
           /\ Held(tracker'[t], lastId', root') /\ \A c : Held(c, lastId, root) => Held(c, lastId', root')
<1>1. lastId \in Nat /\ MaxCtx \in Nat
  BY Assumed
<1>2. tracker' = [tracker EXCEPT ![t] = Entered(t, m)]
  BY DEF Enter
<1>3. CASE tracker[t] = NoCtx
  <2>1. /\ lastId < MaxCtx /\ lastId' = lastId + 1
        /\ root' = [i \in DOMAIN root \cup {lastId'} |-> IF i = lastId' THEN m ELSE root[i]]
    BY <1>3 DEF Enter
  <2>2. Entered(t, m) = [id |-> lastId + 1, metadata |-> m]
    BY <1>3 DEF Entered
  <2>3. lastId + 1 \in 1..MaxCtx
    BY <1>1, <2>1
  <2>4. Entered(t, m) \in Context
    BY <2>2, <2>3 DEF Context
  <2>5. lastId' \in 0..MaxCtx /\ lastId <= lastId' /\ DOMAIN root' = 1..lastId'
    BY <1>1, <2>1
  <2>6. root'[lastId + 1] = m /\ \A i \in 1..lastId : root'[i] = root[i]
    BY <1>1, <2>1
  <2>7. \A c : Held(c, lastId, root) => Held(c, lastId', root')
    <3> SUFFICES ASSUME NEW c \in Context, c.id <= lastId, DOMAIN root[c.id] \subseteq DOMAIN c.metadata
                 PROVE  c.id <= lastId' /\ DOMAIN root'[c.id] \subseteq DOMAIN c.metadata
      BY DEF Held
    <3>1. c.id \in 1..lastId
      BY <1>1 DEF Context
    <3> QED
      BY <1>1, <2>1, <2>6, <3>1
  <2>8. tracker'[t] = [id |-> lastId + 1, metadata |-> m]
    BY <1>2, <2>2
  <2>9. Held(tracker'[t], lastId', root')
    <3>1. tracker'[t] \in Context /\ tracker'[t].id <= lastId'
          /\ DOMAIN root'[tracker'[t].id] \subseteq DOMAIN tracker'[t].metadata
      BY <1>1, <2>1, <2>2, <2>4, <2>6, <2>8
    <3> QED
      BY <3>1 DEF Held
  <2> QED
    BY <1>2, <2>4, <2>5, <2>7, <2>9
<1>4. CASE tracker[t] # NoCtx
  <2>1. /\ lastId' = lastId /\ root' = root
        /\ Entered(t, m) = [id |-> tracker[t].id, metadata |-> Merge(tracker[t].metadata, m)]
    BY <1>4 DEF Enter, Entered
  <2>2. /\ tracker[t] \in Context /\ tracker[t].id \in 1..MaxCtx /\ tracker[t].metadata \in Metadata
        /\ tracker[t].id <= lastId /\ DOMAIN root[tracker[t].id] \subseteq DOMAIN tracker[t].metadata
    BY <1>4 DEF Held, Context
  <2>3. /\ Merge(tracker[t].metadata, m) \in Metadata
        /\ DOMAIN tracker[t].metadata \subseteq DOMAIN Merge(tracker[t].metadata, m)
    <3> DEFINE old == tracker[t].metadata
    <3>1. old \in Metadata
      BY <2>2
    <3> HIDE DEF old
    <3>2. Merge(old, m) \in Metadata /\ DOMAIN Merge(old, m) = DOMAIN old \cup DOMAIN m
      BY <3>1, MergeIs
    <3> QED
      BY <3>2 DEF old
  <2>4. Entered(t, m) \in Context
    BY <2>1, <2>2, <2>3 DEF Context
  <2>5. tracker'[t] = [id |-> tracker[t].id, metadata |-> Merge(tracker[t].metadata, m)]
    BY <1>2, <2>1
  <2>6. Held(tracker'[t], lastId', root')
    <3>1. tracker'[t] \in Context /\ tracker'[t].id <= lastId'
          /\ DOMAIN root'[tracker'[t].id] \subseteq DOMAIN tracker'[t].metadata
      BY <2>1, <2>2, <2>3, <2>4, <2>5
    <3> QED
      BY <3>1 DEF Held
  <2> QED
    BY <1>2, <2>1, <2>4, <2>6 DEF Held
<1> QED
  BY <1>3, <1>4

------------------------------------------------------------------------------
(* Blocks *)

Token == [task : Task, old : Context \cup {NoCtx}]
Kinds == {"with", "decorator", "job"}
BlockSet == [kind : Kinds, key : Decorator \cup Job \cup {0}, token : Token]

(* Opening a block. *)
LEMMA PushIs ==
    ASSUME blocks \in [Task -> Seq(BlockSet)], NEW t \in Task, NEW b \in BlockSet, Pushed(t, b)
    PROVE  /\ blocks' \in [Task -> Seq(BlockSet)]
           /\ \A u \in Task \ {t} : blocks'[u] = blocks[u]
           /\ blocks'[t] = Append(blocks[t], b)
           /\ Len(blocks[t]) \in Nat
           /\ Len(blocks'[t]) = Len(blocks[t]) + 1 /\ blocks'[t][Len(blocks[t]) + 1] = b
           /\ \A i \in 1..Len(blocks[t]) : blocks'[t][i] = blocks[t][i]
           /\ DOMAIN blocks[t] = 1..Len(blocks[t]) /\ DOMAIN blocks'[t] = 1..Len(blocks[t]) + 1
<1>1. blocks' = [blocks EXCEPT ![t] = Append(blocks[t], b)] /\ blocks[t] \in Seq(BlockSet)
  BY DEF Pushed
<1> HIDE DEF BlockSet
<1>2. /\ Append(blocks[t], b) \in Seq(BlockSet)
      /\ Len(Append(blocks[t], b)) = Len(blocks[t]) + 1
      /\ Append(blocks[t], b)[Len(blocks[t]) + 1] = b
      /\ \A i \in 1..Len(blocks[t]) : Append(blocks[t], b)[i] = blocks[t][i]
      /\ Len(blocks[t]) \in Nat /\ DOMAIN blocks[t] = 1..Len(blocks[t])
      /\ DOMAIN Append(blocks[t], b) = 1..Len(blocks[t]) + 1
  BY <1>1
<1> QED
  BY <1>1, <1>2

(* Ending the innermost block. *)
LEMMA PopIs ==
    ASSUME blocks \in [Task -> Seq(BlockSet)], NEW t \in Task, blocks[t] # <<>>, Popped(t)
    PROVE  /\ blocks' \in [Task -> Seq(BlockSet)]
           /\ \A u \in Task \ {t} : blocks'[u] = blocks[u]
           /\ Len(blocks[t]) \in Nat \ {0}
           /\ Len(blocks'[t]) = Len(blocks[t]) - 1
           /\ \A i \in 1..Len(blocks[t]) - 1 : blocks'[t][i] = blocks[t][i]
           /\ DOMAIN blocks[t] = 1..Len(blocks[t]) /\ DOMAIN blocks'[t] = 1..Len(blocks[t]) - 1
           /\ Top(t) \in BlockSet /\ Len(blocks[t]) \in DOMAIN blocks[t]
           /\ Top(t) = blocks[t][Len(blocks[t])]
           /\ blocks'[t] = <<>> <=> Len(blocks[t]) = 1
<1> DEFINE s == SubSeq(blocks[t], 1, Len(blocks[t]) - 1)
<1>1. blocks' = [blocks EXCEPT ![t] = s] /\ blocks[t] \in Seq(BlockSet)
  BY DEF Popped
<1> HIDE DEF BlockSet
<1>2. Len(blocks[t]) \in Nat \ {0} /\ DOMAIN blocks[t] = 1..Len(blocks[t])
  BY <1>1
<1>3. blocks[t][Len(blocks[t])] \in BlockSet
  BY <1>1, <1>2
<1>4. s \in Seq(BlockSet)
  BY <1>1, <1>2
<1>5. Len(s) = Len(blocks[t]) - 1
  BY <1>1, <1>2
<1>6. \A i \in 1..Len(blocks[t]) - 1 : s[i] = blocks[t][i]
  BY <1>1, <1>2
<1>7. DOMAIN s = 1..Len(blocks[t]) - 1
  BY <1>4, <1>5
<1>8. s = <<>> <=> Len(blocks[t]) = 1
  <2> HIDE DEF s
  <2>1. s = <<>> <=> Len(s) = 0
    BY <1>4, EmptySeq
  <2> QED
    BY <1>2, <1>5, <2>1
<1> HIDE DEF s
<1>9. /\ blocks' \in [Task -> Seq(BlockSet)] /\ blocks'[t] = s
      /\ \A u \in Task \ {t} : blocks'[u] = blocks[u]
  BY <1>1, <1>4
<1>10. Top(t) = blocks[t][Len(blocks[t])] /\ Len(blocks[t]) \in DOMAIN blocks[t]
  BY <1>2 DEF Top
<1> QED
  BY <1>2, <1>3, <1>5, <1>6, <1>7, <1>8, <1>9, <1>10

------------------------------------------------------------------------------
(* Types *)

(* The inductive type invariant: besides the types, every context that a   *)
(* task, a transaction or a token holds still names what its outermost     *)
(* block said, and a block has the key of its kind.                        *)
TypeInv ==
    /\ style \in Styles
    /\ tracker \in [Task -> Context \cup {NoCtx}] /\ base \in [Task -> Context \cup {NoCtx}]
    /\ guc \in [Task -> Context \cup {NoCtx}]
    /\ blocks \in [Task -> Seq(BlockSet)]
    /\ token \in [Decorator -> Token \cup {NoToken}]
    /\ DOMAIN active \subseteq Job /\ \A j \in DOMAIN active : active[j] \in Token
    /\ open \in [Task -> BOOLEAN]
    /\ lastId \in 0..MaxCtx /\ DOMAIN root = 1..lastId

KeyInv ==
    \A t \in Task : \A i \in DOMAIN blocks[t] :
        /\ blocks[t][i].kind = "decorator" => blocks[t][i].key \in Decorator
        /\ blocks[t][i].kind = "job" => blocks[t][i].key \in Job

HeldInv ==
    /\ \A t \in Task : /\ Held(tracker[t], lastId, root) /\ Held(guc[t], lastId, root)
                       /\ \A i \in DOMAIN blocks[t] : Held(blocks[t][i].token.old, lastId, root)
    /\ \A d \in Decorator : token[d] # NoToken => Held(token[d].old, lastId, root)
    /\ \A j \in DOMAIN active : Held(active[j].old, lastId, root)

ContextInv == TypeInv /\ KeyInv /\ HeldInv

(* The steps that change blocks or the tracker. *)
LEMMA ContextPush ==
    ASSUME ContextInv, NEW t \in Task, NEW kind \in Kinds, NEW key \in Decorator \cup Job \cup {0},
           kind = "decorator" => key \in Decorator, kind = "job" => key \in Job,
           Pushed(t, Block(t, kind, key))
    PROVE  /\ blocks' \in [Task -> Seq(BlockSet)] /\ KeyInv'
           /\ TokenOf(t) \in Token /\ Held(TokenOf(t).old, lastId, root)
           /\ \A u \in Task : \A i \in DOMAIN blocks'[u] :
                 Held(blocks'[u][i].token.old, lastId, root)
<1> DEFINE b == Block(t, kind, key)
<1>1. TokenOf(t) \in Token /\ TokenOf(t).old = tracker[t] /\ Held(TokenOf(t).old, lastId, root)
  BY DEF ContextInv, TypeInv, HeldInv, TokenOf, Token
<1>2. b \in BlockSet /\ b.kind = kind /\ b.key = key /\ b.token = TokenOf(t)
  BY <1>1 DEF Block, BlockSet, ContextInv, TypeInv
<1>3. blocks \in [Task -> Seq(BlockSet)]
  BY DEF ContextInv, TypeInv
<1> HIDE DEF b
<1>4. /\ blocks' \in [Task -> Seq(BlockSet)]
      /\ \A u \in Task \ {t} : blocks'[u] = blocks[u]
      /\ Len(blocks[t]) \in Nat /\ blocks'[t][Len(blocks[t]) + 1] = b
      /\ \A i \in 1..Len(blocks[t]) : blocks'[t][i] = blocks[t][i]
      /\ DOMAIN blocks[t] = 1..Len(blocks[t]) /\ DOMAIN blocks'[t] = 1..Len(blocks[t]) + 1
  <2>1. Pushed(t, b)
    BY DEF b
  <2> QED
    BY <1>2, <1>3, <2>1, PushIs
<1>5. \A u \in Task : \A i \in DOMAIN blocks'[u] :
          \/ i \in DOMAIN blocks[u] /\ blocks'[u][i] = blocks[u][i]
          \/ blocks'[u][i] = b
  <2> SUFFICES ASSUME NEW u \in Task, NEW i \in DOMAIN blocks'[u]
               PROVE  \/ i \in DOMAIN blocks[u] /\ blocks'[u][i] = blocks[u][i]
                      \/ blocks'[u][i] = b
    OBVIOUS
  <2>1. CASE u = t
    <3>1. i \in 1..Len(blocks[t]) \/ i = Len(blocks[t]) + 1
      BY <1>4, <2>1
    <3> QED
      BY <1>4, <2>1, <3>1
  <2> QED
    BY <1>4, <2>1
<1>6. KeyInv'
  BY <1>2, <1>5 DEF ContextInv, KeyInv
<1>7. \A u \in Task : \A i \in DOMAIN blocks'[u] : Held(blocks'[u][i].token.old, lastId, root)
  BY <1>1, <1>2, <1>5 DEF ContextInv, HeldInv
<1> QED
  BY <1>1, <1>4, <1>6, <1>7

(* Leaving a block gives back its token.                                   *)
LEMMA ContextPop ==
    ASSUME ContextInv, NEW t \in Task, NEW kind, Exit(t, kind)
    PROVE  /\ blocks' \in [Task -> Seq(BlockSet)] /\ KeyInv'
           /\ \A u \in Task : \A i \in DOMAIN blocks'[u] :
                 i \in DOMAIN blocks[u] /\ blocks'[u][i] = blocks[u][i]
           /\ Top(t) \in BlockSet /\ Held(Top(t).token.old, lastId, root)
           /\ Top(t).kind = kind /\ Top(t).token \in Token
           /\ kind = "decorator" => Top(t).key \in Decorator
           /\ kind = "job" => Top(t).key \in Job
           /\ UNCHANGED <<open, guc, upserts, rows, inside, lastId, base, root, clashed>>
<1>1. blocks[t] # <<>> /\ Popped(t) /\ Top(t).kind = kind
      /\ UNCHANGED <<open, guc, upserts, rows, inside, lastId, base, root, clashed>>
  BY DEF Exit, ghosts
<1>2. blocks \in [Task -> Seq(BlockSet)]
  BY DEF ContextInv, TypeInv
<1>3. /\ blocks' \in [Task -> Seq(BlockSet)]
      /\ \A u \in Task \ {t} : blocks'[u] = blocks[u]
      /\ Len(blocks[t]) \in Nat \ {0}
      /\ \A i \in 1..Len(blocks[t]) - 1 : blocks'[t][i] = blocks[t][i]
      /\ DOMAIN blocks[t] = 1..Len(blocks[t]) /\ DOMAIN blocks'[t] = 1..Len(blocks[t]) - 1
      /\ Top(t) \in BlockSet /\ Len(blocks[t]) \in DOMAIN blocks[t]
      /\ Top(t) = blocks[t][Len(blocks[t])]
  BY <1>1, <1>2, PopIs
<1>4. \A u \in Task : \A i \in DOMAIN blocks'[u] :
          i \in DOMAIN blocks[u] /\ blocks'[u][i] = blocks[u][i]
  <2> SUFFICES ASSUME NEW u \in Task, NEW i \in DOMAIN blocks'[u]
               PROVE  i \in DOMAIN blocks[u] /\ blocks'[u][i] = blocks[u][i]
    OBVIOUS
  <2>1. CASE u = t
    <3>1. i \in 1..Len(blocks[t]) - 1 /\ i \in 1..Len(blocks[t])
      BY <1>3, <2>1
    <3> QED
      BY <1>3, <2>1, <3>1
  <2> QED
    BY <1>3, <2>1
<1>5. KeyInv'
  BY <1>4 DEF ContextInv, KeyInv
<1>6. /\ Held(Top(t).token.old, lastId, root)
      /\ kind = "decorator" => Top(t).key \in Decorator
      /\ kind = "job" => Top(t).key \in Job
  BY <1>1, <1>3 DEF ContextInv, HeldInv, KeyInv
<1>7. Top(t).token \in Token
  BY <1>3 DEF BlockSet
<1> QED
  BY <1>1, <1>3, <1>4, <1>5, <1>6, <1>7

(* A token puts back what it holds, if it is the task's own. *)
LEMMA ResetIs ==
    ASSUME ContextInv, NEW t \in Task, NEW tok \in Token \cup {NoToken}, Reset(t, tok),
           tok # NoToken => Held(tok.old, lastId, root)
    PROVE  /\ tracker' \in [Task -> Context \cup {NoCtx}]
           /\ \A u \in Task : Held(tracker'[u], lastId, root)
           /\ \A u \in Task \ {t} : tracker'[u] = tracker[u]
           /\ tok # NoToken /\ tok.task = t => tracker'[t] = tok.old
<1>1. CASE tok # NoToken /\ tok.task = t
  <2>1. tracker' = [tracker EXCEPT ![t] = tok.old] /\ tok.old \in Context \cup {NoCtx}
    BY <1>1 DEF Reset, Token
  <2> QED
    BY <1>1, <2>1 DEF ContextInv, TypeInv, HeldInv
<1>2. CASE ~ (tok # NoToken /\ tok.task = t)
  <2>1. tracker' = tracker
    BY <1>2 DEF Reset
  <2> QED
    BY <1>2, <2>1 DEF ContextInv, TypeInv, HeldInv
<1> QED
  BY <1>1, <1>2

(* At first there is no context and no block. *)
LEMMA ContextInit == Init => ContextInv
<1> SUFFICES ASSUME Init PROVE ContextInv
  OBVIOUS
<1>1. /\ style \in Styles /\ lastId = 0 /\ DOMAIN root = {} /\ MaxCtx \in Nat
      /\ DOMAIN active = {} /\ open \in [Task -> BOOLEAN]
      /\ tracker = [t \in Task |-> NoCtx] /\ base = [t \in Task |-> NoCtx]
      /\ guc = [t \in Task |-> NoCtx] /\ token = [d \in Decorator |-> NoToken]
  BY MetadataIs, Assumed DEF Init
<1>3. blocks \in [Task -> Seq(BlockSet)] /\ \A t \in Task : DOMAIN blocks[t] = {}
  <2>1. <<>> \in Seq(BlockSet) /\ DOMAIN <<>> = {}
    OBVIOUS
  <2>2. blocks = [t \in Task |-> <<>>]
    BY DEF Init
  <2> QED
    BY <2>1, <2>2
<1>4. lastId \in 0..MaxCtx /\ DOMAIN root = 1..lastId
  BY <1>1
<1>5. TypeInv
  BY <1>1, <1>3, <1>4 DEF TypeInv
<1>6. KeyInv /\ HeldInv
  BY <1>1, <1>3 DEF KeyInv, HeldInv, Held
<1> QED
  BY <1>5, <1>6 DEF ContextInv

(* Opening a block that enters a context. *)
LEMMA ContextEnter ==
    ASSUME ContextInv, NEW t \in Task, NEW m \in Metadata, Enter(t, m),
           NEW kind \in Kinds, NEW key \in Decorator \cup Job \cup {0},
           kind = "decorator" => key \in Decorator, kind = "job" => key \in Job,
           Pushed(t, Block(t, kind, key)), style' = style,
           token' \in [Decorator -> Token \cup {NoToken}],
           DOMAIN active' \subseteq Job,
           \A d \in Decorator : token'[d] = token[d] \/ token'[d] = TokenOf(t),
           \A j \in DOMAIN active' : \/ active'[j] = TokenOf(t)
                                     \/ j \in DOMAIN active /\ active'[j] = active[j]
    PROVE  ContextInv'
<1>1. /\ blocks' \in [Task -> Seq(BlockSet)] /\ KeyInv'
      /\ TokenOf(t) \in Token /\ Held(TokenOf(t).old, lastId, root)
      /\ \A u \in Task : \A i \in DOMAIN blocks'[u] :
            Held(blocks'[u][i].token.old, lastId, root)
  BY ContextPush
<1>2. /\ tracker' \in [Task -> Context \cup {NoCtx}] /\ lastId' \in 0..MaxCtx
      /\ DOMAIN root' = 1..lastId' /\ Held(tracker'[t], lastId', root')
      /\ \A u \in Task \ {t} : tracker'[u] = tracker[u]
      /\ \A c : Held(c, lastId, root) => Held(c, lastId', root')
  BY EnteredIs DEF ContextInv, TypeInv, HeldInv
<1>3. UNCHANGED <<base, open, guc>>
  BY DEF Enter, inDatabase
<1>4. TypeInv'
  BY <1>1, <1>2, <1>3 DEF ContextInv, TypeInv
<1>5. HeldInv'
  BY <1>1, <1>2, <1>3 DEF ContextInv, HeldInv
<1> QED
  BY <1>1, <1>4, <1>5 DEF ContextInv

(* Steps that open a block around a context.                               *)
LEMMA ContextEnters ==
    ASSUME ContextInv, style' = style, NEW t \in Task,
           \/ \E m \in Metadata : EnterWith(t, m)
           \/ \E d \in Decorator : EnterDecorator(t, d)
           \/ \E j \in Job : Prerun(t, j)
    PROVE  ContextInv'
<1>0. /\ token \in [Decorator -> Token \cup {NoToken}] /\ DOMAIN active \subseteq Job
      /\ NoData \in Metadata /\ TokenOf(t) \in Token
  BY MetadataIs DEF ContextInv, TypeInv, TokenOf, Token
<1>1. ASSUME NEW m \in Metadata, EnterWith(t, m) PROVE ContextInv'
  <2>1. /\ Enter(t, m) /\ Pushed(t, Block(t, "with", 0)) /\ token' = token /\ active' = active
    BY <1>1 DEF EnterWith
  <2> QED
    BY <1>0, <2>1, ContextEnter DEF Kinds
<1>2. ASSUME NEW d \in Decorator, EnterDecorator(t, d) PROVE ContextInv'
  <2>1. /\ Enter(t, NoData) /\ Pushed(t, Block(t, "decorator", d))
        /\ token' = [token EXCEPT ![d] = TokenOf(t)] /\ active' = active
    BY <1>2 DEF EnterDecorator
  <2>2. /\ token' \in [Decorator -> Token \cup {NoToken}]
        /\ \A e \in Decorator : token'[e] = token[e] \/ token'[e] = TokenOf(t)
    BY <1>0, <2>1
  <2> QED
    BY <1>0, <2>1, <2>2, ContextEnter DEF Kinds
<1>3. ASSUME NEW j \in Job, Prerun(t, j) PROVE ContextInv'
  <2>1. Pushed(t, Block(t, "job", j)) /\ token' = token
    BY <1>3 DEF Prerun
  <2>2. CASE j \in DOMAIN active
    <3>1. UNCHANGED <<tracker, active, lastId, root, base, open, guc>>
      BY <1>3, <2>2 DEF Prerun, inDatabase
    <3>2. /\ blocks' \in [Task -> Seq(BlockSet)] /\ KeyInv'
          /\ \A u \in Task : \A i \in DOMAIN blocks'[u] :
                Held(blocks'[u][i].token.old, lastId, root)
      BY <2>1, ContextPush DEF Kinds
    <3> QED
      BY <2>1, <3>1, <3>2 DEF ContextInv, TypeInv, HeldInv
  <2>3. CASE j \notin DOMAIN active
    <3>1. /\ Enter(t, NoData)
          /\ active' = [i \in DOMAIN active \cup {j} |-> IF i = j THEN TokenOf(t) ELSE active[i]]
      BY <1>3, <2>3 DEF Prerun
    <3>2. /\ DOMAIN active' \subseteq Job
          /\ \A i \in DOMAIN active' : \/ active'[i] = TokenOf(t)
                                       \/ i \in DOMAIN active /\ active'[i] = active[i]
      BY <1>0, <3>1
    <3> QED
      BY <1>0, <2>1, <3>1, <3>2, ContextEnter DEF Kinds
  <2> QED
    BY <2>2, <2>3
<1> QED
  BY <1>1, <1>2, <1>3

(* Steps that close one.                                                   *)
LEMMA ContextExits ==
    ASSUME ContextInv, style' = style, NEW t \in Task,
           ExitWith(t) \/ ExitDecorator(t) \/ Postrun(t)
    PROVE  ContextInv'
<1>1. ASSUME NEW kind, Exit(t, kind), NEW tok \in Token \cup {NoToken}, Reset(t, tok),
             tok # NoToken => Held(tok.old, lastId, root),
             token' \in [Decorator -> Token \cup {NoToken}],
             \A d \in Decorator : token'[d] = token[d] \/ token'[d] = NoToken,
             DOMAIN active' \subseteq DOMAIN active,
             \A j \in DOMAIN active' : active'[j] = active[j]
      PROVE  ContextInv'
  <2>1. /\ blocks' \in [Task -> Seq(BlockSet)] /\ KeyInv'
        /\ \A u \in Task : \A i \in DOMAIN blocks'[u] :
              i \in DOMAIN blocks[u] /\ blocks'[u][i] = blocks[u][i]
        /\ UNCHANGED <<open, guc, lastId, base, root>>
    BY <1>1, ContextPop
  <2>2. /\ tracker' \in [Task -> Context \cup {NoCtx}]
        /\ \A u \in Task : Held(tracker'[u], lastId, root)
    BY <1>1, ResetIs
  <2> QED
    BY <1>1, <2>1, <2>2 DEF ContextInv, TypeInv, HeldInv
<1>2. CASE ExitWith(t)
  <2>1. /\ Exit(t, "with") /\ Reset(t, Top(t).token)
        /\ UNCHANGED <<token, active>>
    BY <1>2 DEF ExitWith
  <2>2. Top(t).token \in Token /\ Held(Top(t).token.old, lastId, root)
    BY <2>1, ContextPop
  <2> QED
    BY <1>1, <2>1, <2>2 DEF ContextInv, TypeInv
<1>3. CASE ExitDecorator(t)
  <2> DEFINE d == Top(t).key
  <2>1. /\ Exit(t, "decorator") /\ Reset(t, token[d])
        /\ token' = [token EXCEPT ![d] = NoToken] /\ UNCHANGED active
    BY <1>3 DEF ExitDecorator
  <2>2. d \in Decorator
    BY <2>1, ContextPop
  <2> HIDE DEF d
  <2>3. /\ token[d] \in Token \cup {NoToken}
        /\ token[d] # NoToken => Held(token[d].old, lastId, root)
        /\ token' \in [Decorator -> Token \cup {NoToken}]
        /\ \A e \in Decorator : token'[e] = token[e] \/ token'[e] = NoToken
    BY <2>1, <2>2 DEF ContextInv, TypeInv, HeldInv
  <2> QED
    BY <1>1, <2>1, <2>3
<1>4. CASE Postrun(t)
  <2> DEFINE j == Top(t).key
             tok == IF j \in DOMAIN active THEN active[j] ELSE NoToken
  <2>1. /\ Exit(t, "job") /\ Reset(t, tok)
        /\ active' = [i \in DOMAIN active \ {j} |-> active[i]] /\ UNCHANGED token
    BY <1>4 DEF Postrun
  <2>2. tok \in Token \cup {NoToken} /\ (tok # NoToken => Held(tok.old, lastId, root))
    BY DEF ContextInv, TypeInv, HeldInv
  <2> HIDE DEF tok, j
  <2>3. DOMAIN active' \subseteq DOMAIN active /\ \A i \in DOMAIN active' : active'[i] = active[i]
    BY <2>1
  <2> QED
    BY <1>1, <2>1, <2>2, <2>3 DEF ContextInv, TypeInv
<1> QED
  BY <1>2, <1>3, <1>4

(* Updating, handing on and ending with a context. *)
LEMMA ContextMoves ==
    ASSUME ContextInv, style' = style, NEW t \in Task,
           \/ \E m \in Metadata : Update(t, m)
           \/ \E u \in Task : Spawn(t, u)
           \/ Ended(t)
    PROVE  ContextInv'
<1>1. ASSUME UNCHANGED <<blocks, token, active, open, guc, lastId, root>>,
             base' \in [Task -> Context \cup {NoCtx}],
             tracker' \in [Task -> Context \cup {NoCtx}],
             \A u \in Task : Held(tracker'[u], lastId, root)
      PROVE  ContextInv'
  BY <1>1 DEF ContextInv, TypeInv, KeyInv, HeldInv
<1>2. ASSUME NEW m \in Metadata, Update(t, m) PROVE ContextInv'
  <2> DEFINE c == tracker[t]
             merged == [c EXCEPT !.metadata = Merge(@, m)]
  <2>1. /\ c # NoCtx /\ tracker' = [tracker EXCEPT ![t] = merged]
        /\ base' = IF blocks[t] = <<>> THEN [base EXCEPT ![t] = merged] ELSE base
        /\ UNCHANGED <<blocks, token, active, open, guc, lastId, root>>
    BY <1>2 DEF Update, inDatabase
  <2>2. /\ c \in Context /\ c.id <= lastId /\ DOMAIN root[c.id] \subseteq DOMAIN c.metadata
    BY <2>1 DEF ContextInv, HeldInv, Held
  <2>3. c.metadata \in Metadata /\ c.id \in 1..MaxCtx
    BY <2>2 DEF Context
  <2> HIDE DEF c
  <2>4. /\ Merge(c.metadata, m) \in Metadata
        /\ DOMAIN c.metadata \subseteq DOMAIN Merge(c.metadata, m)
    <3> DEFINE old == c.metadata
    <3> HIDE DEF old
    <3>1. Merge(old, m) \in Metadata /\ DOMAIN Merge(old, m) = DOMAIN old \cup DOMAIN m
      BY <2>3, MergeIs DEF old
    <3> QED
      BY <3>1 DEF old
  <2>5. merged.id = c.id /\ merged.metadata = Merge(c.metadata, m) /\ merged \in Context
    BY <2>2, <2>4 DEF Context
  <2> HIDE DEF merged
  <2>6. Held(merged, lastId, root)
    BY <2>2, <2>4, <2>5 DEF Held
  <2>7. /\ base' \in [Task -> Context \cup {NoCtx}] /\ tracker' \in [Task -> Context \cup {NoCtx}]
        /\ \A u \in Task : Held(tracker'[u], lastId, root)
    BY <2>1, <2>5, <2>6 DEF ContextInv, TypeInv, HeldInv
  <2> QED
    BY <1>1, <2>1, <2>7
<1>3. ASSUME NEW u \in Task, Spawn(t, u) PROVE ContextInv'
  <2>1. /\ tracker' = [tracker EXCEPT ![u] = tracker[t]] /\ base' = [base EXCEPT ![u] = tracker[t]]
        /\ UNCHANGED <<blocks, token, active, open, guc, lastId, root>>
    BY <1>3 DEF Spawn, inDatabase
  <2>2. /\ base' \in [Task -> Context \cup {NoCtx}] /\ tracker' \in [Task -> Context \cup {NoCtx}]
        /\ \A v \in Task : Held(tracker'[v], lastId, root)
    BY <2>1 DEF ContextInv, TypeInv, HeldInv
  <2> QED
    BY <1>1, <2>1, <2>2
<1>4. CASE Ended(t)
  <2>1. /\ tracker' = [tracker EXCEPT ![t] = NoCtx] /\ base' = [base EXCEPT ![t] = NoCtx]
        /\ UNCHANGED <<blocks, token, active, open, guc, lastId, root>>
    BY <1>4 DEF Ended, inDatabase
  <2>2. /\ base' \in [Task -> Context \cup {NoCtx}] /\ tracker' \in [Task -> Context \cup {NoCtx}]
        /\ \A v \in Task : Held(tracker'[v], lastId, root)
    BY <2>1 DEF ContextInv, TypeInv, HeldInv, Held
  <2> QED
    BY <1>1, <2>1, <2>2
<1> QED
  BY <1>2, <1>3, <1>4

(* A transaction is given the context of its task, or keeps its own. *)
LEMMA ContextDatabase ==
    ASSUME ContextInv, style' = style, NEW t \in Task, DatabaseStep(t)
    PROVE  ContextInv'
<1>1. ASSUME UNCHANGED <<tracker, base, blocks, token, active, lastId, root>>,
             open' \in [Task -> BOOLEAN], guc' \in [Task -> Context \cup {NoCtx}],
             \A u \in Task : Held(guc'[u], lastId, root)
      PROVE  ContextInv'
  BY <1>1 DEF ContextInv, TypeInv, KeyInv, HeldInv
<1>2. ASSUME NEW injectable \in BOOLEAN, Statement(t, injectable) PROVE ContextInv'
  <2> DEFINE injected == injectable /\ tracker[t] # NoCtx
             now == IF injected THEN tracker[t] ELSE guc[t]
  <2>1. /\ UNCHANGED <<tracker, base, blocks, token, active, open, lastId, root>>
        /\ guc' = guc \/ guc' = [guc EXCEPT ![t] = now]
    BY <1>2 DEF Statement, inProcess, ghosts
  <2>2. now \in Context \cup {NoCtx} /\ Held(now, lastId, root)
    BY DEF ContextInv, TypeInv, HeldInv
  <2> HIDE DEF now
  <2>3. /\ open' \in [Task -> BOOLEAN] /\ guc' \in [Task -> Context \cup {NoCtx}]
        /\ \A u \in Task : Held(guc'[u], lastId, root)
    BY <2>1, <2>2 DEF ContextInv, TypeInv, HeldInv
  <2> QED
    BY <1>1, <2>1, <2>3
<1>3. CASE Begin(t)
  <2>1. /\ UNCHANGED <<tracker, base, blocks, token, active, guc, lastId, root>>
        /\ open' = [open EXCEPT ![t] = TRUE]
    BY <1>3 DEF Begin, inProcess, ghosts
  <2> QED
    BY <1>1, <2>1 DEF ContextInv, TypeInv, HeldInv
<1>4. CASE Close(t)
  <2>1. /\ UNCHANGED <<tracker, base, blocks, token, active, lastId, root>>
        /\ open' = [open EXCEPT ![t] = FALSE] /\ guc' = [guc EXCEPT ![t] = NoCtx]
    BY <1>4 DEF Close, inProcess, ghosts
  <2>2. /\ open' \in [Task -> BOOLEAN] /\ guc' \in [Task -> Context \cup {NoCtx}]
        /\ \A u \in Task : Held(guc'[u], lastId, root)
    BY <2>1 DEF ContextInv, TypeInv, HeldInv, Held
  <2> QED
    BY <1>1, <2>1, <2>2
<1> QED
  BY <1>2, <1>3, <1>4 DEF DatabaseStep, Commit, Rollback

(* Every step keeps the contexts held. *)
LEMMA ContextStep == ContextInv /\ [Next]_vars => ContextInv'
<1> SUFFICES ASSUME ContextInv, [Next]_vars PROVE ContextInv'
  OBVIOUS
<1>1. CASE UNCHANGED vars
  <2>1. UNCHANGED <<style, tracker, base, blocks, token, active, open, guc, lastId, root>>
    BY <1>1 DEF vars, inProcess, inDatabase, ghosts
  <2> QED
    BY <2>1 DEF ContextInv, TypeInv, KeyInv, HeldInv
<1>2. ASSUME NEW t \in Task, style' = style, BlockStep(t) PROVE ContextInv'
  BY <1>2, ContextEnters, ContextExits, ContextMoves DEF BlockStep
<1>3. ASSUME NEW t \in Task, style' = style, DecoratorStep(t) \/ CeleryStep(t) PROVE ContextInv'
  BY <1>3, ContextEnters, ContextExits DEF DecoratorStep, CeleryStep
<1> QED
  BY <1>1, <1>2, <1>3, ContextDatabase DEF Next


(* A block's kind is the one it was opened with. *)
LEMMA BlockIs ==
    ASSUME ContextInv, NEW t \in Task, NEW kind \in Kinds, NEW key \in Decorator \cup Job \cup {0}
    PROVE  /\ Block(t, kind, key) \in BlockSet
           /\ Block(t, kind, key).kind = kind /\ Block(t, kind, key).key = key
           /\ Block(t, kind, key).token = TokenOf(t)
BY DEF ContextInv, TypeInv, TokenOf, Token, Block, BlockSet

------------------------------------------------------------------------------
(* Context rows *)

(* A row for context i that says m, when n ids are drawn and r is what the *)
(* outermost blocks said.                                                  *)
RowOk(i, m, n, r) == i \in 1..n /\ m \in Metadata /\ DOMAIN r[i] \subseteq DOMAIN m

(* Rows name all their outermost block said, in a transaction as well as   *)
(* committed.                                                              *)
RowsInv ==
    /\ upserts = [t \in Task |-> upserts[t]]
    /\ \A t \in Task : \A i \in DOMAIN upserts[t] : RowOk(i, upserts[t][i], lastId, root)
    /\ \A i \in DOMAIN rows : RowOk(i, rows[i], lastId, root)

(* What the outermost block of a context said stays what it was. *)
LEMMA RootStays ==
    ASSUME ContextInv, [Next]_vars
    PROVE  /\ \A i, m : RowOk(i, m, lastId, root) => RowOk(i, m, lastId', root')
           /\ (\A t \in Task : ~ DatabaseStep(t)) => UNCHANGED <<upserts, rows>>
<1>0. lastId \in Nat /\ DOMAIN root = 1..lastId
  BY Assumed DEF ContextInv, TypeInv
<1>1. ASSUME UNCHANGED <<lastId, root>>
      PROVE  \A i, m : RowOk(i, m, lastId, root) => RowOk(i, m, lastId', root')
  BY <1>1
<1>2. ASSUME NEW t \in Task, NEW m0 \in Metadata, Enter(t, m0)
      PROVE  \A i, m : RowOk(i, m, lastId, root) => RowOk(i, m, lastId', root')
  <2>1. CASE tracker[t] = NoCtx
    <3>1. /\ lastId' = lastId + 1
          /\ root' = [i \in DOMAIN root \cup {lastId'} |-> IF i = lastId' THEN m0 ELSE root[i]]
      BY <1>2, <2>1 DEF Enter
    <3>2. \A i \in 1..lastId : root'[i] = root[i] /\ i \in 1..lastId'
      BY <1>0, <3>1
    <3> QED
      BY <3>2 DEF RowOk
  <2>2. CASE tracker[t] # NoCtx
    BY <1>1, <1>2, <2>2 DEF Enter
  <2> QED
    BY <2>1, <2>2
<1>3. ASSUME NEW t \in Task, BlockStep(t)
      PROVE  /\ \A i, m : RowOk(i, m, lastId, root) => RowOk(i, m, lastId', root')
             /\ UNCHANGED <<upserts, rows>>
  <2>1. ASSUME NEW m \in Metadata, EnterWith(t, m)
        PROVE  Enter(t, m) /\ UNCHANGED <<upserts, rows>>
    BY <2>1 DEF EnterWith, Enter, inDatabase
  <2>2. (\E m \in Metadata : Update(t, m)) \/ ExitWith(t) \/ Ended(t) \/ (\E u \in Task : Spawn(t, u))
        => UNCHANGED <<lastId, root, upserts, rows>>
    BY DEF Update, ExitWith, Exit, Ended, Spawn, ghosts, inDatabase
  <2> QED
    BY <1>1, <1>2, <1>3, <2>1, <2>2 DEF BlockStep
<1>4. ASSUME NEW t \in Task, DecoratorStep(t) \/ CeleryStep(t)
      PROVE  /\ \A i, m : RowOk(i, m, lastId, root) => RowOk(i, m, lastId', root')
             /\ UNCHANGED <<upserts, rows>>
  <2>1. ASSUME NEW d \in Decorator, EnterDecorator(t, d)
        PROVE  Enter(t, NoData) /\ UNCHANGED <<upserts, rows>>
    BY <2>1 DEF EnterDecorator, Enter, inDatabase
  <2>2. ASSUME NEW j \in Job, Prerun(t, j)
        PROVE  /\ Enter(t, NoData) \/ UNCHANGED <<lastId, root>>
               /\ UNCHANGED <<upserts, rows>>
    BY <2>2 DEF Prerun, Enter, inDatabase
  <2>3. ExitDecorator(t) \/ Postrun(t) => UNCHANGED <<lastId, root, upserts, rows>>
    BY DEF ExitDecorator, Postrun, Exit, ghosts
  <2>4. NoData \in Metadata
    BY MetadataIs
  <2> QED
    BY <1>1, <1>2, <1>4, <2>1, <2>2, <2>3, <2>4 DEF DecoratorStep, CeleryStep
<1>5. ASSUME NEW t \in Task, DatabaseStep(t) PROVE UNCHANGED <<lastId, root>>
  BY <1>5 DEF DatabaseStep, Statement, Begin, Commit, Rollback, Close, ghosts
<1>6. CASE UNCHANGED vars
  BY <1>1, <1>6 DEF vars, inDatabase, ghosts
<1>7. CASE Next
  BY <1>1, <1>3, <1>4, <1>5, <1>7 DEF Next
<1> QED
  BY <1>6, <1>7

(* The upsert of one statement. *)
LEMMA StatementRow ==
    ASSUME ContextInv, RowsInv, NEW t \in Task, NEW injectable \in BOOLEAN,
           Statement(t, injectable)
    PROVE  \E new : /\ \A i \in DOMAIN new : RowOk(i, new[i], lastId, root)
                    /\ IF open[t] THEN upserts' = [upserts EXCEPT ![t] = new] /\ UNCHANGED rows
                                  ELSE rows' = Attach(rows, new) /\ UNCHANGED upserts
                    /\ UNCHANGED <<lastId, root>>
<1> DEFINE injected == injectable /\ tracker[t] # NoCtx
           now == IF injected THEN tracker[t] ELSE guc[t]
           new == Upsert(upserts[t], now.id, now.metadata)
<1>1. now \in Context /\ Held(now, lastId, root) /\ now # NoCtx
  BY Assumed DEF Statement, ContextInv, TypeInv, HeldInv
<1>2. now.id \in 1..lastId /\ now.metadata \in Metadata /\ DOMAIN root[now.id] \subseteq DOMAIN now.metadata
  <2>1. now.id \in 1..MaxCtx /\ now.metadata \in Metadata /\ now.id <= lastId
    BY <1>1 DEF Context, Held
  <2>2. lastId \in Nat /\ MaxCtx \in Nat
    BY Assumed DEF ContextInv, TypeInv
  <2> QED
    BY <1>1, <2>1, <2>2 DEF Held
<1>3. /\ IF open[t] THEN upserts' = [upserts EXCEPT ![t] = new] /\ UNCHANGED rows
                    ELSE rows' = Attach(rows, new) /\ UNCHANGED upserts
      /\ UNCHANGED <<lastId, root>>
  BY DEF Statement, ghosts
<1>4. DOMAIN new = DOMAIN upserts[t] \cup {now.id}
      /\ \A i \in DOMAIN new : new[i] = IF i = now.id THEN now.metadata ELSE upserts[t][i]
  BY DEF Upsert
<1> HIDE DEF now, new
<1>5. \A i \in DOMAIN new : RowOk(i, new[i], lastId, root)
  BY <1>2, <1>4 DEF RowsInv, RowOk
<1> QED
  BY <1>3, <1>5

(* Committing rows. *)
LEMMA AttachRows ==
    ASSUME RowsInv, NEW new, rows' = Attach(rows, new),
           \A i \in DOMAIN new : RowOk(i, new[i], lastId, root)
    PROVE  \A i \in DOMAIN rows' : RowOk(i, rows'[i], lastId, root)
<1>1. /\ DOMAIN rows' = DOMAIN rows \cup DOMAIN new
      /\ \A i \in DOMAIN rows' : rows'[i] = IF i \in DOMAIN new THEN new[i] ELSE rows[i]
  BY DEF Attach, Merge
<1> QED
  BY <1>1 DEF RowsInv

(* Every step keeps the context rows.                                      *)
LEMMA RowsStep == ContextInv /\ RowsInv /\ [Next]_vars => RowsInv'
<1> SUFFICES ASSUME ContextInv, RowsInv, [Next]_vars PROVE RowsInv'
  OBVIOUS
<1>1. \A i, m : RowOk(i, m, lastId, root) => RowOk(i, m, lastId', root')
  BY RootStays
<1>2. ASSUME UNCHANGED <<upserts, rows>> PROVE RowsInv'
  BY <1>1, <1>2 DEF RowsInv
<1>3. ASSUME NEW t \in Task, NEW injectable \in BOOLEAN, Statement(t, injectable) PROVE RowsInv'
  <2>1. PICK new : /\ \A i \in DOMAIN new : RowOk(i, new[i], lastId, root)
                   /\ IF open[t] THEN upserts' = [upserts EXCEPT ![t] = new] /\ UNCHANGED rows
                                 ELSE rows' = Attach(rows, new) /\ UNCHANGED upserts
                   /\ UNCHANGED <<lastId, root>>
    BY <1>3, StatementRow
  <2>2. CASE open[t]
    BY <2>1, <2>2 DEF RowsInv
  <2>3. CASE ~ open[t]
    <3>1. \A i \in DOMAIN rows' : RowOk(i, rows'[i], lastId, root)
      BY <2>1, <2>3, AttachRows
    <3> QED
      BY <2>1, <2>3, <3>1 DEF RowsInv
  <2> QED
    BY <2>2, <2>3
<1>4. ASSUME NEW t \in Task, Close(t), rows' = Attach(rows, upserts[t]) \/ UNCHANGED rows
      PROVE  RowsInv'
  <2>1. upserts' = [upserts EXCEPT ![t] = NoData] /\ UNCHANGED <<lastId, root>>
    BY <1>4 DEF Close, ghosts
  <2>2. \A u \in Task : \A i \in DOMAIN upserts'[u] : i \in DOMAIN upserts[u] /\ upserts'[u][i] = upserts[u][i]
    BY <2>1, MetadataIs DEF RowsInv
  <2>3. \A i \in DOMAIN rows' : RowOk(i, rows'[i], lastId, root)
    BY <1>4, AttachRows DEF RowsInv
  <2>4. upserts' = [u \in Task |-> upserts'[u]]
    BY <2>1 DEF RowsInv
  <2> QED
    BY <2>1, <2>2, <2>3, <2>4 DEF RowsInv
<1>5. ASSUME NEW t \in Task, DatabaseStep(t) PROVE RowsInv'
  <2>1. Begin(t) => UNCHANGED <<upserts, rows>>
    BY DEF Begin
  <2> QED
    BY <1>2, <1>3, <1>4, <1>5, <2>1 DEF DatabaseStep, Commit, Rollback
<1> QED
  BY <1>2, <1>5, RootStays

(* At first there is none.                                                 *)
LEMMA RowsInit == Init => RowsInv
<1> SUFFICES ASSUME Init PROVE RowsInv
  OBVIOUS
<1>1. upserts = [t \in Task |-> NoData] /\ rows = NoData
  BY DEF Init
<1> QED
  BY <1>1, MetadataIs DEF RowsInv

------------------------------------------------------------------------------
(* Blocks and tasks *)

(* Blocks whose token is kept somewhere else than in the block. *)
Shared == {"decorator", "job"}

(* A block has a token of its own task, and an active job has a block.     *)
OwnInv ==
    /\ \A t \in Task : \A i \in DOMAIN blocks[t] : blocks[t][i].token.task = t
    /\ \A j \in DOMAIN active : \E t \in Task : \E i \in DOMAIN blocks[t] :
          blocks[t][i].kind = "job" /\ blocks[t][i].key = j

(* A task that has shared nothing is back at the context it was spawned    *)
(* with when its outermost block has ended.                                *)
BaseInv ==
    \A t \in Task \ clashed :
        /\ blocks[t] = <<>> => tracker[t] = base[t]
        /\ blocks[t] # <<>> => blocks[t][1].token.old = base[t]

(* Nobody else has a block with the object or the task id of one of its    *)
(* blocks, so that the token kept there is the one of that block.          *)
AloneInv ==
    \A t \in Task \ clashed : \A i \in DOMAIN blocks[t] :
        /\ blocks[t][i].kind = "decorator" => token[blocks[t][i].key] = blocks[t][i].token
        /\ blocks[t][i].kind = "job" => /\ blocks[t][i].key \in DOMAIN active
                                        /\ active[blocks[t][i].key] = blocks[t][i].token
        /\ blocks[t][i].kind \in Shared =>
              \A u \in Task : \A k \in DOMAIN blocks[u] :
                  blocks[u][k].kind \in Shared /\ blocks[u][k].key = blocks[t][i].key => u = t /\ k = i

(* What its transaction has was set inside the context. *)
GucInv ==
    /\ inside = [t \in Task |-> inside[t]]
    /\ \A t \in Task \ clashed : guc[t] # NoCtx => guc[t].id \in inside[t]

OwnershipInv == OwnInv /\ BaseInv /\ AloneInv /\ GucInv

(* What opening a block does to the blocks, in the form used below. *)
LEMMA PushFrame ==
    ASSUME blocks \in [Task -> Seq(BlockSet)], NEW t \in Task, NEW b \in BlockSet, Pushed(t, b)
    PROVE  \E n : /\ \A u \in Task \ {t} : blocks'[u] = blocks[u]
                  /\ DOMAIN blocks'[t] = DOMAIN blocks[t] \cup {n} /\ n \notin DOMAIN blocks[t]
                  /\ blocks'[t][n] = b /\ \A i \in DOMAIN blocks[t] : blocks'[t][i] = blocks[t][i]
                  /\ blocks'[t] # <<>>
                  /\ IF blocks[t] = <<>> THEN n = 1 ELSE 1 \in DOMAIN blocks[t]
<1> DEFINE n == Len(blocks[t]) + 1
<1>1. /\ blocks' \in [Task -> Seq(BlockSet)]
      /\ \A u \in Task \ {t} : blocks'[u] = blocks[u]
      /\ Len(blocks[t]) \in Nat /\ blocks'[t][n] = b
      /\ Len(blocks'[t]) = n
      /\ \A i \in 1..Len(blocks[t]) : blocks'[t][i] = blocks[t][i]
      /\ DOMAIN blocks[t] = 1..Len(blocks[t]) /\ DOMAIN blocks'[t] = 1..n
  BY PushIs
<1>2. DOMAIN blocks'[t] = DOMAIN blocks[t] \cup {n} /\ n \notin DOMAIN blocks[t]
  BY <1>1
<1>3. (blocks[t] = <<>> <=> Len(blocks[t]) = 0) /\ (blocks'[t] = <<>> <=> Len(blocks'[t]) = 0)
  BY <1>1, EmptySeq
<1>4. blocks'[t] # <<>> /\ IF blocks[t] = <<>> THEN n = 1 ELSE 1 \in DOMAIN blocks[t]
  BY <1>1, <1>3
<1>5. \A i \in DOMAIN blocks[t] : blocks'[t][i] = blocks[t][i]
  BY <1>1
<1> HIDE DEF n
<1> QED
  BY <1>1, <1>2, <1>4, <1>5

(* The same of ending one. *)
LEMMA PopFrame ==
    ASSUME blocks \in [Task -> Seq(BlockSet)], NEW t \in Task, blocks[t] # <<>>, Popped(t)
    PROVE  \E n : /\ \A u \in Task \ {t} : blocks'[u] = blocks[u]
                  /\ DOMAIN blocks'[t] = DOMAIN blocks[t] \ {n} /\ n \in DOMAIN blocks[t]
                  /\ blocks[t][n] = Top(t) /\ \A i \in DOMAIN blocks'[t] : blocks'[t][i] = blocks[t][i]
                  /\ IF blocks'[t] = <<>> THEN n = 1 ELSE 1 \in DOMAIN blocks'[t]
<1> DEFINE n == Len(blocks[t])
<1>1. /\ \A u \in Task \ {t} : blocks'[u] = blocks[u]
      /\ n \in Nat \ {0} /\ Len(blocks'[t]) = n - 1
      /\ \A i \in 1..n - 1 : blocks'[t][i] = blocks[t][i]
      /\ DOMAIN blocks[t] = 1..n /\ DOMAIN blocks'[t] = 1..n - 1
      /\ n \in DOMAIN blocks[t] /\ Top(t) = blocks[t][n]
      /\ blocks'[t] = <<>> <=> n = 1
  BY PopIs
<1> HIDE DEF n
<1>2. DOMAIN blocks'[t] = DOMAIN blocks[t] \ {n}
  BY <1>1
<1>3. IF blocks'[t] = <<>> THEN n = 1 ELSE 1 \in DOMAIN blocks'[t]
  BY <1>1
<1> QED
  BY <1>1, <1>2, <1>3

(* Opening a block. *)
LEMMA OwnershipPush ==
    ASSUME ContextInv, OwnershipInv, NEW t \in Task, NEW b \in BlockSet, Pushed(t, b),
           b.token = TokenOf(t), b.kind = "decorator" => b.key \in Decorator, b.kind = "job" => b.key \in Job,
           UNCHANGED <<style, base, guc, inside>>,
           \A u \in Task \ {t} : tracker'[u] = tracker[u],
           \A d \in Decorator : token'[d] = token[d] \/ (b.kind = "decorator" /\ b.key = d),
           b.kind = "decorator" => token'[b.key] = b.token,
           \A j \in DOMAIN active : j \in DOMAIN active' /\ active'[j] = active[j],
           \A j \in DOMAIN active' : j \in DOMAIN active \/ (b.kind = "job" /\ b.key = j),
           b.kind = "job" /\ b.key \notin DOMAIN active => b.key \in DOMAIN active' /\ active'[b.key] = b.token,
           clashed \subseteq clashed',
           b.kind \in Shared /\ Holders(b.key) # {} => Holders(b.key) \cup {t} \subseteq clashed'
    PROVE  OwnershipInv'
<1>1. PICK n : /\ \A u \in Task \ {t} : blocks'[u] = blocks[u]
               /\ DOMAIN blocks'[t] = DOMAIN blocks[t] \cup {n} /\ n \notin DOMAIN blocks[t]
               /\ blocks'[t][n] = b /\ \A i \in DOMAIN blocks[t] : blocks'[t][i] = blocks[t][i]
               /\ blocks'[t] # <<>>
               /\ IF blocks[t] = <<>> THEN n = 1 ELSE 1 \in DOMAIN blocks[t]
  <2>1. blocks \in [Task -> Seq(BlockSet)]
    BY DEF ContextInv, TypeInv
  <2> QED
    BY <2>1, PushFrame
<1>2. \A u \in Task : \A i \in DOMAIN blocks[u] : i \in DOMAIN blocks'[u] /\ blocks'[u][i] = blocks[u][i]
  BY <1>1
<1>3. \A u \in Task : \A i \in DOMAIN blocks'[u] :
          \/ i \in DOMAIN blocks[u] /\ blocks'[u][i] = blocks[u][i]
          \/ u = t /\ i = n /\ blocks'[u][i] = b
  BY <1>1
<1>4. b.token.task = t /\ b.token.old = tracker[t]
  BY DEF TokenOf
<1>5. OwnInv'
  <2>1. \A u \in Task : \A i \in DOMAIN blocks'[u] : blocks'[u][i].token.task = u
    BY <1>3, <1>4 DEF OwnershipInv, OwnInv
  <2>2. ASSUME NEW j \in DOMAIN active'
        PROVE  \E u \in Task : \E i \in DOMAIN blocks'[u] : blocks'[u][i].kind = "job" /\ blocks'[u][i].key = j
    <3>1. CASE b.kind = "job" /\ b.key = j
      BY <1>1, <3>1
    <3>2. CASE j \in DOMAIN active
      <4>1. PICK u \in Task : \E i \in DOMAIN blocks[u] : blocks[u][i].kind = "job" /\ blocks[u][i].key = j
        BY <3>2 DEF OwnershipInv, OwnInv
      <4> QED
        BY <1>2, <4>1
    <3> QED
      BY <2>2, <3>1, <3>2
  <2> QED
    BY <2>1, <2>2 DEF OwnInv
<1>6. BaseInv'
  <2> SUFFICES ASSUME NEW u \in Task, u \notin clashed'
               PROVE  /\ blocks'[u] = <<>> => tracker'[u] = base'[u]
                      /\ blocks'[u] # <<>> => blocks'[u][1].token.old = base'[u]
    BY DEF BaseInv
  <2>1. u \notin clashed
    OBVIOUS
  <2>2. CASE u # t
    BY <1>1, <2>1, <2>2 DEF OwnershipInv, BaseInv
  <2>3. CASE u = t /\ blocks[t] = <<>>
    BY <1>1, <1>4, <2>1, <2>3 DEF OwnershipInv, BaseInv
  <2>4. CASE u = t /\ blocks[t] # <<>>
    BY <1>1, <2>1, <2>4 DEF OwnershipInv, BaseInv
  <2> QED
    BY <2>2, <2>3, <2>4
<1>7. b.kind \in Shared /\ t \notin clashed' => b.key \notin DOMAIN active \/ b.kind = "decorator"
  <2> SUFFICES ASSUME b.kind = "job", t \notin clashed', b.key \in DOMAIN active PROVE FALSE
    BY DEF Shared
  <2>1. PICK u \in Task : \E i \in DOMAIN blocks[u] : blocks[u][i].kind = "job" /\ blocks[u][i].key = b.key
    BY DEF OwnershipInv, OwnInv
  <2>2. u \in Holders(b.key)
    BY <2>1 DEF Holders
  <2> QED
    BY <2>2 DEF Shared
<1>8. ASSUME NEW u \in Task, u \notin clashed', NEW i \in DOMAIN blocks[u], b.kind \in Shared
      PROVE  blocks[u][i].key # b.key
  <2> SUFFICES ASSUME blocks[u][i].key = b.key PROVE FALSE
    OBVIOUS
  <2>1. u \in Holders(b.key)
    BY DEF Holders
  <2> QED
    BY <1>8, <2>1
<1>9. ASSUME t \notin clashed', b.kind \in Shared, NEW u \in Task, NEW i \in DOMAIN blocks[u]
      PROVE  blocks[u][i].key # b.key
  <2> SUFFICES ASSUME blocks[u][i].key = b.key PROVE FALSE
    OBVIOUS
  <2>1. u \in Holders(b.key)
    BY DEF Holders
  <2> QED
    BY <1>9, <2>1
<1>10. AloneInv'
  <2> SUFFICES ASSUME NEW u \in Task, u \notin clashed', NEW i \in DOMAIN blocks'[u]
               PROVE  /\ blocks'[u][i].kind = "decorator" => token'[blocks'[u][i].key] = blocks'[u][i].token
                      /\ blocks'[u][i].kind = "job" => /\ blocks'[u][i].key \in DOMAIN active'
                                                       /\ active'[blocks'[u][i].key] = blocks'[u][i].token
                      /\ blocks'[u][i].kind \in Shared =>
                            \A v \in Task : \A k \in DOMAIN blocks'[v] :
                               blocks'[v][k].kind \in Shared /\ blocks'[v][k].key = blocks'[u][i].key => v = u /\ k = i
    BY DEF AloneInv
  <2>1. CASE i \in DOMAIN blocks[u] /\ blocks'[u][i] = blocks[u][i]
    <3> DEFINE c == blocks[u][i]
    <3>0. u \notin clashed /\ i \in DOMAIN blocks[u] /\ blocks'[u][i] = c
      BY <2>1
    <3>1. /\ c.kind = "decorator" => c.key \in Decorator /\ token[c.key] = c.token
          /\ c.kind = "job" => c.key \in DOMAIN active /\ active[c.key] = c.token
          /\ c.kind \in Shared =>
                \A v \in Task : \A k \in DOMAIN blocks[v] :
                   blocks[v][k].kind \in Shared /\ blocks[v][k].key = c.key => v = u /\ k = i
      BY <3>0 DEF OwnershipInv, AloneInv, ContextInv, KeyInv
    <3>2. b.kind \in Shared => c.key # b.key
      BY <1>8, <2>1
    <3> HIDE DEF c
    <3>3. c.kind = "decorator" => token'[c.key] = c.token
      BY <3>1, <3>2 DEF Shared
    <3>4. c.kind = "job" => c.key \in DOMAIN active' /\ active'[c.key] = c.token
      BY <3>1
    <3>5. ASSUME c.kind \in Shared, NEW v \in Task, NEW k \in DOMAIN blocks'[v],
                 blocks'[v][k].kind \in Shared, blocks'[v][k].key = c.key
          PROVE  v = u /\ k = i
      BY <1>3, <3>1, <3>2, <3>5
    <3> QED
      BY <3>0, <3>3, <3>4, <3>5
  <2>2. CASE u = t /\ i = n /\ blocks'[u][i] = b
    <3>1. b.kind = "decorator" => token'[b.key] = b.token
      OBVIOUS
    <3>2. b.kind = "job" => b.key \in DOMAIN active' /\ active'[b.key] = b.token
      BY <1>7, <2>2 DEF Shared
    <3>3. ASSUME b.kind \in Shared, NEW v \in Task, NEW k \in DOMAIN blocks'[v],
                 blocks'[v][k].kind \in Shared, blocks'[v][k].key = b.key
          PROVE  v = t /\ k = n
      BY <1>3, <1>9, <2>2, <3>3
    <3> QED
      BY <2>2, <3>1, <3>2, <3>3
  <2> QED
    BY <1>3, <2>1, <2>2
<1>11. GucInv'
  BY DEF OwnershipInv, GucInv
<1> QED
  BY <1>5, <1>6, <1>10, <1>11 DEF OwnershipInv

(* Ending one. *)
LEMMA OwnershipPop ==
    ASSUME ContextInv, OwnershipInv, NEW t \in Task, NEW kind, Exit(t, kind), style' = style,
           \A u \in Task \ {t} : tracker'[u] = tracker[u],
           t \notin clashed => tracker'[t] = Top(t).token.old,
           \A d \in Decorator : token'[d] = token[d] \/ (kind = "decorator" /\ Top(t).key = d),
           \A j \in DOMAIN active' : j \in DOMAIN active /\ active'[j] = active[j],
           \A j \in DOMAIN active : j \in DOMAIN active' \/ (kind = "job" /\ Top(t).key = j),
           kind = "job" => Top(t).key \notin DOMAIN active'
    PROVE  OwnershipInv'
<1>0. /\ blocks[t] # <<>> /\ Popped(t) /\ Top(t).kind = kind
      /\ UNCHANGED <<guc, inside, base, clashed>>
  BY DEF Exit, ghosts
<1>1. PICK n : /\ \A u \in Task \ {t} : blocks'[u] = blocks[u]
               /\ DOMAIN blocks'[t] = DOMAIN blocks[t] \ {n} /\ n \in DOMAIN blocks[t]
               /\ blocks[t][n] = Top(t) /\ \A i \in DOMAIN blocks'[t] : blocks'[t][i] = blocks[t][i]
               /\ IF blocks'[t] = <<>> THEN n = 1 ELSE 1 \in DOMAIN blocks'[t]
  <2>1. blocks \in [Task -> Seq(BlockSet)]
    BY DEF ContextInv, TypeInv
  <2> QED
    BY <1>0, <2>1, PopFrame
<1>2. \A u \in Task : \A i \in DOMAIN blocks'[u] :
          i \in DOMAIN blocks[u] /\ blocks'[u][i] = blocks[u][i] /\ ~ (u = t /\ i = n)
  BY <1>1
<1>3. \A u \in Task : \A i \in DOMAIN blocks[u] :
          \/ i \in DOMAIN blocks'[u] /\ blocks'[u][i] = blocks[u][i]
          \/ u = t /\ i = n /\ blocks[u][i] = Top(t)
  BY <1>1
<1>4. OwnInv'
  <2>1. \A u \in Task : \A i \in DOMAIN blocks'[u] : blocks'[u][i].token.task = u
    BY <1>2 DEF OwnershipInv, OwnInv
  <2>2. ASSUME NEW j \in DOMAIN active'
        PROVE  \E u \in Task : \E i \in DOMAIN blocks'[u] : blocks'[u][i].kind = "job" /\ blocks'[u][i].key = j
    <3>1. PICK u \in Task : \E i \in DOMAIN blocks[u] : blocks[u][i].kind = "job" /\ blocks[u][i].key = j
      BY <2>2 DEF OwnershipInv, OwnInv
    <3>2. PICK i \in DOMAIN blocks[u] : blocks[u][i].kind = "job" /\ blocks[u][i].key = j
      BY <3>1
    <3>3. ~ (u = t /\ i = n /\ blocks[u][i] = Top(t))
      BY <1>0, <2>2, <3>2
    <3> QED
      BY <1>3, <3>2, <3>3
  <2> QED
    BY <2>1, <2>2 DEF OwnInv
<1>5. BaseInv'
  <2> SUFFICES ASSUME NEW u \in Task, u \notin clashed
               PROVE  /\ blocks'[u] = <<>> => tracker'[u] = base[u]
                      /\ blocks'[u] # <<>> => blocks'[u][1].token.old = base[u]
    BY <1>0 DEF BaseInv
  <2>1. CASE u # t
    BY <1>1, <2>1 DEF OwnershipInv, BaseInv
  <2>2. CASE u = t /\ blocks'[t] = <<>>
    <3>1. blocks[t][1] = Top(t) /\ Top(t).token.old = base[t]
      BY <1>0, <1>1, <2>2 DEF OwnershipInv, BaseInv
    <3> QED
      BY <2>2, <3>1
  <2>3. CASE u = t /\ blocks'[t] # <<>>
    BY <1>0, <1>1, <2>3 DEF OwnershipInv, BaseInv
  <2> QED
    BY <2>1, <2>2, <2>3
<1>6. AloneInv'
  <2> SUFFICES ASSUME NEW u \in Task, u \notin clashed, NEW i \in DOMAIN blocks'[u]
               PROVE  /\ blocks'[u][i].kind = "decorator" => token'[blocks'[u][i].key] = blocks'[u][i].token
                      /\ blocks'[u][i].kind = "job" => /\ blocks'[u][i].key \in DOMAIN active'
                                                       /\ active'[blocks'[u][i].key] = blocks'[u][i].token
                      /\ blocks'[u][i].kind \in Shared =>
                            \A v \in Task : \A k \in DOMAIN blocks'[v] :
                               blocks'[v][k].kind \in Shared /\ blocks'[v][k].key = blocks'[u][i].key => v = u /\ k = i
    BY <1>0 DEF AloneInv
  <2> DEFINE c == blocks[u][i]
  <2>1. i \in DOMAIN blocks[u] /\ blocks'[u][i] = c /\ ~ (u = t /\ i = n)
    BY <1>2
  <2>2. /\ c.kind = "decorator" => c.key \in Decorator /\ token[c.key] = c.token
        /\ c.kind = "job" => c.key \in DOMAIN active /\ active[c.key] = c.token
        /\ c.kind \in Shared =>
              \A v \in Task : \A k \in DOMAIN blocks[v] :
                 blocks[v][k].kind \in Shared /\ blocks[v][k].key = c.key => v = u /\ k = i
    BY <2>1 DEF OwnershipInv, AloneInv, ContextInv, KeyInv
  <2> HIDE DEF c
  <2>3. c.kind \in Shared /\ kind \in Shared => c.key # Top(t).key
    BY <1>0, <1>1, <2>1, <2>2
  <2>4. c.kind = "decorator" => token'[c.key] = c.token
    BY <2>2, <2>3 DEF Shared
  <2>5. c.kind = "job" => c.key \in DOMAIN active' /\ active'[c.key] = c.token
    BY <2>2, <2>3 DEF Shared
  <2>6. c.kind \in Shared =>
            \A v \in Task : \A k \in DOMAIN blocks'[v] :
               blocks'[v][k].kind \in Shared /\ blocks'[v][k].key = c.key => v = u /\ k = i
    BY <1>2, <2>2
  <2> QED
    BY <2>1, <2>4, <2>5, <2>6
<1>7. GucInv'
  BY <1>0 DEF OwnershipInv, GucInv
<1> QED
  BY <1>4, <1>5, <1>6, <1>7 DEF OwnershipInv

(* A token of a task's own block, put back, restores what the task had     *)
(* when the block began.                                                   *)
LEMMA ExitRestores ==
    ASSUME ContextInv, OwnershipInv, NEW t \in Task, t \notin clashed,
           ExitWith(t) \/ ExitDecorator(t) \/ Postrun(t)
    PROVE  tracker'[t] = Top(t).token.old
<1>1. \E kind \in {"with", "decorator", "job"} : Exit(t, kind)
  BY DEF ExitWith, ExitDecorator, Postrun
<1>2. blocks[t] # <<>> /\ Top(t).token \in Token /\ Held(Top(t).token.old, lastId, root)
      /\ Top(t) = blocks[t][Len(blocks[t])] /\ Len(blocks[t]) \in DOMAIN blocks[t]
  <2>1. blocks \in [Task -> Seq(BlockSet)]
    BY DEF ContextInv, TypeInv
  <2> QED
    BY <1>1, <2>1, ContextPop, PopIs DEF Exit
<1>3. Top(t).token.task = t
  BY <1>2 DEF OwnershipInv, OwnInv
<1>4. Top(t).token # NoToken
  BY <1>2, RuntimeAssumption DEF Token
<1>5. Reset(t, Top(t).token)
  <2>1. CASE ExitWith(t)
    BY <2>1 DEF ExitWith
  <2>2. CASE ExitDecorator(t)
    <3>1. Top(t).kind = "decorator" /\ Reset(t, token[Top(t).key])
      BY <2>2 DEF ExitDecorator, Exit
    <3>2. token[Top(t).key] = Top(t).token
      BY <1>2, <3>1 DEF OwnershipInv, AloneInv
    <3> QED
      BY <3>1, <3>2
  <2>3. CASE Postrun(t)
    <3> DEFINE j == Top(t).key
    <3>1. Top(t).kind = "job" /\ Reset(t, IF j \in DOMAIN active THEN active[j] ELSE NoToken)
      BY <2>3 DEF Postrun, Exit
    <3>2. j \in DOMAIN active /\ active[j] = Top(t).token
      BY <1>2, <3>1 DEF OwnershipInv, AloneInv
    <3> QED
      BY <3>1, <3>2
  <2> QED
    BY <2>1, <2>2, <2>3
<1> QED
  BY <1>2, <1>3, <1>4, <1>5, ResetIs

(* A new block has the context before it for its token.                    *)
LEMMA OwnershipEnters ==
    ASSUME ContextInv, OwnershipInv, style' = style, NEW t \in Task,
           \/ \E m \in Metadata : EnterWith(t, m)
           \/ \E d \in Decorator : EnterDecorator(t, d)
           \/ \E j \in Job : Prerun(t, j)
    PROVE  OwnershipInv'
<1>0. /\ token \in [Decorator -> Token \cup {NoToken}]
      /\ lastId \in 0..MaxCtx /\ Held(tracker[t], lastId, root)
      /\ tracker \in [Task -> Context \cup {NoCtx}] /\ DOMAIN root = 1..lastId
  BY DEF ContextInv, TypeInv, HeldInv
<1>1. ASSUME NEW m \in Metadata, Enter(t, m)
      PROVE  /\ \A u \in Task \ {t} : tracker'[u] = tracker[u]
             /\ UNCHANGED <<base, guc, inside>>
  <2>1. UNCHANGED <<base, guc, inside>>
    BY <1>1 DEF Enter, inDatabase
  <2>2. \A u \in Task \ {t} : tracker'[u] = tracker[u]
    BY <1>0, <1>1, EnteredIs
  <2> QED
    BY <2>1, <2>2
<1>2. NoData \in Metadata
  BY MetadataIs
<1>3. ASSUME NEW m \in Metadata, EnterWith(t, m) PROVE OwnershipInv'
  <2> DEFINE b == Block(t, "with", 0)
  <2>1. /\ Enter(t, m) /\ Pushed(t, b) /\ UNCHANGED <<token, active, clashed>>
    BY <1>3 DEF EnterWith
  <2>2. b \in BlockSet /\ b.kind = "with" /\ b.token = TokenOf(t)
    BY BlockIs DEF Kinds
  <2>3. b.kind \notin Shared
    BY <2>2 DEF Shared
  <2> HIDE DEF b
  <2> QED
    BY <1>1, <2>1, <2>2, <2>3, OwnershipPush
<1>4. ASSUME NEW d \in Decorator, EnterDecorator(t, d) PROVE OwnershipInv'
  <2> DEFINE b == Block(t, "decorator", d)
  <2>1. /\ Enter(t, NoData) /\ Pushed(t, b)
        /\ token' = [token EXCEPT ![d] = TokenOf(t)] /\ active' = active
        /\ clashed' = IF Holders(d) = {} THEN clashed ELSE clashed \cup Holders(d) \cup {t}
    BY <1>4 DEF EnterDecorator
  <2>2. b \in BlockSet /\ b.kind = "decorator" /\ b.key = d /\ b.token = TokenOf(t)
    BY BlockIs DEF Kinds
  <2> HIDE DEF b
  <2>3. \A e \in Decorator : token'[e] = token[e] \/ (b.kind = "decorator" /\ b.key = e)
    BY <1>0, <2>1, <2>2
  <2>4. token'[b.key] = b.token
    BY <1>0, <2>1, <2>2
  <2>5. clashed \subseteq clashed' /\ (Holders(b.key) # {} => Holders(b.key) \cup {t} \subseteq clashed')
    BY <2>1, <2>2
  <2> QED
    BY <1>1, <1>2, <2>1, <2>2, <2>3, <2>4, <2>5, OwnershipPush
<1>5. ASSUME NEW j \in Job, Prerun(t, j) PROVE OwnershipInv'
  <2> DEFINE b == Block(t, "job", j)
  <2>1. /\ Pushed(t, b) /\ token' = token
        /\ clashed' = IF Holders(j) = {} THEN clashed ELSE clashed \cup Holders(j) \cup {t}
    BY <1>5 DEF Prerun
  <2>2. b \in BlockSet /\ b.kind = "job" /\ b.key = j /\ b.token = TokenOf(t)
    BY BlockIs DEF Kinds
  <2> HIDE DEF b
  <2>3. clashed \subseteq clashed' /\ (Holders(b.key) # {} => Holders(b.key) \cup {t} \subseteq clashed')
    BY <2>1, <2>2
  <2>4. CASE j \in DOMAIN active
    <3>1. UNCHANGED <<tracker, active, base, guc, inside>>
      BY <1>5, <2>4 DEF Prerun, inDatabase
    <3> QED
      BY <2>1, <2>2, <2>3, <2>4, <3>1, OwnershipPush
  <2>5. CASE j \notin DOMAIN active
    <3>1. /\ Enter(t, NoData)
          /\ active' = [i \in DOMAIN active \cup {j} |-> IF i = j THEN TokenOf(t) ELSE active[i]]
      BY <1>5, <2>5 DEF Prerun
    <3>2. /\ \A i \in DOMAIN active : i \in DOMAIN active' /\ active'[i] = active[i]
          /\ \A i \in DOMAIN active' : i \in DOMAIN active \/ i = j
          /\ j \in DOMAIN active' /\ active'[j] = TokenOf(t)
      BY <2>5, <3>1
    <3> QED
      BY <1>1, <1>2, <2>1, <2>2, <2>3, <3>1, <3>2, OwnershipPush
  <2> QED
    BY <2>4, <2>5
<1> QED
  BY <1>3, <1>4, <1>5

(* Closing a block gives that context back.                                *)
LEMMA OwnershipExits ==
    ASSUME ContextInv, OwnershipInv, style' = style, NEW t \in Task,
           ExitWith(t) \/ ExitDecorator(t) \/ Postrun(t)
    PROVE  OwnershipInv'
<1>0. token \in [Decorator -> Token \cup {NoToken}]
  BY DEF ContextInv, TypeInv
<1>1. t \notin clashed => tracker'[t] = Top(t).token.old
  BY ExitRestores
<1>2. ASSUME NEW tok, Reset(t, tok) PROVE \A u \in Task \ {t} : tracker'[u] = tracker[u]
  BY <1>2 DEF Reset, ContextInv, TypeInv
<1>3. CASE ExitWith(t)
  <2>1. Exit(t, "with") /\ Reset(t, Top(t).token) /\ UNCHANGED <<token, active>>
    BY <1>3 DEF ExitWith
  <2> QED
    BY <1>1, <1>2, <2>1, OwnershipPop
<1>4. CASE ExitDecorator(t)
  <2> DEFINE d == Top(t).key
  <2>1. /\ Exit(t, "decorator") /\ Reset(t, token[d])
        /\ token' = [token EXCEPT ![d] = NoToken] /\ active' = active
    BY <1>4 DEF ExitDecorator
  <2>2. \A e \in Decorator : token'[e] = token[e] \/ d = e
    BY <1>0, <2>1
  <2> QED
    BY <1>1, <1>2, <2>1, <2>2, OwnershipPop
<1>5. CASE Postrun(t)
  <2> DEFINE j == Top(t).key
  <2>1. /\ Exit(t, "job") /\ Reset(t, IF j \in DOMAIN active THEN active[j] ELSE NoToken)
        /\ active' = [i \in DOMAIN active \ {j} |-> active[i]] /\ token' = token
    BY <1>5 DEF Postrun
  <2> HIDE DEF j
  <2>2. /\ \A i \in DOMAIN active' : i \in DOMAIN active /\ active'[i] = active[i]
        /\ \A i \in DOMAIN active : i \in DOMAIN active' \/ j = i
        /\ j \notin DOMAIN active'
    BY <2>1
  <2> QED
    BY <1>1, <1>2, <2>1, <2>2, OwnershipPop DEF j
<1> QED
  BY <1>3, <1>4, <1>5

(* Updating, handing on and ending with a context: the context a task was  *)
(* spawned with changes only when it has no block.                         *)
LEMMA OwnershipMoves ==
    ASSUME ContextInv, OwnershipInv, style' = style, NEW t \in Task,
           \/ \E m \in Metadata : Update(t, m)
           \/ \E u \in Task : Spawn(t, u)
           \/ Ended(t)
    PROVE  OwnershipInv'
<1>1. ASSUME NEW u \in Task, NEW c, UNCHANGED <<blocks, token, active, guc, inside, clashed>>,
             tracker' = [tracker EXCEPT ![u] = c],
             base' = IF blocks[u] = <<>> THEN [base EXCEPT ![u] = c] ELSE base
      PROVE  OwnershipInv'
  <2>0. /\ tracker \in [Task -> Context \cup {NoCtx}] /\ base \in [Task -> Context \cup {NoCtx}]
    BY DEF ContextInv, TypeInv
  <2>1. OwnInv' /\ AloneInv' /\ GucInv'
    BY <1>1 DEF OwnershipInv, OwnInv, AloneInv, GucInv
  <2>2. BaseInv'
    BY <1>1, <2>0 DEF OwnershipInv, BaseInv
  <2> QED
    BY <2>1, <2>2 DEF OwnershipInv
<1>2. ASSUME NEW m \in Metadata, Update(t, m) PROVE OwnershipInv'
  BY <1>1, <1>2 DEF Update, inDatabase
<1>3. ASSUME NEW u \in Task, Spawn(t, u) PROVE OwnershipInv'
  BY <1>1, <1>3 DEF Spawn, inDatabase
<1>4. CASE Ended(t)
  BY <1>1, <1>4 DEF Ended, inDatabase
<1> QED
  BY <1>2, <1>3, <1>4

(* A task that has a context to set is inside it. *)
LEMMA OwnershipDatabase ==
    ASSUME ContextInv, OwnershipInv, style' = style, NEW t \in Task, DatabaseStep(t)
    PROVE  OwnershipInv'
<1>0. /\ guc \in [Task -> Context \cup {NoCtx}] /\ inside = [u \in Task |-> inside[u]]
  BY DEF ContextInv, TypeInv, OwnershipInv, GucInv
<1>1. ASSUME UNCHANGED <<blocks, tracker, token, active, base, clashed>>, GucInv' PROVE OwnershipInv'
  BY <1>1 DEF OwnershipInv, OwnInv, BaseInv, AloneInv
<1>2. ASSUME NEW injectable \in BOOLEAN, Statement(t, injectable) PROVE OwnershipInv'
  <2> DEFINE injected == injectable /\ tracker[t] # NoCtx
             now == IF injected THEN tracker[t] ELSE guc[t]
  <2>1. UNCHANGED <<blocks, tracker, token, active, base, clashed>>
    BY <1>2 DEF Statement, inProcess, ghosts
  <2>2. /\ now # NoCtx
        /\ \/ UNCHANGED <<guc, inside>>
           \/ /\ guc' = [guc EXCEPT ![t] = now]
              /\ inside' = [inside EXCEPT ![t] = IF injected /\ Inside(t) THEN @ \cup {now.id} ELSE @]
    BY <1>2 DEF Statement
  <2>3. t \notin clashed /\ injected => Inside(t)
    BY DEF OwnershipInv, BaseInv, Inside
  <2>4. t \notin clashed /\ ~ injected => now.id \in inside[t]
    BY <2>2 DEF OwnershipInv, GucInv
  <2> HIDE DEF now, injected
  <2>5. GucInv'
    <3>1. CASE UNCHANGED <<guc, inside>>
      BY <2>1, <3>1 DEF OwnershipInv, GucInv
    <3>2. CASE /\ guc' = [guc EXCEPT ![t] = now]
               /\ inside' = [inside EXCEPT ![t] = IF injected /\ Inside(t) THEN @ \cup {now.id} ELSE @]
      <4>1. inside' = [u \in Task |-> inside'[u]]
        BY <1>0, <3>2
      <4>2. \A u \in Task \ {t} : guc'[u] = guc[u] /\ inside'[u] = inside[u]
        BY <1>0, <3>2
      <4>3. t \notin clashed => guc'[t].id \in inside'[t]
        BY <1>0, <2>3, <2>4, <3>2
      <4> QED
        BY <2>1, <4>1, <4>2, <4>3 DEF OwnershipInv, GucInv
    <3> QED
      BY <2>2, <3>1, <3>2
  <2> QED
    BY <1>1, <2>1, <2>5
<1>3. CASE Begin(t)
  BY <1>1, <1>3 DEF Begin, inProcess, ghosts, OwnershipInv, GucInv
<1>4. CASE Close(t)
  <2>1. /\ UNCHANGED <<blocks, tracker, token, active, base, clashed>>
        /\ guc' = [guc EXCEPT ![t] = NoCtx] /\ inside' = [inside EXCEPT ![t] = {}]
    BY <1>4 DEF Close, inProcess, ghosts
  <2>2. GucInv'
    BY <1>0, <2>1 DEF OwnershipInv, GucInv
  <2> QED
    BY <1>1, <2>1, <2>2
<1> QED
  BY <1>2, <1>3, <1>4 DEF DatabaseStep, Commit, Rollback

(* Every step keeps the tokens of a task in line.                          *)
LEMMA OwnershipStep == ContextInv /\ OwnershipInv /\ [Next]_vars => OwnershipInv'
<1> SUFFICES ASSUME ContextInv, OwnershipInv, [Next]_vars PROVE OwnershipInv'
  OBVIOUS
<1>1. CASE UNCHANGED vars
  <2>1. UNCHANGED <<style, tracker, base, blocks, token, active, guc, inside, clashed>>
    BY <1>1 DEF vars, inProcess, inDatabase, ghosts
  <2> QED
    BY <2>1 DEF OwnershipInv, OwnInv, BaseInv, AloneInv, GucInv
<1>2. ASSUME NEW t \in Task, style' = style, BlockStep(t) PROVE OwnershipInv'
  BY <1>2, OwnershipEnters, OwnershipExits, OwnershipMoves DEF BlockStep
<1>3. ASSUME NEW t \in Task, style' = style, DecoratorStep(t) \/ CeleryStep(t)
      PROVE  OwnershipInv'
  BY <1>3, OwnershipEnters, OwnershipExits DEF DecoratorStep, CeleryStep
<1> QED
  BY <1>1, <1>2, <1>3, OwnershipDatabase DEF Next

(* At first there are none.                                                *)
LEMMA OwnershipInit == Init => OwnershipInv
<1> SUFFICES ASSUME Init PROVE OwnershipInv
  OBVIOUS
<1>1. /\ tracker = [t \in Task |-> NoCtx] /\ base = [t \in Task |-> NoCtx]
      /\ guc = [t \in Task |-> NoCtx] /\ blocks = [t \in Task |-> <<>>]
      /\ inside = [t \in Task |-> {}] /\ DOMAIN active = {}
  BY DEF Init
<1>2. \A t \in Task : blocks[t] = <<>> /\ DOMAIN blocks[t] = {}
  BY <1>1
<1> QED
  BY <1>1, <1>2 DEF OwnershipInv, OwnInv, BaseInv, AloneInv, GucInv

(* Only the exit of a block of its own shortens the blocks of a task. *)
LEMMA WhoEnds ==
    ASSUME ContextInv, NEW t \in Task, Ending(t), Next
    PROVE  ExitWith(t) \/ ExitDecorator(t) \/ Postrun(t)
<1>0. blocks \in [Task -> Seq(BlockSet)]
  BY DEF ContextInv, TypeInv
<1>1. Len(blocks[t]) \in Nat /\ Len(blocks'[t]) = Len(blocks[t]) - 1
  <2> HIDE DEF BlockSet
  <2>1. blocks[t] \in Seq(BlockSet) /\ blocks[t] # <<>>
    BY <1>0 DEF Ending
  <2>2. Len(blocks[t]) \in Nat \ {0}
    BY <2>1, EmptySeq
  <2>3. Len(SubSeq(blocks[t], 1, Len(blocks[t]) - 1)) = Len(blocks[t]) - 1
    BY <2>1, <2>2
  <2> QED
    BY <2>2, <2>3 DEF Ending
<1>2. ASSUME blocks' = blocks PROVE FALSE
  BY <1>1, <1>2
<1>3. ASSUME NEW u \in Task, NEW kind \in Kinds, NEW key \in Decorator \cup Job \cup {0},
             Pushed(u, Block(u, kind, key))
      PROVE  FALSE
  <2> DEFINE b == Block(u, kind, key)
  <2>1. b \in BlockSet
    BY BlockIs
  <2> HIDE DEF b
  <2>2. /\ \A v \in Task \ {u} : blocks'[v] = blocks[v]
        /\ Len(blocks[u]) \in Nat /\ Len(blocks'[u]) = Len(blocks[u]) + 1
    BY <1>0, <1>3, <2>1, PushIs DEF b
  <2> QED
    BY <1>1, <2>2
<1>4. ASSUME NEW u \in Task, NEW kind, Exit(u, kind) PROVE u = t
  <2>1. blocks[u] # <<>> /\ Popped(u)
    BY <1>4 DEF Exit
  <2>2. \A v \in Task \ {u} : blocks'[v] = blocks[v]
    BY <1>0, <2>1, PopIs
  <2> QED
    BY <1>1, <2>2
<1>5. ASSUME NEW u \in Task, BlockStep(u) PROVE ExitWith(t)
  <2>1. ASSUME NEW m \in Metadata, EnterWith(u, m) PROVE FALSE
    BY <1>3, <2>1 DEF EnterWith, Kinds
  <2>2. ~ (\E m \in Metadata : Update(u, m)) /\ ~ Ended(u) /\ ~ (\E v \in Task : Spawn(u, v))
    BY <1>2 DEF Update, Ended, Spawn
  <2>3. ExitWith(u) => u = t
    BY <1>4 DEF ExitWith
  <2> QED
    BY <1>5, <2>1, <2>2, <2>3 DEF BlockStep
<1>6. ASSUME NEW u \in Task, DecoratorStep(u) \/ CeleryStep(u) PROVE ExitDecorator(t) \/ Postrun(t)
  <2>1. ASSUME NEW d \in Decorator, EnterDecorator(u, d) PROVE FALSE
    BY <1>3, <2>1 DEF EnterDecorator, Kinds
  <2>2. ASSUME NEW j \in Job, Prerun(u, j) PROVE FALSE
    <3>1. Pushed(u, Block(u, "job", j))
      BY <2>2 DEF Prerun
    <3> QED
      BY <1>3, <3>1 DEF Kinds
  <2>3. ExitDecorator(u) => u = t
    BY <1>4 DEF ExitDecorator
  <2>4. Postrun(u) => u = t
    <3>1. Postrun(u) => Exit(u, "job")
      BY DEF Postrun
    <3> QED
      BY <1>4, <3>1
  <2> QED
    BY <1>6, <2>1, <2>2, <2>3, <2>4 DEF DecoratorStep, CeleryStep
<1>7. ASSUME NEW u \in Task, DatabaseStep(u) PROVE FALSE
  BY <1>2, <1>7 DEF DatabaseStep, Statement, Begin, Commit, Rollback, Close, inProcess
<1> QED
  BY <1>5, <1>6, <1>7 DEF Next

(* A block that ends restores what was before it.                          *)
LEMMA RestoredStep ==
    ContextInv /\ OwnershipInv /\ Next =>
        \A t \in Task \ clashed : Ending(t) => tracker'[t] = Top(t).token.old
BY WhoEnds, ExitRestores

------------------------------------------------------------------------------
(* Theorems *)

(* All that the proofs need. *)
RuntimeInv == ContextInv /\ RowsInv /\ OwnershipInv

(***************************************************************************)
(* The inductive invariant of the runtime context: blocks, tokens and      *)
(* settings are those of contexts that were entered, the tokens of a task  *)
(* outside clashed lead from block to block to the context it has now, and *)
(* a row names what the outermost block of its context named.              *)
(***************************************************************************)
THEOREM RuntimeInvariant == Spec => []RuntimeInv
<1>1. Init => RuntimeInv
  BY ContextInit, RowsInit, OwnershipInit DEF RuntimeInv
<1>2. RuntimeInv /\ [Next]_vars => RuntimeInv'
  BY ContextStep, RowsStep, OwnershipStep DEF RuntimeInv
<1> QED
  BY <1>1, <1>2, PTL DEF Spec

(* Contexts, tokens and rows have their types, and nothing names a context *)
(* that was not drawn.                                                     *)
THEOREM TypeCorrect == Spec => []TypeOK
<1>1. RuntimeInv => TypeOK
  <2> SUFFICES ASSUME RuntimeInv PROVE TypeOK
    OBVIOUS
  <2>1. /\ tracker \in [Task -> Context \cup {NoCtx}] /\ guc \in [Task -> Context \cup {NoCtx}]
        /\ DOMAIN active \subseteq Job
        /\ lastId \in 0..MaxCtx /\ DOMAIN root = 1..lastId
    BY DEF RuntimeInv, ContextInv, TypeInv
  <2>2. token \in [Decorator -> [task : Task, old : Context \cup {NoCtx}] \cup {NoToken}]
    BY DEF RuntimeInv, ContextInv, TypeInv, Token
  <2>3. \A t \in Task : tracker[t] # NoCtx => tracker[t].id <= lastId
    BY DEF RuntimeInv, ContextInv, HeldInv, Held
  <2>4. \A i \in DOMAIN rows : i \in 1..lastId /\ rows[i] \in Metadata
    BY DEF RuntimeInv, RowsInv, RowOk
  <2> QED
    BY <2>1, <2>2, <2>3, <2>4 DEF TypeOK
<1> QED
  BY <1>1, RuntimeInvariant, PTL

(* The end of a block puts back the context its task had before it, for    *)
(* __exit__, the decorator and task_postrun alike, as long as no object or *)
(* task id is used twice at a time.                                        *)
THEOREM BlocksRestore == Spec => ContextRestored
<1>1. RuntimeInv /\ [Next]_vars =>
        [\A t \in Task \ clashed : Ending(t) => tracker'[t] = Top(t).token.old]_vars
  BY RestoredStep DEF RuntimeInv
<1> QED
  BY <1>1, RuntimeInvariant, PTL DEF Spec, ContextRestored

(* The context an event is given was set inside it, by a statement of the  *)
(* same transaction: the execute wrapper hands over what the task has, and *)
(* a task without a block has nothing.                                     *)
THEOREM AttributedLocally == Spec => []AttributionLocal
<1>1. RuntimeInv => AttributionLocal
  BY DEF RuntimeInv, OwnershipInv, GucInv, BaseInv, AttributionLocal, Inside
<1> QED
  BY <1>1, RuntimeInvariant, PTL

(* A committed row of _audit_attach_context names every key its outermost  *)
(* auditrum_context named.                                                 *)
THEOREM RootIsKept == Spec => []RootKept
<1>1. RuntimeInv => RootKept
  BY DEF RuntimeInv, RowsInv, RowOk, RootKept
<1> QED
  BY <1>1, RuntimeInvariant, PTL
==============================================================================
