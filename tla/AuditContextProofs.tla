-------------------------- MODULE AuditContextProofs --------------------------
(***************************************************************************)
(* Theorems about AuditContext, for any number of keys, values, reasons,   *)
(* open blocks and savepoints.                                             *)
(***************************************************************************)
EXTENDS AuditContext, SequenceTheorems, TLAPS

------------------------------------------------------------------------------
(* Types *)

Reasons == {s \in Seq(Reason) : Len(s) <= MaxReasons}
Variables == [data : Said, reason : Reasons]
Kinds == {"use", "reason", "savepoint"}
BlockSet == [kind : Kinds, reset : BOOLEAN, old : Variables, set : Variables, live : BOOLEAN]

TypeInv ==
    /\ data \in Said /\ stack \in Reasons /\ session \in Variables
    /\ frames \in Seq(BlockSet) /\ Len(frames) <= MaxFrames
    /\ atomic \in {"none", "open", "failed"} /\ loose \in BOOLEAN /\ emptied \in BOOLEAN

(* Outside a transaction no variable is set, no savepoint is open and no   *)
(* block began in the transaction.                                         *)
OutsideInv ==
    atomic = "none" =>
        /\ session = Unset
        /\ \A i \in DOMAIN frames : frames[i].kind # "savepoint" /\ ~ frames[i].live

(* What is said, with keys that are named and not. *)
LEMMA SaidIs ==
    /\ NoVal \notin Text /\ MaxFrames \in Nat /\ MaxReasons \in Nat
    /\ Silent \in Said /\ Named(Silent) = {} /\ Unset \in Variables
    /\ \A m \in Said, n \in Said : /\ Over(m, n) \in Said
                                   /\ Named(Over(m, n)) = Named(m) \cup Named(n)
    /\ \A m \in Said, K \in SUBSET Name : /\ Without(m, K) \in Said
                                         /\ Named(Without(m, K)) = Named(m) \ K
<1>1. NoVal \notin Text /\ MaxFrames \in Nat /\ MaxReasons \in Nat
  BY ContextAssumption
<1>2. Silent \in Said /\ Named(Silent) = {}
  BY DEF Silent, Said, Named
<1>3. <<>> \in Reasons
  BY <1>1 DEF Reasons
<1>4. Unset \in Variables
  BY <1>2, <1>3 DEF Unset, Variables
<1>5. ASSUME NEW m \in Said, NEW n \in Said
      PROVE  Over(m, n) \in Said /\ Named(Over(m, n)) = Named(m) \cup Named(n)
  BY DEF Over, Said, Named
<1>6. ASSUME NEW m \in Said, NEW K \in SUBSET Name
      PROVE  Without(m, K) \in Said /\ Named(Without(m, K)) = Named(m) \ K
  BY DEF Without, Said, Named
<1> QED
  BY <1>1, <1>2, <1>4, <1>5, <1>6

(* Opening a block. *)
LEMMA PushIs ==
    ASSUME NEW B, B \in Seq(BlockSet), NEW b \in BlockSet
    PROVE  /\ Append(B, b) \in Seq(BlockSet)
           /\ Len(B) \in Nat /\ Len(Append(B, b)) = Len(B) + 1
           /\ DOMAIN B = 1..Len(B) /\ DOMAIN Append(B, b) = 1..Len(B) + 1
           /\ Append(B, b)[Len(B) + 1] = b
           /\ \A i \in 1..Len(B) : Append(B, b)[i] = B[i]
<1> HIDE DEF BlockSet
<1> QED
  OBVIOUS

(* Ending the innermost one. *)
LEMMA PopIs ==
    ASSUME NEW B, B \in Seq(BlockSet), B # <<>>
    PROVE  /\ SubSeq(B, 1, Len(B) - 1) \in Seq(BlockSet)
           /\ Len(B) \in Nat \ {0} /\ Len(SubSeq(B, 1, Len(B) - 1)) = Len(B) - 1
           /\ DOMAIN B = 1..Len(B) /\ DOMAIN SubSeq(B, 1, Len(B) - 1) = 1..Len(B) - 1
           /\ \A i \in 1..Len(B) - 1 : SubSeq(B, 1, Len(B) - 1)[i] = B[i]
           /\ B[Len(B)] \in BlockSet
<1> HIDE DEF BlockSet
<1> DEFINE s == SubSeq(B, 1, Len(B) - 1)
<1>1. Len(B) \in Nat \ {0} /\ DOMAIN B = 1..Len(B)
  OBVIOUS
<1>2. B[Len(B)] \in BlockSet
  BY <1>1
<1>3. s \in Seq(BlockSet) /\ Len(s) = Len(B) - 1
  BY <1>1
<1>4. \A i \in 1..Len(B) - 1 : s[i] = B[i]
  BY <1>1
<1>5. DOMAIN s = 1..Len(B) - 1
  BY <1>3
<1> QED
  BY <1>1, <1>2, <1>3, <1>4, <1>5

(* One more reason, while there is room on the stack. *)
LEMMA ReasonPush ==
    ASSUME stack \in Reasons, Len(stack) < MaxReasons, NEW r \in Reason
    PROVE  Append(stack, r) \in Reasons
BY SaidIs DEF Reasons

------------------------------------------------------------------------------
(* What is said above a place in the blocks *)

Was(b) == IF b.kind = "use" THEN b.old.data ELSE b.old.reason

Clear(B, kind, i, j) == \A l \in DOMAIN B : i < l /\ l < j => B[l].kind # kind

(* x is what was said right above block i, and now is what is said at the  *)
(* top: the next block of that kind remembers it, if there is one.         *)
Above(B, now, kind, i, x) ==
    \/ x = now /\ Clear(B, kind, i, Len(B) + 1)
    \/ \E j \in DOMAIN B : i < j /\ B[j].kind = kind /\ x = Was(B[j]) /\ Clear(B, kind, i, j)

(* K are the keys applied by the use() block nearest below place i. *)
Below(B, i, K) ==
    \/ K = {} /\ Clear(B, "use", 0, i)
    \/ \E j \in DOMAIN B : /\ j < i /\ B[j].kind = "use" /\ K = Named(B[j].set.data)
                           /\ Clear(B, "use", j, i)

(* A new block changes neither what is above the ones that are open, if it *)
(* remembers what it replaces, nor what is below them.                     *)
LEMMA PushFrame ==
    ASSUME NEW B, B \in Seq(BlockSet), NEW b \in BlockSet, NEW kind, NEW now, NEW then,
           IF b.kind = kind THEN Was(b) = now ELSE then = now,
           NEW i \in 1..Len(B)
    PROVE  \A x : Above(Append(B, b), then, kind, i, x) => Above(B, now, kind, i, x)
<1> DEFINE n == Len(B) + 1
           C == Append(B, b)
<1>1. /\ Len(B) \in Nat /\ Len(C) = n /\ DOMAIN B = 1..Len(B) /\ DOMAIN C = 1..n
      /\ C[n] = b /\ \A l \in 1..Len(B) : C[l] = B[l]
  BY PushIs
<1> HIDE DEF C
<1>2. n \in Nat /\ i \in Nat /\ i < n /\ n \in DOMAIN C /\ \A l \in DOMAIN B : l \in DOMAIN C /\ l < n /\ l \in Nat
  BY <1>1
<1>3. \A l \in DOMAIN C : l = n \/ l \in DOMAIN B
  BY <1>1
<1>4. ASSUME NEW x, Above(C, then, kind, i, x) PROVE Above(B, now, kind, i, x)
  <2>1. CASE x = then /\ Clear(C, kind, i, n + 1)
    <3>1. b.kind # kind
      BY <1>1, <1>2, <2>1 DEF Clear
    <3>2. Clear(B, kind, i, n)
      BY <1>1, <1>2, <2>1 DEF Clear
    <3> QED
      BY <2>1, <3>1, <3>2 DEF Above
  <2>2. ASSUME NEW j \in DOMAIN C, i < j, C[j].kind = kind, x = Was(C[j]), Clear(C, kind, i, j)
        PROVE  Above(B, now, kind, i, x)
    <3>1. CASE j = n
      <4>1. x = now
        BY <1>1, <2>2, <3>1
      <4>2. Clear(B, kind, i, n)
        BY <1>1, <1>2, <2>2, <3>1 DEF Clear
      <4> QED
        BY <4>1, <4>2 DEF Above
    <3>2. CASE j \in DOMAIN B
      <4>1. B[j].kind = kind /\ x = Was(B[j])
        BY <1>1, <2>2, <3>2
      <4>2. Clear(B, kind, i, j)
        BY <1>1, <1>2, <2>2, <3>2 DEF Clear
      <4> QED
        BY <2>2, <3>2, <4>1, <4>2 DEF Above
    <3> QED
      BY <1>3, <2>2, <3>1, <3>2
  <2> QED
    BY <1>1, <1>4, <2>1, <2>2 DEF Above
<1> QED
  BY <1>4 DEF C

LEMMA PushBelow ==
    ASSUME NEW B, B \in Seq(BlockSet), NEW b \in BlockSet, NEW i \in 1..Len(B) + 1
    PROVE  \A K : Below(Append(B, b), i, K) => Below(B, i, K)
<1> DEFINE C == Append(B, b)
<1>1. /\ Len(B) \in Nat /\ DOMAIN B = 1..Len(B) /\ DOMAIN C = 1..Len(B) + 1
      /\ \A l \in 1..Len(B) : C[l] = B[l]
  BY PushIs
<1> HIDE DEF C
<1>2. ASSUME NEW j, Clear(C, "use", j, i) PROVE Clear(B, "use", j, i)
  BY <1>1, <1>2 DEF Clear
<1>3. \A j \in DOMAIN C : j < i => j \in DOMAIN B /\ C[j] = B[j]
  BY <1>1
<1> QED
  BY <1>2, <1>3 DEF Below, C

(* Nor does the end of one that puts back what it replaced. *)
LEMMA PopFrame ==
    ASSUME NEW B, B \in Seq(BlockSet), B # <<>>, NEW kind, NEW now, NEW then,
           then = IF B[Len(B)].kind = kind THEN Was(B[Len(B)]) ELSE now,
           NEW i, i \in 0..Len(B) - 1
    PROVE  /\ \A x : Above(SubSeq(B, 1, Len(B) - 1), then, kind, i, x) => Above(B, now, kind, i, x)
           /\ \A K : Below(SubSeq(B, 1, Len(B) - 1), i, K) => Below(B, i, K)
           /\ \A K : Below(SubSeq(B, 1, Len(B) - 1), Len(B), K) => Below(B, Len(B), K)
<1> DEFINE n == Len(B)
           C == SubSeq(B, 1, n - 1)
<1>1. /\ n \in Nat \ {0} /\ Len(C) = n - 1 /\ DOMAIN B = 1..n /\ DOMAIN C = 1..n - 1
      /\ \A l \in 1..n - 1 : C[l] = B[l]
  BY PopIs
<1> HIDE DEF C
<1>2. /\ n \in DOMAIN B /\ i \in Nat /\ i < n /\ Len(C) + 1 = n
      /\ \A l \in DOMAIN C : l \in DOMAIN B /\ l < n /\ l \in Nat /\ C[l] = B[l]
      /\ \A l \in DOMAIN B : l = n \/ l \in DOMAIN C
  BY <1>1
<1>3. ASSUME NEW j \in Nat, NEW h \in Nat, h <= n, Clear(C, kind, j, h) PROVE Clear(B, kind, j, h)
  BY <1>1, <1>2, <1>3 DEF Clear
<1>4. ASSUME NEW x, Above(C, then, kind, i, x) PROVE Above(B, now, kind, i, x)
  <2>1. CASE x = then /\ Clear(C, kind, i, n)
    <3>1. Clear(B, kind, i, n)
      BY <1>1, <1>2, <1>3, <2>1
    <3>2. CASE B[n].kind = kind
      BY <1>2, <2>1, <3>1, <3>2 DEF Above
    <3>3. CASE B[n].kind # kind
      <4>1. Clear(B, kind, i, n + 1)
        BY <1>1, <1>2, <3>1, <3>3 DEF Clear
      <4> QED
        BY <2>1, <3>3, <4>1 DEF Above
    <3> QED
      BY <3>2, <3>3
  <2>2. ASSUME NEW j \in DOMAIN C, i < j, C[j].kind = kind, x = Was(C[j]), Clear(C, kind, i, j)
        PROVE  Above(B, now, kind, i, x)
    <3>1. j \in DOMAIN B /\ j \in Nat /\ j <= n /\ B[j] = C[j]
      BY <1>1, <1>2, <2>2
    <3>2. Clear(B, kind, i, j)
      BY <1>2, <1>3, <2>2, <3>1
    <3> QED
      BY <2>2, <3>1, <3>2 DEF Above
  <2> QED
    BY <1>2, <1>4, <2>1, <2>2 DEF Above
<1>5. ASSUME NEW h \in Nat, h <= n, NEW K, Below(C, h, K) PROVE Below(B, h, K)
  <2>1. ASSUME NEW j, Clear(C, "use", j, h) PROVE Clear(B, "use", j, h)
    BY <1>1, <1>2, <1>5, <2>1 DEF Clear
  <2>2. \A j \in DOMAIN C : j \in DOMAIN B /\ C[j] = B[j]
    BY <1>2
  <2> QED
    BY <1>5, <2>1, <2>2 DEF Below
<1>6. n \in Nat /\ n <= n /\ i <= n
  BY <1>1, <1>2
<1> QED
  BY <1>2, <1>4, <1>5, <1>6 DEF C

(* What the innermost block sees above and below it. *)
LEMMA TopFrame ==
    ASSUME NEW B, B \in Seq(BlockSet), B # <<>>, NEW kind, NEW now
    PROVE  /\ \A x : Above(B, now, kind, Len(B), x) <=> x = now
           /\ \A K : Below(B, Len(B) + 1, K) <=>
                        IF B[Len(B)].kind = "use" THEN K = Named(B[Len(B)].set.data)
                        ELSE Below(B, Len(B), K)
<1> DEFINE n == Len(B)
<1>1. n \in Nat \ {0} /\ DOMAIN B = 1..n
  BY PopIs
<1> HIDE DEF n
<1>2. /\ n \in DOMAIN B /\ n < n + 1 /\ \A l \in DOMAIN B : l \in Nat /\ l < n + 1 /\ ~ (n < l)
      /\ \A l \in DOMAIN B : l < n + 1 <=> l < n \/ l = n
  BY <1>1
<1>3. \A x : Above(B, now, kind, n, x) <=> x = now
  BY <1>2 DEF Above, Clear, n
<1>4. Clear(B, "use", n, n + 1)
  BY <1>1 DEF Clear
<1>5. CASE B[n].kind = "use"
  <2>1. \A j \in DOMAIN B : Clear(B, "use", j, n + 1) => j = n
    BY <1>2, <1>5 DEF Clear
  <2>2. ~ Clear(B, "use", 0, n + 1)
    BY <1>1, <1>2, <1>5 DEF Clear
  <2>3. \A K : Below(B, n + 1, K) <=> K = Named(B[n].set.data)
    BY <1>2, <1>4, <1>5, <2>1, <2>2 DEF Below
  <2> QED
    BY <1>3, <1>5, <2>3 DEF n
<1>6. CASE B[n].kind # "use"
  <2>1. \A j : Clear(B, "use", j, n + 1) <=> Clear(B, "use", j, n)
    BY <1>2, <1>6 DEF Clear
  <2>2. \A K : Below(B, n + 1, K) <=> Below(B, n, K)
    BY <1>2, <1>6, <2>1 DEF Below
  <2> QED
    BY <1>3, <1>6, <2>2 DEF n
<1> QED
  BY <1>5, <1>6

------------------------------------------------------------------------------
(* Variables *)

(* What is set says what is said: d and the reasons r. *)
Fresh(s, d, r) ==
    /\ \A k \in Named(s.data) : s.data[k] = d[k]
    /\ s.reason \in {<<>>, r}

(* What is set was set by the use() block nearest below, so that its end   *)
(* empties all of it.                                                      *)
Inner(s, B, i) == \A K : Below(B, i, K) => Named(s.data) \subseteq K

(* A savepoint keeps variables that say what was said when it began.       *)
SaveOk(B, d, r, i) ==
    /\ Inner(B[i].set, B, i)
    /\ \A x, y : Above(B, d, "use", i, x) /\ Above(B, r, "reason", i, y) => Fresh(B[i].set, x, y)

StaleInv ==
    ~ loose =>
        /\ atomic = "open" => Fresh(session, data, stack) /\ Inner(session, frames, Len(frames) + 1)
        /\ \A i \in Savepoints : SaveOk(frames, data, stack, i)

(* What is set has the keys and the reason of block b. *)
Covers(s, r, b) ==
    /\ Named(b.set.data) \subseteq Named(s.data)
    /\ b.kind = "reason" => s.reason = r

(* Before a use() block ends, the variables and every savepoint opened in  *)
(* a block have what the block applied.                                    *)
CoverOk(B, r, i, j) ==
    \A y : Above(B, r, "reason", j, y) => Covers(B[j].set, y, B[i])

StampInv ==
    ~ loose /\ ~ emptied => \A i \in DOMAIN frames : frames[i].live =>
        /\ atomic = "open" => Covers(session, stack, frames[i])
        /\ \A j \in Savepoints : i < j => CoverOk(frames, stack, i, j)

VariablesInv == TypeInv /\ OutsideInv /\ StaleInv /\ StampInv

(* Opening a block that remembers what it replaces, and ending one that    *)
(* puts it back.                                                           *)
Opens(b) ==
    /\ frames' = Append(frames, b)
    /\ IF b.kind = "use" THEN Was(b) = data ELSE data' = data
    /\ IF b.kind = "reason" THEN Was(b) = stack ELSE stack' = stack

Ends ==
    /\ frames # <<>> /\ FrameEnds
    /\ data' = IF Innermost.kind = "use" THEN Was(Innermost) ELSE data
    /\ stack' = IF Innermost.kind = "reason" THEN Was(Innermost) ELSE stack

(* The blocks that stay open keep what they have. *)
LEMMA OpensKeeps ==
    ASSUME TypeInv, NEW b \in BlockSet, Opens(b)
    PROVE  /\ frames' \in Seq(BlockSet) /\ Len(frames) \in Nat /\ Len(frames') = Len(frames) + 1
           /\ DOMAIN frames = 1..Len(frames) /\ DOMAIN frames' = 1..Len(frames) + 1
           /\ frames'[Len(frames) + 1] = b /\ \A i \in 1..Len(frames) : frames'[i] = frames[i]
           /\ \A i \in 1..Len(frames) : SaveOk(frames, data, stack, i) => SaveOk(frames', data', stack', i)
           /\ \A i, j \in 1..Len(frames) : CoverOk(frames, stack, i, j) => CoverOk(frames', stack', i, j)
           /\ \A K : Below(frames', Len(frames) + 1, K) => Below(frames, Len(frames) + 1, K)
<1>0. frames \in Seq(BlockSet)
  BY DEF TypeInv
<1>1. /\ frames' = Append(frames, b) /\ frames' \in Seq(BlockSet) /\ Len(frames) \in Nat
      /\ Len(frames') = Len(frames) + 1
      /\ DOMAIN frames = 1..Len(frames) /\ DOMAIN frames' = 1..Len(frames) + 1
      /\ frames'[Len(frames) + 1] = b /\ \A i \in 1..Len(frames) : frames'[i] = frames[i]
  BY <1>0, PushIs DEF Opens
<1>2. ASSUME NEW i \in 1..Len(frames)
      PROVE  /\ \A x : Above(frames', data', "use", i, x) => Above(frames, data, "use", i, x)
             /\ \A x : Above(frames', stack', "reason", i, x) => Above(frames, stack, "reason", i, x)
             /\ \A K : Below(frames', i, K) => Below(frames, i, K)
  <2>1. IF b.kind = "use" THEN Was(b) = data ELSE data' = data
    BY DEF Opens
  <2>2. IF b.kind = "reason" THEN Was(b) = stack ELSE stack' = stack
    BY DEF Opens
  <2>3. \A x : Above(frames', data', "use", i, x) => Above(frames, data, "use", i, x)
    BY <1>0, <1>1, <2>1, PushFrame
  <2>4. \A x : Above(frames', stack', "reason", i, x) => Above(frames, stack, "reason", i, x)
    BY <1>0, <1>1, <2>2, PushFrame
  <2>5. \A K : Below(frames', i, K) => Below(frames, i, K)
    <3>1. i \in 1..Len(frames) + 1
      BY <1>1
    <3> QED
      BY <1>0, <1>1, <3>1, PushBelow
  <2> QED
    BY <2>3, <2>4, <2>5
<1>3. ASSUME NEW i \in 1..Len(frames), SaveOk(frames, data, stack, i)
      PROVE  SaveOk(frames', data', stack', i)
  BY <1>1, <1>2, <1>3 DEF SaveOk, Inner
<1>4. ASSUME NEW i \in 1..Len(frames), NEW j \in 1..Len(frames), CoverOk(frames, stack, i, j)
      PROVE  CoverOk(frames', stack', i, j)
  BY <1>1, <1>2, <1>4 DEF CoverOk
<1>5. \A K : Below(frames', Len(frames) + 1, K) => Below(frames, Len(frames) + 1, K)
  <2>1. Len(frames) + 1 \in 1..Len(frames) + 1
    BY <1>1
  <2> QED
    BY <1>0, <1>1, <2>1, PushBelow
<1> QED
  BY <1>1, <1>3, <1>4, <1>5

LEMMA EndsKeeps ==
    ASSUME TypeInv, Ends
    PROVE  /\ frames' \in Seq(BlockSet) /\ Len(frames) \in Nat \ {0} /\ Len(frames') = Len(frames) - 1
           /\ DOMAIN frames = 1..Len(frames) /\ DOMAIN frames' = 1..Len(frames) - 1
           /\ \A i \in DOMAIN frames' : frames'[i] = frames[i]
           /\ Innermost \in BlockSet /\ Innermost = frames[Len(frames)]
           /\ \A i \in DOMAIN frames' : SaveOk(frames, data, stack, i) => SaveOk(frames', data', stack', i)
           /\ \A i, j \in DOMAIN frames' : CoverOk(frames, stack, i, j) => CoverOk(frames', stack', i, j)
           /\ \A K : Below(frames', Len(frames'), K) => Below(frames, Len(frames'), K)
           /\ \A K : Below(frames', Len(frames') + 1, K) => Below(frames, Len(frames), K)
<1>0. frames \in Seq(BlockSet) /\ frames # <<>>
  BY DEF TypeInv, Ends
<1>1. /\ frames' = SubSeq(frames, 1, Len(frames) - 1) /\ frames' \in Seq(BlockSet)
      /\ Len(frames) \in Nat \ {0} /\ Len(frames') = Len(frames) - 1
      /\ DOMAIN frames = 1..Len(frames) /\ DOMAIN frames' = 1..Len(frames) - 1
      /\ \A i \in DOMAIN frames' : frames'[i] = frames[i]
      /\ Innermost \in BlockSet /\ Innermost = frames[Len(frames)]
  BY <1>0, PopIs DEF Ends, FrameEnds, Innermost
<1>2. ASSUME NEW i, i \in 0..Len(frames) - 1
      PROVE  /\ \A x : Above(frames', data', "use", i, x) => Above(frames, data, "use", i, x)
             /\ \A x : Above(frames', stack', "reason", i, x) => Above(frames, stack, "reason", i, x)
             /\ \A K : Below(frames', i, K) => Below(frames, i, K)
             /\ \A K : Below(frames', Len(frames), K) => Below(frames, Len(frames), K)
  <2>1. data' = IF frames[Len(frames)].kind = "use" THEN Was(frames[Len(frames)]) ELSE data
    BY <1>1 DEF Ends
  <2>2. stack' = IF frames[Len(frames)].kind = "reason" THEN Was(frames[Len(frames)]) ELSE stack
    BY <1>1 DEF Ends
  <2>3. /\ \A x : Above(frames', data', "use", i, x) => Above(frames, data, "use", i, x)
        /\ \A K : Below(frames', i, K) => Below(frames, i, K)
        /\ \A K : Below(frames', Len(frames), K) => Below(frames, Len(frames), K)
    BY <1>0, <1>1, <1>2, <2>1, PopFrame
  <2>4. \A x : Above(frames', stack', "reason", i, x) => Above(frames, stack, "reason", i, x)
    BY <1>0, <1>1, <1>2, <2>2, PopFrame
  <2> QED
    BY <2>3, <2>4
<1>3. \A i \in DOMAIN frames' : i \in 0..Len(frames) - 1
  BY <1>1
<1>4. ASSUME NEW i \in DOMAIN frames', SaveOk(frames, data, stack, i)
      PROVE  SaveOk(frames', data', stack', i)
  BY <1>1, <1>2, <1>3, <1>4 DEF SaveOk, Inner
<1>5. ASSUME NEW i \in DOMAIN frames', NEW j \in DOMAIN frames', CoverOk(frames, stack, i, j)
      PROVE  CoverOk(frames', stack', i, j)
  BY <1>1, <1>2, <1>3, <1>5 DEF CoverOk
<1>6. /\ \A K : Below(frames', Len(frames'), K) => Below(frames, Len(frames'), K)
      /\ \A K : Below(frames', Len(frames') + 1, K) => Below(frames, Len(frames), K)
  <2>1. Len(frames') \in 0..Len(frames) - 1 /\ Len(frames') + 1 = Len(frames)
    BY <1>1
  <2> QED
    BY <1>2, <2>1
<1> QED
  BY <1>1, <1>4, <1>5, <1>6

(* It then suffices that the variables themselves are in order.            *)
LEMMA StaleOpens ==
    ASSUME TypeInv, StaleInv, NEW b \in BlockSet, Opens(b), loose' = loose,
           b.kind = "savepoint" => atomic = "open" /\ b.set = session,
           atomic' = "open" /\ ~ loose =>
              Fresh(session', data', stack') /\ Inner(session', frames', Len(frames') + 1)
    PROVE  StaleInv'
<1> SUFFICES ASSUME ~ loose, NEW i \in Savepoints' PROVE SaveOk(frames', data', stack', i)
  BY DEF StaleInv
<1> DEFINE n == Len(frames) + 1
<1>1. /\ frames' \in Seq(BlockSet) /\ Len(frames) \in Nat /\ Len(frames') = n
      /\ DOMAIN frames = 1..Len(frames) /\ DOMAIN frames' = 1..n
      /\ frames'[n] = b /\ \A j \in 1..Len(frames) : frames'[j] = frames[j]
      /\ \A j \in 1..Len(frames) : SaveOk(frames, data, stack, j) => SaveOk(frames', data', stack', j)
      /\ \A K : Below(frames', n, K) => Below(frames, n, K)
  BY OpensKeeps
<1>2. i \in 1..n /\ frames'[i].kind = "savepoint"
  BY <1>1 DEF Savepoints
<1>3. CASE i \in 1..Len(frames)
  <2>1. i \in Savepoints
    BY <1>1, <1>2, <1>3 DEF Savepoints
  <2> QED
    BY <1>1, <1>3, <2>1 DEF StaleInv
<1>4. CASE i = n
  <2>1. /\ frames'[n].set = session /\ data' = data /\ stack' = stack
        /\ Fresh(session, data, stack) /\ Inner(session, frames, n)
    BY <1>1, <1>2, <1>4 DEF Opens, StaleInv
  <2>2. \A x, y : Above(frames', data', "use", n, x) /\ Above(frames', stack', "reason", n, y)
            => x = data /\ y = stack
    <3>1. frames' # <<>>
      BY <1>1, EmptySeq
    <3> QED
      BY <1>1, <2>1, <3>1, TopFrame
  <2> QED
    BY <1>1, <1>4, <2>1, <2>2 DEF SaveOk, Inner
<1> QED
  BY <1>1, <1>2, <1>3, <1>4

LEMMA StaleEnds ==
    ASSUME TypeInv, StaleInv, Ends, loose' = loose,
           atomic' = "open" /\ ~ loose =>
              Fresh(session', data', stack') /\ Inner(session', frames', Len(frames') + 1)
    PROVE  StaleInv'
<1> SUFFICES ASSUME ~ loose, NEW i \in Savepoints' PROVE SaveOk(frames', data', stack', i)
  BY DEF StaleInv
<1>1. /\ DOMAIN frames = 1..Len(frames) /\ DOMAIN frames' = 1..Len(frames) - 1 /\ Len(frames) \in Nat
      /\ \A j \in DOMAIN frames' : frames'[j] = frames[j]
      /\ \A j \in DOMAIN frames' : SaveOk(frames, data, stack, j) => SaveOk(frames', data', stack', j)
  BY EndsKeeps
<1>2. i \in DOMAIN frames' /\ i \in Savepoints
  BY <1>1 DEF Savepoints
<1> QED
  BY <1>1, <1>2 DEF StaleInv

LEMMA StampOpens ==
    ASSUME TypeInv, StampInv, NEW b \in BlockSet, Opens(b), loose' = loose, emptied' = emptied,
           b.kind = "savepoint" => atomic = "open" /\ b.set = session,
           atomic' = "open" /\ ~ loose /\ ~ emptied =>
              /\ b.live => Covers(session', stack', b)
              /\ \A i \in DOMAIN frames : frames[i].live => Covers(session', stack', frames[i])
    PROVE  StampInv'
<1> SUFFICES ASSUME ~ loose, ~ emptied, NEW i \in DOMAIN frames', frames'[i].live
             PROVE  /\ atomic' = "open" => Covers(session', stack', frames'[i])
                    /\ \A j \in Savepoints' : i < j => CoverOk(frames', stack', i, j)
  BY DEF StampInv
<1> DEFINE n == Len(frames) + 1
<1>1. /\ frames' \in Seq(BlockSet) /\ Len(frames) \in Nat /\ Len(frames') = n
      /\ DOMAIN frames = 1..Len(frames) /\ DOMAIN frames' = 1..n
      /\ frames'[n] = b /\ \A j \in 1..Len(frames) : frames'[j] = frames[j]
      /\ \A j, k \in 1..Len(frames) : CoverOk(frames, stack, j, k) => CoverOk(frames', stack', j, k)
  BY OpensKeeps
<1>2. i = n \/ i \in 1..Len(frames)
  BY <1>1
<1>3. atomic' = "open" => Covers(session', stack', frames'[i])
  BY <1>1, <1>2
<1>4. ASSUME NEW j \in Savepoints', i < j PROVE CoverOk(frames', stack', i, j)
  <2>1. i \in 1..Len(frames) /\ frames[i].live /\ frames'[j].kind = "savepoint" /\ (j = n \/ j \in 1..Len(frames))
    BY <1>1, <1>4 DEF Savepoints
  <2>2. CASE j \in 1..Len(frames)
    <3>1. j \in Savepoints
      BY <1>1, <2>1, <2>2 DEF Savepoints
    <3> QED
      BY <1>1, <1>4, <2>1, <2>2, <3>1 DEF StampInv
  <2>3. CASE j = n
    <3>1. stack' = stack /\ b.set = session /\ Covers(session, stack, frames[i])
      BY <1>1, <2>1, <2>3 DEF Opens, StampInv
    <3>2. frames' # <<>>
      BY <1>1, EmptySeq
    <3>3. \A y : Above(frames', stack', "reason", n, y) => y = stack
      BY <1>1, <3>1, <3>2, TopFrame
    <3> QED
      BY <1>1, <2>1, <2>3, <3>1, <3>3 DEF CoverOk
  <2> QED
    BY <2>1, <2>2, <2>3
<1> QED
  BY <1>3, <1>4

LEMMA StampEnds ==
    ASSUME TypeInv, StampInv, Ends, loose' = loose, emptied' \in BOOLEAN, emptied => emptied',
           atomic' = "open" /\ ~ loose /\ ~ emptied' =>
              \A i \in DOMAIN frames' : frames[i].live => Covers(session', stack', frames[i])
    PROVE  StampInv'
<1> SUFFICES ASSUME ~ loose, ~ emptied', NEW i \in DOMAIN frames', frames'[i].live
             PROVE  /\ atomic' = "open" => Covers(session', stack', frames'[i])
                    /\ \A j \in Savepoints' : i < j => CoverOk(frames', stack', i, j)
  BY DEF StampInv
<1>1. /\ DOMAIN frames = 1..Len(frames) /\ DOMAIN frames' = 1..Len(frames) - 1 /\ Len(frames) \in Nat
      /\ \A j \in DOMAIN frames' : frames'[j] = frames[j]
      /\ \A j, k \in DOMAIN frames' : CoverOk(frames, stack, j, k) => CoverOk(frames', stack', j, k)
  BY EndsKeeps
<1>2. \A j \in Savepoints' : j \in DOMAIN frames' /\ j \in Savepoints
  BY <1>1 DEF Savepoints
<1>3. i \in DOMAIN frames /\ frames[i].live
  BY <1>1
<1> QED
  BY <1>1, <1>2, <1>3 DEF StampInv

------------------------------------------------------------------------------
(* The actions *)

Bystanders == /\ atomic \in {"none", "open", "failed"} /\ loose \in BOOLEAN /\ emptied \in BOOLEAN
              /\ stack \in Reasons /\ session \in Variables /\ data \in Said

(* Opening and ending blocks respects the types and keeps transactions     *)
(* apart.                                                                  *)
LEMMA OpensTyped ==
    ASSUME TypeInv, OutsideInv, NEW b \in BlockSet, Opens(b), Len(frames) < MaxFrames, Bystanders',
           atomic' = atomic, b.live <=> atomic = "open", b.kind = "savepoint" => atomic = "open",
           atomic = "none" => session' = session
    PROVE  TypeInv' /\ OutsideInv'
<1>1. /\ frames' \in Seq(BlockSet) /\ Len(frames) \in Nat /\ Len(frames') = Len(frames) + 1
      /\ DOMAIN frames = 1..Len(frames) /\ DOMAIN frames' = 1..Len(frames) + 1
      /\ frames'[Len(frames) + 1] = b /\ \A i \in 1..Len(frames) : frames'[i] = frames[i]
  BY OpensKeeps
<1>2. Len(frames') <= MaxFrames
  BY <1>1, SaidIs
<1>3. \A i \in DOMAIN frames' : frames'[i] = b \/ (i \in DOMAIN frames /\ frames'[i] = frames[i])
  BY <1>1
<1> QED
  BY <1>1, <1>2, <1>3 DEF TypeInv, OutsideInv, Bystanders

LEMMA EndsTyped ==
    ASSUME TypeInv, OutsideInv, Ends, Bystanders', atomic = "none" \/ atomic' # "none",
           atomic = "none" => session' = session
    PROVE  TypeInv' /\ OutsideInv'
<1>1. /\ frames' \in Seq(BlockSet) /\ Len(frames) \in Nat \ {0} /\ Len(frames') = Len(frames) - 1
      /\ DOMAIN frames = 1..Len(frames) /\ DOMAIN frames' = 1..Len(frames) - 1
      /\ \A i \in DOMAIN frames' : frames'[i] = frames[i]
  BY EndsKeeps
<1>2. Len(frames') <= MaxFrames
  BY <1>1, SaidIs DEF TypeInv
<1>3. \A i \in DOMAIN frames' : i \in DOMAIN frames
  BY <1>1
<1> QED
  BY <1>1, <1>2, <1>3 DEF TypeInv, OutsideInv, Bystanders

(* Nothing is claimed outside a transaction, or of a session that was not  *)
(* told.                                                                   *)
LEMMA NothingClaimed == OutsideInv' /\ (loose' \/ atomic' = "none") => StaleInv' /\ StampInv'
BY DEF OutsideInv, StaleInv, StampInv, Savepoints

LEMMA UseKeeps ==
    ASSUME VariablesInv, NEW m \in Said, NEW reset \in BOOLEAN, Use(m, reset)
    PROVE  VariablesInv'
<1> DEFINE said == Over(data, m)
           b == [kind |-> "use", reset |-> reset, old |-> [data |-> data, reason |-> <<>>],
                 set |-> [data |-> said, reason |-> stack], live |-> atomic = "open"]
           set == [data |-> Over(session.data, said),
                   reason |-> IF stack # <<>> THEN stack ELSE session.reason]
<1>0. TypeInv /\ OutsideInv /\ StaleInv /\ StampInv
  BY DEF VariablesInv
<1>1. /\ said \in Said /\ Named(said) = Named(data) \cup Named(m)
      /\ data \in Said /\ stack \in Reasons /\ session \in Variables /\ <<>> \in Reasons
  BY <1>0, SaidIs DEF TypeInv, Unset, Variables
<1>2. session.data \in Said /\ session.reason \in Reasons
  BY <1>1 DEF Variables
<1>3. /\ set \in Variables /\ set.data = Over(session.data, said)
      /\ Named(set.data) = Named(session.data) \cup Named(said)
  BY <1>1, <1>2, SaidIs DEF Variables
<1>4. /\ b \in BlockSet /\ b.kind = "use" /\ Was(b) = data /\ b.set.data = said
      /\ (b.live <=> atomic = "open")
  BY <1>1 DEF BlockSet, Kinds, Variables, Was
<1>5. /\ data' = said /\ frames' = Append(frames, b) /\ Len(frames) < MaxFrames
      /\ session' = IF atomic = "open" THEN set ELSE session
      /\ UNCHANGED <<stack, atomic, loose, emptied>>
  BY DEF Use, FrameBegins, Apply, MayNest
<1> HIDE DEF b, set, said
<1>6. Opens(b)
  BY <1>4, <1>5 DEF Opens
<1>7. Bystanders'
  BY <1>0, <1>1, <1>3, <1>5 DEF TypeInv, Bystanders
<1>8. TypeInv' /\ OutsideInv'
  BY <1>0, <1>4, <1>5, <1>6, <1>7, OpensTyped
<1>9. ASSUME atomic = "open", ~ loose
      PROVE  /\ session'.data = data' /\ Fresh(session', data', stack')
             /\ Named(session.data) \subseteq Named(said)
  <2>1. \A k \in Named(session.data) : session.data[k] = data[k]
    BY <1>0, <1>9 DEF StaleInv, Fresh
  <2>2. \A k \in Named(session.data) : k \in Named(data)
    BY <2>1 DEF Named
  <2>3. Named(session.data) \subseteq Named(said)
    BY <1>1, <2>2
  <2>4. Over(session.data, said) = said
    BY <1>1, <1>2, <2>3 DEF Over, Named, Said
  <2>5. session'.reason \in {<<>>, stack'}
    BY <1>0, <1>5, <1>9 DEF StaleInv, Fresh, set
  <2> QED
    BY <1>3, <1>5, <1>9, <2>3, <2>4, <2>5 DEF Fresh
<1>10. ASSUME atomic = "open", ~ loose PROVE Inner(session', frames', Len(frames') + 1)
  <2>1. /\ frames' \in Seq(BlockSet) /\ Len(frames) \in Nat /\ Len(frames') = Len(frames) + 1
        /\ frames'[Len(frames) + 1] = b
    BY <1>0, <1>4, <1>6, OpensKeeps
  <2>2. frames' # <<>>
    BY <2>1, EmptySeq
  <2>3. \A K : Below(frames', Len(frames') + 1, K) => K = Named(said)
    BY <1>4, <2>1, <2>2, TopFrame
  <2> QED
    BY <1>5, <1>9, <1>10, <2>3 DEF Inner
<1>11. StaleInv'
  BY <1>0, <1>4, <1>5, <1>6, <1>9, <1>10, StaleOpens
<1>12. StampInv'
  <2>1. ASSUME atomic = "open", ~ loose, ~ emptied
        PROVE  /\ Covers(session', stack', b)
               /\ \A i \in DOMAIN frames : frames[i].live => Covers(session', stack', frames[i])
    <3>1. session'.data = said /\ Named(session.data) \subseteq Named(said)
      BY <1>5, <1>9, <2>1
    <3>2. Covers(session', stack', b)
      BY <1>4, <3>1 DEF Covers
    <3>3. ASSUME NEW i \in DOMAIN frames, frames[i].live PROVE Covers(session', stack', frames[i])
      <4>1. Covers(session, stack, frames[i])
        BY <1>0, <2>1, <3>3 DEF StampInv
      <4>2. session.reason = stack => session'.reason = stack'
        BY <1>5, <2>1 DEF set
      <4> QED
        BY <3>1, <4>1, <4>2 DEF Covers
    <3> QED
      BY <3>2, <3>3
  <2> QED
    BY <1>0, <1>4, <1>5, <1>6, <2>1, StampOpens
<1> QED
  BY <1>8, <1>11, <1>12 DEF VariablesInv

LEMMA UseChangeReasonKeeps ==
    ASSUME VariablesInv, NEW r \in Reason, NEW reset \in BOOLEAN, UseChangeReason(r, reset)
    PROVE  VariablesInv'
<1> DEFINE b == [kind |-> "reason", reset |-> reset, old |-> [data |-> Silent, reason |-> stack],
                 set |-> Unset, live |-> atomic = "open"]
<1>0. TypeInv /\ OutsideInv /\ StaleInv /\ StampInv
  BY DEF VariablesInv
<1>1. /\ stack' = Append(stack, r) /\ Len(stack) < MaxReasons /\ data' = data
      /\ frames' = Append(frames, b) /\ Len(frames) < MaxFrames
      /\ session' = IF atomic = "open" THEN [session EXCEPT !.reason = stack'] ELSE session
      /\ UNCHANGED <<atomic, loose, emptied>>
  BY DEF UseChangeReason, FrameBegins, Apply, MayNest
<1>2. stack' \in Reasons /\ stack \in Reasons /\ session \in Variables
  BY <1>0, <1>1, ReasonPush DEF TypeInv
<1>3. /\ b \in BlockSet /\ b.kind = "reason" /\ Was(b) = stack /\ Named(b.set.data) = {}
      /\ (b.live <=> atomic = "open")
  BY <1>2, SaidIs DEF BlockSet, Kinds, Variables, Was, Unset
<1>4. session' \in Variables /\ session'.data = session.data
      /\ (atomic = "open" => session'.reason = stack')
  BY <1>1, <1>2 DEF Variables
<1> HIDE DEF b
<1>5. Opens(b)
  BY <1>1, <1>3 DEF Opens
<1>6. Bystanders'
  BY <1>0, <1>1, <1>2, <1>4 DEF TypeInv, Bystanders
<1>7. TypeInv' /\ OutsideInv'
  BY <1>0, <1>1, <1>3, <1>5, <1>6, OpensTyped
<1>8. ASSUME atomic = "open", ~ loose
      PROVE  Fresh(session', data', stack') /\ Inner(session', frames', Len(frames') + 1)
  <2>1. Fresh(session, data, stack) /\ Inner(session, frames, Len(frames) + 1)
    BY <1>0, <1>8 DEF StaleInv
  <2>2. /\ frames' \in Seq(BlockSet) /\ Len(frames) \in Nat /\ Len(frames') = Len(frames) + 1
        /\ frames'[Len(frames) + 1] = b
        /\ \A K : Below(frames', Len(frames) + 1, K) => Below(frames, Len(frames) + 1, K)
    BY <1>0, <1>3, <1>5, OpensKeeps
  <2>3. frames' # <<>>
    BY <2>2, EmptySeq
  <2>4. \A K : Below(frames', Len(frames') + 1, K) => Below(frames, Len(frames) + 1, K)
    BY <1>3, <2>2, <2>3, TopFrame
  <2> QED
    BY <1>1, <1>4, <1>8, <2>1, <2>4 DEF Fresh, Inner
<1>9. StaleInv'
  BY <1>0, <1>1, <1>3, <1>5, <1>8, StaleOpens
<1>10. StampInv'
  <2>1. ASSUME atomic = "open", ~ loose, ~ emptied
        PROVE  /\ Covers(session', stack', b)
               /\ \A i \in DOMAIN frames : frames[i].live => Covers(session', stack', frames[i])
    BY <1>0, <1>3, <1>4, <2>1 DEF StampInv, Covers
  <2> QED
    BY <1>0, <1>1, <1>3, <1>5, <2>1, StampOpens
<1> QED
  BY <1>7, <1>9, <1>10 DEF VariablesInv

LEMMA SavepointKeeps == VariablesInv /\ Savepoint => VariablesInv'
<1> SUFFICES ASSUME VariablesInv, Savepoint PROVE VariablesInv'
  OBVIOUS
<1> DEFINE b == [kind |-> "savepoint", reset |-> FALSE, old |-> Unset, set |-> session,
                 live |-> atomic = "open"]
<1>0. TypeInv /\ OutsideInv /\ StaleInv /\ StampInv
  BY DEF VariablesInv
<1>1. /\ atomic = "open" /\ frames' = Append(frames, b) /\ Len(frames) < MaxFrames
      /\ UNCHANGED <<data, stack, atomic, session, loose, emptied>>
  BY DEF Savepoint, FrameBegins, MayNest
<1>2. /\ b \in BlockSet /\ b.kind = "savepoint" /\ b.set = session
      /\ (b.live <=> atomic = "open")
  BY <1>0, SaidIs DEF BlockSet, Kinds, TypeInv
<1> HIDE DEF b
<1>3. Opens(b)
  BY <1>1, <1>2 DEF Opens
<1>4. Bystanders'
  BY <1>0, <1>1 DEF TypeInv, Bystanders
<1>5. TypeInv' /\ OutsideInv'
  BY <1>0, <1>1, <1>2, <1>3, <1>4, OpensTyped
<1>6. ASSUME ~ loose
      PROVE  Fresh(session', data', stack') /\ Inner(session', frames', Len(frames') + 1)
  <2>1. Fresh(session, data, stack) /\ Inner(session, frames, Len(frames) + 1)
    BY <1>0, <1>1, <1>6 DEF StaleInv
  <2>2. /\ frames' \in Seq(BlockSet) /\ Len(frames) \in Nat /\ Len(frames') = Len(frames) + 1
        /\ frames'[Len(frames) + 1] = b
        /\ \A K : Below(frames', Len(frames) + 1, K) => Below(frames, Len(frames) + 1, K)
    BY <1>0, <1>2, <1>3, OpensKeeps
  <2>3. frames' # <<>>
    BY <2>2, EmptySeq
  <2>4. \A K : Below(frames', Len(frames') + 1, K) => Below(frames, Len(frames) + 1, K)
    BY <1>2, <2>2, <2>3, TopFrame
  <2> QED
    BY <1>1, <2>1, <2>4 DEF Inner
<1>7. StaleInv'
  BY <1>0, <1>1, <1>2, <1>3, <1>6, StaleOpens
<1>8. StampInv'
  <2>1. ASSUME ~ loose, ~ emptied
        PROVE  /\ Covers(session', stack', b)
               /\ \A i \in DOMAIN frames : frames[i].live => Covers(session', stack', frames[i])
    BY <1>0, <1>1, <1>2, <2>1 DEF StampInv, Covers
  <2> QED
    BY <1>0, <1>1, <1>2, <1>3, <2>1, StampOpens
<1> QED
  BY <1>5, <1>7, <1>8 DEF VariablesInv

LEMMA ExitUseKeeps == VariablesInv /\ ExitUse => VariablesInv'
<1> SUFFICES ASSUME VariablesInv, ExitUse PROVE VariablesInv'
  OBVIOUS
<1> DEFINE set == [data |-> Without(session.data, Named(Innermost.set.data)),
                   reason |-> IF Innermost.set.reason # <<>> THEN <<>> ELSE session.reason]
<1>0. TypeInv /\ OutsideInv /\ StaleInv /\ StampInv
  BY DEF VariablesInv
<1>1. /\ frames # <<>> /\ FrameEnds /\ Innermost.kind = "use" /\ data' = Innermost.old.data /\ Was(Innermost) = data'
      /\ UNCHANGED <<stack, atomic>>
  BY DEF ExitUse, Was
<1>2. Ends
  BY <1>1 DEF Ends
<1>3. /\ Innermost \in BlockSet /\ Len(frames) \in Nat \ {0} /\ Len(frames') = Len(frames) - 1
      /\ Innermost = frames[Len(frames)]
  BY <1>0, <1>2, EndsKeeps
<1>4. data' \in Said /\ session.data \in Said /\ session.reason \in Reasons /\ <<>> \in Reasons
  BY <1>0, <1>1, <1>3, SaidIs DEF TypeInv, BlockSet, Variables, Unset
<1>5. Named(Innermost.set.data) \in SUBSET Name
  BY DEF Named
<1>6. /\ set \in Variables /\ set.data = Without(session.data, Named(Innermost.set.data))
      /\ Named(set.data) = Named(session.data) \ Named(Innermost.set.data)
      /\ set.reason \in {<<>>, session.reason}
  BY <1>4, <1>5, SaidIs DEF Variables
<1>7. /\ session' \in {session, set} /\ (atomic # "open" => session' = session)
      /\ loose' \in BOOLEAN /\ emptied' \in BOOLEAN
  BY <1>0 DEF ExitUse, Apply, Untold, TypeInv
<1>8. /\ Innermost.reset => /\ session' = IF atomic = "open" THEN set ELSE session
                      /\ emptied' = (emptied \/ atomic = "open") /\ loose' = loose
      /\ ~ Innermost.reset => loose' = (loose \/ atomic # "none")
  BY DEF ExitUse, Apply, Untold
<1> HIDE DEF set
<1>9. Bystanders'
  BY <1>0, <1>1, <1>4, <1>6, <1>7 DEF TypeInv, Bystanders
<1>10. TypeInv' /\ OutsideInv'
  BY <1>0, <1>1, <1>2, <1>7, <1>9, EndsTyped
<1>11. CASE ~ Innermost.reset
  <2>1. loose' \/ atomic' = "none"
    BY <1>0, <1>1, <1>8, <1>11 DEF TypeInv
  <2>2. StaleInv' /\ StampInv'
    BY <1>10, <2>1, NothingClaimed
  <2> QED
    BY <1>10, <2>2 DEF VariablesInv
<1>12. CASE Innermost.reset
  <2>1. ASSUME atomic = "open", ~ loose
        PROVE  Fresh(session', data', stack') /\ Inner(session', frames', Len(frames') + 1)
    <3>1. Fresh(session, data, stack) /\ Inner(session, frames, Len(frames) + 1)
      BY <1>0, <2>1 DEF StaleInv
    <3>2. Below(frames, Len(frames) + 1, Named(Innermost.set.data))
      BY <1>0, <1>1, <1>3, TopFrame DEF TypeInv
    <3>3. Named(session'.data) = {}
      BY <1>6, <1>8, <1>12, <2>1, <3>1, <3>2 DEF Inner
    <3>4. session'.reason \in {<<>>, stack'}
      BY <1>1, <1>6, <1>8, <1>12, <2>1, <3>1 DEF Fresh
    <3> QED
      BY <3>3, <3>4 DEF Fresh, Inner
  <2>2. StaleInv'
    BY <1>0, <1>1, <1>2, <1>8, <1>12, <2>1, StaleEnds
  <2>3. StampInv'
    BY <1>0, <1>1, <1>2, <1>7, <1>8, <1>12, StampEnds
  <2> QED
    BY <1>10, <2>2, <2>3 DEF VariablesInv
<1> QED
  BY <1>11, <1>12

LEMMA ExitReasonKeeps == VariablesInv /\ ExitChangeReason => VariablesInv'
<1> SUFFICES ASSUME VariablesInv, ExitChangeReason PROVE VariablesInv'
  OBVIOUS
<1>0. TypeInv /\ OutsideInv /\ StaleInv /\ StampInv
  BY DEF VariablesInv
<1>1. /\ frames # <<>> /\ FrameEnds /\ Innermost.kind = "reason" /\ stack' = Innermost.old.reason /\ Was(Innermost) = stack'
      /\ UNCHANGED <<data, atomic, emptied>>
  BY DEF ExitChangeReason, Was
<1>2. Ends
  BY <1>1 DEF Ends
<1>3. /\ Innermost \in BlockSet /\ Len(frames) \in Nat \ {0} /\ Len(frames') = Len(frames) - 1
      /\ Innermost = frames[Len(frames)] /\ DOMAIN frames = 1..Len(frames) /\ DOMAIN frames' = 1..Len(frames) - 1
      /\ \A K : Below(frames', Len(frames') + 1, K) => Below(frames, Len(frames), K)
  BY <1>0, <1>2, EndsKeeps
<1>4. stack' \in Reasons /\ session \in Variables
  BY <1>0, <1>1, <1>3 DEF TypeInv, BlockSet, Variables
<1>5. /\ Innermost.reset => /\ session' = IF atomic = "open" THEN [session EXCEPT !.reason = stack'] ELSE session
                      /\ loose' = loose
      /\ ~ Innermost.reset => loose' = (loose \/ atomic # "none") /\ session' = session
  BY DEF ExitChangeReason, Apply, Untold
<1>6. /\ session' \in Variables /\ session'.data = session.data /\ (atomic = "none" => session' = session)
      /\ Innermost.reset /\ atomic = "open" => session'.reason = stack'
  BY <1>0, <1>3, <1>4, <1>5 DEF Variables, TypeInv, BlockSet
<1>7. Bystanders'
  BY <1>0, <1>1, <1>3, <1>4, <1>5, <1>6 DEF TypeInv, Bystanders, BlockSet
<1>8. TypeInv' /\ OutsideInv'
  BY <1>0, <1>1, <1>2, <1>6, <1>7, EndsTyped
<1>9. CASE ~ Innermost.reset
  <2>1. loose' \/ atomic' = "none"
    BY <1>0, <1>1, <1>5, <1>9 DEF TypeInv
  <2>2. StaleInv' /\ StampInv'
    BY <1>8, <2>1, NothingClaimed
  <2> QED
    BY <1>8, <2>2 DEF VariablesInv
<1>10. CASE Innermost.reset
  <2>1. ASSUME atomic = "open", ~ loose
        PROVE  Fresh(session', data', stack') /\ Inner(session', frames', Len(frames') + 1)
    <3>1. Fresh(session, data, stack) /\ Inner(session, frames, Len(frames) + 1)
      BY <1>0, <2>1 DEF StaleInv
    <3>2. \A K : Below(frames, Len(frames) + 1, K) <=> Below(frames, Len(frames), K)
      BY <1>0, <1>1, <1>3, TopFrame DEF TypeInv
    <3> QED
      BY <1>1, <1>3, <1>6, <1>10, <2>1, <3>1, <3>2 DEF Fresh, Inner
  <2>2. StaleInv'
    BY <1>0, <1>1, <1>2, <1>5, <1>10, <2>1, StaleEnds
  <2>3. ASSUME atomic = "open", ~ loose, ~ emptied
        PROVE  \A i \in DOMAIN frames' : frames[i].live => Covers(session', stack', frames[i])
    <3>1. \A i \in DOMAIN frames' : i \in DOMAIN frames
      BY <1>3
    <3> QED
      BY <1>0, <1>6, <1>10, <2>3, <3>1 DEF StampInv, Covers
  <2>4. StampInv'
    BY <1>0, <1>1, <1>2, <1>5, <1>10, <2>3, StampEnds DEF TypeInv
  <2> QED
    BY <1>8, <2>2, <2>4 DEF VariablesInv
<1> QED
  BY <1>9, <1>10

(* The end of a savepoint, with its variables or those of the session.     *)
LEMMA SavepointEnds == VariablesInv /\ (Release \/ RollbackTo) => VariablesInv'
<1> SUFFICES ASSUME VariablesInv, Release \/ RollbackTo PROVE VariablesInv'
  OBVIOUS
<1>0. TypeInv /\ OutsideInv /\ StaleInv /\ StampInv
  BY DEF VariablesInv
<1>1. /\ frames # <<>> /\ FrameEnds /\ Innermost.kind = "savepoint" /\ atomic' = "open"
      /\ UNCHANGED <<data, stack, loose, emptied>>
      /\ (atomic = "open" /\ session' = session) \/ session' = Innermost.set
  BY DEF Release, RollbackTo
<1>2. Ends
  BY <1>1 DEF Ends
<1>3. /\ Innermost \in BlockSet /\ Len(frames) \in Nat \ {0} /\ Len(frames') = Len(frames) - 1
      /\ Innermost = frames[Len(frames)] /\ DOMAIN frames = 1..Len(frames) /\ DOMAIN frames' = 1..Len(frames) - 1
      /\ \A K : Below(frames', Len(frames') + 1, K) => Below(frames, Len(frames), K)
  BY <1>0, <1>2, EndsKeeps
<1>4. Len(frames) \in DOMAIN frames /\ Len(frames) \in Savepoints
  BY <1>1, <1>3 DEF Savepoints
<1>5. Bystanders' /\ atomic # "none"
  BY <1>0, <1>1, <1>3, <1>4 DEF TypeInv, Bystanders, BlockSet, OutsideInv
<1>6. TypeInv' /\ OutsideInv'
  BY <1>0, <1>1, <1>2, <1>5, EndsTyped
<1>7. /\ \A x : Above(frames, data, "use", Len(frames), x) <=> x = data
      /\ \A x : Above(frames, stack, "reason", Len(frames), x) <=> x = stack
      /\ \A K : Below(frames, Len(frames) + 1, K) <=> Below(frames, Len(frames), K)
  BY <1>0, <1>1, <1>3, TopFrame DEF TypeInv
<1>8. ASSUME ~ loose
      PROVE  Fresh(session', data', stack') /\ Inner(session', frames', Len(frames') + 1)
  <2>1. CASE session' = Innermost.set
    <3>1. SaveOk(frames, data, stack, Len(frames))
      BY <1>0, <1>4, <1>8 DEF StaleInv
    <3> QED
      BY <1>1, <1>3, <1>7, <2>1, <3>1 DEF SaveOk, Inner
  <2>2. CASE atomic = "open" /\ session' = session
    <3>1. Fresh(session, data, stack) /\ Inner(session, frames, Len(frames) + 1)
      BY <1>0, <1>8, <2>2 DEF StaleInv
    <3> QED
      BY <1>1, <1>3, <1>7, <2>2, <3>1 DEF Inner
  <2> QED
    BY <1>1, <2>1, <2>2
<1>9. StaleInv'
  BY <1>0, <1>1, <1>2, <1>8, StaleEnds
<1>10. ASSUME ~ loose, ~ emptied
       PROVE  \A i \in DOMAIN frames' : frames[i].live => Covers(session', stack', frames[i])
  <2> SUFFICES ASSUME NEW i \in DOMAIN frames', frames[i].live PROVE Covers(session', stack', frames[i])
    OBVIOUS
  <2>1. i \in DOMAIN frames /\ i < Len(frames)
    BY <1>3
  <2>2. CASE session' = Innermost.set
    <3>1. CoverOk(frames, stack, i, Len(frames))
      BY <1>0, <1>4, <1>10, <2>1 DEF StampInv
    <3> QED
      BY <1>1, <1>3, <1>7, <2>2, <3>1 DEF CoverOk
  <2>3. CASE atomic = "open" /\ session' = session
    BY <1>0, <1>1, <1>10, <2>1, <2>3 DEF StampInv
  <2> QED
    BY <1>1, <2>2, <2>3
<1>11. StampInv'
  BY <1>0, <1>1, <1>2, <1>10, StampEnds DEF TypeInv
<1> QED
  BY <1>6, <1>9, <1>11 DEF VariablesInv

(* Whatever says something without telling the session, in a transaction   *)
(* that is not claimed about or outside one.                               *)
LEMMA UntoldKeeps ==
    ASSUME VariablesInv, Untold, Bystanders', frames' = frames,
           atomic = "none" <=> atomic' = "none", atomic = "none" => session' = session
    PROVE  VariablesInv'
<1>0. TypeInv /\ OutsideInv
  BY DEF VariablesInv
<1>1. TypeInv' /\ OutsideInv'
  BY <1>0 DEF TypeInv, OutsideInv, Bystanders
<1>2. loose' \/ atomic' = "none"
  BY DEF Untold
<1> QED
  BY <1>1, <1>2, NothingClaimed DEF VariablesInv

LEMMA DirectKeeps ==
    ASSUME VariablesInv,
           \/ DirectStep
           \/ \E m \in Said : UseFails(m)
           \/ \E r \in Reason : UseChangeReasonFails(r)
    PROVE  VariablesInv'
<1>0. TypeInv /\ Bystanders
  BY DEF VariablesInv, TypeInv, Bystanders
<1>1. ASSUME NEW k \in Name, NEW v \in Text, Set(k, v) PROVE VariablesInv'
  <2>1. data' \in Said
    BY <1>0, <1>1 DEF Set, Said, TypeInv
  <2>2. Bystanders'
    BY <1>0, <1>1, <2>1 DEF Set, Untold, Bystanders
  <2> QED
    BY <1>1, <2>2, UntoldKeeps DEF Set
<1>2. ASSUME NEW r \in Reason, PushChangeReason(r) \/ UseChangeReasonFails(r) PROVE VariablesInv'
  <2>1. stack' \in Reasons /\ Untold /\ UNCHANGED <<data, frames, session, emptied>>
    BY <1>0, <1>2, ReasonPush DEF PushChangeReason, UseChangeReasonFails, Bystanders
  <2>2. atomic' \in {"none", "open", "failed"} /\ (atomic = "none" <=> atomic' = "none")
    BY <1>0, <1>2 DEF PushChangeReason, UseChangeReasonFails, Fails, Bystanders
  <2>3. Bystanders'
    BY <1>0, <2>1, <2>2 DEF Untold, Bystanders
  <2> QED
    BY <2>1, <2>2, <2>3, UntoldKeeps
<1>3. ASSUME NEW m \in Said, UseFails(m) PROVE VariablesInv'
  <2>1. data' = Over(data, m) /\ Untold /\ UNCHANGED <<stack, frames, emptied>> /\ data' \in Said
    BY <1>0, <1>3, SaidIs DEF UseFails, Bystanders
  <2>2. atomic' \in {"none", "open", "failed"} /\ (atomic = "none" <=> atomic' = "none")
    BY <1>0, <1>3 DEF UseFails, Fails, Bystanders
  <2>3. PICK done \in SUBSET Named(data') :
            Apply([session EXCEPT !.data = Over(@, Without(data', Name \ done))])
    BY <1>3 DEF UseFails
  <2>4. session.data \in Said /\ Without(data', Name \ done) \in Said
    BY <1>0, <2>1, SaidIs DEF Bystanders, Variables
  <2>5. Over(session.data, Without(data', Name \ done)) \in Said
    BY <2>4, SaidIs
  <2>6. session' \in Variables /\ (atomic = "none" => session' = session)
    BY <1>0, <2>3, <2>5 DEF Apply, Variables, Bystanders
  <2>7. Bystanders'
    BY <1>0, <2>1, <2>2, <2>6 DEF Untold, Bystanders
  <2> QED
    BY <2>1, <2>2, <2>6, <2>7, UntoldKeeps
<1> QED
  BY <1>1, <1>2, <1>3 DEF DirectStep

(* The transaction begins, fails and ends, or nothing happens.             *)
LEMMA TransactionKeeps ==
    ASSUME VariablesInv, BeginTransaction \/ FailStatement \/ EndTransaction \/ UNCHANGED contextVars
    PROVE  VariablesInv'
<1>0. TypeInv /\ OutsideInv /\ StaleInv /\ StampInv
  BY DEF VariablesInv
<1>1. CASE BeginTransaction
  <2>1. /\ atomic = "none" /\ atomic' = "open"
        /\ UNCHANGED <<data, stack, frames, session, loose, emptied>>
    BY <1>1 DEF BeginTransaction
  <2>2. /\ session' = Unset /\ Savepoints' = {} /\ \A i \in DOMAIN frames' : ~ frames'[i].live
    BY <1>0, <2>1 DEF OutsideInv, Savepoints
  <2>3. TypeInv' /\ OutsideInv'
    BY <1>0, <2>1 DEF TypeInv, OutsideInv
  <2>4. Fresh(Unset, data', stack') /\ Inner(Unset, frames', Len(frames') + 1)
    BY SaidIs DEF Fresh, Inner, Unset
  <2>5. StaleInv' /\ StampInv'
    BY <2>2, <2>4 DEF StaleInv, StampInv
  <2> QED
    BY <2>3, <2>5 DEF VariablesInv
<1>2. CASE FailStatement
  <2>1. /\ atomic = "open" /\ atomic' = "failed"
        /\ UNCHANGED <<data, stack, frames, session, loose, emptied>>
    BY <1>2 DEF FailStatement
  <2> QED
    BY <1>0, <2>1 DEF VariablesInv, TypeInv, OutsideInv, StaleInv, StampInv, Savepoints
<1>3. CASE EndTransaction
  <2>1. /\ Savepoints = {} /\ atomic' = "none" /\ session' = Unset
        /\ frames' = [i \in DOMAIN frames |-> [frames[i] EXCEPT !.live = FALSE]]
        /\ loose' = FALSE /\ emptied' = FALSE /\ UNCHANGED <<data, stack>>
    BY <1>3 DEF EndTransaction
  <2>2. Len(frames) \in Nat /\ DOMAIN frames = 1..Len(frames) /\ \A i \in 1..Len(frames) : frames[i] \in BlockSet
    <3> HIDE DEF BlockSet
    <3> QED
      BY <1>0 DEF TypeInv
  <2>3. \A i \in 1..Len(frames) : [frames[i] EXCEPT !.live = FALSE] \in BlockSet
    BY <2>2 DEF BlockSet
  <2>4. frames' \in Seq(BlockSet) /\ DOMAIN frames' = 1..Len(frames) /\ Len(frames') = Len(frames)
    <3> HIDE DEF BlockSet
    <3>1. frames' \in [1..Len(frames) -> BlockSet]
      BY <2>1, <2>2, <2>3
    <3> QED
      BY <2>2, <3>1
  <2>5. \A i \in DOMAIN frames' : frames'[i].kind # "savepoint" /\ ~ frames'[i].live
    BY <2>1, <2>2, <2>4 DEF Savepoints, BlockSet
  <2>6. TypeInv' /\ OutsideInv'
    BY <1>0, <2>1, <2>4, <2>5, SaidIs DEF TypeInv, OutsideInv
  <2> QED
    BY <2>1, <2>6, NothingClaimed DEF VariablesInv
<1>4. CASE UNCHANGED contextVars
  BY <1>0, <1>4 DEF contextVars, VariablesInv, TypeInv, OutsideInv, StaleInv, StampInv, Savepoints
<1> QED
  BY <1>1, <1>2, <1>3, <1>4

------------------------------------------------------------------------------
(* Theorems *)

(***************************************************************************)
(* The inductive invariant: the variables say what is said and were set by *)
(* the innermost use() block, which empties them when it ends; a savepoint *)
(* keeps the same of the place where it began, where the next block above  *)
(* remembers what was said; and until a use() block ends, both have what   *)
(* the blocks around them applied.                                         *)
(***************************************************************************)
THEOREM VariablesInvariant == ContextSpec => []VariablesInv
<1>1. ContextInit => VariablesInv
  <2> SUFFICES ASSUME ContextInit PROVE VariablesInv
    OBVIOUS
  <2>1. /\ data \in Said /\ stack = <<>> /\ frames = <<>> /\ atomic = "none"
        /\ session = Unset /\ loose = FALSE /\ emptied = FALSE
    BY DEF ContextInit
  <2>2. <<>> \in Reasons /\ Unset \in Variables /\ MaxFrames \in Nat
    BY SaidIs DEF Variables, Unset
  <2>3. TypeInv
    <3>1. frames \in Seq(BlockSet) /\ Len(frames) = 0 /\ 0 <= MaxFrames
      BY <2>1, <2>2, EmptySeq
    <3> HIDE DEF BlockSet, Reasons, Variables, Said
    <3> QED
      BY <2>1, <2>2, <3>1 DEF TypeInv
  <2> QED
    BY <2>1, <2>3 DEF VariablesInv, OutsideInv, StaleInv, StampInv, Savepoints
<1>2. VariablesInv /\ [ContextNext]_contextVars => VariablesInv'
  <2> SUFFICES ASSUME VariablesInv, [ContextNext]_contextVars PROVE VariablesInv'
    OBVIOUS
  <2>1. CASE UseStep
    BY <2>1, UseKeeps, DirectKeeps, ExitUseKeeps DEF UseStep
  <2>2. CASE ReasonStep
    BY <2>2, UseChangeReasonKeeps, DirectKeeps, ExitReasonKeeps DEF ReasonStep
  <2>3. CASE DirectStep
    BY <2>3, DirectKeeps
  <2>4. CASE TransactionStep
    BY <2>4, TransactionKeeps, SavepointKeeps, SavepointEnds DEF TransactionStep
  <2>5. CASE UNCHANGED contextVars
    BY <2>5, TransactionKeeps
  <2> QED
    BY <2>1, <2>2, <2>3, <2>4, <2>5 DEF ContextNext
<1> QED
  BY <1>1, <1>2, PTL DEF ContextSpec

(* What is said, set and open has its type, and no variable outlives its   *)
(* transaction, which is what is_local = true is for.                      *)
THEOREM VariablesTyped == ContextSpec => []VariablesTypeOK
<1>1. VariablesInv => VariablesTypeOK
  BY DEF VariablesInv, TypeInv, OutsideInv, VariablesTypeOK, Reasons, Variables
<1> QED
  BY <1>1, VariablesInvariant, PTL

(* A variable is empty or says what get() and get_change_reason() say,     *)
(* through blocks, savepoints, failures and transactions, until            *)
(* AuditContext is changed behind the back of the session: by set(),       *)
(* push_change_reason(), reset=False or a failing entry.                   *)
THEOREM VariablesNeverStale == ContextSpec => []NeverStale
<1>1. VariablesInv => NeverStale
  BY DEF VariablesInv, StaleInv, Fresh, NeverStale
<1> QED
  BY <1>1, VariablesInvariant, PTL

(* Until a use() block ends in the transaction, and with the same          *)
(* exceptions, a block opened in it has its keys and its reason in the     *)
(* variables, whatever was rolled back inside it.                          *)
THEOREM BlocksStamp == ContextSpec => []Stamped
<1>1. VariablesInv => Stamped
  <2> SUFFICES ASSUME VariablesInv, atomic = "open", ~ loose, ~ emptied,
                      NEW i \in DOMAIN frames, frames[i].live
               PROVE  /\ \A k \in Named(frames[i].set.data) : session.data[k] = data[k]
                      /\ frames[i].kind = "reason" => session.reason = stack
    BY DEF Stamped
  <2>1. Covers(session, stack, frames[i]) /\ Fresh(session, data, stack)
    BY DEF VariablesInv, StampInv, StaleInv
  <2> QED
    BY <2>1 DEF Covers, Fresh
<1> QED
  BY <1>1, VariablesInvariant, PTL
==============================================================================
