------------------------- MODULE MongoSourceProofs -------------------------
(***************************************************************************)
(* No change behind a saved resume token is missing from the log, and the  *)
(* changes of a document are in the log in their order, each once: proofs  *)
(* about MongoSource and EventLog for any collections, documents, batches  *)
(* and chunks, and any failures, restarts and lost oplogs.                 *)
(***************************************************************************)
EXTENDS MongoSource, FiniteSetTheorems, SequenceTheorems, TLAPS

\* Events and entries of the log; what a chunk of a batch is made of.
Evt == UNION {{Normalized(c, o) : o \in Op(c)} : c \in Colls}
AnyOp == [key : DOMAIN PartitionOf, ok : BOOLEAN, time : Nat]
Item == [ev : Evt, seq : Nat]
CallType == [busy : BOOLEAN, items : Seq(Item), done : Nat, written : SUBSET Evt]

MongoTypeOK ==
    /\ ops \in [Colls -> Seq(AnyOp)] /\ \A c \in Colls : ops[c] \in Seq(Op(c)) /\ Len(ops[c]) > 0
    /\ store \in [Colls -> Nat] /\ tok \in [Colls -> Nat] /\ pos \in [Colls -> Nat]
    /\ base \in [Colls -> Nat] /\ legacy \in Nat
    /\ pc \in [Colls -> {"open", "next", "drain", "append", "save", "ended"}]
    /\ batch \in [Colls -> Seq(Evt)]
    /\ log \in [Partitions -> SUBSET Item] /\ nextSeq \in [Partitions -> Nat]
    /\ call \in [Colls -> CallType]

\* The idempotency keys of the log, of a batch and of a call's items.
Known == {it.ev.id : it \in UNION {log[p] : p \in Partitions}}
IdsOf(b) == {b[j].id : j \in DOMAIN b}
ItemIds(items) == {items[j].ev.id : j \in DOMAIN items}

\* The readable changes of collection c between two positions have keys in K.
Covered(q, c, lo, hi, K) == \A i \in (lo + 1)..hi : q[i].ok => Normalized(c, q[i]).id \in K

\* Positions, and what the saved token stands for.
Tokens(c) ==
    /\ store[c] <= Len(ops[c]) /\ tok[c] <= Len(ops[c]) /\ pos[c] <= Len(ops[c])
    /\ tok[c] = Loaded(c) /\ (store[c] = 0 => base[c] = legacy)
    /\ Covered(ops[c], c, base[c], tok[c], Known)

\* What has been read since the saved token is in the log, in the call's items or
\* in the batch, depending on how far the goroutine has come.
Pending(c) ==
    /\ pc[c] = "next" /\ tok[c] # 0 => pos[c] = tok[c]
    /\ pc[c] \in {"drain", "append", "save"} => pos[c] > 0
    /\ pc[c] = "drain" /\ tok[c] # 0 => Covered(ops[c], c, tok[c], pos[c], IdsOf(batch[c]))
    /\ pc[c] = "append" /\ tok[c] # 0 =>
          Covered(ops[c], c, tok[c], pos[c], ItemIds(call[c].items))
    /\ pc[c] = "save" /\ tok[c] # 0 => Covered(ops[c], c, tok[c], pos[c], Known)

\* The items that a call has committed are in the log, by its own entry or by an
\* earlier one.
Committed(c, K) ==
    /\ c.done <= Len(c.items)
    /\ \A j \in 1..c.done : c.items[j].ev.id \in K

CollOK(c) == Tokens(c) /\ Pending(c) /\ Committed(call[c], Known)

MongoInv == MongoTypeOK /\ \A c \in Colls : CollOK(c)

-----------------------------------------------------------------------------
(* Sets of numbers, events and what is covered.                             *)

LEMMA LeastElement ==
    ASSUME NEW T, T \subseteq Nat, T # {}
    PROVE  \E x \in T : \A y \in T : x <= y
<1> DEFINE R == {ss \in Nat \X Nat : ss[1] < ss[2]}
<1>1. IsWellFoundedOn(R, Nat)
  <2>1. OpToRel(<, Nat) = R
    BY DEF OpToRel
  <2> QED BY <2>1, NatLessThanWellFounded
<1>2. \A x, y \in Nat : ~(<<y, x>> \in R) => x <= y
  OBVIOUS
<1> HIDE DEF R
<1>3. PICK x \in T : \A y \in T : ~(<<y, x>> \in R)
  BY <1>1, WFMin, Zenon
<1> QED BY <1>2, <1>3

LEMMA EventsHavePartitions ==
    ASSUME NEW e \in Evt
    PROVE  PartOf(e) \in Partitions
<1>1. PICK c \in Colls : \E o \in Op(c) : e = Normalized(c, o)
  BY DEF Evt
<1>2. e.key \in DocKeys[c]
  <2>1. PICK o \in Op(c) : e = Normalized(c, o)
    BY <1>1
  <2> QED BY <2>1 DEF Normalized, Op
<1>3. e.key \in DOMAIN PartitionOf
  BY <1>2, MongoAssumption
<1> QED BY <1>3 DEF PartOf, Partitions

LEMMA NormalizedIsEvent ==
    ASSUME NEW c \in Colls, NEW o \in Op(c)
    PROVE  Normalized(c, o) \in Evt
BY DEF Evt

LEMMA CoveredGrows ==
    ASSUME NEW q, NEW c, NEW lo, NEW hi, NEW K, NEW L, K \subseteq L, Covered(q, c, lo, hi, K)
    PROVE  Covered(q, c, lo, hi, L)
BY DEF Covered

LEMMA CoveredJoins ==
    ASSUME NEW q, NEW c, NEW lo \in Nat, NEW mid \in Nat, NEW hi \in Nat, NEW K,
           Covered(q, c, lo, mid, K), Covered(q, c, mid, hi, K)
    PROVE  Covered(q, c, lo, hi, K)
<1>1. \A i \in (lo + 1)..hi : i \in (lo + 1)..mid \/ i \in (mid + 1)..hi
  OBVIOUS
<1> QED BY <1>1 DEF Covered

LEMMA CoveredOfPrefix ==
    ASSUME NEW q, NEW r, NEW c, NEW lo \in Nat, NEW hi \in Nat, NEW n \in Nat, NEW K, hi <= n,
           \A i \in 1..n : r[i] = q[i], Covered(q, c, lo, hi, K)
    PROVE  Covered(r, c, lo, hi, K)
<1>1. \A i \in (lo + 1)..hi : i \in 1..n
  OBVIOUS
<1> QED BY <1>1 DEF Covered

\* A position that starts where it ends covers nothing.
LEMMA CoveredNothing ==
    ASSUME NEW q, NEW c, NEW lo \in Nat, NEW hi \in Nat, hi <= lo, NEW K
    PROVE  Covered(q, c, lo, hi, K)
<1>1. (lo + 1)..hi = {}
  OBVIOUS
<1> QED BY <1>1 DEF Covered

\* The next change is read.
LEMMA CoveredByOneMore ==
    ASSUME NEW q, NEW c, NEW lo \in Nat, NEW hi \in Nat, NEW K, NEW L, K \subseteq L,
           Covered(q, c, lo, hi, K), q[hi + 1].ok => Normalized(c, q[hi + 1]).id \in L
    PROVE  Covered(q, c, lo, hi + 1, L)
<1>1. \A i \in (lo + 1)..(hi + 1) : i \in (lo + 1)..hi \/ i = hi + 1
  OBVIOUS
<1> QED BY <1>1 DEF Covered

-----------------------------------------------------------------------------
(* The event log.                                                           *)

LEMMA CallFields ==
    ASSUME NEW c \in CallType
    PROVE  /\ c.busy \in BOOLEAN /\ c.items \in Seq(Item) /\ c.done \in Nat
           /\ c.written \in SUBSET Evt
BY DEF CallType

LEMMA NoCallOK == NoCall \in CallType /\ \A K : Committed(NoCall, K)
<1>1. NoCall \in CallType /\ NoCall.done = 0 /\ NoCall.items = <<>>
  BY DEF NoCall, CallType
<1> QED BY <1>1 DEF Committed

\* Phase 1 numbers the events and leaves them alone.
LEMMA NumberedOK ==
    ASSUME MongoTypeOK, NEW evs \in Seq(Evt)
    PROVE  /\ Numbered(evs) \in Seq(Item) /\ ItemIds(Numbered(evs)) = IdsOf(evs)
           /\ Len(Numbered(evs)) = Len(evs)
<1> DEFINE S(i) == {j \in 1..(i - 1) : PartOf(evs[j]) = PartOf(evs[i])}
           It(i) == [ev |-> evs[i], seq |-> nextSeq[PartOf(evs[i])] + Cardinality(S(i))]
<1>1. ASSUME NEW i \in 1..Len(evs)
      PROVE  It(i) \in Item /\ It(i).ev = evs[i]
  <2>1. evs[i] \in Evt /\ nextSeq[PartOf(evs[i])] \in Nat
    <3>1. evs[i] \in Evt
      OBVIOUS
    <3> QED BY <3>1, EventsHavePartitions DEF MongoTypeOK
  <2>2. Cardinality(S(i)) \in Nat
    <3>1. IsFiniteSet(1..(i - 1))
      BY FS_Interval
    <3>2. S(i) \subseteq 1..(i - 1)
      OBVIOUS
    <3> QED BY <3>1, <3>2, FS_Subset, FS_CardinalityType
  <2> HIDE DEF S
  <2> QED BY <2>1, <2>2 DEF Item
<1> HIDE DEF It
<1>2. Numbered(evs) = [i \in 1..Len(evs) |-> It(i)] /\ DOMAIN evs = 1..Len(evs) /\ Len(evs) \in Nat
  <2>1. DOMAIN evs = 1..Len(evs) /\ Len(evs) \in Nat
    OBVIOUS
  <2>2. Numbered(evs) = [i \in DOMAIN evs |-> It(i)]
    BY Zenon DEF Numbered, It
  <2> QED BY <2>1, <2>2
<1>3. Numbered(evs) \in [1..Len(evs) -> Item]
  BY <1>1, <1>2
<1>4. Numbered(evs) \in UNION {[1..n -> Item] : n \in Nat}
  BY <1>2, <1>3
<1>5. Numbered(evs) \in Seq(Item) /\ Len(Numbered(evs)) = Len(evs)
  <2>1. Numbered(evs) \in Seq(Item)
    BY <1>4, SeqDef
  <2> QED BY <1>2, <1>3, <2>1
<1>6. \A i \in 1..Len(evs) : Numbered(evs)[i].ev.id = evs[i].id
  BY <1>1, <1>2
<1>7. DOMAIN Numbered(evs) = 1..Len(evs)
  BY <1>3
<1> HIDE DEF S
<1>8. ItemIds(Numbered(evs)) = IdsOf(evs)
  BY <1>2, <1>6, <1>7 DEF ItemIds, IdsOf
<1> QED BY <1>5, <1>8

LEMMA CallPrepared ==
    ASSUME NEW its \in Seq(Item)
    PROVE  LET d == [NoCall EXCEPT !.busy = TRUE, !.items = its]
           IN  d \in CallType /\ d.items = its /\ d.done = 0
BY DEF NoCall, CallType

LEMMA ItemFields == \A it \in Item : it.ev \in Evt /\ it.seq \in Nat
BY DEF Item

LEMMA SubSeqOK ==
    ASSUME NEW s \in Seq(Item), NEW a \in Nat, NEW n \in Nat, a <= n, n <= Len(s)
    PROVE  \A t : t = SubSeq(s, a + 1, n) =>
               /\ t \in Seq(Item) /\ Len(t) = n - a /\ \A j \in 1..Len(t) : t[j] = s[a + j]
OBVIOUS

\* commitChunk: of several items of a chunk with one key the first is written, so
\* afterwards the key of every item is in the log.
LEMMA NewCoversChunk ==
    ASSUME MongoTypeOK, NEW ch \in Seq(Item),
           log' = [p \in Partitions |-> log[p] \cup {it \in New(ch) : PartOf(it.ev) = p}]
    PROVE  /\ log' \in [Partitions -> SUBSET Item] /\ Known \subseteq Known'
           /\ \A j \in 1..Len(ch) : ch[j].ev.id \in Known'
<1>1. \A i \in 1..Len(ch) : ch[i] \in Item
  OBVIOUS
<1>2. DOMAIN ch = 1..Len(ch) /\ Len(ch) \in Nat
  OBVIOUS
<1>3. New(ch) \subseteq Item
  BY <1>1, <1>2 DEF New
<1>4. \A p \in Partitions : log'[p] = log[p] \cup {it \in New(ch) : PartOf(it.ev) = p}
  OBVIOUS
<1>5. log' \in [Partitions -> SUBSET Item]
  <2>1. \A p \in Partitions : log[p] \subseteq Item
    BY DEF MongoTypeOK
  <2>2. \A p \in Partitions : log[p] \cup {it \in New(ch) : PartOf(it.ev) = p} \in SUBSET Item
    BY <1>3, <2>1
  <2> QED BY <2>2
<1>6. Known \subseteq Known'
  BY <1>4 DEF Known
<1>7. \A it \in New(ch) : it.ev.id \in Known'
  <2> SUFFICES ASSUME NEW it \in New(ch) PROVE it.ev.id \in Known'
    OBVIOUS
  <2>1. PartOf(it.ev) \in Partitions
    <3>1. it.ev \in Evt
      BY <1>3, ItemFields
    <3> QED BY <3>1, EventsHavePartitions
  <2>2. it \in log'[PartOf(it.ev)]
    BY <1>4, <2>1
  <2> QED BY <2>1, <2>2 DEF Known
<1>8. ASSUME NEW j \in 1..Len(ch)
      PROVE  ch[j].ev.id \in Known'
  <2> DEFINE T == {k \in 1..Len(ch) : ch[k].ev.id = ch[j].ev.id}
  <2>1. T \subseteq Nat /\ j \in T
    BY <1>2
  <2>2. PICK m \in T : \A k \in T : m <= k
    BY <2>1, LeastElement
  <2>3. m \in 1..Len(ch) /\ ch[m].ev.id = ch[j].ev.id
    OBVIOUS
  <2>4. \A k \in 1..(m - 1) : ch[k].ev.id # ch[m].ev.id
    <3>1. ASSUME NEW k \in 1..(m - 1), ch[k].ev.id = ch[m].ev.id PROVE FALSE
      <4>1. k \in T
        BY <1>2, <2>3, <3>1
      <4>2. m <= k
        BY <2>2, <4>1
      <4> QED BY <1>2, <2>3, <4>2
    <3> QED BY <3>1
  <2>5. InLog(ch[m].ev.id) => ch[m].ev.id \in Known
    BY DEF InLog, Known
  <2>6. ~InLog(ch[m].ev.id) => ch[m] \in New(ch)
    BY <1>2, <2>3, <2>4 DEF New
  <2> QED BY <1>6, <1>7, <2>3, <2>5, <2>6
<1> QED BY <1>5, <1>6, <1>8

\* commitChunk takes the next items of the call.
LEMMA ChunkShape ==
    ASSUME MongoTypeOK, NEW w \in Colls, CommitChunk(w)
    PROVE  LET its == call[w].items
               D == call[w].done
               m == Len(Chunk(w))
           IN  /\ its \in Seq(Item) /\ D \in Nat /\ Chunk(w) \in Seq(Item) /\ m \in Nat
               /\ D + m <= Len(its) /\ \A j \in 1..m : Chunk(w)[j] = its[D + j]
               /\ call'[w].items = its /\ call'[w].done = D + m /\ call'[w].busy = call[w].busy
<1> DEFINE a == call[w]
           its == a.items
           n == IF a.done + ChunkSize < Len(its) THEN a.done + ChunkSize ELSE Len(its)
           m == Len(Chunk(w))
           W == a.written \cup {it.ev : it \in New(Chunk(w))}
<1>1. /\ a \in CallType /\ its \in Seq(Item) /\ a.done \in Nat /\ a.done < Len(its)
      /\ Len(its) \in Nat
  BY CallFields DEF MongoTypeOK, CommitChunk
<1>2. n \in Nat /\ a.done < n /\ n <= Len(its)
  BY <1>1, EventLogAssumption
<1>3. Chunk(w) = SubSeq(its, a.done + 1, n)
  BY DEF Chunk
<1>4. call' = [call EXCEPT ![w] = [a EXCEPT !.done = a.done + m, !.written = W]]
  BY DEF CommitChunk
<1> HIDE DEF a, n, W, its
<1>5. Chunk(w) \in Seq(Item) /\ m = n - a.done /\ \A j \in 1..m : Chunk(w)[j] = its[a.done + j]
  <2> DEFINE s == its
             b == a.done
  <2>1. s \in Seq(Item) /\ b \in Nat /\ n \in Nat /\ b <= n /\ n <= Len(s)
    BY <1>1, <1>2
  <2>2. Chunk(w) = SubSeq(s, b + 1, n)
    BY <1>3
  <2> HIDE DEF s, b
  <2> DEFINE u == Chunk(w)
  <2> HIDE DEF u
  <2>3. u = SubSeq(s, b + 1, n)
    BY <2>2 DEF u
  <2>4. u \in Seq(Item) /\ Len(u) = n - b /\ \A j \in 1..Len(u) : u[j] = s[b + j]
    BY <2>1, <2>3, SubSeqOK
  <2> QED BY <2>4 DEF s, b, u
<1> HIDE DEF m
<1>6. m \in Nat /\ a.done + m = n
  BY <1>1, <1>2, <1>5
<1>7. LET d == [a EXCEPT !.done = a.done + m, !.written = W]
      IN  d.items = a.items /\ d.done = a.done + m /\ d.busy = a.busy
  BY <1>1 DEF CallType
<1>8. call'[w] = [a EXCEPT !.done = a.done + m, !.written = W]
  BY <1>4 DEF MongoTypeOK
<1> QED BY <1>1, <1>2, <1>5, <1>6, <1>7, <1>8 DEF a, m, its

LEMMA CommitOK ==
    ASSUME MongoTypeOK, NEW w \in Colls, CommitChunk(w), Committed(call[w], Known)
    PROVE  /\ log' \in [Partitions -> SUBSET Item] /\ call' \in [Colls -> CallType]
           /\ Known \subseteq Known' /\ \A d \in Colls \ {w} : call'[d] = call[d]
           /\ call'[w].items = call[w].items /\ Committed(call'[w], Known')
<1> DEFINE c == call[w]
           ch == Chunk(w)
           n == c.done + Len(ch)
           W == c.written \cup {it.ev : it \in New(ch)}
           d == [c EXCEPT !.done = c.done + Len(ch), !.written = W]
<1>1. c \in CallType /\ c.items \in Seq(Item) /\ c.done \in Nat /\ Len(c.items) \in Nat
  BY CallFields DEF MongoTypeOK
<1>2. Len(ch) \in Nat /\ n <= Len(c.items)
  BY ChunkShape
<1>3. n \in Nat /\ c.done <= n /\ n - c.done = Len(ch)
  BY <1>1, <1>2
<1>4. log' = [p \in Partitions |-> log[p] \cup {it \in New(ch) : PartOf(it.ev) = p}]
  BY DEF CommitChunk
<1>5. call' = [call EXCEPT ![w] = d]
  BY DEF CommitChunk
<1>6. ch \in Seq(Item) /\ \A j \in 1..Len(ch) : ch[j] = c.items[c.done + j]
  BY ChunkShape
<1> HIDE DEF c, ch
<1>7. /\ log' \in [Partitions -> SUBSET Item] /\ Known \subseteq Known'
      /\ \A j \in 1..Len(ch) : ch[j].ev.id \in Known'
  BY <1>4, <1>6, NewCoversChunk
<1>8. W \in SUBSET Evt
  <2>1. \A j \in 1..Len(ch) : ch[j].ev \in Evt
    BY <1>6, ItemFields
  <2>2. DOMAIN ch = 1..Len(ch)
    BY <1>6
  <2>3. \A it \in New(ch) : it.ev \in Evt
    BY <2>1, <2>2 DEF New
  <2> QED BY <1>1, <2>3, CallFields
<1>9. d = [c EXCEPT !.done = n, !.written = W]
  OBVIOUS
<1> HIDE DEF W, d, n
<1>10. d \in CallType /\ d.items = c.items /\ d.done = n
  <2>1. c \in CallType /\ n \in Nat /\ W \in SUBSET Evt
    BY <1>1, <1>3, <1>8
  <2>2. LET e == [c EXCEPT !.done = n, !.written = W]
        IN  e \in CallType /\ e.items = c.items /\ e.done = n /\ e.busy = c.busy
    BY <2>1 DEF CallType
  <2> QED BY <1>9, <2>2
<1>11. Committed(d, Known')
  <2>1. ASSUME NEW j \in 1..n PROVE c.items[j].ev.id \in Known'
    <3>1. CASE j <= c.done
      <4>1. j \in 1..c.done
        BY <1>1, <1>3, <3>1
      <4>2. Committed(c, Known)
        BY DEF c
      <4> QED BY <1>7, <4>1, <4>2 DEF Committed
    <3>2. CASE j > c.done
      <4>1. j - c.done \in 1..Len(ch) /\ c.done + (j - c.done) = j
        BY <1>1, <1>3, <3>2
      <4> QED BY <1>6, <1>7, <4>1
    <3> QED BY <1>1, <1>3, <3>1, <3>2
  <2>2. n <= Len(c.items)
    BY <1>2
  <2> QED BY <1>10, <2>1, <2>2 DEF Committed
<1>12. call' \in [Colls -> CallType] /\ call'[w] = d /\ \A e \in Colls \ {w} : call'[e] = call[e]
  BY <1>5, <1>10 DEF MongoTypeOK
<1> QED BY <1>7, <1>10, <1>11, <1>12 DEF c

\* Prepare, as the MongoDB connector calls it.
LEMMA PrepareOK ==
    ASSUME MongoTypeOK, NEW w \in Colls, NEW evs \in Seq(Evt), Prepare(w, evs)
    PROVE  /\ nextSeq' \in [Partitions -> Nat] /\ call' \in [Colls -> CallType] /\ log' = log
           /\ \A d \in Colls \ {w} : call'[d] = call[d]
           /\ ItemIds(call'[w].items) = IdsOf(evs) /\ \A K : Committed(call'[w], K)
<1> DEFINE its == Numbered(evs)
           N(p) == Cardinality({i \in DOMAIN evs : PartOf(evs[i]) = p})
<1>1. its \in Seq(Item) /\ ItemIds(its) = IdsOf(evs)
  BY NumberedOK
<1>2. \A p \in Partitions : N(p) \in Nat
  <2>1. IsFiniteSet(DOMAIN evs)
    <3>1. DOMAIN evs = 1..Len(evs) /\ Len(evs) \in Nat
      OBVIOUS
    <3> QED BY <3>1, FS_Interval
  <2>2. \A p \in Partitions : {i \in DOMAIN evs : PartOf(evs[i]) = p} \subseteq DOMAIN evs
    OBVIOUS
  <2> QED BY <2>1, <2>2, FS_Subset, FS_CardinalityType
<1>3. nextSeq' = [p \in Partitions |-> nextSeq[p] + N(p)] /\ log' = log
  BY DEF Prepare
<1>4. call' = [call EXCEPT ![w] = [NoCall EXCEPT !.busy = TRUE, !.items = its]]
  BY DEF Prepare
<1> HIDE DEF N, its
<1>5. nextSeq' \in [Partitions -> Nat]
  BY <1>2, <1>3 DEF MongoTypeOK
<1> DEFINE d == [NoCall EXCEPT !.busy = TRUE, !.items = its]
<1>6. d \in CallType /\ d.items = its /\ d.done = 0
  BY <1>1, CallPrepared
<1> HIDE DEF d
<1>7. call' = [call EXCEPT ![w] = d]
  BY <1>4 DEF d
<1>8. call' \in [Colls -> CallType] /\ call'[w] = d /\ \A e \in Colls \ {w} : call'[e] = call[e]
  BY <1>6, <1>7 DEF MongoTypeOK
<1>9. Len(its) \in Nat
  BY <1>1
<1>10. \A K : Committed(d, K)
  BY <1>6, <1>9 DEF Committed
<1> QED BY <1>1, <1>3, <1>5, <1>6, <1>8, <1>10

LEMMA ReturnOK ==
    ASSUME MongoTypeOK, NEW w \in Colls, Return(w)
    PROVE  /\ call' \in [Colls -> CallType] /\ log' = log /\ nextSeq' = nextSeq
           /\ call'[w] = NoCall /\ \A d \in Colls \ {w} : call'[d] = call[d]
BY NoCallOK DEF Return, MongoTypeOK

-----------------------------------------------------------------------------
(* The steps.                                                               *)

\* A step of one collection's goroutine leaves the others where they are.
Untouched(d) ==
    /\ ops'[d] = ops[d] /\ store'[d] = store[d] /\ tok'[d] = tok[d] /\ pos'[d] = pos[d]
    /\ base'[d] = base[d] /\ pc'[d] = pc[d] /\ batch'[d] = batch[d] /\ call'[d] = call[d]

LEMMA StillOK ==
    ASSUME NEW d \in Colls, CollOK(d), Untouched(d), Known \subseteq Known', legacy' = legacy
    PROVE  CollOK(d)'
<1>1. Covered(ops[d], d, base[d], tok[d], Known')
  BY CoveredGrows DEF CollOK, Tokens
<1>2. Tokens(d)'
  BY <1>1 DEF CollOK, Tokens, Untouched, Loaded
<1>3. pc[d] = "save" /\ tok[d] # 0 => Covered(ops[d], d, tok[d], pos[d], Known')
  BY CoveredGrows DEF CollOK, Pending
<1>4. Pending(d)'
  BY <1>3 DEF CollOK, Pending, Untouched
<1>5. Committed(call[d], Known')
  BY DEF CollOK, Committed
<1>6. Committed(call[d], Known)'
  BY <1>5 DEF Untouched
<1> QED BY <1>2, <1>4, <1>6 DEF CollOK

LEMMA OneColl ==
    ASSUME MongoInv, MongoTypeOK', NEW c \in Colls, CollOK(c)', Known \subseteq Known',
           legacy' = legacy, \A d \in Colls \ {c} : Untouched(d)
    PROVE  MongoInv'
<1>1. ASSUME NEW d \in Colls PROVE CollOK(d)'
  <2>1. CASE d = c
    BY <2>1
  <2>2. CASE d # c
    BY <2>2, StillOK DEF MongoInv
  <2> QED BY <2>1, <2>2
<1> QED BY <1>1 DEF MongoInv

LEMMA KnownStays == log' = log => Known' = Known
BY DEF Known

LEMMA Fields ==
    ASSUME MongoInv, NEW c \in Colls
    PROVE  /\ MongoTypeOK /\ CollOK(c) /\ Tokens(c) /\ Pending(c) /\ Committed(call[c], Known)
           /\ ops[c] \in Seq(Op(c)) /\ ops[c] \in Seq(AnyOp) /\ Len(ops[c]) \in Nat
           /\ store[c] \in Nat /\ tok[c] \in Nat /\ pos[c] \in Nat /\ base[c] \in Nat
           /\ batch[c] \in Seq(Evt) /\ call[c] \in CallType
BY DEF MongoInv, MongoTypeOK, CollOK

LEMMA ChangeInv ==
    ASSUME MongoInv, NEW c \in Colls, Change(c)
    PROVE  MongoInv'
<1>1. /\ UNCHANGED <<store, legacy, tok, pc, pos, batch, base>> /\ UNCHANGED logVars
  BY DEF Change
<1>2. PICK o : /\ o \in Op(c) /\ ops' = [ops EXCEPT ![c] = Append(ops[c], o)]
  <2>1. PICK k \in DocKeys[c], good \in BOOLEAN :
          \E t \in {Now(c)} \cup (IF Transactions THEN {ops[c][Len(ops[c])].time} ELSE {}) :
             ops' = [ops EXCEPT ![c] = Append(ops[c], [key |-> k, ok |-> good, time |-> t])]
    BY DEF Change
  <2>2. PICK t : /\ t = Now(c) \/ t = ops[c][Len(ops[c])].time
                 /\ ops' = [ops EXCEPT ![c] = Append(ops[c], [key |-> k, ok |-> good, time |-> t])]
    BY <2>1
  <2>3. Len(ops[c]) \in Nat /\ ops[c][Len(ops[c])] \in Op(c)
    <3>1. ops[c] \in Seq(Op(c)) /\ Len(ops[c]) > 0
      BY DEF MongoInv, MongoTypeOK
    <3> QED BY <3>1
  <2>4. t \in Nat
    BY <2>2, <2>3 DEF Now, Op
  <2>5. [key |-> k, ok |-> good, time |-> t] \in Op(c)
    BY <2>4 DEF Op
  <2> QED BY <2>2, <2>5
<1> DEFINE q == ops[c]
           r == Append(q, o)
<1>3. /\ q \in Seq(Op(c)) /\ Len(q) \in Nat /\ r \in Seq(Op(c)) /\ Len(r) = Len(q) + 1
      /\ \A i \in 1..Len(q) : r[i] = q[i]
  BY <1>2, Fields
<1>4. o \in AnyOp /\ r \in Seq(AnyOp)
  <2>1. o \in AnyOp
    BY <1>2, MongoAssumption DEF Op, AnyOp
  <2> QED BY <2>1, Fields
<1>5. ops'[c] = r /\ (\A d \in Colls \ {c} : ops'[d] = ops[d]) /\ ops' \in [Colls -> Seq(AnyOp)]
  BY <1>2, <1>4 DEF MongoInv, MongoTypeOK
<1> HIDE DEF r
<1>6. MongoTypeOK'
  <2>1. \A d \in Colls : ops'[d] \in Seq(Op(d)) /\ Len(ops'[d]) > 0
    <3>1. ASSUME NEW d \in Colls PROVE ops'[d] \in Seq(Op(d)) /\ Len(ops'[d]) > 0
      <4>1. CASE d = c
        BY <1>3, <1>5, <4>1
      <4>2. CASE d # c
        BY <1>5, <4>2 DEF MongoInv, MongoTypeOK
      <4> QED BY <4>1, <4>2
    <3> QED BY <3>1
  <2> QED BY <1>1, <1>5, <2>1 DEF MongoInv, MongoTypeOK, logVars
<1>7. Known' = Known /\ call' = call
  BY <1>1, KnownStays DEF logVars
<1>8. \A lo \in Nat, hi \in Nat : \A K : hi <= Len(q) /\ Covered(q, c, lo, hi, K) => Covered(r, c, lo, hi, K)
  BY <1>3, CoveredOfPrefix
<1>9. Tokens(c) /\ Pending(c) /\ tok[c] \in Nat /\ pos[c] \in Nat /\ base[c] \in Nat /\ store[c] \in Nat
      /\ Committed(call[c], Known)
  BY Fields
<1>10. Tokens(c)'
  BY <1>1, <1>3, <1>5, <1>7, <1>8, <1>9 DEF Tokens, Loaded
<1>11. Pending(c)'
  <2>1. pos[c] <= Len(q)
    BY <1>9 DEF Tokens
  <2> QED BY <1>1, <1>5, <1>7, <1>8, <1>9, <2>1 DEF Pending
<1>12. CollOK(c)'
  BY <1>7, <1>9, <1>10, <1>11 DEF CollOK
<1>13. \A d \in Colls \ {c} : Untouched(d)
  BY <1>1, <1>5, <1>7 DEF Untouched
<1> QED BY <1>1, <1>6, <1>7, <1>12, <1>13, OneColl

\* Steps that leave the log, the collection's changes and its tokens alone, and go
\* where nothing is pending.
LEMMA Waits ==
    ASSUME MongoInv, NEW c \in Colls, MongoTypeOK',
           UNCHANGED <<ops, store, legacy, tok, base, batch, log>>,
           \A d \in Colls \ {c} : pos'[d] = pos[d] /\ pc'[d] = pc[d] /\ call'[d] = call[d],
           pos'[c] <= Len(ops[c]), pc'[c] \in {"open", "next", "ended"},
           pc'[c] = "next" /\ tok[c] # 0 => pos'[c] = tok[c],
           call'[c] \in {call[c], NoCall}
    PROVE  MongoInv'
<1>1. Known' = Known
  BY KnownStays
<1>2. Tokens(c)'
  BY <1>1, Fields DEF Tokens, Loaded
<1>3. Pending(c)'
  BY DEF Pending
<1>4. Committed(call'[c], Known')
  BY <1>1, Fields, NoCallOK
<1>5. CollOK(c)'
  BY <1>2, <1>3, <1>4 DEF CollOK
<1>6. \A d \in Colls \ {c} : Untouched(d)
  BY DEF Untouched
<1> QED BY <1>1, <1>5, <1>6, OneColl

LEMMA OpenInv ==
    ASSUME MongoInv, NEW c \in Colls, Open(c) \/ Invalid(c) \/ StreamLost(c) \/ StreamFails(c)
    PROVE  MongoInv'
<1>1. UNCHANGED <<ops, store, legacy, tok, base, batch, log, nextSeq>>
  BY DEF Open, Invalid, StreamLost, StreamFails, logVars, AppendFails, Return
<1>2. CASE Open(c)
  <2>1. /\ pos' = [pos EXCEPT ![c] = IF tok[c] # 0 THEN tok[c] ELSE Len(ops[c])]
        /\ pc' = [pc EXCEPT ![c] = "next"] /\ call' = call
    BY <1>2 DEF Open, logVars
  <2>2. tok[c] \in Nat /\ Len(ops[c]) \in Nat /\ tok[c] <= Len(ops[c]) /\ MongoTypeOK
    BY Fields DEF Tokens
  <2>3. MongoTypeOK'
    BY <1>1, <2>1, <2>2 DEF MongoTypeOK
  <2>4. /\ pos'[c] = IF tok[c] # 0 THEN tok[c] ELSE Len(ops[c])
        /\ pc'[c] = "next" /\ \A d \in Colls \ {c} : pos'[d] = pos[d] /\ pc'[d] = pc[d]
    BY <2>1, <2>2 DEF MongoTypeOK
  <2> QED BY <1>1, <2>1, <2>2, <2>3, <2>4, Waits
<1>3. CASE Invalid(c) \/ StreamLost(c) \/ StreamFails(c)
  <2>1. PICK x \in {"open", "ended"} : pc' = [pc EXCEPT ![c] = x]
    BY <1>3 DEF Invalid, StreamLost, StreamFails
  <2>2. pos' = pos /\ MongoTypeOK /\ pos[c] <= Len(ops[c])
    BY <1>3, Fields DEF Invalid, StreamLost, StreamFails, Tokens
  <2>3. /\ call' \in [Colls -> CallType] /\ call'[c] \in {call[c], NoCall}
        /\ \A d \in Colls \ {c} : call'[d] = call[d]
    <3>1. CASE call' = call
      BY <2>2, <3>1 DEF MongoTypeOK
    <3>2. CASE Return(c)
      BY <2>2, <3>2, ReturnOK
    <3>3. call' = call \/ Return(c)
      BY <1>3 DEF Invalid, StreamLost, StreamFails, AppendFails, logVars
    <3> QED BY <3>1, <3>2, <3>3
  <2>4. pc'[c] = x /\ (\A d \in Colls \ {c} : pc'[d] = pc[d])
        /\ pc' \in [Colls -> {"open", "next", "drain", "append", "save", "ended"}]
    BY <2>1, <2>2 DEF MongoTypeOK
  <2>5. MongoTypeOK'
    BY <1>1, <2>2, <2>3, <2>4 DEF MongoTypeOK
  <2> QED BY <1>1, <2>2, <2>3, <2>4, <2>5, Waits
<1> QED BY <1>2, <1>3

\* decodeNext: the change is in the batch or was not readable.
LEMMA DrainedOK ==
    ASSUME MongoInv, NEW c \in Colls, NEW o \in Op(c)
    PROVE  /\ Drained(c, o) \in Seq(Evt) /\ IdsOf(batch[c]) \subseteq IdsOf(Drained(c, o))
           /\ o.ok => Normalized(c, o).id \in IdsOf(Drained(c, o))
<1> DEFINE b == batch[c]
           e == Normalized(c, o)
           x == Append(b, e)
<1>1. b \in Seq(Evt) /\ e \in Evt
  BY Fields, NormalizedIsEvent
<1> HIDE DEF b, e
<1>2. /\ x \in Seq(Evt) /\ DOMAIN x = 1..(Len(b) + 1) /\ DOMAIN b = 1..Len(b) /\ Len(b) \in Nat
      /\ x[Len(b) + 1] = e /\ \A j \in 1..Len(b) : x[j] = b[j]
  BY <1>1
<1> HIDE DEF x
<1>3. IdsOf(b) \subseteq IdsOf(x) /\ e.id \in IdsOf(x)
  <2>1. ASSUME NEW j \in DOMAIN b PROVE b[j].id \in IdsOf(x)
    <3>1. j \in DOMAIN x /\ x[j] = b[j]
      BY <1>2
    <3> QED BY <3>1 DEF IdsOf
  <2>2. Len(b) + 1 \in DOMAIN x
    BY <1>2
  <2>3. e.id \in IdsOf(x)
    BY <1>2, <2>2 DEF IdsOf
  <2> QED BY <2>1, <2>3 DEF IdsOf
<1> QED BY <1>1, <1>2, <1>3 DEF Drained, b, e, x

LEMMA ReadNextInv ==
    ASSUME MongoInv, NEW c \in Colls, ReadNext(c)
    PROVE  MongoInv'
<1> DEFINE q == ops[c]
           o == q[pos[c] + 1]
           b == Drained(c, o)
<1>1. /\ pc[c] \in {"next", "drain"} /\ pos[c] < Len(q)
      /\ pos' = [pos EXCEPT ![c] = pos[c] + 1] /\ batch' = [batch EXCEPT ![c] = b]
      /\ pc' = [pc EXCEPT ![c] = "drain"]
      /\ UNCHANGED <<ops, store, legacy, tok, base>> /\ UNCHANGED logVars
  BY DEF ReadNext, DecodeNext
<1>2. /\ MongoTypeOK /\ q \in Seq(Op(c)) /\ Tokens(c) /\ Pending(c) /\ pos[c] \in Nat
      /\ tok[c] \in Nat /\ Len(q) \in Nat /\ Committed(call[c], Known)
  BY Fields
<1>3. o \in Op(c)
  BY <1>1, <1>2
<1>4. b \in Seq(Evt) /\ IdsOf(batch[c]) \subseteq IdsOf(b) /\ (o.ok => Normalized(c, o).id \in IdsOf(b))
  BY <1>3, DrainedOK
<1> HIDE DEF b
<1>5. MongoTypeOK'
  BY <1>1, <1>2, <1>4 DEF MongoTypeOK, logVars
<1>6. /\ pos'[c] = pos[c] + 1 /\ batch'[c] = b /\ pc'[c] = "drain"
      /\ \A d \in Colls \ {c} : pos'[d] = pos[d] /\ batch'[d] = batch[d] /\ pc'[d] = pc[d]
  BY <1>1, <1>2 DEF MongoTypeOK
<1>7. Known' = Known /\ call' = call
  BY <1>1, KnownStays DEF logVars
<1>8. Tokens(c)'
  BY <1>1, <1>2, <1>6, <1>7 DEF Tokens, Loaded
<1>9. tok[c] # 0 => Covered(q, c, tok[c], pos[c] + 1, IdsOf(b))
  <2>1. tok[c] # 0 => Covered(q, c, tok[c], pos[c], IdsOf(batch[c]))
    <3>1. CASE pc[c] = "next"
      <4>1. tok[c] # 0 => pos[c] <= tok[c]
        BY <1>2, <3>1 DEF Pending
      <4> QED BY <1>2, <4>1, CoveredNothing
    <3>2. CASE pc[c] = "drain"
      BY <1>2, <3>2 DEF Pending
    <3> QED BY <1>1, <3>1, <3>2
  <2> QED BY <1>2, <1>4, <2>1, CoveredByOneMore
<1>10. Pending(c)'
  BY <1>1, <1>2, <1>6, <1>9 DEF Pending
<1>11. CollOK(c)'
  BY <1>2, <1>7, <1>8, <1>10 DEF CollOK
<1>12. \A d \in Colls \ {c} : Untouched(d)
  BY <1>1, <1>6, <1>7 DEF Untouched
<1> QED BY <1>1, <1>5, <1>7, <1>11, <1>12, OneColl

LEMMA FlushInv ==
    ASSUME MongoInv, NEW c \in Colls, Flush(c)
    PROVE  MongoInv'
<1> DEFINE b == batch[c]
<1>1. /\ pc[c] = "drain" /\ batch' = [batch EXCEPT ![c] = <<>>]
      /\ UNCHANGED <<ops, store, legacy, tok, pos, base>>
  BY DEF Flush
<1>2. /\ MongoTypeOK /\ b \in Seq(Evt) /\ Tokens(c) /\ Pending(c) /\ Committed(call[c], Known)
      /\ pos[c] > 0 /\ (tok[c] # 0 => Covered(ops[c], c, tok[c], pos[c], IdsOf(b)))
  BY <1>1, Fields DEF Pending
<1>3. PICK x \in {"save", "append"} :
        /\ pc' = [pc EXCEPT ![c] = x]
        /\ x = "save" => b = <<>> /\ UNCHANGED logVars
        /\ x = "append" => Prepare(c, b)
  BY DEF Flush
<1>4. /\ pc'[c] = x /\ (\A d \in Colls \ {c} : pc'[d] = pc[d] /\ batch'[d] = batch[d])
      /\ pc' \in [Colls -> {"open", "next", "drain", "append", "save", "ended"}]
      /\ batch' \in [Colls -> Seq(Evt)]
  BY <1>1, <1>2, <1>3 DEF MongoTypeOK
<1>5. /\ log' = log /\ nextSeq' \in [Partitions -> Nat] /\ call' \in [Colls -> CallType]
      /\ \A d \in Colls \ {c} : call'[d] = call[d]
      /\ Committed(call'[c], Known)
      /\ x = "append" => ItemIds(call'[c].items) = IdsOf(b)
  <2>1. CASE x = "save"
    BY <1>2, <1>3, <2>1 DEF logVars, MongoTypeOK
  <2>2. CASE x = "append"
    BY <1>2, <1>3, <2>2, PrepareOK
  <2> QED BY <2>1, <2>2
<1>6. Known' = Known
  BY <1>5, KnownStays
<1>7. MongoTypeOK'
  BY <1>1, <1>2, <1>4, <1>5 DEF MongoTypeOK
<1>8. Tokens(c)'
  BY <1>1, <1>2, <1>6 DEF Tokens, Loaded
<1>9. x = "save" /\ tok[c] # 0 => Covered(ops[c], c, tok[c], pos[c], Known)
  <2>1. x = "save" => IdsOf(b) = {}
    BY <1>3 DEF IdsOf
  <2> QED BY <1>2, <2>1, CoveredGrows
<1>10. Pending(c)'
  BY <1>1, <1>2, <1>4, <1>5, <1>6, <1>9 DEF Pending
<1>11. CollOK(c)'
  BY <1>5, <1>6, <1>8, <1>10 DEF CollOK
<1>12. \A d \in Colls \ {c} : Untouched(d)
  BY <1>1, <1>4, <1>5 DEF Untouched
<1> QED BY <1>1, <1>6, <1>7, <1>11, <1>12, OneColl

LEMMA CommitInv ==
    ASSUME MongoInv, NEW c \in Colls, Commit(c)
    PROVE  MongoInv'
<1>1. /\ UNCHANGED <<ops, store, legacy, tok, pc, pos, batch, base, nextSeq>> /\ CommitChunk(c)
  BY DEF Commit, mongoVars, CommitChunk
<1>2. MongoTypeOK /\ Tokens(c) /\ Pending(c) /\ Committed(call[c], Known)
  BY Fields
<1>3. /\ log' \in [Partitions -> SUBSET Item] /\ call' \in [Colls -> CallType]
      /\ Known \subseteq Known' /\ \A d \in Colls \ {c} : call'[d] = call[d]
      /\ call'[c].items = call[c].items /\ Committed(call'[c], Known')
  BY <1>1, <1>2, CommitOK
<1>4. MongoTypeOK'
  BY <1>1, <1>2, <1>3 DEF MongoTypeOK
<1>5. Tokens(c)'
  <2>1. Covered(ops[c], c, base[c], tok[c], Known')
    BY <1>2, <1>3, CoveredGrows DEF Tokens
  <2> QED BY <1>1, <1>2, <2>1 DEF Tokens, Loaded
<1>6. Pending(c)'
  <2>1. pc[c] = "save" /\ tok[c] # 0 => Covered(ops[c], c, tok[c], pos[c], Known')
    BY <1>2, <1>3, CoveredGrows DEF Pending
  <2> QED BY <1>1, <1>2, <1>3, <2>1 DEF Pending
<1>7. CollOK(c)'
  BY <1>3, <1>5, <1>6 DEF CollOK
<1>8. \A d \in Colls \ {c} : Untouched(d)
  BY <1>1, <1>3 DEF Untouched
<1> QED BY <1>1, <1>3, <1>4, <1>7, <1>8, OneColl

\* AppendBatch returns: all items of the call are in the log.
LEMMA AppendedInv ==
    ASSUME MongoInv, NEW c \in Colls, Appended(c)
    PROVE  MongoInv'
<1>1. /\ UNCHANGED <<ops, store, legacy, tok, pos, batch, base>> /\ Return(c)
      /\ pc[c] = "append" /\ pc' = [pc EXCEPT ![c] = "save"]
      /\ call[c].done = Len(call[c].items)
  BY DEF Appended, AppendReturns
<1>2. MongoTypeOK /\ Tokens(c) /\ Pending(c) /\ Committed(call[c], Known) /\ call[c] \in CallType
  BY Fields
<1>3. /\ call' \in [Colls -> CallType] /\ log' = log /\ nextSeq' = nextSeq
      /\ call'[c] = NoCall /\ \A d \in Colls \ {c} : call'[d] = call[d]
  BY <1>1, <1>2, ReturnOK
<1>4. /\ pc'[c] = "save" /\ (\A d \in Colls \ {c} : pc'[d] = pc[d])
      /\ pc' \in [Colls -> {"open", "next", "drain", "append", "save", "ended"}]
  BY <1>1, <1>2 DEF MongoTypeOK
<1>5. MongoTypeOK'
  BY <1>1, <1>2, <1>3, <1>4 DEF MongoTypeOK
<1>6. Known' = Known
  BY <1>3, KnownStays
<1>7. Tokens(c)'
  BY <1>1, <1>2, <1>6 DEF Tokens, Loaded
<1>8. ItemIds(call[c].items) \subseteq Known
  <2>1. DOMAIN call[c].items = 1..call[c].done
    BY <1>1, <1>2, CallFields
  <2> QED BY <1>2, <2>1 DEF ItemIds, Committed
<1>9. tok[c] # 0 => Covered(ops[c], c, tok[c], pos[c], Known)
  BY <1>1, <1>2, <1>8, CoveredGrows DEF Pending
<1>10. Pending(c)'
  BY <1>1, <1>2, <1>4, <1>6, <1>9 DEF Pending
<1>11. CollOK(c)'
  BY <1>3, <1>7, <1>10, NoCallOK DEF CollOK
<1>12. \A d \in Colls \ {c} : Untouched(d)
  BY <1>1, <1>3, <1>4 DEF Untouched
<1> QED BY <1>1, <1>5, <1>6, <1>11, <1>12, OneColl

\* saveResumeToken: what has been read since the last token is in the log.
LEMMA SaveTokenInv ==
    ASSUME MongoInv, NEW c \in Colls, SaveToken(c)
    PROVE  MongoInv'
<1> DEFINE nb == IF tok[c] = 0 THEN pos[c] ELSE base[c]
<1>1. /\ pc[c] = "save" /\ store' = [store EXCEPT ![c] = pos[c]] /\ tok' = [tok EXCEPT ![c] = pos[c]]
      /\ base' = [base EXCEPT ![c] = nb] /\ pc' = [pc EXCEPT ![c] = "next"]
      /\ UNCHANGED <<ops, legacy, pos, batch>> /\ UNCHANGED logVars
  BY DEF SaveToken
<1>2. /\ MongoTypeOK /\ Tokens(c) /\ Pending(c) /\ Committed(call[c], Known)
      /\ pos[c] \in Nat /\ tok[c] \in Nat /\ base[c] \in Nat
  BY Fields
<1>3. /\ store'[c] = pos[c] /\ tok'[c] = pos[c] /\ base'[c] = nb /\ pc'[c] = "next"
      /\ \A d \in Colls \ {c} : /\ store'[d] = store[d] /\ tok'[d] = tok[d]
                                /\ base'[d] = base[d] /\ pc'[d] = pc[d]
  BY <1>1, <1>2 DEF MongoTypeOK
<1>4. MongoTypeOK'
  BY <1>1, <1>2 DEF MongoTypeOK, logVars
<1>5. Known' = Known /\ call' = call
  BY <1>1, KnownStays DEF logVars
<1>6. Covered(ops[c], c, nb, pos[c], Known)
  <2>1. CASE tok[c] = 0
    BY <1>2, <2>1, CoveredNothing
  <2>2. CASE tok[c] # 0
    <3>1. Covered(ops[c], c, base[c], tok[c], Known) /\ Covered(ops[c], c, tok[c], pos[c], Known)
      BY <1>1, <1>2, <2>2 DEF Tokens, Pending
    <3> QED BY <1>2, <2>2, <3>1, CoveredJoins
  <2> QED BY <2>1, <2>2
<1> HIDE DEF nb
<1>7. pos[c] > 0
  BY <1>1, <1>2 DEF Pending
<1>8. Tokens(c)'
  BY <1>1, <1>2, <1>3, <1>5, <1>6, <1>7 DEF Tokens, Loaded
<1>9. Pending(c)'
  BY <1>1, <1>3 DEF Pending
<1>10. CollOK(c)'
  BY <1>2, <1>5, <1>8, <1>9 DEF CollOK
<1>11. \A d \in Colls \ {c} : Untouched(d)
  BY <1>1, <1>3, <1>5 DEF Untouched
<1> QED BY <1>1, <1>4, <1>5, <1>10, <1>11, OneColl

\* After a restart every collection goes on from its saved token.
LEMMA RestartInv ==
    ASSUME MongoInv, Restart
    PROVE  MongoInv'
<1>1. /\ UNCHANGED <<ops, store, legacy, pos, base, log, nextSeq>>
      /\ call' = [w \in Colls |-> NoCall] /\ tok' = [c \in Colls |-> Loaded(c)]
      /\ pc' = [c \in Colls |-> "open"] /\ batch' = [c \in Colls |-> <<>>]
  BY DEF Restart, Reopen, Colls
<1>2. Known' = Known
  BY <1>1, KnownStays
<1>3. \A c \in Colls : tok'[c] = tok[c]
  BY <1>1, Fields DEF Tokens
<1>4. MongoTypeOK /\ MongoTypeOK'
  <2>1. MongoTypeOK
    BY DEF MongoInv
  <2>2. tok' \in [Colls -> Nat] /\ <<>> \in Seq(Evt)
    BY <1>1, <2>1 DEF MongoTypeOK, Loaded
  <2> QED BY <1>1, <2>1, <2>2, NoCallOK DEF MongoTypeOK
<1>5. ASSUME NEW c \in Colls PROVE CollOK(c)'
  <2>1. Tokens(c)'
    BY <1>1, <1>2, <1>3, Fields DEF Tokens, Loaded
  <2>2. Pending(c)'
    BY <1>1 DEF Pending
  <2>3. Committed(call'[c], Known')
    BY <1>1, NoCallOK
  <2> QED BY <2>1, <2>2, <2>3 DEF CollOK
<1> QED BY <1>4, <1>5 DEF MongoInv

LEMMA Unmoved ==
    ASSUME MongoInv, UNCHANGED <<ops, store, legacy, tok, pc, pos, batch, base, log, nextSeq, call>>
    PROVE  MongoInv'
<1>1. Known' = Known
  BY KnownStays
<1>2. \A c \in Colls : Untouched(c)
  BY DEF Untouched
<1>3. \A c \in Colls : CollOK(c)'
  BY <1>1, <1>2, StillOK DEF MongoInv
<1>4. MongoTypeOK'
  BY DEF MongoInv, MongoTypeOK
<1> QED BY <1>3, <1>4 DEF MongoInv

LEMMA InitInv == Init => MongoInv
<1> SUFFICES ASSUME Init PROVE MongoInv
  OBVIOUS
<1>1. /\ ops = OldOps /\ legacy \in {0, 1} /\ store = [c \in Colls |-> 0]
      /\ tok = [c \in Colls |-> legacy] /\ base = [c \in Colls |-> legacy]
      /\ pc = [c \in Colls |-> "open"] /\ batch = [c \in Colls |-> <<>>]
      /\ pos = [c \in Colls |-> 0] /\ log = [p \in Partitions |-> {}]
      /\ nextSeq = [p \in Partitions |-> 1] /\ call = [w \in Colls |-> NoCall]
  BY DEF Init, LogInit, Colls
<1>2. MongoTypeOK
  <2>1. <<>> \in Seq(Evt) /\ legacy \in Nat
    BY <1>1
  <2>2. ops \in [Colls -> Seq(AnyOp)] /\ \A c \in Colls : ops[c] \in Seq(Op(c)) /\ Len(ops[c]) > 0
    BY <1>1, MongoAssumption DEF AnyOp
  <2> QED BY <1>1, <2>1, <2>2, NoCallOK DEF MongoTypeOK
<1>3. ASSUME NEW c \in Colls PROVE CollOK(c)
  <2>1. Len(ops[c]) \in Nat /\ Len(ops[c]) > 0
    BY <1>1, MongoAssumption
  <2>2. Covered(ops[c], c, legacy, legacy, Known)
    BY <1>1, CoveredNothing
  <2>3. Tokens(c)
    BY <1>1, <2>1, <2>2 DEF Tokens, Loaded
  <2>4. Pending(c)
    BY <1>1 DEF Pending
  <2> QED BY <1>1, <2>3, <2>4, NoCallOK DEF CollOK
<1> QED BY <1>2, <1>3 DEF MongoInv

LEMMA NextInv == MongoInv /\ [Next]_vars => MongoInv'
<1> SUFFICES ASSUME MongoInv, [Next]_vars PROVE MongoInv'
  OBVIOUS
<1>1. CASE UNCHANGED vars
  BY <1>1, Unmoved DEF vars, mongoVars, logVars
<1>2. CASE Restart
  BY <1>2, RestartInv
<1>3. ASSUME NEW c \in Colls, Change(c) \/ Truncate(c) \/ Collection(c) \/ StreamFails(c)
      PROVE  MongoInv'
  <2>1. CASE Truncate(c)
    BY <2>1, Unmoved DEF Truncate, logVars
  <2>2. CASE Collection(c)
    BY <2>2, OpenInv, ReadNextInv, FlushInv, CommitInv, AppendedInv, SaveTokenInv DEF Collection
  <2> QED BY <1>3, <2>1, <2>2, ChangeInv, OpenInv
<1> QED BY <1>1, <1>2, <1>3 DEF Next

\* CHK-01 for MongoDB (runCollection, consumeStream, saveResumeToken and the log's
\* AppendBatch): for any collections, batches and chunks, over failed appends, lost
\* streams and restarts, every readable change between the first saved token and the
\* last one is in the log.
THEOREM NoHoleEver == Spec => []NoHole
<1>1. MongoInv => NoHole
  <2> SUFFICES ASSUME MongoInv, NEW c \in Colls, NEW i \in (base[c] + 1)..store[c], ops[c][i].ok
               PROVE  InLog(Normalized(c, ops[c][i]).id)
    BY DEF NoHole
  <2>1. Tokens(c) /\ store[c] \in Nat /\ base[c] \in Nat
    BY Fields
  <2>2. tok[c] = store[c]
    BY <2>1 DEF Tokens, Loaded
  <2>3. Normalized(c, ops[c][i]).id \in Known
    BY <2>1, <2>2 DEF Tokens, Covered
  <2> QED BY <2>3 DEF Known, InLog
<1> QED BY <1>1, InitInv, NextInv, PTL DEF Spec

-----------------------------------------------------------------------------
(* The order of one document's changes.  An event tells its collection and *)
(* its cluster time by its idempotency key.                                *)

CollOf(e) == e.id[1]
TimeOf(e) == e.id[3]
EntriesOf(c) == {it \in Entries : CollOf(it.ev) = c}
EvsOf(items) == [j \in DOMAIN items |-> items[j].ev]

\* Changes have growing cluster times.
TimesUp(q) ==
    \A i \in DOMAIN q : /\ q[i].time <= i
                        /\ \A j \in DOMAIN q : i < j => q[i].time < q[j].time

\* No entry of E is from a change after the n-th of q.
Latest(q, n, E) == \A e \in E : TimeOf(e.ev) <= q[n].time

\* Events of collection c that wait to be appended: in the order of their times, up
\* to t; one that is older than an entry of E has its key in K.
Line(s, c, t, E, K) ==
    \A j \in DOMAIN s :
        /\ CollOf(s[j]) = c /\ TimeOf(s[j]) <= t
        /\ \A k \in DOMAIN s : j < k => TimeOf(s[j]) < TimeOf(s[k])
        /\ \A e \in E : TimeOf(s[j]) < TimeOf(e.ev) => s[j].id \in K

\* The same for the changes behind position n, which may be read again.
Reread(q, c, n, E, K) ==
    \A i \in DOMAIN q : i > n /\ q[i].ok =>
        \A e \in E : q[i].time < TimeOf(e.ev) => Normalized(c, q[i]).id \in K

\* The items of a call are numbered upwards, below the next numbers N, and those
\* still to be committed are numbered after the entries of E.
Rising(items, N) ==
    \A j \in DOMAIN items :
        /\ items[j].seq < N[PartOf(items[j].ev)]
        /\ \A k \in DOMAIN items :
             j < k /\ PartOf(items[j].ev) = PartOf(items[k].ev) => items[j].seq < items[k].seq
Behind(items, n, E) ==
    \A k \in DOMAIN items : k > n =>
        \A e \in E : PartOf(e.ev) = PartOf(items[k].ev) => e.seq < items[k].seq

Reading(c) ==
    /\ TimesUp(ops[c]) /\ Latest(ops[c], Len(ops[c]), EntriesOf(c))
    /\ pc[c] \notin {"open", "ended"} =>
          /\ pos[c] > 0 /\ tok[c] <= pos[c]
          /\ tok[c] = 0 => Latest(ops[c], pos[c], EntriesOf(c))
    /\ tok[c] # 0 => Reread(ops[c], c, tok[c], EntriesOf(c), Known)

Writing(c) ==
    /\ call[c].busy => pc[c] = "append"
    /\ IF pc[c] = "drain"
       THEN Line(batch[c], c, ops[c][pos[c]].time, EntriesOf(c), Known)
       ELSE batch[c] = <<>>
    /\ pc[c] = "append" =>
          /\ Line(EvsOf(call[c].items), c, ops[c][pos[c]].time, EntriesOf(c), Known)
          /\ Rising(call[c].items, nextSeq)
          /\ Behind(call[c].items, call[c].done, EntriesOf(c))

\* The entries of one document are numbered in the order of their times.
InOrder(E) ==
    \A a, b \in E :
        CollOf(a.ev) = CollOf(b.ev) /\ a.ev.key = b.ev.key =>
            /\ a.ev.id = b.ev.id => a = b
            /\ TimeOf(a.ev) < TimeOf(b.ev) => a.seq < b.seq

OrderInv ==
    /\ \A e \in Entries : e.seq < nextSeq[PartOf(e.ev)]
    /\ InOrder(Entries)
    /\ \A c \in Colls : Reading(c) /\ Writing(c)

\* Every change has a cluster time of its own: what MongoDB gives outside of
\* transactions.
TimesDiffer == ~Transactions /\ \A c \in Colls : TimesUp(OldOps[c])

-----------------------------------------------------------------------------
(* Events, entries and numbers.                                             *)

LEMMA NormalizedShape ==
    ASSUME NEW c, NEW o
    PROVE  /\ CollOf(Normalized(c, o)) = c /\ TimeOf(Normalized(c, o)) = o.time
           /\ Normalized(c, o).key = o.key /\ Normalized(c, o).id = <<c, o.key, o.time>>
BY DEF Normalized, CollOf, TimeOf

LEMMA EventShape ==
    ASSUME NEW e \in Evt
    PROVE  /\ CollOf(e) \in Colls /\ TimeOf(e) \in Nat /\ PartOf(e) \in Partitions
           /\ e.id = <<CollOf(e), e.key, TimeOf(e)>>
<1>1. PICK c \in Colls : \E o \in Op(c) : e = Normalized(c, o)
  BY DEF Evt
<1>2. PICK o \in Op(c) : e = Normalized(c, o)
  BY <1>1
<1>3. o.time \in Nat
  BY DEF Op
<1> QED BY <1>1, <1>2, <1>3, NormalizedShape, EventsHavePartitions

\* Events with one key are of one change.
LEMMA SameKey ==
    ASSUME NEW e \in Evt, NEW f \in Evt, e.id = f.id
    PROVE  CollOf(e) = CollOf(f) /\ TimeOf(e) = TimeOf(f) /\ e.key = f.key
BY EventShape DEF CollOf, TimeOf

LEMMA EntryTypes ==
    ASSUME MongoTypeOK
    PROVE  /\ Entries \subseteq Item /\ Known = {it.ev.id : it \in Entries}
           /\ \A e \in Entries : /\ e.ev \in Evt /\ e.seq \in Nat /\ TimeOf(e.ev) \in Nat
                                 /\ CollOf(e.ev) \in Colls /\ PartOf(e.ev) \in Partitions
<1>1. Entries \subseteq Item
  BY DEF MongoTypeOK, Entries
<1>2. \A e \in Entries : e.ev \in Evt /\ e.seq \in Nat
  BY <1>1, ItemFields
<1>3. Known = {it.ev.id : it \in Entries}
  BY DEF Known, Entries
<1> QED BY <1>1, <1>2, <1>3, EventShape

LEMMA EntriesStay == log' = log => Entries' = Entries /\ \A c : EntriesOf(c)' = EntriesOf(c)
BY DEF Entries, EntriesOf

LEMMA EvsOfOK ==
    ASSUME NEW s \in Seq(Item)
    PROVE  /\ DOMAIN EvsOf(s) = 1..Len(s) /\ DOMAIN s = 1..Len(s) /\ Len(s) \in Nat
           /\ \A j \in 1..Len(s) : EvsOf(s)[j] = s[j].ev /\ s[j].ev \in Evt /\ s[j].seq \in Nat
<1>1. DOMAIN s = 1..Len(s) /\ Len(s) \in Nat /\ \A j \in 1..Len(s) : s[j] \in Item
  OBVIOUS
<1> QED BY <1>1, ItemFields DEF EvsOf

LEMMA SmallerCard ==
    ASSUME NEW T, NEW S, T \subseteq S, NEW x \in S, x \notin T, IsFiniteSet(S)
    PROVE  /\ Cardinality(T) \in Nat /\ Cardinality(S) \in Nat
           /\ Cardinality(T) < Cardinality(S)
<1>1. IsFiniteSet(T) /\ Cardinality(T) <= Cardinality(S) /\ Cardinality(T) # Cardinality(S)
  BY FS_Subset
<1>2. Cardinality(T) \in Nat /\ Cardinality(S) \in Nat
  BY <1>1, FS_CardinalityType
<1> QED BY <1>1, <1>2

\* Phase 1: the numbers of a batch grow along it and are new.
LEMMA NumberedRises ==
    ASSUME MongoTypeOK, NEW w \in Colls, NEW evs \in Seq(Evt), Prepare(w, evs)
    PROVE  /\ call'[w].items = Numbered(evs) /\ call'[w].done = 0
           /\ EvsOf(Numbered(evs)) = evs /\ Rising(Numbered(evs), nextSeq')
           /\ \A p \in Partitions : nextSeq[p] <= nextSeq'[p]
           /\ \A k \in DOMAIN evs : Numbered(evs)[k].seq >= nextSeq[PartOf(evs[k])]
<1> DEFINE its == Numbered(evs)
           S(i) == {j \in 1..(i - 1) : PartOf(evs[j]) = PartOf(evs[i])}
           A(p) == {i \in DOMAIN evs : PartOf(evs[i]) = p}
           d == [NoCall EXCEPT !.busy = TRUE, !.items = its]
<1>1. /\ DOMAIN evs = 1..Len(evs) /\ Len(evs) \in Nat
      /\ \A i \in DOMAIN evs : evs[i] \in Evt /\ PartOf(evs[i]) \in Partitions
  <2>1. DOMAIN evs = 1..Len(evs) /\ Len(evs) \in Nat /\ \A i \in DOMAIN evs : evs[i] \in Evt
    OBVIOUS
  <2> QED BY <2>1, EventShape
<1>2. /\ nextSeq \in [Partitions -> Nat]
      /\ nextSeq' = [p \in Partitions |-> nextSeq[p] + Cardinality(A(p))]
      /\ call' = [call EXCEPT ![w] = d]
  BY DEF Prepare, MongoTypeOK
<1>3. d.items = its /\ d.done = 0
  <2>1. its \in Seq(Item)
    BY NumberedOK
  <2> HIDE DEF its
  <2> QED BY <2>1, CallPrepared
<1>4. /\ DOMAIN its = DOMAIN evs
      /\ \A i \in DOMAIN evs : /\ its[i].ev = evs[i]
                               /\ its[i].seq = nextSeq[PartOf(evs[i])] + Cardinality(S(i))
  BY DEF Numbered
<1> HIDE DEF d, its
<1>5. call'[w] = d
  BY <1>2 DEF MongoTypeOK
<1>6. IsFiniteSet(DOMAIN evs) /\ \A i \in DOMAIN evs : IsFiniteSet(1..(i - 1))
  BY <1>1, FS_Interval
<1>7. \A p : IsFiniteSet(A(p)) /\ Cardinality(A(p)) \in Nat
  <2>1. \A p : A(p) \subseteq DOMAIN evs
    OBVIOUS
  <2> QED BY <1>6, <2>1, FS_Subset, FS_CardinalityType
<1>8. \A i \in DOMAIN evs : IsFiniteSet(S(i)) /\ Cardinality(S(i)) \in Nat
  <2>1. \A i \in DOMAIN evs : S(i) \subseteq 1..(i - 1)
    OBVIOUS
  <2> QED BY <1>6, <2>1, FS_Subset, FS_CardinalityType
<1>9. \A p \in Partitions : nextSeq'[p] = nextSeq[p] + Cardinality(A(p))
  BY <1>2
<1>10. ASSUME NEW j \in DOMAIN evs PROVE Cardinality(S(j)) < Cardinality(A(PartOf(evs[j])))
  <2>1. S(j) \subseteq A(PartOf(evs[j])) /\ j \in A(PartOf(evs[j])) /\ j \notin S(j)
    BY <1>1
  <2> HIDE DEF S, A
  <2> QED BY <1>7, <2>1, SmallerCard
<1>11. ASSUME NEW j \in DOMAIN evs, NEW k \in DOMAIN evs, j < k, PartOf(evs[j]) = PartOf(evs[k])
       PROVE  Cardinality(S(j)) < Cardinality(S(k))
  <2>1. S(j) \subseteq S(k) /\ j \in S(k) /\ j \notin S(j)
    BY <1>1, <1>11
  <2> HIDE DEF S
  <2> QED BY <1>8, <2>1, SmallerCard
<1> HIDE DEF S, A
<1>12. Rising(its, nextSeq')
  <2>1. ASSUME NEW j \in DOMAIN its PROVE its[j].seq < nextSeq'[PartOf(its[j].ev)]
    BY <1>1, <1>2, <1>4, <1>7, <1>8, <1>9, <1>10
  <2>2. ASSUME NEW j \in DOMAIN its, NEW k \in DOMAIN its, j < k, PartOf(its[j].ev) = PartOf(its[k].ev)
        PROVE  its[j].seq < its[k].seq
    <3>1. Cardinality(S(j)) < Cardinality(S(k)) /\ nextSeq[PartOf(evs[j])] = nextSeq[PartOf(evs[k])]
      BY <1>4, <1>11, <2>2
    <3>2. nextSeq[PartOf(evs[j])] \in Nat
      BY <1>1, <1>2, <1>4
    <3> QED BY <1>4, <1>8, <3>1, <3>2
  <2> QED BY <2>1, <2>2 DEF Rising
<1>13. EvsOf(its) = evs
  <2>1. EvsOf(its) = [j \in DOMAIN evs |-> evs[j]]
    BY <1>4 DEF EvsOf
  <2>2. evs = [j \in DOMAIN evs |-> evs[j]]
    OBVIOUS
  <2> QED BY <2>1, <2>2
<1>14. \A p \in Partitions : nextSeq[p] <= nextSeq'[p]
  BY <1>2, <1>7, <1>9
<1>15. \A k \in DOMAIN evs : its[k].seq >= nextSeq[PartOf(evs[k])]
  BY <1>1, <1>2, <1>4, <1>8
<1> QED BY <1>3, <1>5, <1>12, <1>13, <1>14, <1>15 DEF its

-----------------------------------------------------------------------------
(* What stays true as the log and the collections grow.                     *)

LEMMA LineStays ==
    ASSUME NEW s, NEW c, NEW t, NEW E, NEW K, NEW L, K \subseteq L, Line(s, c, t, E, K)
    PROVE  Line(s, c, t, E, L)
BY DEF Line

LEMMA RereadStays ==
    ASSUME NEW q, NEW c, NEW n, NEW E, NEW K, NEW L, K \subseteq L, Reread(q, c, n, E, K)
    PROVE  Reread(q, c, n, E, L)
BY DEF Reread

LEMMA RisingStays ==
    ASSUME NEW items \in Seq(Item), NEW N \in [Partitions -> Nat], NEW M \in [Partitions -> Nat],
           \A p \in Partitions : N[p] <= M[p], Rising(items, N)
    PROVE  Rising(items, M)
<1>1. ASSUME NEW j \in DOMAIN items PROVE items[j].seq < M[PartOf(items[j].ev)]
  <2>1. PartOf(items[j].ev) \in Partitions /\ items[j].seq \in Nat
    BY EvsOfOK, EventShape
  <2>2. items[j].seq < N[PartOf(items[j].ev)] /\ N[PartOf(items[j].ev)] <= M[PartOf(items[j].ev)]
    BY <2>1 DEF Rising
  <2> QED BY <2>1, <2>2
<1> QED BY <1>1 DEF Rising

LEMMA ReadingStays ==
    ASSUME NEW d \in Colls, Reading(d), Untouched(d), EntriesOf(d)' = EntriesOf(d), Known \subseteq Known'
    PROVE  Reading(d)'
<1>1. tok[d] # 0 => Reread(ops[d], d, tok[d], EntriesOf(d), Known')
  BY RereadStays DEF Reading
<1> QED BY <1>1 DEF Reading, Untouched

LEMMA WritingStays ==
    ASSUME NEW d \in Colls, MongoTypeOK, Writing(d), Untouched(d), EntriesOf(d)' = EntriesOf(d),
           Known \subseteq Known', nextSeq' \in [Partitions -> Nat],
           \A p \in Partitions : nextSeq[p] <= nextSeq'[p]
    PROVE  Writing(d)'
<1> DEFINE its == call[d].items
           t == ops[d][pos[d]].time
<1>1. pc[d] = "drain" => Line(batch[d], d, t, EntriesOf(d), Known')
  BY LineStays DEF Writing
<1>2. pc[d] = "append" =>
        Line(EvsOf(its), d, t, EntriesOf(d), Known') /\ Rising(its, nextSeq')
  <2>1. its \in Seq(Item) /\ nextSeq \in [Partitions -> Nat]
    BY CallFields DEF MongoTypeOK
  <2> QED BY <2>1, LineStays, RisingStays DEF Writing
<1>3. Behind(its, call[d].done, EntriesOf(d)) <=> Behind(call'[d].items, call'[d].done, EntriesOf(d)')
  BY DEF Untouched
<1> QED BY <1>1, <1>2, <1>3 DEF Writing, Untouched

\* A step that writes nothing to the log keeps the order of its entries.
LEMMA LogAlone ==
    ASSUME MongoTypeOK, OrderInv, log' = log, nextSeq' \in [Partitions -> Nat],
           \A p \in Partitions : nextSeq[p] <= nextSeq'[p]
    PROVE  (\A e \in Entries : e.seq < nextSeq[PartOf(e.ev)])' /\ InOrder(Entries)'
<1>1. Entries' = Entries
  BY EntriesStay
<1>2. \A e \in Entries : e.seq < nextSeq'[PartOf(e.ev)]
  <2> SUFFICES ASSUME NEW e \in Entries PROVE e.seq < nextSeq'[PartOf(e.ev)]
    OBVIOUS
  <2>1. PartOf(e.ev) \in Partitions /\ e.seq \in Nat
    BY EntryTypes
  <2>2. e.seq < nextSeq[PartOf(e.ev)] /\ nextSeq[PartOf(e.ev)] <= nextSeq'[PartOf(e.ev)]
    BY <2>1 DEF OrderInv
  <2>3. nextSeq[PartOf(e.ev)] \in Nat /\ nextSeq'[PartOf(e.ev)] \in Nat
    BY <2>1 DEF MongoTypeOK
  <2> QED BY <2>1, <2>2, <2>3
<1> QED BY <1>1, <1>2 DEF OrderInv, InOrder

\* One collection takes a step that writes nothing to the log.
LEMMA OneReads ==
    ASSUME MongoTypeOK, OrderInv, log' = log, nextSeq' \in [Partitions -> Nat],
           \A p \in Partitions : nextSeq[p] <= nextSeq'[p],
           NEW c \in Colls, Reading(c)', Writing(c)', \A d \in Colls \ {c} : Untouched(d)
    PROVE  OrderInv'
<1>1. Known' = Known /\ \A d \in Colls : EntriesOf(d)' = EntriesOf(d)
  BY KnownStays, EntriesStay
<1>2. ASSUME NEW d \in Colls PROVE Reading(d)' /\ Writing(d)'
  <2>1. CASE d = c
    BY <2>1
  <2>2. CASE d # c
    BY <1>1, <2>2, ReadingStays, WritingStays DEF OrderInv
  <2> QED BY <2>1, <2>2
<1> QED BY <1>2, LogAlone DEF OrderInv

LEMMA OrderFields ==
    ASSUME OrderInv, NEW c \in Colls
    PROVE  Reading(c) /\ Writing(c) /\ InOrder(Entries)
BY DEF OrderInv

LEMMA EntriesOfTypes ==
    ASSUME MongoTypeOK, NEW c
    PROVE  \A e \in EntriesOf(c) : /\ e \in Entries /\ e.ev \in Evt /\ e.seq \in Nat
                                   /\ TimeOf(e.ev) \in Nat /\ CollOf(e.ev) = c
                                   /\ PartOf(e.ev) \in Partitions
BY EntryTypes DEF EntriesOf

LEMMA OpTypes ==
    ASSUME MongoInv, NEW c \in Colls
    PROVE  \A i \in DOMAIN ops[c] : ops[c][i] \in Op(c) /\ ops[c][i].time \in Nat /\ i \in Nat
<1>1. ops[c] \in Seq(Op(c))
  BY Fields
<1>2. \A i \in DOMAIN ops[c] : ops[c][i] \in Op(c) /\ i \in Nat
  BY <1>1
<1> QED BY <1>2 DEF Op

-----------------------------------------------------------------------------
(* The steps.                                                               *)

\* The database makes a change, later than all that is in the log.
LEMMA ChangeOrder ==
    ASSUME TimesDiffer, MongoInv, OrderInv, NEW c \in Colls, Change(c)
    PROVE  OrderInv'
<1>1. UNCHANGED <<store, legacy, tok, pc, pos, batch, base>> /\ UNCHANGED logVars
  BY DEF Change
<1> DEFINE q == ops[c]
<1>2. PICK o : /\ o \in Op(c) /\ o.time = Len(q) + 1 /\ ops' = [ops EXCEPT ![c] = Append(ops[c], o)]
  <2>1. PICK k \in DocKeys[c], good \in BOOLEAN :
          \E t \in {Now(c)} \cup (IF Transactions THEN {ops[c][Len(ops[c])].time} ELSE {}) :
             ops' = [ops EXCEPT ![c] = Append(ops[c], [key |-> k, ok |-> good, time |-> t])]
    BY DEF Change
  <2>2. ops' = [ops EXCEPT ![c] = Append(ops[c], [key |-> k, ok |-> good, time |-> Now(c)])]
    BY <2>1 DEF TimesDiffer
  <2>3. Now(c) \in Nat /\ Now(c) = Len(q) + 1
    BY Fields DEF Now
  <2>4. [key |-> k, ok |-> good, time |-> Now(c)] \in Op(c)
    BY <2>3 DEF Op
  <2> QED BY <2>2, <2>3, <2>4
<1> DEFINE r == Append(q, o)
           n == Len(q)
           E == EntriesOf(c)
<1>3. /\ q \in Seq(Op(c)) /\ n \in Nat /\ Len(q) = n /\ n > 0 /\ DOMAIN q = 1..n /\ DOMAIN r = 1..(n + 1)
      /\ Len(r) = n + 1 /\ r[n + 1] = o /\ \A i \in 1..n : r[i] = q[i] /\ q[i] \in Op(c)
  BY <1>2, Fields DEF MongoTypeOK
<1>4. ops'[c] = r /\ \A d \in Colls \ {c} : ops'[d] = ops[d]
  BY <1>2 DEF MongoInv, MongoTypeOK
<1> HIDE DEF r, n
<1>5. Known' = Known /\ EntriesOf(c)' = E /\ call' = call /\ nextSeq' = nextSeq /\ log' = log
  BY <1>1, KnownStays, EntriesStay DEF logVars
<1>6. \A i \in 1..n : q[i].time \in Nat /\ r[i].time = q[i].time /\ q[i].time <= i
  BY <1>3, OrderFields DEF Op, Reading, TimesUp
<1>7. o.time = n + 1
  BY <1>2, <1>3
<1>8. TimesUp(r)
  <2>1. ASSUME NEW i \in DOMAIN r PROVE r[i].time <= i
    BY <1>3, <1>6, <1>7
  <2>2. ASSUME NEW i \in DOMAIN r, NEW j \in DOMAIN r, i < j PROVE r[i].time < r[j].time
    <3>1. CASE j = n + 1
      BY <1>3, <1>6, <1>7, <2>2, <3>1
    <3>2. CASE j # n + 1
      <4>1. i \in 1..n /\ j \in 1..n
        BY <1>3, <2>2, <3>2
      <4>2. TimesUp(q)
        BY OrderFields DEF Reading
      <4>3. q[i].time < q[j].time
        BY <1>3, <2>2, <4>1, <4>2 DEF TimesUp
      <4> QED BY <1>3, <4>1, <4>3
    <3> QED BY <3>1, <3>2
  <2> QED BY <2>1, <2>2 DEF TimesUp
<1>9. \A e \in E : TimeOf(e.ev) \in Nat /\ TimeOf(e.ev) <= n
  <2>1. Latest(q, n, E)
    BY <1>3, OrderFields DEF Reading
  <2>2. q[n].time \in Nat /\ q[n].time <= n
    BY <1>3, <1>6
  <2> QED BY <1>3, <2>1, <2>2, EntriesOfTypes DEF Latest, MongoInv
<1>10. Latest(r, n + 1, E)
  BY <1>3, <1>7, <1>9 DEF Latest
<1>11. tok[c] # 0 => Reread(r, c, tok[c], E, Known)
  <2> SUFFICES ASSUME tok[c] # 0, NEW i \in DOMAIN r, i > tok[c], r[i].ok, NEW e \in E,
                      r[i].time < TimeOf(e.ev)
               PROVE  Normalized(c, r[i]).id \in Known
    BY DEF Reread
  <2>1. i # n + 1
    BY <1>3, <1>7, <1>9
  <2>2. i \in 1..n /\ r[i] = q[i]
    BY <1>3, <2>1
  <2>3. Reread(q, c, tok[c], E, Known)
    BY OrderFields DEF Reading
  <2> QED BY <1>3, <2>2, <2>3 DEF Reread
<1>12. pos[c] \in Nat /\ pos[c] <= n /\ (pos[c] > 0 => r[pos[c]] = q[pos[c]])
  BY <1>3, Fields DEF Tokens
<1>13. Reading(c)'
  <2>1. pc[c] \notin {"open", "ended"} => pos[c] > 0 /\ tok[c] <= pos[c]
            /\ (tok[c] = 0 => Latest(r, pos[c], E))
    BY <1>12, OrderFields DEF Reading, Latest
  <2>2. TimesUp(ops'[c]) /\ Latest(ops'[c], Len(ops'[c]), E)
    BY <1>3, <1>4, <1>8, <1>10
  <2>3. tok'[c] = tok[c] /\ pos'[c] = pos[c] /\ pc'[c] = pc[c]
    BY <1>1
  <2> QED BY <1>4, <1>5, <1>11, <2>1, <2>2, <2>3 DEF Reading
<1>14. Writing(c)'
  <2>1. pc[c] \in {"drain", "append"} => r[pos[c]] = q[pos[c]]
    BY <1>12, OrderFields DEF Reading
  <2>2. pc'[c] = pc[c] /\ pos'[c] = pos[c] /\ batch'[c] = batch[c]
    BY <1>1
  <2> QED BY <1>4, <1>5, <2>1, <2>2, OrderFields DEF Writing
<1>15. \A d \in Colls \ {c} : Untouched(d)
  BY <1>1, <1>4, <1>5 DEF Untouched
<1>16. nextSeq' \in [Partitions -> Nat] /\ MongoTypeOK /\ \A p \in Partitions : nextSeq[p] <= nextSeq'[p]
  <2>1. MongoTypeOK /\ nextSeq \in [Partitions -> Nat] /\ nextSeq' = nextSeq
    BY <1>5 DEF MongoInv, MongoTypeOK
  <2> QED BY <2>1
<1> QED BY <1>5, <1>13, <1>14, <1>15, <1>16, OneReads

\* The stream is opened, ends, or fails: nothing waits to be appended.
LEMMA OpenOrder ==
    ASSUME MongoInv, OrderInv, NEW c \in Colls, Open(c) \/ Invalid(c) \/ StreamLost(c) \/ StreamFails(c)
    PROVE  OrderInv'
<1>1. UNCHANGED <<ops, store, legacy, tok, base, batch, log, nextSeq>>
  BY DEF Open, Invalid, StreamLost, StreamFails, logVars, AppendFails, Return
<1>2. MongoTypeOK /\ Reading(c) /\ Writing(c)
  BY OrderFields DEF MongoInv
<1>3. /\ \A d \in Colls \ {c} : pos'[d] = pos[d] /\ pc'[d] = pc[d] /\ call'[d] = call[d]
      /\ ~call'[c].busy /\ batch[c] = <<>>
      /\ \/ pc'[c] \in {"open", "ended"} /\ pos'[c] = pos[c]
         \/ pc'[c] = "next" /\ pos'[c] = IF tok[c] # 0 THEN tok[c] ELSE Len(ops[c])
  <2>1. CASE Open(c)
    BY <1>2, <2>1 DEF Open, logVars, MongoTypeOK, Writing
  <2>2. CASE Invalid(c) \/ StreamLost(c)
    BY <1>2, <2>2 DEF Invalid, StreamLost, logVars, MongoTypeOK, Writing
  <2>3. CASE StreamFails(c) /\ pc[c] = "append"
    BY <1>2, <2>3 DEF StreamFails, AppendFails, Return, NoCall, MongoTypeOK, Writing
  <2>4. CASE StreamFails(c) /\ pc[c] # "append"
    BY <1>2, <2>4 DEF StreamFails, logVars, MongoTypeOK, Writing
  <2> QED BY <2>1, <2>2, <2>3, <2>4
<1>4. Known' = Known /\ EntriesOf(c)' = EntriesOf(c)
  BY <1>1, KnownStays, EntriesStay
<1>5. Len(ops[c]) \in Nat /\ Len(ops[c]) > 0 /\ tok[c] \in Nat
  BY <1>2, Fields DEF MongoTypeOK
<1>6. Reading(c)'
  BY <1>1, <1>2, <1>3, <1>4, <1>5 DEF Reading
<1>7. Writing(c)'
  BY <1>1, <1>3 DEF Writing
<1>8. \A d \in Colls \ {c} : Untouched(d)
  BY <1>1, <1>3 DEF Untouched
<1>9. nextSeq' \in [Partitions -> Nat] /\ \A p \in Partitions : nextSeq[p] <= nextSeq'[p]
  BY <1>1, <1>2 DEF MongoTypeOK
<1> QED BY <1>1, <1>2, <1>6, <1>7, <1>8, <1>9, OneReads

\* decodeNext: the change read is later than all of the batch, and than the log or
\* already in it.
LEMMA ReadNextOrder ==
    ASSUME MongoInv, OrderInv, NEW c \in Colls, ReadNext(c)
    PROVE  OrderInv'
<1> DEFINE q == ops[c]
           n == pos[c]
           o == q[n + 1]
           b == batch[c]
           t == q[n].time
           E == EntriesOf(c)
<1>1. /\ pc[c] \in {"next", "drain"} /\ n < Len(q)
      /\ pos' = [pos EXCEPT ![c] = n + 1] /\ batch' = [batch EXCEPT ![c] = Drained(c, o)]
      /\ pc' = [pc EXCEPT ![c] = "drain"]
      /\ UNCHANGED <<ops, store, legacy, tok, base>> /\ UNCHANGED logVars
  BY DEF ReadNext, DecodeNext
<1>2. /\ MongoTypeOK /\ q \in Seq(Op(c)) /\ Tokens(c) /\ Pending(c) /\ n \in Nat
      /\ tok[c] \in Nat /\ Len(q) \in Nat /\ Reading(c) /\ Writing(c) /\ b \in Seq(Evt)
  BY Fields, OrderFields
<1>3. /\ n > 0 /\ n \in DOMAIN q /\ n + 1 \in DOMAIN q /\ tok[c] <= n /\ TimesUp(q)
      /\ (tok[c] = 0 => Latest(q, n, E)) /\ (tok[c] # 0 => Reread(q, c, tok[c], E, Known))
  BY <1>1, <1>2 DEF Reading
<1>4. o \in Op(c) /\ o.time \in Nat /\ t \in Nat /\ t < o.time
  <2>1. \A i \in DOMAIN q : q[i].time \in Nat /\ q[i] \in Op(c)
    BY OpTypes
  <2>2. t < o.time
    BY <1>2, <1>3 DEF TimesUp
  <2> QED BY <1>3, <2>1, <2>2
<1>5. pc[c] = "drain" => Line(b, c, t, E, Known)
  BY <1>2 DEF Writing
<1>6. /\ pos'[c] = n + 1 /\ batch'[c] = Drained(c, o) /\ pc'[c] = "drain"
      /\ \A d \in Colls \ {c} : pos'[d] = pos[d] /\ batch'[d] = batch[d] /\ pc'[d] = pc[d]
  BY <1>1, <1>2 DEF MongoTypeOK
<1>7. /\ Known' = Known /\ EntriesOf(c)' = E /\ call' = call /\ nextSeq' = nextSeq /\ log' = log
      /\ ops' = ops /\ tok' = tok
  BY <1>1, KnownStays, EntriesStay DEF logVars
<1>8. \A e \in E : TimeOf(e.ev) \in Nat
  BY <1>2, EntriesOfTypes
<1> DEFINE x == Normalized(c, o)
<1>9. CollOf(x) = c /\ TimeOf(x) = o.time
  BY NormalizedShape
<1>10. o.ok => \A e \in E : TimeOf(x) < TimeOf(e.ev) => x.id \in Known
  <2> SUFFICES ASSUME o.ok, NEW e \in E, TimeOf(x) < TimeOf(e.ev) PROVE x.id \in Known
    OBVIOUS
  <2>1. CASE tok[c] = 0
    <3>1. TimeOf(e.ev) <= t
      BY <1>3, <2>1 DEF Latest
    <3> QED BY <1>4, <1>8, <1>9, <3>1
  <2>2. CASE tok[c] # 0
    <3>1. n + 1 > tok[c]
      BY <1>2, <1>3
    <3> QED BY <1>3, <1>9, <2>2, <3>1 DEF Reread
  <2> QED BY <2>1, <2>2
<1>11. \A j \in DOMAIN b : b[j] \in Evt /\ TimeOf(b[j]) \in Nat
  BY <1>2, EventShape
<1>12. Line(b, c, o.time, E, Known)
  <2>1. CASE pc[c] = "next"
    <3>1. DOMAIN b = {}
      BY <1>2, <2>1 DEF Writing
    <3> QED BY <3>1 DEF Line
  <2>2. CASE pc[c] = "drain"
    <3>1. ASSUME NEW j \in DOMAIN b PROVE TimeOf(b[j]) <= o.time
      BY <1>4, <1>5, <1>11, <2>2 DEF Line
    <3> QED BY <1>5, <2>2, <3>1 DEF Line
  <2> QED BY <1>1, <2>1, <2>2
<1>13. pc[c] = "drain" \/ DOMAIN b = {}
  BY <1>2 DEF Writing
<1>14. \A j \in DOMAIN b : TimeOf(b[j]) <= t
  BY <1>5, <1>13 DEF Line
<1>15. Line(Drained(c, o), c, o.time, E, Known)
  <2>1. CASE ~o.ok
    BY <1>12, <2>1 DEF Drained
  <2>2. CASE o.ok
    <3> DEFINE a == Append(b, x)
               m == Len(b)
    <3>1. x \in Evt
      BY <1>4, NormalizedIsEvent
    <3> HIDE DEF x
    <3>2. /\ DOMAIN a = 1..(m + 1) /\ DOMAIN b = 1..m /\ m \in Nat
          /\ a[m + 1] = x /\ \A j \in 1..m : a[j] = b[j]
      BY <1>2, <3>1
    <3> HIDE DEF a, m
    <3>3. ASSUME NEW j \in DOMAIN a, NEW k \in DOMAIN a, j < k PROVE TimeOf(a[j]) < TimeOf(a[k])
      <4>1. j \in DOMAIN b /\ a[j] = b[j] /\ TimeOf(b[j]) \in Nat
        BY <1>11, <3>2, <3>3
      <4>2. CASE k = m + 1
        BY <1>4, <1>9, <1>14, <3>2, <4>1, <4>2
      <4>3. CASE k # m + 1
        <5>1. k \in DOMAIN b /\ a[k] = b[k]
          BY <3>2, <4>3
        <5> QED BY <1>12, <3>3, <4>1, <5>1 DEF Line
      <4> QED BY <4>2, <4>3
    <3>4. ASSUME NEW j \in DOMAIN a
          PROVE  /\ CollOf(a[j]) = c /\ TimeOf(a[j]) <= o.time
                 /\ \A e \in E : TimeOf(a[j]) < TimeOf(e.ev) => a[j].id \in Known
      <4>1. CASE j = m + 1
        BY <1>4, <1>9, <1>10, <2>2, <3>2, <4>1
      <4>2. CASE j # m + 1
        <5>1. j \in DOMAIN b /\ a[j] = b[j]
          BY <3>2, <4>2
        <5> QED BY <1>12, <5>1 DEF Line
      <4> QED BY <4>1, <4>2
    <3>5. Line(a, c, o.time, E, Known)
      BY <3>3, <3>4 DEF Line
    <3> QED BY <2>2, <3>5 DEF Drained, a, x
  <2> QED BY <2>1, <2>2
<1>16. Writing(c)'
  <2>1. ~call'[c].busy \/ pc[c] = "append"
    BY <1>2, <1>7 DEF Writing
  <2> QED BY <1>1, <1>6, <1>7, <1>15, <2>1 DEF Writing
<1>17. Reading(c)'
  <2>1. tok[c] = 0 => Latest(q, n + 1, E)
    <3>1. tok[c] = 0 => \A e \in E : TimeOf(e.ev) <= t
      BY <1>3 DEF Latest
    <3>2. tok[c] = 0 => \A e \in E : TimeOf(e.ev) <= o.time
      BY <1>4, <1>8, <3>1
    <3> QED BY <3>2 DEF Latest
  <2>2. TimesUp(q) /\ Latest(q, Len(q), E) /\ n + 1 > 0 /\ tok[c] <= n + 1
    BY <1>2, <1>3 DEF Reading
  <2> QED BY <1>3, <1>6, <1>7, <2>1, <2>2 DEF Reading
<1>18. \A d \in Colls \ {c} : Untouched(d)
  BY <1>1, <1>6, <1>7 DEF Untouched
<1>19. nextSeq' \in [Partitions -> Nat] /\ \A p \in Partitions : nextSeq[p] <= nextSeq'[p]
  BY <1>2, <1>7 DEF MongoTypeOK
<1> QED BY <1>2, <1>7, <1>16, <1>17, <1>18, <1>19, OneReads

\* The batch is numbered behind all that is in the log.
LEMMA FlushOrder ==
    ASSUME MongoInv, OrderInv, NEW c \in Colls, Flush(c)
    PROVE  OrderInv'
<1> DEFINE b == batch[c]
           E == EntriesOf(c)
           t == ops[c][pos[c]].time
<1>1. /\ pc[c] = "drain" /\ batch' = [batch EXCEPT ![c] = <<>>]
      /\ UNCHANGED <<ops, store, legacy, tok, pos, base>>
  BY DEF Flush
<1>2. MongoTypeOK /\ b \in Seq(Evt) /\ Reading(c) /\ Writing(c) /\ Line(b, c, t, E, Known)
  BY <1>1, Fields, OrderFields DEF Writing
<1>3. PICK y \in {"save", "append"} :
        /\ pc' = [pc EXCEPT ![c] = y]
        /\ y = "save" => UNCHANGED logVars
        /\ y = "append" => Prepare(c, b)
  BY DEF Flush
<1>4. /\ pc'[c] = y /\ batch'[c] = <<>>
      /\ \A d \in Colls \ {c} : pc'[d] = pc[d] /\ batch'[d] = batch[d]
  BY <1>1, <1>2, <1>3 DEF MongoTypeOK
<1>5. /\ log' = log /\ nextSeq' \in [Partitions -> Nat]
      /\ \A d \in Colls \ {c} : call'[d] = call[d]
      /\ \A p \in Partitions : nextSeq[p] <= nextSeq'[p]
  <2>1. CASE y = "save"
    <3>1. log' = log /\ nextSeq' = nextSeq /\ call' = call /\ nextSeq \in [Partitions -> Nat]
      BY <1>2, <1>3, <2>1 DEF logVars, MongoTypeOK
    <3> QED BY <3>1
  <2>2. CASE y = "append"
    BY <1>2, <1>3, <2>2, PrepareOK, NumberedRises
  <2> QED BY <2>1, <2>2
<1>6. Known' = Known /\ EntriesOf(c)' = E
  BY <1>5, KnownStays, EntriesStay
<1>7. Reading(c)'
  BY <1>1, <1>2, <1>4, <1>6 DEF Reading
<1>8. Writing(c)'
  <2>1. CASE y = "save"
    <3>1. ~call'[c].busy
      BY <1>1, <1>2, <1>3, <2>1 DEF logVars, Writing
    <3> QED BY <1>4, <2>1, <3>1 DEF Writing
  <2>2. CASE y = "append"
    <3> DEFINE its == Numbered(b)
    <3>1. /\ call'[c].items = its /\ call'[c].done = 0 /\ EvsOf(its) = b /\ Rising(its, nextSeq')
          /\ \A k \in DOMAIN b : its[k].seq >= nextSeq[PartOf(b[k])]
      BY <1>2, <1>3, <2>2, NumberedRises
    <3>2. its \in Seq(Item)
      BY <1>2, NumberedOK
    <3> HIDE DEF its
    <3>3. Behind(its, 0, E)
      <4> SUFFICES ASSUME NEW k \in DOMAIN its, NEW e \in E, PartOf(e.ev) = PartOf(its[k].ev)
                   PROVE  e.seq < its[k].seq
        BY DEF Behind
      <4>1. k \in DOMAIN b /\ its[k].ev = b[k] /\ its[k].seq \in Nat
        BY <3>1, <3>2, EvsOfOK
      <4>2. its[k].seq >= nextSeq[PartOf(e.ev)]
        BY <3>1, <4>1
      <4>3. e \in Entries /\ e.seq \in Nat /\ PartOf(e.ev) \in Partitions
        BY <1>2, EntriesOfTypes
      <4>4. e.seq < nextSeq[PartOf(e.ev)] /\ nextSeq[PartOf(e.ev)] \in Nat
        BY <1>2, <4>3 DEF OrderInv, MongoTypeOK
      <4> QED BY <4>1, <4>2, <4>3, <4>4
    <3>4. Line(EvsOf(call'[c].items), c, ops'[c][pos'[c]].time, EntriesOf(c)', Known')
      BY <1>1, <1>2, <1>6, <3>1
    <3> QED BY <1>4, <1>6, <2>2, <3>1, <3>3, <3>4 DEF Writing
  <2> QED BY <2>1, <2>2
<1>9. \A d \in Colls \ {c} : Untouched(d)
  BY <1>1, <1>4, <1>5 DEF Untouched
<1> QED BY <1>2, <1>5, <1>7, <1>8, <1>9, OneReads

\* AppendBatch returns, and the token is saved.
LEMMA AppendedOrder ==
    ASSUME MongoInv, OrderInv, NEW c \in Colls, Appended(c)
    PROVE  OrderInv'
<1>1. /\ UNCHANGED <<ops, store, legacy, tok, pos, batch, base>> /\ Return(c)
      /\ pc[c] = "append" /\ pc' = [pc EXCEPT ![c] = "save"]
  BY DEF Appended, AppendReturns
<1>2. MongoTypeOK /\ Reading(c) /\ Writing(c)
  BY OrderFields DEF MongoInv
<1>3. /\ log' = log /\ nextSeq' = nextSeq /\ call'[c] = NoCall
      /\ \A d \in Colls \ {c} : call'[d] = call[d]
  BY <1>1, <1>2, ReturnOK
<1>4. pc'[c] = "save" /\ \A d \in Colls \ {c} : pc'[d] = pc[d]
  BY <1>1, <1>2 DEF MongoTypeOK
<1>5. Known' = Known /\ EntriesOf(c)' = EntriesOf(c)
  BY <1>3, KnownStays, EntriesStay
<1>6. Reading(c)'
  BY <1>1, <1>2, <1>4, <1>5 DEF Reading
<1>7. Writing(c)'
  BY <1>1, <1>2, <1>3, <1>4 DEF Writing, NoCall
<1>8. \A d \in Colls \ {c} : Untouched(d)
  BY <1>1, <1>3, <1>4 DEF Untouched
<1>9. nextSeq' \in [Partitions -> Nat] /\ \A p \in Partitions : nextSeq[p] <= nextSeq'[p]
  BY <1>2, <1>3 DEF MongoTypeOK
<1> QED BY <1>2, <1>3, <1>6, <1>7, <1>8, <1>9, OneReads

LEMMA SaveTokenOrder ==
    ASSUME MongoInv, OrderInv, NEW c \in Colls, SaveToken(c)
    PROVE  OrderInv'
<1> DEFINE q == ops[c]
           E == EntriesOf(c)
<1>1. /\ pc[c] = "save" /\ tok' = [tok EXCEPT ![c] = pos[c]] /\ pc' = [pc EXCEPT ![c] = "next"]
      /\ UNCHANGED <<ops, legacy, pos, batch>> /\ UNCHANGED logVars
      /\ \E nb : base' = [base EXCEPT ![c] = nb]
      /\ store' = [store EXCEPT ![c] = pos[c]]
  BY DEF SaveToken
<1>2. /\ MongoTypeOK /\ Reading(c) /\ Writing(c) /\ pos[c] \in Nat /\ tok[c] \in Nat
      /\ pos[c] <= Len(q) /\ Len(q) \in Nat /\ q \in Seq(Op(c))
  BY Fields, OrderFields DEF Tokens
<1>3. /\ tok'[c] = pos[c] /\ pc'[c] = "next"
      /\ \A d \in Colls \ {c} : /\ store'[d] = store[d] /\ tok'[d] = tok[d]
                                /\ base'[d] = base[d] /\ pc'[d] = pc[d]
  BY <1>1, <1>2 DEF MongoTypeOK
<1>4. /\ Known' = Known /\ EntriesOf(c)' = E /\ call' = call /\ nextSeq' = nextSeq /\ log' = log
      /\ ops' = ops /\ pos' = pos /\ batch' = batch
  BY <1>1, KnownStays, EntriesStay DEF logVars
<1>5. pos[c] > 0 /\ tok[c] <= pos[c] /\ TimesUp(q) /\ pos[c] \in DOMAIN q
  BY <1>1, <1>2 DEF Reading
<1>6. Reread(q, c, pos[c], E, Known)
  <2> SUFFICES ASSUME NEW i \in DOMAIN q, i > pos[c], q[i].ok, NEW e \in E, q[i].time < TimeOf(e.ev)
               PROVE  Normalized(c, q[i]).id \in Known
    BY DEF Reread
  <2>1. i \in Nat /\ q[i].time \in Nat /\ q[pos[c]].time \in Nat /\ TimeOf(e.ev) \in Nat
    BY <1>2, <1>5, EntriesOfTypes, OpTypes
  <2>2. CASE tok[c] = 0
    <3>1. TimeOf(e.ev) <= q[pos[c]].time
      BY <1>1, <1>2, <2>2 DEF Reading, Latest
    <3>2. q[pos[c]].time < q[i].time
      BY <1>5 DEF TimesUp
    <3> QED BY <2>1, <3>1, <3>2
  <2>3. CASE tok[c] # 0
    <3>1. i > tok[c]
      BY <1>2, <1>5, <2>1
    <3>2. Reread(q, c, tok[c], E, Known)
      BY <1>2, <2>3 DEF Reading
    <3> QED BY <3>1, <3>2 DEF Reread
  <2> QED BY <2>2, <2>3
<1>7. Reading(c)'
  BY <1>2, <1>3, <1>4, <1>5, <1>6 DEF Reading
<1>8. Writing(c)'
  BY <1>1, <1>2, <1>3, <1>4 DEF Writing
<1>9. \A d \in Colls \ {c} : Untouched(d)
  BY <1>1, <1>3, <1>4 DEF Untouched
<1>10. nextSeq' \in [Partitions -> Nat] /\ \A p \in Partitions : nextSeq[p] <= nextSeq'[p]
  BY <1>2, <1>4 DEF MongoTypeOK
<1> QED BY <1>2, <1>4, <1>7, <1>8, <1>9, <1>10, OneReads

\* What a chunk adds to the log.
LEMMA EntriesGrow ==
    ASSUME MongoTypeOK, NEW w \in Colls, CommitChunk(w)
    PROVE  /\ Entries' = Entries \cup New(Chunk(w))
           /\ \A e \in New(Chunk(w)) :
                /\ e.ev.id \notin Known
                /\ \E k \in DOMAIN call[w].items :
                     call[w].done < k /\ k <= call'[w].done /\ e = call[w].items[k]
<1> DEFINE ch == Chunk(w)
           its == call[w].items
           D == call[w].done
           m == Len(ch)
<1>1. /\ its \in Seq(Item) /\ D \in Nat /\ ch \in Seq(Item) /\ m \in Nat
      /\ D + m <= Len(its) /\ (\A j \in 1..m : ch[j] = its[D + j]) /\ call'[w].done = D + m
  BY ChunkShape
<1>2. log' = [p \in Partitions |-> log[p] \cup {it \in New(ch) : PartOf(it.ev) = p}]
  BY DEF CommitChunk
<1>3. \A e \in New(ch) : e.ev.id \notin Known /\ \E j \in DOMAIN ch : e = ch[j]
  BY DEF New, InLog, Known
<1> HIDE DEF ch, its, D
<1>4. DOMAIN ch = 1..m /\ DOMAIN its = 1..Len(its) /\ Len(its) \in Nat
  BY <1>1
<1> HIDE DEF m
<1>5. \A j \in 1..m : D + j \in DOMAIN its /\ D < D + j /\ D + j <= D + m
  BY <1>1, <1>4
<1>6. \A e \in New(ch) : \E k \in DOMAIN its : D < k /\ k <= D + m /\ e = its[k]
  BY <1>1, <1>3, <1>4, <1>5
<1>7. \A e \in New(ch) : PartOf(e.ev) \in Partitions
  <2>1. \A k \in DOMAIN its : its[k].ev \in Evt
    BY <1>1, EvsOfOK
  <2> QED BY <1>6, <2>1, EventsHavePartitions
<1>8. Entries' = Entries \cup New(ch)
  <2>1. Entries' = UNION {log[p] \cup {it \in New(ch) : PartOf(it.ev) = p} : p \in Partitions}
    BY <1>2 DEF Entries
  <2> HIDE DEF ch
  <2> QED BY <1>7, <2>1 DEF Entries
<1> QED BY <1>1, <1>3, <1>6, <1>8 DEF ch, its, D

LEMMA CommitOrder ==
    ASSUME MongoInv, OrderInv, NEW c \in Colls, Commit(c)
    PROVE  OrderInv'
<1> DEFINE q == ops[c]
           its == call[c].items
           D == call[c].done
           F == call'[c].done
           N == New(Chunk(c))
           E == EntriesOf(c)
           t == q[pos[c]].time
           Same(e, f) == CollOf(e.ev) = CollOf(f.ev) /\ e.ev.key = f.ev.key
<1>1. /\ UNCHANGED <<ops, store, legacy, tok, pc, pos, batch, base, nextSeq>> /\ CommitChunk(c)
      /\ call[c].busy
  BY DEF Commit, mongoVars, CommitChunk
<1>2. /\ MongoTypeOK /\ Tokens(c) /\ Pending(c) /\ Committed(call[c], Known) /\ Reading(c) /\ Writing(c)
      /\ pos[c] \in Nat /\ tok[c] \in Nat /\ Len(q) \in Nat /\ q \in Seq(Op(c)) /\ pos[c] <= Len(q)
  BY Fields, OrderFields DEF Tokens
<1>3. /\ Known \subseteq Known' /\ (\A d \in Colls \ {c} : call'[d] = call[d])
      /\ Committed(call'[c], Known') /\ call'[c].items = its
  BY <1>1, <1>2, CommitOK
<1>4. its \in Seq(Item) /\ D \in Nat /\ F \in Nat /\ D <= F /\ F <= Len(its) /\ call'[c].busy = call[c].busy
  <2> DEFINE m == Len(Chunk(c))
  <2>1. /\ its \in Seq(Item) /\ D \in Nat /\ m \in Nat /\ D + m <= Len(its) /\ F = D + m
        /\ call'[c].busy = call[c].busy
    BY <1>1, <1>2, ChunkShape
  <2> HIDE DEF m, F, D, its
  <2> QED BY <2>1
<1>5. /\ Entries' = Entries \cup N
      /\ \A e \in N : /\ e.ev.id \notin Known
                      /\ \E k \in DOMAIN its : D < k /\ k <= F /\ e = its[k]
  BY <1>1, <1>2, EntriesGrow
<1>6. /\ pc[c] = "append" /\ Line(EvsOf(its), c, t, E, Known) /\ Rising(its, nextSeq)
      /\ Behind(its, D, E) /\ batch[c] = <<>>
  BY <1>1, <1>2 DEF Writing
<1> HIDE DEF N, D, F, its
<1>7. /\ DOMAIN its = 1..Len(its) /\ Len(its) \in Nat /\ DOMAIN EvsOf(its) = DOMAIN its
      /\ \A j \in DOMAIN its : /\ EvsOf(its)[j] = its[j].ev /\ its[j].ev \in Evt /\ its[j].seq \in Nat
                               /\ TimeOf(its[j].ev) \in Nat /\ PartOf(its[j].ev) \in Partitions
  BY <1>4, EvsOfOK, EventShape
<1>8. \A j \in DOMAIN its :
        /\ CollOf(its[j].ev) = c /\ TimeOf(its[j].ev) <= t
        /\ \A k \in DOMAIN its : j < k => TimeOf(its[j].ev) < TimeOf(its[k].ev)
        /\ \A e \in E : TimeOf(its[j].ev) < TimeOf(e.ev) => its[j].ev.id \in Known
  BY <1>6, <1>7 DEF Line
\* Among the items, times and positions agree.
<1>9. \A j, k \in DOMAIN its : /\ TimeOf(its[j].ev) < TimeOf(its[k].ev) => j < k
                               /\ TimeOf(its[j].ev) = TimeOf(its[k].ev) => j = k
  BY <1>7, <1>8
<1>10. \A e \in N : /\ e.ev \in Evt /\ e.seq \in Nat /\ TimeOf(e.ev) \in Nat /\ PartOf(e.ev) \in Partitions
                    /\ CollOf(e.ev) = c /\ TimeOf(e.ev) <= t
  BY <1>5, <1>7, <1>8
<1>11. EntriesOf(c)' = E \cup N /\ \A d \in Colls \ {c} : EntriesOf(d)' = EntriesOf(d)
  BY <1>5, <1>10 DEF EntriesOf
<1>12. \A e \in E : e.ev \in Evt /\ e.seq \in Nat /\ TimeOf(e.ev) \in Nat /\ e \in Entries
  BY <1>2, EntriesOfTypes
<1>13. \A e \in N : \A a \in Entries : a.ev.id # e.ev.id
  BY <1>2, <1>5, EntryTypes
<1>14. InOrder(Entries')
  <2> SUFFICES ASSUME NEW a \in Entries \cup N, NEW b \in Entries \cup N, Same(a, b)
               PROVE  /\ a.ev.id = b.ev.id => a = b
                      /\ TimeOf(a.ev) < TimeOf(b.ev) => a.seq < b.seq
    BY <1>5 DEF InOrder
  <2>1. CASE a \in Entries /\ b \in Entries
    BY <2>1, OrderFields DEF InOrder
  <2>2. CASE a \in N /\ b \in N
    <3>1. PICK j \in DOMAIN its : a = its[j]
      BY <1>5, <2>2
    <3>2. PICK k \in DOMAIN its : b = its[k]
      BY <1>5, <2>2
    <3>3. a.ev.id = b.ev.id => j = k
      BY <1>7, <1>9, <3>1, <3>2, SameKey
    <3>4. PartOf(a.ev) = PartOf(b.ev)
      BY DEF PartOf
    <3>5. TimeOf(a.ev) < TimeOf(b.ev) => a.seq < b.seq
      BY <1>6, <1>9, <3>1, <3>2, <3>4 DEF Rising
    <3> QED BY <3>1, <3>2, <3>3, <3>5
  <2>3. CASE a \in N /\ b \in Entries
    <3>1. PICK j \in DOMAIN its : a = its[j]
      BY <1>5, <2>3
    <3>2. b \in E
      BY <1>10, <2>3 DEF EntriesOf
    <3>3. ~(TimeOf(a.ev) < TimeOf(b.ev))
      BY <1>5, <1>8, <2>3, <3>1, <3>2
    <3> QED BY <1>13, <2>3, <3>3
  <2>4. CASE a \in Entries /\ b \in N
    <3>1. PICK k \in DOMAIN its : D < k /\ b = its[k]
      BY <1>5, <2>4
    <3>2. a \in E
      BY <1>10, <2>4 DEF EntriesOf
    <3>3. PartOf(a.ev) = PartOf(b.ev)
      BY DEF PartOf
    <3>4. a.seq < b.seq
      BY <1>4, <1>6, <1>7, <3>1, <3>2, <3>3 DEF Behind
    <3> QED BY <1>13, <2>4, <3>4
  <2> QED BY <2>1, <2>2, <2>3, <2>4
<1>15. \A e \in Entries' : e.seq < nextSeq[PartOf(e.ev)]
  <2>1. \A e \in N : e.seq < nextSeq[PartOf(e.ev)]
    BY <1>5, <1>6 DEF Rising
  <2> QED BY <1>5, <2>1 DEF OrderInv
<1>16. TimesUp(q) /\ pos[c] > 0 /\ pos[c] \in DOMAIN q /\ Len(q) \in DOMAIN q /\ tok[c] <= pos[c]
  BY <1>2, <1>6 DEF Reading
<1>17. \A e \in N : TimeOf(e.ev) <= q[Len(q)].time
  <2>1. t \in Nat /\ q[Len(q)].time \in Nat
    BY <1>16, OpTypes
  <2>2. t <= q[Len(q)].time
    <3>1. CASE pos[c] = Len(q)
      BY <2>1, <3>1
    <3>2. CASE pos[c] # Len(q)
      BY <1>2, <1>16, <2>1, <3>2 DEF TimesUp
    <3> QED BY <3>1, <3>2
  <2> QED BY <1>10, <2>1, <2>2
<1>18. tok[c] # 0 => Reread(q, c, tok[c], E \cup N, Known')
  <2> SUFFICES ASSUME tok[c] # 0, NEW i \in DOMAIN q, i > tok[c], q[i].ok, NEW e \in E \cup N,
                      q[i].time < TimeOf(e.ev)
               PROVE  Normalized(c, q[i]).id \in Known'
    BY DEF Reread
  <2>1. CASE e \in E
    BY <1>2, <1>3, <2>1 DEF Reading, Reread
  <2>2. CASE e \in N
    <3>1. PICK k \in DOMAIN its : k <= F /\ e = its[k]
      BY <1>5, <2>2
    <3>2. i \in Nat /\ q[i].time \in Nat /\ t \in Nat /\ q[i] \in Op(c)
      BY <1>16, OpTypes
    <3>3. q[i].time < t
      BY <1>10, <2>2, <3>2
    <3>4. i <= pos[c]
      BY <1>2, <1>16, <3>2, <3>3 DEF TimesUp
    <3>5. i \in (tok[c] + 1)..pos[c]
      BY <1>2, <3>2, <3>4
    <3>6. Covered(q, c, tok[c], pos[c], ItemIds(its))
      BY <1>2, <1>6 DEF Pending, its
    <3>7. PICK j \in DOMAIN its : its[j].ev.id = Normalized(c, q[i]).id
      BY <3>5, <3>6 DEF Covered, ItemIds
    <3>8. TimeOf(its[j].ev) = q[i].time
      BY <1>7, <3>2, <3>7, SameKey, NormalizedIsEvent, NormalizedShape
    <3>9. j < k
      BY <1>9, <3>1, <3>8
    <3>10. j \in 1..F
      BY <1>4, <1>7, <3>1, <3>9
    <3>11. its[j].ev.id \in Known'
      BY <1>3, <3>10 DEF Committed, F
    <3> QED BY <3>7, <3>11
  <2> QED BY <2>1, <2>2
<1>19. Reading(c)'
  <2>1. Latest(q, Len(q), E \cup N)
    BY <1>2, <1>17 DEF Reading, Latest
  <2>2. tok[c] = 0 => Latest(q, pos[c], E \cup N)
    BY <1>2, <1>6, <1>10 DEF Reading, Latest
  <2> QED BY <1>1, <1>11, <1>16, <1>18, <2>1, <2>2 DEF Reading
<1>20. Line(EvsOf(its), c, t, E \cup N, Known')
  <2>1. ASSUME NEW j \in DOMAIN its, NEW e \in N, TimeOf(its[j].ev) < TimeOf(e.ev)
        PROVE  its[j].ev.id \in Known'
    <3>1. PICK k \in DOMAIN its : k <= F /\ e = its[k]
      BY <1>5
    <3>2. j < k
      BY <1>9, <2>1, <3>1
    <3>3. j \in 1..F
      BY <1>4, <1>7, <3>1, <3>2
    <3> QED BY <1>3, <3>3 DEF Committed, F
  <2> QED BY <1>3, <1>7, <1>8, <2>1 DEF Line
<1>21. Behind(its, F, E \cup N)
  <2> SUFFICES ASSUME NEW k \in DOMAIN its, k > F, NEW e \in E \cup N, PartOf(e.ev) = PartOf(its[k].ev)
               PROVE  e.seq < its[k].seq
    BY DEF Behind
  <2>1. CASE e \in E
    BY <1>4, <1>6, <1>7, <2>1 DEF Behind
  <2>2. CASE e \in N
    <3>1. PICK j \in DOMAIN its : j <= F /\ e = its[j]
      BY <1>5, <2>2
    <3>2. j < k
      BY <1>4, <1>7, <3>1
    <3> QED BY <1>6, <3>1, <3>2 DEF Rising
  <2> QED BY <2>1, <2>2
<1>22. Writing(c)'
  BY <1>1, <1>3, <1>4, <1>6, <1>11, <1>20, <1>21 DEF Writing, F
<1>23. \A d \in Colls \ {c} : Untouched(d)
  BY <1>1, <1>3 DEF Untouched
<1>24. nextSeq' \in [Partitions -> Nat] /\ \A p \in Partitions : nextSeq[p] <= nextSeq'[p]
  BY <1>1, <1>2 DEF MongoTypeOK
<1>25. ASSUME NEW d \in Colls PROVE Reading(d)' /\ Writing(d)'
  <2>1. CASE d = c
    BY <1>19, <1>22, <2>1
  <2>2. CASE d # c
    BY <1>2, <1>3, <1>11, <1>23, <1>24, <2>2, ReadingStays, WritingStays DEF OrderInv
  <2> QED BY <2>1, <2>2
<1> QED BY <1>1, <1>14, <1>15, <1>25 DEF OrderInv, InOrder

\* After a restart nothing waits, and every collection goes on from its saved token.
LEMMA RestartOrder ==
    ASSUME MongoInv, OrderInv, Restart
    PROVE  OrderInv'
<1>1. /\ UNCHANGED <<ops, store, legacy, pos, base, log, nextSeq>>
      /\ call' = [w \in Colls |-> NoCall] /\ tok' = [c \in Colls |-> Loaded(c)]
      /\ pc' = [c \in Colls |-> "open"] /\ batch' = [c \in Colls |-> <<>>]
  BY DEF Restart, Reopen, Colls
<1>2. Known' = Known /\ \A c \in Colls : EntriesOf(c)' = EntriesOf(c)
  BY <1>1, KnownStays, EntriesStay
<1>3. MongoTypeOK /\ nextSeq' \in [Partitions -> Nat] /\ \A p \in Partitions : nextSeq[p] <= nextSeq'[p]
  BY <1>1 DEF MongoInv, MongoTypeOK
<1>4. ASSUME NEW c \in Colls PROVE Reading(c)' /\ Writing(c)'
  <2>1. tok'[c] = tok[c] /\ pc'[c] = "open" /\ batch'[c] = <<>> /\ ~call'[c].busy
    BY <1>1, Fields DEF Tokens, NoCall
  <2>2. Reading(c)'
    BY <1>1, <1>2, <2>1, OrderFields DEF Reading
  <2> QED BY <2>1, <2>2 DEF Writing
<1> QED BY <1>1, <1>3, <1>4, LogAlone DEF OrderInv

LEMMA UnmovedOrder ==
    ASSUME MongoInv, OrderInv,
           UNCHANGED <<ops, store, legacy, tok, pc, pos, batch, base, log, nextSeq, call>>
    PROVE  OrderInv'
<1>1. Known' = Known /\ \A c \in Colls : EntriesOf(c)' = EntriesOf(c) /\ Untouched(c)
  BY KnownStays, EntriesStay DEF Untouched
<1>2. MongoTypeOK /\ nextSeq' \in [Partitions -> Nat] /\ \A p \in Partitions : nextSeq[p] <= nextSeq'[p]
  BY DEF MongoInv, MongoTypeOK
<1>3. \A c \in Colls : Reading(c)' /\ Writing(c)'
  BY <1>1, <1>2, ReadingStays, WritingStays DEF OrderInv
<1> QED BY <1>2, <1>3, LogAlone DEF OrderInv

LEMMA InitOrder == TimesDiffer /\ Init => OrderInv
<1> SUFFICES ASSUME TimesDiffer, Init PROVE OrderInv
  OBVIOUS
<1>1. /\ ops = OldOps /\ pc = [c \in Colls |-> "open"] /\ batch = [c \in Colls |-> <<>>]
      /\ log = [p \in Partitions |-> {}] /\ call = [w \in Colls |-> NoCall]
  BY DEF Init, LogInit, Colls
<1>2. Entries = {}
  BY <1>1 DEF Entries
<1>3. ASSUME NEW c \in Colls PROVE Reading(c) /\ Writing(c)
  <2>1. EntriesOf(c) = {}
    BY <1>2 DEF EntriesOf
  <2>2. TimesUp(ops[c]) /\ pc[c] = "open" /\ batch[c] = <<>> /\ ~call[c].busy
    BY <1>1 DEF TimesDiffer, NoCall
  <2> QED BY <2>1, <2>2 DEF Reading, Writing, Latest, Reread
<1> QED BY <1>2, <1>3 DEF OrderInv, InOrder

LEMMA NextOrder == TimesDiffer /\ MongoInv /\ OrderInv /\ [Next]_vars => OrderInv'
<1> SUFFICES ASSUME TimesDiffer, MongoInv, OrderInv, [Next]_vars PROVE OrderInv'
  OBVIOUS
<1>1. CASE UNCHANGED vars
  BY <1>1, UnmovedOrder DEF vars, mongoVars, logVars
<1>2. CASE Restart
  BY <1>2, RestartOrder
<1>3. ASSUME NEW c \in Colls, Change(c) \/ Truncate(c) \/ Collection(c) \/ StreamFails(c)
      PROVE  OrderInv'
  <2>1. CASE Truncate(c)
    BY <2>1, UnmovedOrder DEF Truncate, logVars
  <2>2. CASE Collection(c)
    BY <2>2, OpenOrder, ReadNextOrder, FlushOrder, CommitOrder, AppendedOrder, SaveTokenOrder
       DEF Collection
  <2> QED BY <1>3, <2>1, <2>2, ChangeOrder, OpenOrder
<1> QED BY <1>1, <1>2, <1>3 DEF Next

\* LOG-03 for MongoDB (consumeStream, AppendBatch and commitChunk of several
\* collections without a lock): if every change has a cluster time of its own, the
\* changes of one document are in the log in the order they were made and each once,
\* for any collections, batches and chunks, over resent batches, lost streams and
\* restarts.
THEOREM DocumentsInOrder == ASSUME TimesDiffer PROVE Spec => []DocumentOrder
<1>1. MongoInv /\ OrderInv => DocumentOrder
  <2> SUFFICES ASSUME MongoInv, OrderInv, NEW c \in Colls, NEW i \in DOMAIN ops[c], NEW j \in DOMAIN ops[c],
                      i <= j, ops[c][i].key = ops[c][j].key,
                      NEW a \in log[PartitionOf[ops[c][i].key]], NEW b \in log[PartitionOf[ops[c][i].key]],
                      a.ev.id = Normalized(c, ops[c][i]).id, b.ev.id = Normalized(c, ops[c][j]).id
               PROVE  IF i = j THEN a = b ELSE a.seq < b.seq
    BY DEF DocumentOrder
  <2> DEFINE x == ops[c][i]
             y == ops[c][j]
  <2>1. x \in Op(c) /\ y \in Op(c) /\ i \in Nat /\ j \in Nat
    BY OpTypes
  <2>2. a \in Entries /\ b \in Entries /\ a.ev \in Evt /\ b.ev \in Evt
    <3>1. PartitionOf[x.key] \in Partitions
      <4>1. Normalized(c, x) \in Evt /\ Normalized(c, x).key = x.key
        <5> HIDE DEF x
        <5> QED BY <2>1, NormalizedIsEvent, NormalizedShape
      <4>2. PartOf(Normalized(c, x)) \in Partitions
        BY <4>1, EventsHavePartitions
      <4> QED BY <4>1, <4>2 DEF PartOf
    <3>2. a \in Entries /\ b \in Entries
      BY <3>1 DEF Entries
    <3> QED BY <3>2, EntryTypes DEF MongoInv
  <2>3. /\ CollOf(a.ev) = c /\ CollOf(b.ev) = c /\ a.ev.key = x.key /\ b.ev.key = y.key
        /\ TimeOf(a.ev) = x.time /\ TimeOf(b.ev) = y.time
    BY <2>1, <2>2, SameKey, NormalizedIsEvent, NormalizedShape
  <2>4. CASE i = j
    BY <2>2, <2>3, <2>4, OrderFields DEF InOrder
  <2>5. CASE i # j
    <3>1. x.time < y.time
      BY <2>1, <2>5, OrderFields DEF Reading, TimesUp
    <3> QED BY <2>2, <2>3, <2>5, <3>1, OrderFields DEF InOrder
  <2> QED BY <2>4, <2>5
<1>2. Init => OrderInv
  BY InitOrder
<1>3. MongoInv /\ OrderInv /\ [Next]_vars => OrderInv'
  BY NextOrder
<1> QED BY <1>1, <1>2, <1>3, InitInv, NextInv, PTL DEF Spec
=============================================================================
