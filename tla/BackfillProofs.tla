--------------------------- MODULE BackfillProofs ---------------------------
(***************************************************************************)
(* No row is missing from the log behind the saved cursor of a snapshot,   *)
(* nor anywhere once it is completed: proofs about Backfill and EventLog   *)
(* for any keys, transactions, pages, batches and chunks, and any crashes, *)
(* lost sessions, lost slots and failures.                                 *)
(***************************************************************************)
EXTENDS Backfill, FiniteSetTheorems, SequenceTheorems, TLAPS

\* Events and entries of the log, rows of a page, and the records of the engine.
Id == {"read", "wal", "control"} \X Nat \X Nat
Evt == [id : Id, key : Keys \cup {0}, ver : Nat, lsn : Nat]
Row == [key : Keys, ver : Nat]
Item == [ev : Evt, seq : Nat]
CallType == [busy : BOOLEAN, items : Seq(Item), done : Nat, written : SUBSET Evt]
StType == [status : {"none", "pending", "running", "completed"},
           cursor : Nat, lsn : Nat, snap : Nat]
Pcs == {"idle", "lsn", "register", "scan", "query", "row", "flush", "flushing",
        "control", "controlling"}
RunType == [pc : Pcs, status : {"none", "running"}, cursor : Nat, lsn : Nat, snap : Nat,
            buf : Seq(Evt), bufLast : Nat, page : Seq(Row), limit : Nat, rows : Nat,
            last : Nat, err : BOOLEAN]
IdxType == [on : BOOLEAN, lsn : Nat, keys : SUBSET (Keys \cup {0}), over : BOOLEAN,
            todo : SUBSET Partitions]

Types ==
    /\ wal \in Seq(Txs) /\ slotStart \in Nat /\ wcur \in Nat
    /\ conn \in {"down", "reset", "up"}
    /\ st \in StType /\ run \in RunType /\ idx \in IdxType /\ snapIDs \in Nat
    /\ log \in [Partitions -> SUBSET Item] /\ nextSeq \in [Partitions -> Nat]
    /\ call \in [Writers -> CallType]

\* A row that the stream does not bring: its last change is older than the slot.
V(k) == Version(k, Len(wal))
Old(k) == V(k) <= slotStart /\ Present(k, Len(wal))
Snapshotted(k) == Old(k) => \E e \in Entries : e.ev.key = k /\ e.ev.ver = V(k)

\* Outside of a slot loss, a version read from the table is the row's if the row
\* has not been changed since the slot's start.
Steady == conn # "reset"
Right(k, v) == Steady /\ V(k) <= slotStart => v = V(k)

\* What the three kinds of events say.
ReadEv(x) ==
    /\ x.key \in Keys /\ x.lsn = 0
    /\ x.id[1] = "read" /\ x.id[2] = x.key /\ x.id[3] \in 1..snapIDs
    /\ x.id[3] = st.snap => Right(x.key, x.ver)
LiveEv(x) ==
    /\ x.ver \in 1..Len(wal) /\ x.key \in wal[x.ver].keys /\ x.lsn = LSN(x.ver)
    /\ x.id[1] = "wal" /\ x.id[2] = x.key /\ x.id[3] = x.ver
ControlEv(x) == x.key = 0 /\ x.lsn = 0 /\ x.id[1] = "control"
EventOK(x) == ReadEv(x) \/ LiveEv(x) \/ ControlEv(x)

Known == {e.ev.id : e \in Entries}
Elems(s) == {s[j] : j \in DOMAIN s}
EvsOf(items) == {items[j].ev : j \in DOMAIN items}
ItemIds(items) == {x.id : x \in EvsOf(items)}

\* The events of the log and of the calls.
Logged == {e.ev : e \in Entries}
Sent == UNION {EvsOf(call[w].items) : w \in Writers}
EventsOK == \A x \in Logged \cup Sent : EventOK(x)

\* The items that a call has committed are in the log, by its own entry or by an
\* earlier one, and what it has written is there.
Committed(c) ==
    /\ c.done <= Len(c.items) /\ \A j \in 1..c.done : c.items[j].ev.id \in Known
    /\ c.written \subseteq Logged
CallsOK == \A w \in Writers : Committed(call[w])

\* The stream has brought every change behind the slot's start and up to wcur.
LiveOK ==
    /\ slotStart <= wcur /\ wcur <= Len(wal)
    /\ \A i \in (slotStart + 1)..wcur : \A k \in wal[i].keys : <<"wal", k, i>> \in Known
    /\ call["wal"].busy =>
         /\ conn = "up" /\ wcur < Len(wal)
         /\ \A k \in wal[wcur + 1].keys : <<"wal", k, wcur + 1>> \in ItemIds(call["wal"].items)

\* A position from which a live event that supersedes a row is newer than the slot.
LsnOK(l) == l > slotStart \/ (l = 0 /\ slotStart = 0)

StateOK ==
    /\ st.snap <= snapIDs
    /\ Steady =>
         /\ LsnOK(st.lsn) /\ (st.status = "none" => slotStart = 0)
         /\ \A k \in Keys : st.status = "completed" \/ k <= st.cursor => Snapshotted(k)

IndexOK ==
    idx.on => \A k \in idx.keys : \E e \in Entries : e.ev.key = k /\ e.ev.lsn > idx.lsn

\* The rows a Run carries are of its snapshot.
RunShape ==
    /\ ~At("idle") => run.snap = st.snap /\ run.snap > 0 /\ run.status = "running"
    /\ call["backfill"].busy => run.pc \in {"flushing", "controlling"}
    /\ \A x \in Elems(run.buf) : ReadEv(x) /\ x.id[3] = run.snap
    /\ \A r \in Elems(run.page) : Right(r.key, r.ver)

\* Every row up to the page's cursor is in the log or in the buffer, every old row
\* behind it is on the page, unless the page is full and ends before it.
BufOK ==
    /\ ~At("row") => run.buf # <<>>
    /\ run.buf # <<>> => run.last # 0 /\ run.bufLast <= run.last
    /\ \A k \in Keys : k <= PageCursor =>
          Snapshotted(k) \/ \E x \in Elems(run.buf) : x.key = k
PageOK ==
    /\ \A r \in Elems(run.page) : r.key > PageCursor
    /\ \A j, m \in DOMAIN run.page : j < m => run.page[j].key < run.page[m].key
    /\ \A k \in Keys : k > PageCursor /\ Old(k) =>
          \/ \E r \in Elems(run.page) : r.key = k
          \/ run.rows + Len(run.page) >= run.limit /\ \A r \in Elems(run.page) : k > r.key

RunOK ==
    /\ LsnOK(run.lsn) /\ run.cursor <= PageCursor
    /\ \A k \in Keys : k <= run.cursor => Snapshotted(k)
    /\ run.pc \in {"row", "flush", "flushing"} => BufOK /\ PageOK
    /\ run.pc \in {"lsn", "register", "scan", "query"} => run.buf = <<>> /\ run.last = 0
    /\ At("flushing") => \A x \in Elems(run.buf) : x.id \in ItemIds(call["backfill"].items)
    /\ run.pc \in {"control", "controlling"} => \A k \in Keys : Snapshotted(k)
RunInv == ~At("idle") /\ Steady => RunOK

SnapInv ==
    /\ Types /\ EventsOK /\ CallsOK /\ LiveOK /\ StateOK /\ IndexOK /\ RunShape /\ RunInv

-----------------------------------------------------------------------------
(* Sets of numbers: the least and the greatest element, the rows in key order. *)

LEMMA LeastElement ==
    ASSUME NEW T, T \subseteq Nat, T # {}
    PROVE  \E x \in T : \A y \in T : x <= y
<1> DEFINE R == {ss \in Nat \X Nat : ss[1] < ss[2]}
<1>1. IsWellFoundedOn(R, Nat)
  <2>1. OpToRel(<, Nat) = R
    BY DEF OpToRel
  <2> QED BY <2>1, NatLessThanWellFounded
<1>2. \A x, y \in Nat : ~(<<y, x>> \in R) => x <= y
  OBVIOUS
<1> HIDE DEF R
<1>3. PICK x \in T : \A y \in T : ~(<<y, x>> \in R)
  BY <1>1, WFMin, Zenon
<1> QED BY <1>2, <1>3

LEMMA GreatestElement ==
    ASSUME NEW n \in Nat, NEW T, T \subseteq 1..n, T # {}
    PROVE  \E x \in T : \A y \in T : y <= x
<1> DEFINE U == {m \in Nat : n - m \in T}
<1>1. U # {}
  <2>1. PICK x \in T : TRUE
    OBVIOUS
  <2>2. x \in 1..n /\ n - x \in Nat /\ n - (n - x) = x
    OBVIOUS
  <2> QED BY <2>1, <2>2
<1>2. U \subseteq Nat
  OBVIOUS
<1>3. PICK u \in U : \A y \in U : u <= y
  BY <1>1, <1>2, LeastElement
<1>4. \A y \in T : n - y \in U
  <2> SUFFICES ASSUME NEW y \in T PROVE n - y \in U
    OBVIOUS
  <2>1. y \in 1..n /\ n - y \in Nat /\ n - (n - y) = y
    OBVIOUS
  <2> QED BY <2>1
<1>5. \A y \in T : y <= n - u
  <2> SUFFICES ASSUME NEW y \in T PROVE y <= n - u
    OBVIOUS
  <2>1. u <= n - y /\ u \in Nat /\ y \in 1..n
    BY <1>3, <1>4
  <2> QED BY <2>1
<1> QED BY <1>3, <1>5

Ascending(s, S) == s \in [1..Cardinality(S) -> S] /\ \A i, j \in DOMAIN s : i < j => s[i] < s[j]

\* Every finite set of numbers can be listed in ascending order.
LEMMA AscendingExists ==
    ASSUME NEW S, S \subseteq Nat, IsFiniteSet(S)
    PROVE  \E s : Ascending(s, S)
<1> DEFINE Bad == {n \in Nat : \E T \in SUBSET Nat :
                      IsFiniteSet(T) /\ Cardinality(T) = n /\ \A s : ~Ascending(s, T)}
<1> SUFFICES ASSUME Bad # {} PROVE FALSE
  <2>1. Cardinality(S) \in Nat
    BY FS_CardinalityType
  <2> QED BY <2>1
<1>1. PICK n \in Bad : \A m \in Bad : n <= m
  <2>1. Bad \subseteq Nat
    OBVIOUS
  <2> HIDE DEF Bad
  <2> QED BY <2>1, LeastElement
<1>2. PICK T \in SUBSET Nat : IsFiniteSet(T) /\ Cardinality(T) = n /\ \A s : ~Ascending(s, T)
  BY <1>1
<1>3. n \in Nat
  OBVIOUS
<1>4. T # {}
  <2> SUFFICES ASSUME T = {} PROVE FALSE
    OBVIOUS
  <2>1. Cardinality(T) = 0
    BY FS_EmptySet
  <2>2. Ascending([i \in 1..0 |-> 0], T)
    BY <2>1 DEF Ascending
  <2> QED BY <1>2, <2>2
<1>5. PICK m \in T : \A y \in T : m <= y
  BY <1>4, LeastElement
<1> DEFINE R == T \ {m}
<1>6. IsFiniteSet(R) /\ Cardinality(R) = n - 1 /\ n - 1 \in Nat
  <2>1. IsFiniteSet(R) /\ Cardinality(R) = n - 1
    BY <1>2, <1>5, FS_RemoveElement
  <2> QED BY <2>1, FS_CardinalityType
<1>7. n - 1 \notin Bad
  BY <1>1, <1>3
<1>8. PICK s : Ascending(s, R)
  BY <1>6, <1>7
<1> DEFINE u == [i \in 1..n |-> IF i = 1 THEN m ELSE s[i - 1]]
<1>9. s \in [1..(n - 1) -> R] /\ \A i, j \in 1..(n - 1) : i < j => s[i] < s[j]
  BY <1>6, <1>8 DEF Ascending
<1>10. \A i \in 1..n : i = 1 \/ i - 1 \in 1..(n - 1)
  BY <1>3
<1>11. \A i \in 1..n : u[i] \in T /\ (i # 1 => u[i] = s[i - 1] /\ m < u[i])
  <2> SUFFICES ASSUME NEW i \in 1..n PROVE u[i] \in T /\ (i # 1 => u[i] = s[i - 1] /\ m < u[i])
    OBVIOUS
  <2>1. CASE i = 1
    BY <2>1
  <2>2. CASE i # 1
    <3>1. u[i] = s[i - 1] /\ s[i - 1] \in R
      BY <1>9, <1>10, <2>2
    <3>2. u[i] \in Nat /\ m \in Nat /\ m <= u[i] /\ m # u[i]
      BY <1>5, <3>1
    <3> QED BY <2>2, <3>1, <3>2
  <2> QED BY <2>1, <2>2
<1>12. u[1] = m \/ n = 0
  BY <1>3
<1>13. DOMAIN u = 1..n
  OBVIOUS
<1> HIDE DEF u, R
<1>14. \A i, j \in 1..n : i < j => u[i] < u[j]
  <2> SUFFICES ASSUME NEW i \in 1..n, NEW j \in 1..n, i < j PROVE u[i] < u[j]
    OBVIOUS
  <2>1. j # 1 /\ u[j] = s[j - 1] /\ m < u[j] /\ j - 1 \in 1..(n - 1)
    BY <1>3, <1>10, <1>11
  <2>2. CASE i = 1
    BY <1>3, <1>12, <2>1, <2>2
  <2>3. CASE i # 1
    <3>1. u[i] = s[i - 1] /\ i - 1 \in 1..(n - 1) /\ i - 1 < j - 1
      BY <1>3, <1>10, <1>11, <2>3
    <3> QED BY <1>9, <2>1, <3>1
  <2> QED BY <2>2, <2>3
<1>15. u \in [1..n -> T]
  BY <1>11, <1>13 DEF u
<1>16. Ascending(u, T)
  BY <1>2, <1>13, <1>14, <1>15 DEF Ascending
<1> QED BY <1>2, <1>16

\* The pages and the live batches list each of their rows once, in order.
LEMMA InKeyOrderOK ==
    ASSUME NEW S \in SUBSET Keys
    PROVE  /\ InKeyOrder(S) \in Seq(S) /\ Len(InKeyOrder(S)) \in Nat
           /\ Len(InKeyOrder(S)) = Cardinality(S)
           /\ DOMAIN InKeyOrder(S) = 1..Len(InKeyOrder(S))
           /\ \A i, j \in DOMAIN InKeyOrder(S) : i < j => InKeyOrder(S)[i] < InKeyOrder(S)[j]
           /\ \A k \in S : \E j \in DOMAIN InKeyOrder(S) : InKeyOrder(S)[j] = k
<1>1. S \subseteq Nat /\ IsFiniteSet(S)
  BY FS_Subset, BackfillAssumption
<1>2. PICK s : Ascending(s, S)
  BY <1>1, AscendingExists
<1> DEFINE n == Cardinality(S)
           t == InKeyOrder(S)
<1>3. n \in Nat
  BY <1>1, FS_CardinalityType
<1>4. Ascending(t, S)
  BY <1>2, Zenon DEF Ascending, InKeyOrder
<1> HIDE DEF t
<1>5. t \in [1..n -> S] /\ \A i, j \in 1..n : i < j => t[i] < t[j]
  BY <1>4 DEF Ascending
<1>6. \A i, j \in 1..n : i # j => t[i] # t[j]
  <2> SUFFICES ASSUME NEW i \in 1..n, NEW j \in 1..n, i # j PROVE t[i] # t[j]
    OBVIOUS
  <2>1. t[i] \in S /\ t[j] \in S
    BY <1>5
  <2>2. t[i] \in Nat /\ t[j] \in Nat
    BY <1>1, <2>1
  <2>3. i < j \/ j < i
    BY <1>3
  <2> QED BY <1>5, <2>2, <2>3
<1>7. t \in Surjection(1..n, S)
  <2>1. t \in Injection(1..n, S)
    BY <1>5, <1>6 DEF Injection, IsInjective
  <2>2. Cardinality(1..n) = n
    BY <1>3, FS_Interval
  <2> QED BY <1>1, <2>1, <2>2, FS_Injection
<1>8. \A k \in S : \E j \in 1..n : t[j] = k
  BY <1>7 DEF Surjection
<1>9. t \in Seq(S) /\ Len(t) = n /\ DOMAIN t = 1..n
  <2>1. t \in UNION {[1..m -> S] : m \in Nat}
    BY <1>3, <1>5
  <2>2. t \in Seq(S)
    BY <2>1, SeqDef
  <2> QED BY <1>3, <1>5, <2>2
<1> QED BY <1>3, <1>5, <1>8, <1>9 DEF t

-----------------------------------------------------------------------------
(* The versions of a row.                                                   *)

LEMMA Transactions ==
    ASSUME wal \in Seq(Txs)
    PROVE  /\ Len(wal) \in Nat /\ DOMAIN wal = 1..Len(wal)
           /\ \A i \in 1..Len(wal) : wal[i] \in Txs /\ wal[i].keys \in SUBSET Keys
BY BackfillAssumption

\* The version of a row is the last transaction that changed it, or 0.
LEMMA VersionOK ==
    ASSUME NEW k, NEW n \in Nat
    PROVE  /\ Version(k, n) \in 0..n
           /\ Version(k, n) # 0 => k \in wal[Version(k, n)].keys
           /\ \A i \in 1..n : k \in wal[i].keys => i <= Version(k, n)
<1> DEFINE W == {i \in 1..n : k \in wal[i].keys}
<1>1. CASE W = {}
  <2>1. Version(k, n) = 0
    BY <1>1 DEF Version
  <2> QED BY <1>1, <2>1
<1>2. CASE W # {}
  <2>1. PICK x \in W : \A y \in W : y <= x
    <3>1. W \subseteq 1..n
      OBVIOUS
    <3> HIDE DEF W
    <3> QED BY <1>2, <3>1, GreatestElement
  <2>2. Version(k, n) = CHOOSE i \in W : \A j \in W : j <= i
    BY <1>2 DEF Version
  <2>3. Version(k, n) \in W /\ \A j \in W : j <= Version(k, n)
    BY <2>1, <2>2
  <2> QED BY <2>3
<1> QED BY <1>1, <1>2

-----------------------------------------------------------------------------
(* The event log.                                                           *)

LEMMA EventsHavePartitions ==
    ASSUME NEW e \in Evt
    PROVE  PartOf(e) \in Partitions
<1>1. e.key \in DOMAIN PartitionOf
  BY BackfillAssumption DEF Evt
<1> QED BY <1>1 DEF PartOf, Partitions

LEMMA ItemFields == \A it \in Item : it.ev \in Evt /\ it.seq \in Nat
BY DEF Item

LEMMA CallFields ==
    ASSUME NEW c \in CallType
    PROVE  /\ c.busy \in BOOLEAN /\ c.items \in Seq(Item) /\ c.done \in Nat
           /\ c.written \in SUBSET Evt /\ Len(c.items) \in Nat /\ DOMAIN c.items = 1..Len(c.items)
           /\ \A j \in DOMAIN c.items : c.items[j] \in Item
<1>1. /\ c.busy \in BOOLEAN /\ c.items \in Seq(Item) /\ c.done \in Nat /\ c.written \in SUBSET Evt
  BY DEF CallType
<1> QED BY <1>1

LEMMA NoCallOK ==
    /\ NoCall \in CallType /\ ~NoCall.busy /\ NoCall.items = <<>> /\ NoCall.done = 0
    /\ NoCall.written = {}
BY DEF NoCall, CallType

LEMMA NothingCommitted ==
    ASSUME NEW c \in CallType, c.done = 0, c.written = {}
    PROVE  Committed(c)
<1>1. Len(c.items) \in Nat
  BY CallFields
<1> QED BY <1>1 DEF Committed

\* Phase 1 numbers the events and leaves them alone.
LEMMA NumberedOK ==
    ASSUME Types, NEW evs \in Seq(Evt)
    PROVE  /\ Numbered(evs) \in Seq(Item) /\ DOMAIN Numbered(evs) = DOMAIN evs
           /\ \A j \in DOMAIN evs : Numbered(evs)[j].ev = evs[j]
<1> DEFINE S(i) == {j \in 1..(i - 1) : PartOf(evs[j]) = PartOf(evs[i])}
           It(i) == [ev |-> evs[i], seq |-> nextSeq[PartOf(evs[i])] + Cardinality(S(i))]
<1>1. ASSUME NEW i \in 1..Len(evs)
      PROVE  It(i) \in Item /\ It(i).ev = evs[i]
  <2>1. evs[i] \in Evt /\ nextSeq[PartOf(evs[i])] \in Nat
    <3>1. evs[i] \in Evt
      OBVIOUS
    <3> QED BY <3>1, EventsHavePartitions DEF Types
  <2>2. Cardinality(S(i)) \in Nat
    <3>1. IsFiniteSet(1..(i - 1))
      BY FS_Interval
    <3>2. S(i) \subseteq 1..(i - 1)
      OBVIOUS
    <3> QED BY <3>1, <3>2, FS_Subset, FS_CardinalityType
  <2> HIDE DEF S
  <2> QED BY <2>1, <2>2 DEF Item
<1> HIDE DEF It
<1>2. Numbered(evs) = [i \in 1..Len(evs) |-> It(i)] /\ DOMAIN evs = 1..Len(evs) /\ Len(evs) \in Nat
  <2>1. DOMAIN evs = 1..Len(evs) /\ Len(evs) \in Nat
    OBVIOUS
  <2>2. Numbered(evs) = [i \in DOMAIN evs |-> It(i)]
    BY Zenon DEF Numbered, It
  <2> QED BY <2>1, <2>2
<1>3. Numbered(evs) \in [1..Len(evs) -> Item]
  BY <1>1, <1>2
<1>4. Numbered(evs) \in UNION {[1..n -> Item] : n \in Nat}
  BY <1>2, <1>3
<1>5. Numbered(evs) \in Seq(Item)
  BY <1>4, SeqDef
<1>6. \A i \in 1..Len(evs) : Numbered(evs)[i].ev = evs[i]
  BY <1>1, <1>2
<1>7. DOMAIN Numbered(evs) = 1..Len(evs)
  BY <1>3
<1> QED BY <1>2, <1>5, <1>6, <1>7

\* Prepare starts a call with the given events.
LEMMA PrepareOK ==
    ASSUME Types, NEW w \in Writers, NEW evs \in Seq(Evt), Prepare(w, evs)
    PROVE  /\ nextSeq' \in [Partitions -> Nat] /\ call' \in [Writers -> CallType] /\ log' = log
           /\ \A d \in Writers \ {w} : call'[d] = call[d]
           /\ DOMAIN call'[w].items = DOMAIN evs
           /\ \A j \in DOMAIN evs : call'[w].items[j].ev = evs[j]
           /\ ~call[w].busy /\ call'[w].busy /\ call'[w].done = 0 /\ call'[w].written = {}
<1> DEFINE its == Numbered(evs)
           N(p) == Cardinality({i \in DOMAIN evs : PartOf(evs[i]) = p})
           d == [NoCall EXCEPT !.busy = TRUE, !.items = its]
<1>1. its \in Seq(Item) /\ DOMAIN its = DOMAIN evs /\ \A j \in DOMAIN evs : its[j].ev = evs[j]
  BY NumberedOK
<1>2. \A p \in Partitions : N(p) \in Nat
  <2>1. IsFiniteSet(DOMAIN evs)
    <3>1. DOMAIN evs = 1..Len(evs) /\ Len(evs) \in Nat
      OBVIOUS
    <3> QED BY <3>1, FS_Interval
  <2>2. \A p \in Partitions : {i \in DOMAIN evs : PartOf(evs[i]) = p} \subseteq DOMAIN evs
    OBVIOUS
  <2> QED BY <2>1, <2>2, FS_Subset, FS_CardinalityType
<1>3. nextSeq' = [p \in Partitions |-> nextSeq[p] + N(p)] /\ log' = log /\ ~call[w].busy
  BY DEF Prepare
<1>4. call' = [call EXCEPT ![w] = d]
  BY DEF Prepare
<1> HIDE DEF N, its
<1>5. nextSeq' \in [Partitions -> Nat]
  BY <1>2, <1>3 DEF Types
<1>6. d \in CallType /\ d.items = its /\ d.done = 0 /\ d.busy /\ d.written = {}
  BY <1>1 DEF NoCall, CallType
<1> HIDE DEF d
<1>7. call' \in [Writers -> CallType] /\ call'[w] = d /\ \A e \in Writers \ {w} : call'[e] = call[e]
  BY <1>4, <1>6 DEF Types
<1> QED BY <1>1, <1>3, <1>5, <1>6, <1>7

LEMMA ReturnOK ==
    ASSUME Types, NEW w \in Writers, Return(w)
    PROVE  /\ call' \in [Writers -> CallType] /\ log' = log /\ nextSeq' = nextSeq
           /\ call'[w] = NoCall /\ \A d \in Writers \ {w} : call'[d] = call[d]
BY NoCallOK DEF Return, Types

LEMMA SubSeqOK ==
    ASSUME NEW s \in Seq(Item), NEW a \in Nat, NEW n \in Nat, a <= n, n <= Len(s)
    PROVE  \A t : t = SubSeq(s, a + 1, n) =>
               /\ t \in Seq(Item) /\ Len(t) = n - a /\ \A j \in 1..Len(t) : t[j] = s[a + j]
OBVIOUS

\* commitChunk takes the next items of the call.
LEMMA ChunkShape ==
    ASSUME Types, NEW w \in Writers, CommitChunk(w)
    PROVE  LET its == call[w].items
               D == call[w].done
               m == Len(Chunk(w))
           IN  /\ its \in Seq(Item) /\ D \in Nat /\ Chunk(w) \in Seq(Item) /\ m \in Nat
               /\ D + m <= Len(its) /\ \A j \in 1..m : Chunk(w)[j] = its[D + j]
<1> DEFINE a == call[w]
           its == a.items
           n == IF a.done + ChunkSize < Len(its) THEN a.done + ChunkSize ELSE Len(its)
           m == Len(Chunk(w))
<1>1. /\ a \in CallType /\ its \in Seq(Item) /\ a.done \in Nat /\ a.done < Len(its)
      /\ Len(its) \in Nat
  BY CallFields DEF Types, CommitChunk
<1>2. n \in Nat /\ a.done < n /\ n <= Len(its)
  BY <1>1, EventLogAssumption
<1>3. Chunk(w) = SubSeq(its, a.done + 1, n)
  BY DEF Chunk
<1> HIDE DEF a, n, its
<1>4. Chunk(w) \in Seq(Item) /\ m = n - a.done /\ \A j \in 1..m : Chunk(w)[j] = its[a.done + j]
  <2> DEFINE s == its
             b == a.done
  <2>1. s \in Seq(Item) /\ b \in Nat /\ n \in Nat /\ b <= n /\ n <= Len(s)
    BY <1>1, <1>2
  <2>2. Chunk(w) = SubSeq(s, b + 1, n)
    BY <1>3
  <2> HIDE DEF s, b
  <2> DEFINE u == Chunk(w)
  <2> HIDE DEF u
  <2>3. u = SubSeq(s, b + 1, n)
    BY <2>2 DEF u
  <2>4. u \in Seq(Item) /\ Len(u) = n - b /\ \A j \in 1..Len(u) : u[j] = s[b + j]
    BY <2>1, <2>3, SubSeqOK
  <2> QED BY <2>4 DEF s, b, u
<1> HIDE DEF m
<1>5. m \in Nat /\ a.done + m = n
  BY <1>1, <1>2, <1>4
<1> QED BY <1>1, <1>2, <1>4, <1>5 DEF a, m, its

\* commitChunk adds items of the call to the log and changes nothing else of it; of
\* several items of a chunk with one key the first is written, so afterwards the key
\* of every item of the chunk is in the log.
LEMMA EntriesGrow ==
    ASSUME Types, NEW w \in Writers, CommitChunk(w)
    PROVE  /\ log' \in [Partitions -> SUBSET Item] /\ Entries' = Entries \cup New(Chunk(w))
           /\ \A e \in New(Chunk(w)) : \E k \in DOMAIN call[w].items : e = call[w].items[k]
           /\ \A j \in 1..Len(Chunk(w)) : Chunk(w)[j].ev.id \in Known'
<1> DEFINE ch == Chunk(w)
           its == call[w].items
           D == call[w].done
           m == Len(ch)
<1>1. /\ its \in Seq(Item) /\ D \in Nat /\ ch \in Seq(Item) /\ m \in Nat
      /\ D + m <= Len(its) /\ (\A j \in 1..m : ch[j] = its[D + j])
  BY ChunkShape
<1>2. log' = [p \in Partitions |-> log[p] \cup {it \in New(ch) : PartOf(it.ev) = p}]
  BY DEF CommitChunk
<1>3. \A e \in New(ch) : \E j \in DOMAIN ch : e = ch[j]
  BY DEF New
<1> HIDE DEF ch, its, D
<1>4. DOMAIN ch = 1..m /\ DOMAIN its = 1..Len(its) /\ Len(its) \in Nat
  BY <1>1
<1> HIDE DEF m
<1>5. \A e \in New(ch) : e \in Item /\ \E k \in DOMAIN its : e = its[k]
  <2>1. \A j \in 1..m : D + j \in DOMAIN its /\ ch[j] \in Item
    BY <1>1, <1>4
  <2> QED BY <1>1, <1>3, <1>4, <2>1
<1>6. \A e \in New(ch) : PartOf(e.ev) \in Partitions
  BY <1>5, ItemFields, EventsHavePartitions
<1>7. Entries' = Entries \cup New(ch)
  <2>1. Entries' = UNION {log[p] \cup {it \in New(ch) : PartOf(it.ev) = p} : p \in Partitions}
    BY <1>2 DEF Entries
  <2> QED BY <1>6, <2>1 DEF Entries
<1>8. log' \in [Partitions -> SUBSET Item]
  <2>1. \A p \in Partitions : log[p] \cup {it \in New(ch) : PartOf(it.ev) = p} \in SUBSET Item
    BY <1>5 DEF Types
  <2> QED BY <1>2, <2>1
<1>9. ASSUME NEW j \in 1..m
      PROVE  ch[j].ev.id \in Known'
  <2> DEFINE T == {k \in 1..m : ch[k].ev.id = ch[j].ev.id}
  <2>1. T \subseteq Nat /\ j \in T
    BY <1>1
  <2>2. PICK l \in T : \A k \in T : l <= k
    BY <2>1, LeastElement
  <2>3. l \in 1..m /\ ch[l].ev.id = ch[j].ev.id
    OBVIOUS
  <2>4. \A k \in 1..(l - 1) : ch[k].ev.id # ch[l].ev.id
    <3>1. ASSUME NEW k \in 1..(l - 1), ch[k].ev.id = ch[l].ev.id PROVE FALSE
      <4>1. k \in T
        BY <1>1, <2>3, <3>1
      <4>2. l <= k
        BY <2>2, <4>1
      <4> QED BY <1>1, <2>3, <4>2
    <3> QED BY <3>1
  <2>5. CASE InLog(ch[l].ev.id)
    <3>1. \E e \in Entries : e.ev.id = ch[l].ev.id
      BY <2>5 DEF InLog, Entries
    <3> QED BY <1>7, <2>3, <3>1 DEF Known
  <2>6. CASE ~InLog(ch[l].ev.id)
    <3>1. ch[l] \in New(ch)
      BY <1>4, <2>3, <2>4, <2>6 DEF New
    <3> QED BY <1>7, <2>3, <3>1 DEF Known
  <2> QED BY <2>5, <2>6
<1> QED BY <1>5, <1>7, <1>8, <1>9 DEF ch, its, m

LEMMA CommitOK ==
    ASSUME Types, NEW w \in Writers, CommitChunk(w), Committed(call[w])
    PROVE  /\ call' \in [Writers -> CallType] /\ \A d \in Writers \ {w} : call'[d] = call[d]
           /\ call'[w].items = call[w].items /\ call'[w].busy = call[w].busy
           /\ Committed(call[w])'
<1> DEFINE c == call[w]
           ch == Chunk(w)
           n == c.done + Len(ch)
           W == c.written \cup {it.ev : it \in New(ch)}
           d == [c EXCEPT !.done = n, !.written = W]
<1>1. c \in CallType /\ c.items \in Seq(Item) /\ c.done \in Nat /\ Len(c.items) \in Nat
  BY CallFields DEF Types
<1>2. /\ Len(ch) \in Nat /\ n <= Len(c.items) /\ ch \in Seq(Item)
      /\ \A j \in 1..Len(ch) : ch[j] = c.items[c.done + j]
  BY ChunkShape
<1>3. n \in Nat /\ c.done <= n /\ n - c.done = Len(ch)
  BY <1>1, <1>2
<1>4. call' = [call EXCEPT ![w] = d]
  BY DEF CommitChunk
<1>5. /\ Entries' = Entries \cup New(ch)
      /\ \A e \in New(ch) : \E k \in DOMAIN c.items : e = c.items[k]
      /\ \A j \in 1..Len(ch) : ch[j].ev.id \in Known'
  BY EntriesGrow
<1>6. \A j \in DOMAIN c.items : c.items[j] \in Item
  BY <1>1, CallFields
<1> HIDE DEF c, ch
<1>7. W \in SUBSET Evt /\ W \subseteq Logged'
  <2>1. \A e \in New(ch) : e \in Item /\ e.ev \in Evt
    BY <1>5, <1>6, ItemFields
  <2>2. c.written \subseteq Logged /\ c.written \in SUBSET Evt
    BY <1>1, CallFields DEF Committed, c
  <2> QED BY <1>5, <2>1, <2>2 DEF Logged
<1> HIDE DEF W, n
<1>8. d \in CallType /\ d.items = c.items /\ d.done = n /\ d.busy = c.busy /\ d.written = W
  BY <1>1, <1>3, <1>7 DEF CallType
<1> HIDE DEF d
<1>9. ASSUME NEW j \in 1..n PROVE c.items[j].ev.id \in Known'
  <2>1. CASE j <= c.done
    <3>1. j \in 1..c.done
      BY <1>1, <1>3, <2>1
    <3>2. c.items[j].ev.id \in Known
      BY <3>1 DEF Committed, c
    <3> QED BY <1>5, <3>2 DEF Known
  <2>2. CASE j > c.done
    <3>1. j - c.done \in 1..Len(ch) /\ c.done + (j - c.done) = j
      BY <1>1, <1>3, <2>2
    <3> QED BY <1>2, <1>5, <3>1
  <2> QED BY <1>1, <1>3, <2>1, <2>2
<1>10. call' \in [Writers -> CallType] /\ call'[w] = d /\ \A e \in Writers \ {w} : call'[e] = call[e]
  BY <1>4, <1>8 DEF Types
<1>11. n <= Len(c.items)
  BY <1>2 DEF n
<1>12. Committed(call[w])'
  BY <1>7, <1>8, <1>9, <1>10, <1>11 DEF Committed
<1> QED BY <1>8, <1>10, <1>12 DEF c

-----------------------------------------------------------------------------
(* What a step may do to the database and to the log.                       *)

VersionFacts ==
    \A k : \A n \in Nat :
        /\ Version(k, n) \in 0..n
        /\ Version(k, n) # 0 => k \in wal[Version(k, n)].keys
        /\ \A i \in 1..n : k \in wal[i].keys => i <= Version(k, n)

LEMMA VersionsNow == VersionFacts
BY VersionOK DEF VersionFacts

LEMMA VersionsNext == VersionFacts'
BY VersionsNow, PTL

LEMMA VersionType ==
    ASSUME Types, NEW k
    PROVE  V(k) \in 0..Len(wal) /\ Len(wal) \in Nat
<1>1. Len(wal) \in Nat
  BY DEF Types
<1> QED BY <1>1, VersionOK DEF V

WalGrows == Len(wal) <= Len(wal') /\ \A i \in 1..Len(wal) : wal'[i] = wal[i]

\* Unless a slot is lost, no row becomes old, and none that is old changes.
Moves ==
    /\ \A k \in Keys : V(k)' <= slotStart' => V(k)' = V(k) /\ V(k) <= slotStart
    /\ \A k \in Keys : Old(k)' => Old(k)
    /\ Entries \subseteq Entries' /\ (Steady' => Steady) /\ slotStart' = slotStart

LEMMA DbSame ==
    ASSUME wal' = wal, slotStart' = slotStart
    PROVE  \A k : V(k)' = V(k) /\ Old(k)' = Old(k)
BY DEF V, Old, Version, Present

LEMMA StillMoves ==
    ASSUME wal' = wal, slotStart' = slotStart, Entries \subseteq Entries', Steady' => Steady
    PROVE  Moves /\ WalGrows
<1>1. \A k : V(k)' = V(k) /\ Old(k)' = Old(k)
  BY DbSame
<1>2. Len(wal) <= Len(wal')
  BY DEF Types
<1> QED BY <1>1, <1>2 DEF Moves, WalGrows

\* A transaction gives the rows it writes a new version, behind the slot's start.
LEMMA CommitMoves ==
    ASSUME Types, LiveOK, Commit
    PROVE  Moves /\ WalGrows /\ wal' \in Seq(Txs)
<1>1. PICK t \in Txs : wal' = Append(wal, t)
  BY DEF Commit
<1> DEFINE n == Len(wal)
<1>2. n \in Nat /\ slotStart \in Nat /\ slotStart <= n
  BY DEF Types, LiveOK
<1>3. /\ wal' \in Seq(Txs) /\ Len(wal') = n + 1 /\ \A i \in 1..n : wal'[i] = wal[i]
  BY <1>1 DEF Types
<1>4. slotStart' = slotStart /\ conn' = conn /\ log' = log
  BY DEF Commit, liveVars, logVars
<1>5. ASSUME NEW k \in Keys, V(k)' <= slotStart
      PROVE  V(k)' = V(k) /\ Old(k)' = Old(k)
  <2> DEFINE v == V(k)
             u == V(k)'
  <2>1. v \in 0..n /\ (v # 0 => k \in wal[v].keys) /\ \A i \in 1..n : k \in wal[i].keys => i <= v
    BY <1>2, VersionsNow DEF VersionFacts, V
  <2>2. /\ u \in 0..(n + 1) /\ (u # 0 => k \in wal'[u].keys)
        /\ \A i \in 1..(n + 1) : k \in wal'[i].keys => i <= u
    <3>1. n + 1 \in Nat
      BY <1>2
    <3> QED BY <1>3, <3>1, VersionsNext DEF VersionFacts, V
  <2>3. u <= slotStart
    BY <1>5
  <2> HIDE DEF n, v, u
  <2>4. u # 0 => u \in 1..n /\ u <= v
    BY <1>2, <1>3, <2>1, <2>2, <2>3
  <2>5. v # 0 => v \in 1..n /\ v \in 1..(n + 1) /\ v <= u
    BY <1>2, <1>3, <2>1, <2>2
  <2>6. u = v
    BY <1>2, <2>1, <2>2, <2>4, <2>5
  <2>7. V(k)' = V(k)
    BY <2>6 DEF u, v
  <2>8. V(k) # 0 => wal'[V(k)] = wal[V(k)]
    BY <1>3, <2>1, <2>5 DEF v
  <2>9. Old(k)' = Old(k)
    BY <1>4, <2>7, <2>8 DEF Old, Present, V
  <2> QED BY <2>7, <2>9
<1>6. \A k \in Keys : Old(k)' => V(k)' <= slotStart
  BY <1>4 DEF Old
<1>7. Entries' = Entries /\ (Steady' => Steady)
  BY <1>4 DEF Entries, Steady
<1>8. Moves
  BY <1>4, <1>5, <1>6, <1>7 DEF Moves
<1>9. WalGrows
  BY <1>2, <1>3 DEF WalGrows
<1> QED BY <1>3, <1>8, <1>9

LEMMA SnapStays ==
    ASSUME Moves, NEW k \in Keys
    PROVE  /\ (Snapshotted(k) => Snapshotted(k)') /\ (Old(k)' => Old(k))
           /\ \A v : Right(k, v) => Right(k, v)'
<1>1. /\ V(k)' <= slotStart' => V(k)' = V(k) /\ V(k) <= slotStart
      /\ Old(k)' => Old(k) /\ V(k)' <= slotStart'
      /\ Entries \subseteq Entries' /\ (Steady' => Steady)
  BY DEF Moves, Old
<1>2. Snapshotted(k) => Snapshotted(k)'
  BY <1>1 DEF Snapshotted
<1>3. \A v : Right(k, v) => Right(k, v)'
  BY <1>1 DEF Right
<1> QED BY <1>1, <1>2, <1>3

\* What keeps the events of a snapshot right: they are not of the snapshot that is
\* being taken, or nothing has moved.
SnapMoves ==
    /\ snapIDs' \in Nat /\ snapIDs <= snapIDs' /\ WalGrows
    /\ st'.snap > snapIDs \/ conn' = "reset" \/ (st'.snap = st.snap /\ Moves)

LEMMA EventStays ==
    ASSUME Types, SnapMoves, NEW x \in Evt, EventOK(x)
    PROVE  EventOK(x)'
<1>1. snapIDs \in Nat /\ snapIDs' \in Nat /\ snapIDs <= snapIDs' /\ Len(wal) \in Nat
  BY DEF SnapMoves, Types
<1>2. CASE ReadEv(x)
  <2>1. /\ x.key \in Keys /\ x.lsn = 0 /\ x.id[1] = "read" /\ x.id[2] = x.key
        /\ x.id[3] \in 1..snapIDs /\ (x.id[3] = st.snap => Right(x.key, x.ver))
    BY <1>2 DEF ReadEv
  <2>2. x.id[3] \in 1..snapIDs' /\ ~(x.id[3] > snapIDs)
    BY <1>1, <2>1
  <2>3. ASSUME x.id[3] = st'.snap PROVE Right(x.key, x.ver)'
    <3>1. CASE conn' = "reset"
      BY <3>1 DEF Right, Steady
    <3>2. CASE st'.snap = st.snap /\ Moves
      BY <2>1, <2>3, <3>2, SnapStays
    <3> QED BY <2>2, <2>3, <3>1, <3>2 DEF SnapMoves
  <2>4. ReadEv(x)'
    BY <2>1, <2>2, <2>3 DEF ReadEv
  <2> QED BY <2>4 DEF EventOK
<1>3. CASE LiveEv(x)
  <2>1. x.ver \in 1..Len(wal) /\ wal'[x.ver] = wal[x.ver] /\ Len(wal) <= Len(wal')
    BY <1>3 DEF LiveEv, SnapMoves, WalGrows
  <2>2. x.ver \in 1..Len(wal')
    <3>1. x.ver \in Nat /\ 1 <= x.ver /\ x.ver <= Len(wal)
      BY <1>1, <2>1
    <3>2. x.ver <= Len(wal')
      BY <1>1, <2>1, <3>1
    <3> QED BY <3>1, <3>2
  <2>3. LiveEv(x)'
    BY <1>3, <2>1, <2>2 DEF LiveEv, LSN
  <2> QED BY <2>3 DEF EventOK
<1>4. CASE ControlEv(x)
  BY <1>4 DEF EventOK, ControlEv
<1> QED BY <1>2, <1>3, <1>4 DEF EventOK

-----------------------------------------------------------------------------
(* The parts of the invariant that a step leaves alone.                     *)

LEMMA TwoWriters == "wal" \in Writers /\ "backfill" \in Writers
BY BackfillAssumption

LEMMA EventTypes ==
    ASSUME Types
    PROVE  Logged \subseteq Evt /\ Sent \subseteq Evt /\ \A e \in Entries : e \in Item
<1>1. \A e \in Entries : e \in Item
  BY DEF Types, Entries
<1>2. ASSUME NEW w \in Writers PROVE EvsOf(call[w].items) \subseteq Evt
  <2>1. call[w] \in CallType
    BY DEF Types
  <2> QED BY <2>1, CallFields, ItemFields DEF EvsOf
<1> QED BY <1>1, <1>2, ItemFields DEF Logged, Sent

\* Calls may go on or end; the events stay what they are.
LEMMA CallsStay ==
    ASSUME Types, EventsOK, CallsOK, SnapMoves, log' = log,
           \A w \in Writers : call'[w] = call[w] \/ call'[w] = NoCall
    PROVE  EventsOK' /\ CallsOK' /\ Entries' = Entries /\ Known' = Known
<1>1. Entries' = Entries /\ Known' = Known /\ Logged' = Logged
  BY DEF Entries, Known, Logged
<1>2. Sent' \subseteq Sent
  <2>1. EvsOf(NoCall.items) = {}
    BY NoCallOK DEF EvsOf
  <2> QED BY <2>1 DEF Sent
<1>3. EventsOK'
  <2>1. \A x \in Logged' \cup Sent' : x \in Evt /\ EventOK(x)
    BY <1>1, <1>2, EventTypes DEF EventsOK
  <2>2. \A x \in Logged' \cup Sent' : EventOK(x)'
    BY <2>1, EventStays
  <2> QED BY <2>2 DEF EventsOK
<1>4. ASSUME NEW w \in Writers PROVE Committed(call[w])'
  <2>1. CASE call'[w] = NoCall
    BY <2>1, NoCallOK DEF Committed
  <2>2. CASE call'[w] = call[w]
    BY <1>1, <2>2 DEF Committed, CallsOK
  <2> QED BY <2>1, <2>2
<1>5. CallsOK'
  BY <1>4 DEF CallsOK
<1> QED BY <1>1, <1>3, <1>5

LEMMA LiveStays ==
    ASSUME LiveOK, wal' = wal, slotStart' = slotStart, wcur' = wcur, Known \subseteq Known',
           call'["wal"].busy => /\ call["wal"].busy /\ conn' = conn
                                /\ call'["wal"].items = call["wal"].items
    PROVE  LiveOK'
<1>1. /\ slotStart' <= wcur' /\ wcur' <= Len(wal')
      /\ \A i \in (slotStart' + 1)..wcur' : \A k \in wal'[i].keys : <<"wal", k, i>> \in Known'
  BY DEF LiveOK
<1>2. ASSUME call'["wal"].busy
      PROVE  /\ conn' = "up" /\ wcur' < Len(wal')
             /\ \A k \in wal'[wcur' + 1].keys :
                   <<"wal", k, wcur' + 1>> \in ItemIds(call'["wal"].items)
  BY <1>2 DEF LiveOK
<1> QED BY <1>1, <1>2 DEF LiveOK

LEMMA StateStays ==
    ASSUME StateOK, Moves, st' = st, snapIDs' = snapIDs
    PROVE  StateOK'
<1>1. (Steady' => Steady) /\ slotStart' = slotStart
  BY DEF Moves
<1>2. \A k \in Keys : Snapshotted(k) => Snapshotted(k)'
  BY SnapStays
<1> QED BY <1>1, <1>2 DEF StateOK, LsnOK

LEMMA IndexStays ==
    ASSUME IndexOK, Entries \subseteq Entries', idx' = idx
    PROVE  IndexOK'
BY DEF IndexOK

LEMMA NoIndexOK == idx' = NoIndex => IndexOK'
BY DEF IndexOK, NoIndex

LEMMA RunFields ==
    ASSUME Types
    PROVE  /\ run.pc \in Pcs /\ run.cursor \in Nat /\ run.lsn \in Nat /\ run.snap \in Nat
           /\ run.buf \in Seq(Evt) /\ run.bufLast \in Nat /\ run.page \in Seq(Row)
           /\ run.limit \in Nat /\ run.rows \in Nat /\ run.last \in Nat /\ run.status \in {"none", "running"}
           /\ \A j \in DOMAIN run.buf : run.buf[j] \in Evt
           /\ \A j \in DOMAIN run.page : run.page[j].key \in Keys /\ run.page[j].ver \in Nat
<1>1. run \in RunType
  BY DEF Types
<1>2. /\ run.pc \in Pcs /\ run.cursor \in Nat /\ run.lsn \in Nat /\ run.snap \in Nat
      /\ run.buf \in Seq(Evt) /\ run.bufLast \in Nat /\ run.page \in Seq(Row)
      /\ run.limit \in Nat /\ run.rows \in Nat /\ run.last \in Nat /\ run.status \in {"none", "running"}
  BY <1>1 DEF RunType
<1>3. \A j \in DOMAIN run.buf : run.buf[j] \in Evt
  BY <1>2
<1>4. \A j \in DOMAIN run.page : run.page[j] \in Row
  BY <1>2
<1> QED BY <1>2, <1>3, <1>4 DEF Row

\* The events and rows a Run holds.
LEMMA HeldStay ==
    ASSUME Types, Moves, st'.snap = st.snap, snapIDs' = snapIDs
    PROVE  /\ \A x \in Evt : ReadEv(x) => ReadEv(x)'
           /\ \A k \in Keys : \A v : Right(k, v) => Right(k, v)'
<1>1. \A k \in Keys : \A v : Right(k, v) => Right(k, v)'
  BY SnapStays
<1> QED BY <1>1 DEF ReadEv

LEMMA RunStays ==
    ASSUME Types, RunShape, RunInv, Moves, run' = run, st' = st, snapIDs' = snapIDs,
           call'["backfill"].busy = call["backfill"].busy,
           call'["backfill"].items = call["backfill"].items
    PROVE  RunShape' /\ RunInv'
<1>1. RunShape'
  <2>1. \A x \in Elems(run.buf) : x \in Evt
    BY RunFields DEF Elems
  <2>2. \A r \in Elems(run.page) : r.key \in Keys
    BY RunFields DEF Elems
  <2>3. /\ \A x \in Elems(run.buf) : ReadEv(x) => ReadEv(x)'
        /\ \A r \in Elems(run.page) : Right(r.key, r.ver) => Right(r.key, r.ver)'
    BY <2>1, <2>2, HeldStay
  <2> QED BY <2>3 DEF RunShape, At, Elems
<1>2. \A k \in Keys : (Snapshotted(k) => Snapshotted(k)') /\ (Old(k)' => Old(k))
  BY SnapStays
<1>3. (Steady' => Steady) /\ slotStart' = slotStart
  BY DEF Moves
<1>4. PageCursor' = PageCursor /\ Elems(run.buf)' = Elems(run.buf) /\ Elems(run.page)' = Elems(run.page)
  BY DEF PageCursor, Elems
<1>5. BufOK => BufOK'
  BY <1>2, <1>4 DEF BufOK, At
<1>6. PageOK => PageOK'
  BY <1>2, <1>4 DEF PageOK
<1>7. RunOK => RunOK'
  BY <1>2, <1>3, <1>4, <1>5, <1>6 DEF RunOK, At, ItemIds, EvsOf, LsnOK
<1> QED BY <1>1, <1>3, <1>7 DEF RunInv, At

\* A Run that has ended, or was ended, holds nothing.
LEMMA NoRunOK ==
    /\ NoRun \in RunType /\ NoRun.pc = "idle" /\ NoRun.buf = <<>> /\ NoRun.page = <<>>
    /\ NoRun.status = "none" /\ NoRun.last = 0
<1>1. "idle" \in Pcs /\ <<>> \in Seq(Evt) /\ <<>> \in Seq(Row)
  BY DEF Pcs
<1>2. NoRun \in RunType
  BY <1>1 DEF NoRun, RunType
<1> QED BY <1>2 DEF NoRun

LEMMA RunEnded ==
    ASSUME run'.pc = "idle", run'.buf = <<>>, run'.page = <<>>, ~call'["backfill"].busy
    PROVE  RunShape' /\ RunInv'
BY DEF RunShape, RunInv, At, Elems

-----------------------------------------------------------------------------
(* The steps of the database, of the stream and of the process.             *)

LEMMA SnapStill ==
    ASSUME Types, wal' = wal, slotStart' = slotStart, Entries \subseteq Entries',
           Steady' => Steady, st'.snap = st.snap, snapIDs' = snapIDs
    PROVE  Moves /\ SnapMoves
<1>1. Moves /\ WalGrows
  BY StillMoves
<1>2. snapIDs \in Nat
  BY DEF Types
<1> QED BY <1>1, <1>2 DEF SnapMoves

LEMMA CommitInv ==
    ASSUME SnapInv, Commit
    PROVE  SnapInv'
<1>1. Types /\ EventsOK /\ CallsOK /\ LiveOK /\ StateOK /\ IndexOK /\ RunShape /\ RunInv
  BY DEF SnapInv
<1>2. Moves /\ WalGrows /\ wal' \in Seq(Txs)
  BY <1>1, CommitMoves
<1>3. /\ slotStart' = slotStart /\ wcur' = wcur /\ conn' = conn /\ st' = st /\ run' = run
      /\ idx' = idx /\ snapIDs' = snapIDs /\ log' = log /\ nextSeq' = nextSeq /\ call' = call
  BY DEF Commit, liveVars, runVars, logVars
<1>4. Types'
  BY <1>1, <1>2, <1>3 DEF Types
<1>5. SnapMoves
  BY <1>1, <1>2, <1>3 DEF SnapMoves, Types
<1>6. EventsOK' /\ CallsOK' /\ Entries' = Entries /\ Known' = Known
  BY <1>1, <1>3, <1>5, CallsStay
<1>7. LiveOK'
  <2>1. /\ Len(wal) \in Nat /\ Len(wal') \in Nat /\ wcur \in Nat /\ slotStart \in Nat
        /\ Len(wal) <= Len(wal') /\ \A i \in 1..Len(wal) : wal'[i] = wal[i]
    BY <1>1, <1>2 DEF Types, WalGrows
  <2>2. slotStart <= wcur /\ wcur <= Len(wal) /\ wcur <= Len(wal')
    BY <1>1, <2>1 DEF LiveOK
  <2>3. \A i \in (slotStart + 1)..wcur : i \in 1..Len(wal)
    BY <2>1, <2>2
  <2>4. wcur < Len(wal) => wcur + 1 \in 1..Len(wal) /\ wcur < Len(wal')
    BY <2>1, <2>2
  <2> QED BY <1>1, <1>3, <1>6, <2>1, <2>2, <2>3, <2>4 DEF LiveOK, ItemIds, EvsOf
<1>8. StateOK' /\ IndexOK'
  BY <1>1, <1>2, <1>3, <1>6, StateStays, IndexStays
<1>9. RunShape' /\ RunInv'
  BY <1>1, <1>2, <1>3, RunStays
<1> QED BY <1>4, <1>6, <1>7, <1>8, <1>9 DEF SnapInv

LEMMA ConnectInv ==
    ASSUME SnapInv, Connect
    PROVE  SnapInv'
<1>1. Types /\ EventsOK /\ CallsOK /\ LiveOK /\ StateOK /\ IndexOK /\ RunShape /\ RunInv
  BY DEF SnapInv
<1>2. /\ wal' = wal /\ slotStart' = slotStart /\ wcur' = wcur /\ conn = "down" /\ conn' = "up"
      /\ st' = st /\ run' = run
      /\ idx' = idx /\ snapIDs' = snapIDs /\ log' = log /\ nextSeq' = nextSeq /\ call' = call
  BY DEF Connect, dbVars, logVars
<1>3. Types'
  BY <1>1, <1>2 DEF Types
<1>4. Entries' = Entries /\ (Steady' => Steady)
  BY <1>2 DEF Entries, Steady
<1>5. Moves /\ SnapMoves
  BY <1>1, <1>2, <1>4, SnapStill
<1>6. EventsOK' /\ CallsOK' /\ Known' = Known
  BY <1>1, <1>2, <1>5, CallsStay
<1>7. LiveOK'
  BY <1>1, <1>2, <1>6 DEF LiveOK, ItemIds, EvsOf
<1>8. StateOK' /\ IndexOK'
  BY <1>1, <1>2, <1>4, <1>5, StateStays, IndexStays
<1>9. RunShape' /\ RunInv'
  BY <1>1, <1>2, <1>5, RunStays
<1> QED BY <1>3, <1>6, <1>7, <1>8, <1>9 DEF SnapInv

\* Until the state is reset, nothing is said about the rows.
LEMMA ConnectSlotLostInv ==
    ASSUME SnapInv, ConnectSlotLost
    PROVE  SnapInv'
<1>1. Types /\ EventsOK /\ CallsOK /\ LiveOK /\ StateOK /\ IndexOK /\ RunShape /\ RunInv
  BY DEF SnapInv
<1>2. /\ wal' = wal /\ slotStart' = Len(wal) /\ wcur' = Len(wal) /\ conn = "down" /\ conn' = "reset"
      /\ st' = st /\ run' = run
      /\ idx' = idx /\ snapIDs' = snapIDs /\ log' = log /\ nextSeq' = nextSeq /\ call' = call
  BY DEF ConnectSlotLost, runVars, logVars
<1>3. Types'
  BY <1>1, <1>2 DEF Types
<1>4. Entries' = Entries /\ ~Steady'
  BY <1>2 DEF Entries, Steady
<1>5. SnapMoves
  BY <1>1, <1>2 DEF SnapMoves, WalGrows, Types
<1>6. EventsOK' /\ CallsOK' /\ Known' = Known
  BY <1>1, <1>2, <1>5, CallsStay
<1>7. LiveOK'
  <2>1. Len(wal) \in Nat
    BY <1>1 DEF Types
  <2>2. ~call'["wal"].busy
    BY <1>1, <1>2 DEF LiveOK
  <2>3. (Len(wal) + 1)..Len(wal) = {}
    BY <2>1
  <2> QED BY <1>2, <2>1, <2>2, <2>3 DEF LiveOK
<1>8. StateOK'
  BY <1>1, <1>2, <1>4 DEF StateOK
<1>9. IndexOK'
  BY <1>1, <1>2, <1>4, IndexStays
<1>10. RunShape'
  <2>1. \A k, v : Right(k, v)'
    BY <1>4 DEF Right
  <2> QED BY <1>1, <1>2, <2>1 DEF RunShape, ReadEv, Elems, At
<1>11. RunInv'
  BY <1>4 DEF RunInv
<1> QED BY <1>3, <1>6, <1>7, <1>8, <1>9, <1>10, <1>11 DEF SnapInv

LEMMA ResetStateOK ==
    ASSUME Types
    PROVE  /\ ResetState \in StType /\ ResetState.status = "pending" /\ ResetState.cursor = 0
           /\ ResetState.lsn = slotStart + 1 /\ ResetState.snap = snapIDs + 1
<1>1. slotStart + 1 \in Nat /\ snapIDs + 1 \in Nat
  BY DEF Types
<1>2. FirstState \in StType /\ FirstState.status = "pending" /\ FirstState.cursor = 0
  BY DEF FirstState, StType
<1> DEFINE l == slotStart + 1
           n == snapIDs + 1
<1>3. ResetState = [FirstState EXCEPT !.lsn = l, !.snap = n]
  BY DEF ResetState, LSN
<1> HIDE DEF l, n
<1>4. LET e == [FirstState EXCEPT !.lsn = l, !.snap = n]
      IN  e \in StType /\ e.status = "pending" /\ e.cursor = 0 /\ e.lsn = l /\ e.snap = n
  BY <1>1, <1>2 DEF StType, l, n
<1> QED BY <1>3, <1>4 DEF l, n

\* The reset starts a snapshot with a new ID: none of its events is out yet.
LEMMA ResetForSlotLossInv ==
    ASSUME SnapInv, ResetForSlotLoss
    PROVE  SnapInv'
<1>1. Types /\ EventsOK /\ CallsOK /\ LiveOK /\ StateOK /\ IndexOK /\ RunShape /\ RunInv
  BY DEF SnapInv
<1>2. /\ wal' = wal /\ slotStart' = slotStart /\ wcur' = wcur /\ conn = "reset" /\ conn' = "up"
      /\ st' = ResetState /\ run' = NoRun /\ run.pc = "idle"
      /\ idx' = idx /\ snapIDs' = snapIDs + 1 /\ log' = log /\ nextSeq' = nextSeq /\ call' = call
  BY DEF ResetForSlotLoss, dbVars, logVars, At
<1>3. snapIDs \in Nat /\ slotStart \in Nat
  BY <1>1 DEF Types
<1>4. /\ st' \in StType /\ st'.status = "pending" /\ st'.cursor = 0 /\ st'.lsn = slotStart + 1
      /\ st'.snap = snapIDs + 1
  BY <1>1, <1>2, ResetStateOK
<1>5. Types'
  BY <1>1, <1>2, <1>3, <1>4, NoRunOK DEF Types
<1>6. SnapMoves
  <2>1. Len(wal) <= Len(wal')
    BY <1>1, <1>2 DEF Types
  <2> QED BY <1>2, <1>3, <1>4, <2>1 DEF SnapMoves, WalGrows
<1>7. EventsOK' /\ CallsOK' /\ Known' = Known /\ Entries' = Entries
  BY <1>1, <1>2, <1>6, CallsStay
<1>8. LiveOK'
  BY <1>1, <1>2, <1>7 DEF LiveOK
<1>9. StateOK'
  <2>1. LsnOK(st.lsn)'
    BY <1>2, <1>3, <1>4 DEF LsnOK
  <2>2. \A k \in Keys : ~(k <= 0)
    BY BackfillAssumption
  <2> QED BY <1>2, <1>3, <1>4, <2>1, <2>2 DEF StateOK
<1>10. IndexOK'
  BY <1>1, <1>2, <1>7, IndexStays
<1>11. ~call'["backfill"].busy
  BY <1>1, <1>2 DEF RunShape
<1>12. RunShape' /\ RunInv'
  BY <1>2, <1>11, NoRunOK, RunEnded
<1> QED BY <1>5, <1>7, <1>8, <1>9, <1>10, <1>12 DEF SnapInv

\* The live events of a transaction say what it wrote, one for every row.
LEMMA LiveEventsOK ==
    ASSUME Types, NEW i \in 1..Len(wal)
    PROVE  /\ LiveEvents(i) \in Seq(Evt) /\ \A x \in Elems(LiveEvents(i)) : LiveEv(x)
           /\ \A k \in wal[i].keys : \E x \in Elems(LiveEvents(i)) : x.id = <<"wal", k, i>>
<1> DEFINE K == wal[i].keys
           ks == InKeyOrder(K)
           E(j) == [id |-> <<"wal", ks[j], i>>, key |-> ks[j], ver |-> i, lsn |-> LSN(i)]
           n == Len(ks)
<1>1. K \in SUBSET Keys /\ i \in Nat /\ Len(wal) \in Nat
  BY Transactions DEF Types
<1>2. /\ ks \in Seq(K) /\ n \in Nat /\ DOMAIN ks = 1..n
      /\ \A k \in K : \E j \in DOMAIN ks : ks[j] = k
  <2> HIDE DEF K
  <2> QED BY <1>1, InKeyOrderOK
<1>3. LiveEvents(i) = [j \in DOMAIN ks |-> E(j)]
  BY Zenon DEF LiveEvents
<1>4. \A j \in 1..n : ks[j] \in K
  BY <1>2
<1> HIDE DEF K, ks, n
<1>5. ASSUME NEW j \in 1..n
      PROVE  E(j) \in Evt /\ LiveEv(E(j)) /\ E(j).id = <<"wal", ks[j], i>>
  <2>1. ks[j] \in Keys /\ ks[j] \in Nat /\ ks[j] \in wal[i].keys
    BY <1>1, <1>4, BackfillAssumption DEF K
  <2>2. LSN(i) \in Nat
    BY <1>1 DEF LSN
  <2>3. E(j) \in Evt
    BY <1>1, <2>1, <2>2 DEF Evt, Id
  <2>4. LiveEv(E(j))
    BY <2>1 DEF LiveEv
  <2> QED BY <2>3, <2>4
<1> HIDE DEF E
<1>6. LiveEvents(i) \in [1..n -> Evt] /\ \A j \in 1..n : LiveEvents(i)[j] = E(j)
  BY <1>2, <1>3, <1>5
<1> DEFINE L == LiveEvents(i)
<1>7. L \in Seq(Evt)
  <2>1. L \in UNION {[1..m -> Evt] : m \in Nat}
    BY <1>2, <1>6
  <2> QED BY <2>1, SeqDef
<1> HIDE DEF L
<1>8. DOMAIN L = 1..n /\ \A j \in 1..n : L[j] = E(j)
  BY <1>6 DEF L
<1>9. \A x \in Elems(L) : LiveEv(x)
  BY <1>5, <1>8 DEF Elems
<1>10. \A k \in K : \E x \in Elems(L) : x.id = <<"wal", k, i>>
  <2> SUFFICES ASSUME NEW k \in K PROVE \E x \in Elems(L) : x.id = <<"wal", k, i>>
    OBVIOUS
  <2>1. PICK j \in 1..n : ks[j] = k
    BY <1>2
  <2>2. L[j] \in Elems(L) /\ L[j].id = <<"wal", k, i>>
    BY <1>5, <1>8, <2>1 DEF Elems
  <2> QED BY <2>2
<1> QED BY <1>7, <1>9, <1>10 DEF L, K

\* A new call brings its events.
LEMMA PrepareEvents ==
    ASSUME Types, EventsOK, CallsOK, SnapMoves, NEW w \in Writers, NEW evs \in Seq(Evt),
           Prepare(w, evs), \A x \in Elems(evs) : EventOK(x)
    PROVE  /\ EventsOK' /\ CallsOK' /\ Entries' = Entries /\ Known' = Known
           /\ EvsOf(call'[w].items) = Elems(evs)
<1>1. /\ call' \in [Writers -> CallType] /\ log' = log
      /\ \A d \in Writers \ {w} : call'[d] = call[d]
      /\ DOMAIN call'[w].items = DOMAIN evs
      /\ \A j \in DOMAIN evs : call'[w].items[j].ev = evs[j]
      /\ call'[w].done = 0 /\ call'[w].written = {}
  BY PrepareOK
<1>2. Entries' = Entries /\ Known' = Known /\ Logged' = Logged
  BY <1>1 DEF Entries, Known, Logged
<1>3. EvsOf(call'[w].items) = Elems(evs) /\ Elems(evs) \subseteq Evt
  BY <1>1 DEF EvsOf, Elems
<1>4. Sent' \subseteq Sent \cup Elems(evs)
  <2>1. Sent' = UNION {EvsOf(call'[d].items) : d \in Writers}
    BY DEF Sent, EvsOf
  <2>2. \A d \in Writers : EvsOf(call'[d].items) \subseteq Sent \cup Elems(evs)
    BY <1>1, <1>3 DEF Sent
  <2> QED BY <2>1, <2>2
<1>5. EventsOK'
  <2>1. \A x \in Logged' \cup Sent' : x \in Evt /\ EventOK(x)
    BY <1>2, <1>3, <1>4, EventTypes DEF EventsOK
  <2>2. \A x \in Logged' \cup Sent' : EventOK(x)'
    BY <2>1, EventStays
  <2> QED BY <2>2 DEF EventsOK
<1>6. ASSUME NEW d \in Writers PROVE Committed(call[d])'
  <2>1. CASE d = w
    <3>1. Len(call'[w].items) \in Nat
      BY <1>1, CallFields
    <3> QED BY <1>1, <2>1, <3>1 DEF Committed
  <2>2. CASE d # w
    <3>1. call'[d] = call[d]
      BY <1>1, <2>2
    <3> QED BY <1>2, <3>1 DEF Committed, CallsOK
  <2> QED BY <2>1, <2>2
<1> QED BY <1>2, <1>3, <1>5, <1>6 DEF CallsOK

LEMMA LiveAppendInv ==
    ASSUME SnapInv, LiveAppend
    PROVE  SnapInv'
<1>1. Types /\ EventsOK /\ CallsOK /\ LiveOK /\ StateOK /\ IndexOK /\ RunShape /\ RunInv
  BY DEF SnapInv
<1> DEFINE evs == LiveEvents(wcur + 1)
<1>2. /\ wal' = wal /\ slotStart' = slotStart /\ wcur' = wcur /\ conn = "up" /\ conn' = conn
      /\ st' = st /\ run' = run /\ idx' = idx /\ snapIDs' = snapIDs /\ wcur < Len(wal)
      /\ Prepare("wal", evs)
  BY DEF LiveAppend, dbVars, liveVars, runVars
<1>3. wcur + 1 \in 1..Len(wal)
  BY <1>1, <1>2 DEF Types
<1>4. /\ evs \in Seq(Evt) /\ \A x \in Elems(evs) : LiveEv(x)
      /\ \A k \in wal[wcur + 1].keys : \E x \in Elems(evs) : x.id = <<"wal", k, wcur + 1>>
  BY <1>1, <1>3, LiveEventsOK
<1> HIDE DEF evs
<1>5. /\ nextSeq' \in [Partitions -> Nat] /\ call' \in [Writers -> CallType] /\ log' = log
      /\ call'["backfill"] = call["backfill"]
  BY <1>1, <1>2, <1>4, PrepareOK, TwoWriters
<1>6. Types'
  BY <1>1, <1>2, <1>5 DEF Types
<1>7. Moves /\ SnapMoves
  <2>1. Entries \subseteq Entries' /\ (Steady' => Steady)
    BY <1>2, <1>5 DEF Entries, Steady
  <2> QED BY <1>1, <1>2, <2>1, SnapStill
<1>8. /\ EventsOK' /\ CallsOK' /\ Entries' = Entries /\ Known' = Known
      /\ EvsOf(call'["wal"].items) = Elems(evs)
  BY <1>1, <1>2, <1>4, <1>7, PrepareEvents, TwoWriters DEF EventOK
<1>9. LiveOK'
  <2>1. \A k \in wal[wcur + 1].keys : <<"wal", k, wcur + 1>> \in ItemIds(call'["wal"].items)
    BY <1>4, <1>8 DEF ItemIds
  <2>2. ItemIds(call["wal"].items)' = ItemIds(call'["wal"].items)
    BY DEF ItemIds, EvsOf
  <2> QED BY <1>1, <1>2, <1>8, <2>1, <2>2 DEF LiveOK
<1>10. StateOK' /\ IndexOK'
  BY <1>1, <1>2, <1>7, <1>8, StateStays, IndexStays
<1>11. RunShape' /\ RunInv'
  BY <1>1, <1>2, <1>5, <1>7, RunStays
<1> QED BY <1>6, <1>8, <1>9, <1>10, <1>11 DEF SnapInv

\* What observers are told joins the keys of the index, if it is newer.
LEMMA ObservedOK ==
    ASSUME NEW ix \in IdxType, NEW evs \in SUBSET Evt
    PROVE  LET o == Observed(ix, evs)
           IN  /\ o \in IdxType /\ o.on = ix.on /\ o.lsn = ix.lsn
               /\ \A k \in o.keys : k \in ix.keys \/ \E x \in evs : x.key = k /\ x.lsn > ix.lsn
<1> DEFINE ks == ix.keys \cup {e.key : e \in {x \in evs : x.lsn > ix.lsn}}
<1>1. /\ ix.on \in BOOLEAN /\ ix.lsn \in Nat /\ ix.keys \in SUBSET (Keys \cup {0})
      /\ ix.over \in BOOLEAN
  BY DEF IdxType
<1>2. ks \in SUBSET (Keys \cup {0})
  BY <1>1 DEF Evt
<1>3. \A k \in ks : k \in ix.keys \/ \E x \in evs : x.key = k /\ x.lsn > ix.lsn
  OBVIOUS
<1>4. Observed(ix, evs) = ix \/ Observed(ix, evs) = [ix EXCEPT !.over = TRUE, !.keys = {}]
      \/ Observed(ix, evs) = [ix EXCEPT !.keys = ks]
  BY DEF Observed, Merge
<1> HIDE DEF ks
<1>5. LET o == [ix EXCEPT !.over = TRUE, !.keys = {}]
      IN  o \in IdxType /\ o.on = ix.on /\ o.lsn = ix.lsn /\ o.keys = {}
  BY DEF IdxType
<1>6. LET o == [ix EXCEPT !.keys = ks]
      IN  o \in IdxType /\ o.on = ix.on /\ o.lsn = ix.lsn /\ o.keys = ks
  BY <1>2 DEF IdxType
<1> QED BY <1>3, <1>4, <1>5, <1>6

LEMMA ObservedIndexOK ==
    ASSUME Types, IndexOK, NEW evs \in SUBSET Evt, evs \subseteq Logged
    PROVE  LET o == Observed(idx, evs)
           IN  o.on => \A k \in o.keys : \E e \in Entries : e.ev.key = k /\ e.ev.lsn > o.lsn
<1> DEFINE o == Observed(idx, evs)
<1>1. /\ o.on = idx.on /\ o.lsn = idx.lsn
      /\ \A k \in o.keys : k \in idx.keys \/ \E x \in evs : x.key = k /\ x.lsn > idx.lsn
  BY ObservedOK DEF Types
<1> HIDE DEF o
<1>2. o.on => \A k \in o.keys : \E e \in Entries : e.ev.key = k /\ e.ev.lsn > o.lsn
  BY <1>1 DEF IndexOK, Logged
<1> QED BY <1>2 DEF o

\* All items of a call that returns are in the log.
LEMMA ReturnedInLog ==
    ASSUME Types, CallsOK, NEW w \in Writers, AppendReturns(w)
    PROVE  ItemIds(call[w].items) \subseteq Known /\ call[w].written \subseteq Logged
           /\ call[w].written \in SUBSET Evt /\ Return(w) /\ call[w].busy
<1>1. /\ call[w].done = Len(call[w].items) /\ Committed(call[w]) /\ Return(w) /\ call[w].busy
  BY DEF AppendReturns, CallsOK
<1>2. DOMAIN call[w].items = 1..Len(call[w].items) /\ call[w].written \in SUBSET Evt
  <2>1. call[w] \in CallType
    BY DEF Types
  <2> QED BY <2>1, CallFields
<1> QED BY <1>1, <1>2 DEF Committed, ItemIds, EvsOf

LEMMA LiveReturnsInv ==
    ASSUME SnapInv, LiveReturns
    PROVE  SnapInv'
<1>1. Types /\ EventsOK /\ CallsOK /\ LiveOK /\ StateOK /\ IndexOK /\ RunShape /\ RunInv
  BY DEF SnapInv
<1>2. /\ wal' = wal /\ slotStart' = slotStart /\ wcur' = wcur + 1 /\ conn' = conn
      /\ st' = st /\ run' = run /\ snapIDs' = snapIDs
      /\ idx' = Observed(idx, call["wal"].written) /\ AppendReturns("wal")
  BY DEF LiveReturns, dbVars
<1>3. /\ ItemIds(call["wal"].items) \subseteq Known /\ call["wal"].written \subseteq Logged
      /\ call["wal"].written \in SUBSET Evt /\ Return("wal") /\ call["wal"].busy
  BY <1>1, <1>2, ReturnedInLog, TwoWriters
<1>4. /\ call' \in [Writers -> CallType] /\ log' = log /\ nextSeq' = nextSeq
      /\ call'["wal"] = NoCall /\ \A d \in Writers \ {"wal"} : call'[d] = call[d]
      /\ call'["backfill"] = call["backfill"]
  BY <1>1, <1>3, ReturnOK, TwoWriters
<1>5. idx' \in IdxType
  BY <1>1, <1>2, <1>3, ObservedOK DEF Types
<1>6. Types'
  BY <1>1, <1>2, <1>4, <1>5 DEF Types
<1>7. Moves /\ SnapMoves
  <2>1. Entries \subseteq Entries' /\ (Steady' => Steady)
    BY <1>2, <1>4 DEF Entries, Steady
  <2> QED BY <1>1, <1>2, <2>1, SnapStill
<1>8. EventsOK' /\ CallsOK' /\ Entries' = Entries /\ Known' = Known
  BY <1>1, <1>4, <1>7, CallsStay
<1>9. LiveOK'
  <2>1. /\ conn = "up" /\ wcur < Len(wal) /\ wcur \in Nat /\ slotStart \in Nat /\ Len(wal) \in Nat
        /\ slotStart <= wcur
        /\ \A k \in wal[wcur + 1].keys : <<"wal", k, wcur + 1>> \in Known
    BY <1>1, <1>3 DEF LiveOK, Types
  <2>2. \A i \in (slotStart + 1)..(wcur + 1) : i \in (slotStart + 1)..wcur \/ i = wcur + 1
    BY <2>1
  <2>3. \A i \in (slotStart + 1)..(wcur + 1) : \A k \in wal[i].keys : <<"wal", k, i>> \in Known
    BY <1>1, <2>1, <2>2 DEF LiveOK
  <2>4. slotStart <= wcur + 1 /\ wcur + 1 <= Len(wal) /\ ~call'["wal"].busy
    BY <1>4, <2>1, NoCallOK
  <2> QED BY <1>2, <1>8, <2>3, <2>4 DEF LiveOK
<1>10. IndexOK'
  BY <1>1, <1>2, <1>3, <1>8, ObservedIndexOK DEF IndexOK
<1>11. StateOK'
  BY <1>1, <1>2, <1>7, StateStays
<1>12. RunShape' /\ RunInv'
  BY <1>1, <1>2, <1>4, <1>7, RunStays
<1> QED BY <1>6, <1>8, <1>9, <1>10, <1>11, <1>12 DEF SnapInv

LEMMA ResumedOK ==
    ASSUME Types, LiveOK, wal' = wal, slotStart' = slotStart, wcur' \in Resumed,
           Known' = Known, ~call'["wal"].busy
    PROVE  LiveOK' /\ wcur' \in Nat
<1>1. slotStart \in Nat /\ wcur \in Nat /\ Len(wal) \in Nat /\ slotStart <= wcur /\ wcur <= Len(wal)
  BY DEF Types, LiveOK
<1>2. wcur' \in Nat /\ slotStart <= wcur' /\ wcur' <= wcur
  BY <1>1 DEF Resumed
<1>3. \A i \in (slotStart + 1)..wcur' : i \in (slotStart + 1)..wcur
  BY <1>1, <1>2
<1>4. wcur' <= Len(wal)
  BY <1>1, <1>2
<1> QED BY <1>2, <1>3, <1>4 DEF LiveOK

LEMMA DisconnectInv ==
    ASSUME SnapInv, Disconnect
    PROVE  SnapInv'
<1>1. Types /\ EventsOK /\ CallsOK /\ LiveOK /\ StateOK /\ IndexOK /\ RunShape /\ RunInv
  BY DEF SnapInv
<1>2. /\ wal' = wal /\ slotStart' = slotStart /\ wcur' \in Resumed /\ conn = "up" /\ conn' = "down"
      /\ st' = st /\ run' = run /\ snapIDs' = snapIDs /\ idx' = idx
      /\ (~call["wal"].busy /\ UNCHANGED logVars) \/ Return("wal")
  BY DEF Disconnect, dbVars, runVars, AppendFails
<1>3. /\ call' \in [Writers -> CallType] /\ log' = log /\ nextSeq' = nextSeq
      /\ ~call'["wal"].busy /\ (\A d \in Writers : call'[d] = call[d] \/ call'[d] = NoCall)
      /\ call'["backfill"] = call["backfill"]
  <2>1. CASE ~call["wal"].busy /\ UNCHANGED logVars
    BY <1>1, <2>1 DEF logVars, Types
  <2>2. CASE Return("wal")
    <3>1. /\ call' \in [Writers -> CallType] /\ log' = log /\ nextSeq' = nextSeq
          /\ call'["wal"] = NoCall /\ \A d \in Writers \ {"wal"} : call'[d] = call[d]
      BY <1>1, <2>2, ReturnOK, TwoWriters
    <3> QED BY <3>1, NoCallOK, TwoWriters
  <2> QED BY <1>2, <2>1, <2>2
<1>4. Moves /\ SnapMoves
  <2>1. Entries \subseteq Entries' /\ (Steady' => Steady)
    BY <1>2, <1>3 DEF Entries, Steady
  <2> QED BY <1>1, <1>2, <2>1, SnapStill
<1>5. EventsOK' /\ CallsOK' /\ Entries' = Entries /\ Known' = Known
  BY <1>1, <1>3, <1>4, CallsStay
<1>6. LiveOK' /\ wcur' \in Nat
  BY <1>1, <1>2, <1>3, <1>5, ResumedOK
<1>7. Types'
  BY <1>1, <1>2, <1>3, <1>6 DEF Types
<1>8. StateOK' /\ IndexOK'
  BY <1>1, <1>2, <1>4, <1>5, StateStays, IndexStays
<1>9. RunShape' /\ RunInv'
  BY <1>1, <1>2, <1>3, <1>4, RunStays
<1> QED BY <1>5, <1>6, <1>7, <1>8, <1>9 DEF SnapInv

LEMMA NoIndexType == NoIndex \in IdxType
BY DEF NoIndex, IdxType

LEMMA CrashInv ==
    ASSUME SnapInv, Crash
    PROVE  SnapInv'
<1>1. Types /\ EventsOK /\ CallsOK /\ LiveOK /\ StateOK /\ IndexOK /\ RunShape /\ RunInv
  BY DEF SnapInv
<1>2. /\ wal' = wal /\ slotStart' = slotStart /\ wcur' \in Resumed /\ conn # "reset" /\ conn' = "down"
      /\ st' = st /\ run' = NoRun /\ snapIDs' = snapIDs /\ idx' = NoIndex /\ Reopen
  BY DEF Crash, dbVars
<1>3. /\ call' \in [Writers -> CallType] /\ log' = log /\ nextSeq' = nextSeq
      /\ \A d \in Writers : call'[d] = NoCall
  BY <1>2, NoCallOK DEF Reopen
<1>4. ~call'["wal"].busy /\ ~call'["backfill"].busy
  BY <1>3, NoCallOK, TwoWriters
<1>5. Moves /\ SnapMoves
  <2>1. Entries \subseteq Entries' /\ (Steady' => Steady)
    BY <1>2, <1>3 DEF Entries, Steady
  <2> QED BY <1>1, <1>2, <2>1, SnapStill
<1>6. EventsOK' /\ CallsOK' /\ Entries' = Entries /\ Known' = Known
  BY <1>1, <1>3, <1>5, CallsStay
<1>7. LiveOK' /\ wcur' \in Nat
  BY <1>1, <1>2, <1>4, <1>6, ResumedOK
<1>8. Types'
  BY <1>1, <1>2, <1>3, <1>7, NoRunOK, NoIndexType DEF Types
<1>9. StateOK' /\ IndexOK'
  BY <1>1, <1>2, <1>5, StateStays, NoIndexOK
<1>10. RunShape' /\ RunInv'
  BY <1>2, <1>4, NoRunOK, RunEnded
<1> QED BY <1>6, <1>7, <1>8, <1>9, <1>10 DEF SnapInv

LEMMA RunFailsInv ==
    ASSUME SnapInv, RunFails
    PROVE  SnapInv'
<1>1. Types /\ EventsOK /\ CallsOK /\ LiveOK /\ StateOK /\ IndexOK /\ RunShape /\ RunInv
  BY DEF SnapInv
<1>2. /\ wal' = wal /\ slotStart' = slotStart /\ wcur' = wcur /\ conn' = conn
      /\ st' = st /\ run' = [NoRun EXCEPT !.err = TRUE] /\ snapIDs' = snapIDs /\ idx' = NoIndex
      /\ (~call["backfill"].busy /\ UNCHANGED logVars) \/ Return("backfill")
  BY DEF RunFails, dbVars, liveVars, AppendFails
<1>3. /\ call' \in [Writers -> CallType] /\ log' = log /\ nextSeq' = nextSeq
      /\ ~call'["backfill"].busy /\ (\A d \in Writers : call'[d] = call[d] \/ call'[d] = NoCall)
      /\ call'["wal"] = call["wal"]
  <2>1. CASE ~call["backfill"].busy /\ UNCHANGED logVars
    BY <1>1, <2>1 DEF logVars, Types
  <2>2. CASE Return("backfill")
    <3>1. /\ call' \in [Writers -> CallType] /\ log' = log /\ nextSeq' = nextSeq
          /\ call'["backfill"] = NoCall /\ \A d \in Writers \ {"backfill"} : call'[d] = call[d]
      BY <1>1, <2>2, ReturnOK, TwoWriters
    <3> QED BY <3>1, NoCallOK, TwoWriters
  <2> QED BY <1>2, <2>1, <2>2
<1>4. Moves /\ SnapMoves
  <2>1. Entries \subseteq Entries' /\ (Steady' => Steady)
    BY <1>2, <1>3 DEF Entries, Steady
  <2> QED BY <1>1, <1>2, <2>1, SnapStill
<1>5. EventsOK' /\ CallsOK' /\ Entries' = Entries /\ Known' = Known
  BY <1>1, <1>3, <1>4, CallsStay
<1>6. LiveOK'
  BY <1>1, <1>2, <1>3, <1>5, LiveStays
<1>7. /\ run'.pc = "idle" /\ run'.buf = <<>> /\ run'.page = <<>> /\ run' \in RunType
  <2>1. LET r == [NoRun EXCEPT !.err = TRUE]
        IN  /\ r.pc = NoRun.pc /\ r.buf = NoRun.buf /\ r.page = NoRun.page /\ r \in RunType
    BY NoRunOK DEF RunType
  <2> QED BY <1>2, <2>1, NoRunOK
<1>8. Types'
  BY <1>1, <1>2, <1>3, <1>7, NoIndexType DEF Types
<1>9. StateOK' /\ IndexOK'
  BY <1>1, <1>2, <1>4, StateStays, NoIndexOK
<1>10. RunShape' /\ RunInv'
  BY <1>3, <1>7, RunEnded
<1> QED BY <1>5, <1>6, <1>8, <1>9, <1>10 DEF SnapInv

LEMMA CommitChunksInv ==
    ASSUME SnapInv, CommitChunks
    PROVE  SnapInv'
<1>1. Types /\ EventsOK /\ CallsOK /\ LiveOK /\ StateOK /\ IndexOK /\ RunShape /\ RunInv
  BY DEF SnapInv
<1>2. /\ wal' = wal /\ slotStart' = slotStart /\ wcur' = wcur /\ conn' = conn
      /\ st' = st /\ run' = run /\ snapIDs' = snapIDs /\ idx' = idx
  BY DEF CommitChunks, dbVars, liveVars, runVars
<1>3. PICK w \in Writers : CommitChunk(w)
  BY DEF CommitChunks
<1>4. /\ log' \in [Partitions -> SUBSET Item] /\ Entries' = Entries \cup New(Chunk(w))
      /\ \A e \in New(Chunk(w)) : \E k \in DOMAIN call[w].items : e = call[w].items[k]
  BY <1>1, <1>3, EntriesGrow
<1>5. /\ call' \in [Writers -> CallType] /\ (\A d \in Writers \ {w} : call'[d] = call[d])
      /\ call'[w].items = call[w].items /\ call'[w].busy = call[w].busy
      /\ Committed(call[w])' /\ nextSeq' = nextSeq
  BY <1>1, <1>3, CommitOK DEF CallsOK, CommitChunk
<1>6. \A d \in Writers : call'[d].items = call[d].items /\ call'[d].busy = call[d].busy
  BY <1>5
<1>7. Entries \subseteq Entries' /\ Known \subseteq Known' /\ Logged \subseteq Logged'
  BY <1>4 DEF Known, Logged
<1>8. Types'
  BY <1>1, <1>2, <1>4, <1>5 DEF Types
<1>9. Moves /\ SnapMoves
  <2>1. Steady' => Steady
    BY <1>2 DEF Steady
  <2> QED BY <1>1, <1>2, <1>7, <2>1, SnapStill
<1>10. EventsOK'
  <2>1. Sent' = Sent
    BY <1>6 DEF Sent, EvsOf
  <2>2. Logged' \subseteq Logged \cup Sent
    <3>1. \A e \in New(Chunk(w)) : e.ev \in Sent
      BY <1>4 DEF Sent, EvsOf
    <3> QED BY <1>4, <3>1 DEF Logged
  <2>3. \A x \in Logged' \cup Sent' : x \in Evt /\ EventOK(x)
    BY <1>1, <2>1, <2>2, EventTypes DEF EventsOK
  <2>4. \A x \in Logged' \cup Sent' : EventOK(x)'
    BY <1>1, <1>9, <2>3, EventStays
  <2> QED BY <2>4 DEF EventsOK
<1>11. CallsOK'
  <2>1. ASSUME NEW d \in Writers, d # w PROVE Committed(call[d])'
    <3>1. call'[d] = call[d] /\ Committed(call[d])
      BY <1>1, <1>5, <2>1 DEF CallsOK
    <3> QED BY <1>7, <3>1 DEF Committed
  <2> QED BY <1>5, <2>1 DEF CallsOK
<1>12. LiveOK'
  BY <1>1, <1>2, <1>6, <1>7, LiveStays, TwoWriters
<1>13. StateOK' /\ IndexOK'
  BY <1>1, <1>2, <1>7, <1>9, StateStays, IndexStays
<1>14. RunShape' /\ RunInv'
  BY <1>1, <1>2, <1>6, <1>9, RunStays, TwoWriters
<1> QED BY <1>8, <1>10, <1>11, <1>12, <1>13, <1>14 DEF SnapInv

-----------------------------------------------------------------------------
(* The steps of a Run.                                                      *)

\* A Run leaves the database and the stream where they are.
LEMMA RunAlone ==
    ASSUME SnapInv, UNCHANGED dbVars, wcur' = wcur, conn' = conn, log' = log,
           call'["wal"] = call["wal"], st'.snap = st.snap, snapIDs' = snapIDs
    PROVE  /\ Moves /\ SnapMoves /\ LiveOK' /\ Entries' = Entries /\ Steady' = Steady
           /\ \A k : Old(k)' = Old(k) /\ Snapshotted(k)' = Snapshotted(k)
           /\ \A k, v : Right(k, v)' = Right(k, v)
           /\ \A x : ReadEv(x)' = ReadEv(x)
<1>1. Types /\ LiveOK
  BY DEF SnapInv
<1>2. wal' = wal /\ slotStart' = slotStart /\ wcur' = wcur /\ conn' = conn
  BY DEF dbVars
<1>3. Entries' = Entries /\ Known' = Known /\ Steady' = Steady
  BY <1>2 DEF Entries, Known, Steady
<1>4. Moves /\ SnapMoves
  BY <1>1, <1>2, <1>3, SnapStill
<1>5. LiveOK'
  BY <1>1, <1>2, <1>3, LiveStays
<1>6. \A k : V(k)' = V(k) /\ Old(k)' = Old(k)
  BY <1>2, DbSame
<1>7. \A k : Snapshotted(k)' = Snapshotted(k)
  BY <1>3, <1>6 DEF Snapshotted
<1>8. \A k, v : Right(k, v)' = Right(k, v)
  BY <1>2, <1>3, <1>6 DEF Right
<1>9. \A x : ReadEv(x)' = ReadEv(x)
  BY <1>8 DEF ReadEv
<1> QED BY <1>3, <1>4, <1>5, <1>6, <1>7, <1>8, <1>9

LEMMA RunOnly ==
    ASSUME SnapInv, UNCHANGED dbVars, wcur' = wcur, conn' = conn, UNCHANGED logVars,
           st'.snap = st.snap, snapIDs' = snapIDs
    PROVE  /\ Moves /\ LiveOK' /\ EventsOK' /\ CallsOK' /\ Entries' = Entries /\ Steady' = Steady
           /\ \A k : Old(k)' = Old(k) /\ Snapshotted(k)' = Snapshotted(k)
           /\ \A k, v : Right(k, v)' = Right(k, v)
           /\ \A x : ReadEv(x)' = ReadEv(x)
           /\ (st' \in StType /\ run' \in RunType /\ idx' \in IdxType => Types')
           /\ (st' = st => StateOK') /\ (idx' = idx => IndexOK')
<1>1. Types /\ EventsOK /\ CallsOK /\ StateOK /\ IndexOK
  BY DEF SnapInv
<1>2. log' = log /\ nextSeq' = nextSeq /\ call' = call
  BY DEF logVars
<1>3. /\ Moves /\ SnapMoves /\ LiveOK' /\ Entries' = Entries /\ Steady' = Steady
      /\ (\A k : Old(k)' = Old(k) /\ Snapshotted(k)' = Snapshotted(k))
      /\ (\A k, v : Right(k, v)' = Right(k, v)) /\ (\A x : ReadEv(x)' = ReadEv(x))
  BY <1>2, RunAlone
<1>4. EventsOK' /\ CallsOK'
  BY <1>1, <1>2, <1>3, CallsStay
<1>5. st' \in StType /\ run' \in RunType /\ idx' \in IdxType => Types'
  BY <1>1, <1>2 DEF Types, dbVars
<1>6. (st' = st => StateOK') /\ (idx' = idx => IndexOK')
  BY <1>1, <1>3, StateStays, IndexStays
<1> QED BY <1>3, <1>4, <1>5, <1>6

\* Another record of a Run that differs in its position only.
SameRows(e, r) ==
    /\ e.cursor = r.cursor /\ e.snap = r.snap /\ e.status = r.status
    /\ e.buf = r.buf /\ e.page = r.page /\ e.last = r.last
    /\ e.limit = r.limit /\ e.rows = r.rows /\ e.bufLast = r.bufLast

Early == {"lsn", "register", "scan", "query"}

\* Before the page is read, a Run has nothing but its position.
LEMMA EarlyOK ==
    ASSUME SnapInv, Moves, run.pc \in Early, run'.pc \in Early,
           SameRows(run', run), st'.snap = st.snap, snapIDs' = snapIDs, call' = call,
           Steady => LsnOK(run'.lsn)
    PROVE  RunShape' /\ RunInv'
<1>1. Types /\ RunShape /\ RunInv
  BY DEF SnapInv
<1>2. run.pc # "idle" /\ run'.pc # "idle"
  BY DEF Early
<1>3. /\ run'.cursor = run.cursor /\ run'.snap = run.snap /\ run'.status = run.status
      /\ run'.buf = run.buf /\ run'.page = run.page /\ run'.last = run.last
  BY DEF SameRows
<1>4. ~call["backfill"].busy
  BY <1>1 DEF RunShape, Early
<1>5. RunShape'
  <2>1. \A x \in Elems(run.buf) : x \in Evt
    BY <1>1, RunFields DEF Elems
  <2>2. \A r \in Elems(run.page) : r.key \in Keys
    BY <1>1, RunFields DEF Elems
  <2>3. /\ \A x \in Elems(run.buf) : ReadEv(x) => ReadEv(x)'
        /\ \A r \in Elems(run.page) : Right(r.key, r.ver) => Right(r.key, r.ver)'
    BY <1>1, <2>1, <2>2, HeldStay
  <2> QED BY <1>1, <1>2, <1>3, <1>4, <2>3 DEF RunShape, At, Elems
<1>6. ASSUME Steady' PROVE RunOK'
  <2>1. Steady /\ slotStart' = slotStart
    BY <1>6 DEF Moves
  <2>2. RunOK
    BY <1>1, <1>2, <2>1 DEF RunInv, At
  <2>3. \A k \in Keys : Snapshotted(k) => Snapshotted(k)'
    BY SnapStays
  <2>4. PageCursor' = PageCursor
    BY <1>3 DEF PageCursor
  <2>5. run.buf = <<>> /\ run.last = 0 /\ run.cursor <= PageCursor
    BY <2>2 DEF RunOK, Early
  <2>6. LsnOK(run.lsn)'
    BY <2>1 DEF LsnOK
  <2>7. \A k \in Keys : k <= run'.cursor => Snapshotted(k)'
    BY <1>3, <2>2, <2>3 DEF RunOK
  <2> QED BY <1>3, <2>4, <2>5, <2>6, <2>7 DEF RunOK, Early, At
<1> QED BY <1>5, <1>6 DEF RunInv

LEMMA RunGoes ==
    ASSUME NEW r \in RunType, NEW p \in Pcs
    PROVE  LET e == [r EXCEPT !.pc = p]
           IN  e \in RunType /\ e.pc = p /\ e.lsn = r.lsn /\ SameRows(e, r)
BY DEF RunType, SameRows

LEMMA RunGoesTo ==
    ASSUME NEW r \in RunType, NEW p \in Pcs, NEW l \in Nat
    PROVE  LET e == [r EXCEPT !.pc = p, !.lsn = l]
           IN  e \in RunType /\ e.pc = p /\ e.lsn = l /\ SameRows(e, r)
BY DEF RunType, SameRows

LEMMA AssignLSNInv ==
    ASSUME SnapInv, AssignLSN \/ AssignLSNFails
    PROVE  SnapInv'
<1>1. Types /\ LiveOK /\ RunShape /\ RunInv
  BY DEF SnapInv
<1> DEFINE l == IF run.lsn = 0 THEN FlushLSN ELSE run.lsn
<1>2. /\ run.pc = "lsn" /\ st' = st /\ idx' = idx /\ snapIDs' = snapIDs
      /\ UNCHANGED dbVars /\ UNCHANGED liveVars /\ UNCHANGED logVars
      /\ run' = [run EXCEPT !.pc = "register", !.lsn = l] \/ run' = [run EXCEPT !.pc = "register"]
  BY DEF AssignLSN, AssignLSNFails, At, Goto
<1>3. FlushLSN \in Nat /\ FlushLSN > slotStart
  BY <1>1 DEF FlushLSN, LSN, Types, LiveOK
<1>4. run \in RunType /\ run.lsn \in Nat /\ l \in Nat /\ "register" \in Pcs
  BY <1>1, <1>3, RunFields DEF Types, Pcs
<1>5. Steady => LsnOK(run.lsn)
  BY <1>1, <1>2 DEF RunInv, RunOK, At
<1>6. Steady => LsnOK(l)
  BY <1>3, <1>5 DEF LsnOK
<1> HIDE DEF l
<1>7. /\ run' \in RunType /\ run'.pc = "register" /\ (run'.lsn = l \/ run'.lsn = run.lsn)
      /\ SameRows(run', run)
  <2>1. CASE run' = [run EXCEPT !.pc = "register", !.lsn = l]
    <3> DEFINE e == [run EXCEPT !.pc = "register", !.lsn = l]
    <3>1. e \in RunType /\ e.pc = "register" /\ e.lsn = l /\ SameRows(e, run)
      BY <1>4, RunGoesTo
    <3>2. run' = e
      BY <2>1
    <3> HIDE DEF e
    <3> QED BY <3>1, <3>2
  <2>2. CASE run' = [run EXCEPT !.pc = "register"]
    BY <1>4, <2>2, RunGoes
  <2> QED BY <1>2, <2>1, <2>2
<1>8. /\ Moves /\ LiveOK' /\ EventsOK' /\ CallsOK' /\ StateOK' /\ IndexOK' /\ Types'
  BY <1>1, <1>2, <1>7, RunOnly DEF Types, liveVars
<1>9. RunShape' /\ RunInv'
  <2>1. Steady => LsnOK(run'.lsn)
    BY <1>5, <1>6, <1>7
  <2> QED BY <1>2, <1>7, <1>8, <2>1, EarlyOK DEF Early, logVars
<1> QED BY <1>8, <1>9 DEF SnapInv

LEMMA RegisterIndexInv ==
    ASSUME SnapInv, RegisterIndex
    PROVE  SnapInv'
<1>1. Types /\ RunInv
  BY DEF SnapInv
<1>2. /\ run.pc = "register" /\ st' = st /\ snapIDs' = snapIDs
      /\ UNCHANGED dbVars /\ wcur' = wcur /\ conn' = conn /\ UNCHANGED logVars
      /\ run' = [run EXCEPT !.pc = "scan"]
      /\ idx' = [NoIndex EXCEPT !.on = TRUE, !.lsn = run.lsn, !.todo = Partitions]
  BY DEF RegisterIndex, At, Goto
<1>3. run \in RunType /\ run.lsn \in Nat /\ "scan" \in Pcs
  BY <1>1, RunFields DEF Types, Pcs
<1>4. run' \in RunType /\ run'.pc = "scan" /\ run'.lsn = run.lsn /\ SameRows(run', run)
  BY <1>2, <1>3, RunGoes
<1>5. idx' \in IdxType /\ idx'.keys = {}
  <2> DEFINE l == run.lsn
  <2> HIDE DEF l
  <2>1. LET e == [NoIndex EXCEPT !.on = TRUE, !.lsn = l, !.todo = Partitions]
        IN  l \in Nat => e \in IdxType /\ e.keys = {}
    BY DEF NoIndex, IdxType
  <2> QED BY <1>2, <1>3, <2>1 DEF l
<1>6. /\ Moves /\ LiveOK' /\ EventsOK' /\ CallsOK' /\ StateOK' /\ Types'
  BY <1>1, <1>2, <1>4, <1>5, RunOnly DEF Types
<1>7. IndexOK'
  BY <1>5 DEF IndexOK
<1>8. RunShape' /\ RunInv'
  <2>1. Steady => LsnOK(run'.lsn)
    BY <1>1, <1>2, <1>4 DEF RunInv, RunOK, At
  <2> QED BY <1>2, <1>4, <1>6, <2>1, EarlyOK DEF Early, logVars
<1> QED BY <1>6, <1>7, <1>8 DEF SnapInv

LEMMA TodoOK ==
    ASSUME NEW ix \in IdxType, NEW T \in SUBSET Partitions
    PROVE  LET e == [ix EXCEPT !.todo = T]
           IN  e \in IdxType /\ e.on = ix.on /\ e.lsn = ix.lsn /\ e.keys = ix.keys
BY DEF IdxType

LEMMA ScanPartitionInv ==
    ASSUME SnapInv, ScanPartition
    PROVE  SnapInv'
<1>1. Types /\ IndexOK /\ RunInv
  BY DEF SnapInv
<1>2. PICK p \in idx.todo :
        idx' = [Observed(idx, {it.ev : it \in log[p]}) EXCEPT !.todo = @ \ {p}]
  BY DEF ScanPartition
<1>3. /\ run.pc = "scan" /\ st' = st /\ snapIDs' = snapIDs
      /\ UNCHANGED dbVars /\ UNCHANGED liveVars /\ UNCHANGED logVars
      /\ run' = [run EXCEPT !.pc = "query"] \/ run' = [run EXCEPT !.pc = "scan"]
  BY DEF ScanPartition, At, Goto
<1>4. run' \in RunType /\ run'.pc \in Early /\ run'.lsn = run.lsn /\ SameRows(run', run)
  <2>1. run \in RunType /\ "query" \in Pcs /\ "scan" \in Pcs
    BY <1>1 DEF Types, Pcs
  <2>2. CASE run' = [run EXCEPT !.pc = "query"]
    BY <2>1, <2>2, RunGoes DEF Early
  <2>3. CASE run' = [run EXCEPT !.pc = "scan"]
    BY <2>1, <2>3, RunGoes DEF Early
  <2> QED BY <1>3, <2>2, <2>3
<1> DEFINE evs == {it.ev : it \in log[p]}
           o == Observed(idx, evs)
<1>5. evs \in SUBSET Evt /\ evs \subseteq Logged
  <2>1. p \in Partitions
    BY <1>1 DEF Types, IdxType
  <2>2. log[p] \subseteq Entries
    BY <2>1 DEF Entries
  <2> QED BY <1>1, <2>2, EventTypes DEF Logged
<1>6. /\ o \in IdxType
      /\ o.on => \A k \in o.keys : \E e \in Entries : e.ev.key = k /\ e.ev.lsn > o.lsn
  BY <1>1, <1>5, ObservedOK, ObservedIndexOK DEF Types
<1>7. idx' = [o EXCEPT !.todo = @ \ {p}]
  BY <1>2
<1> HIDE DEF o
<1>8. idx' \in IdxType /\ idx'.on = o.on /\ idx'.lsn = o.lsn /\ idx'.keys = o.keys
  <2>1. o.todo \ {p} \in SUBSET Partitions
    BY <1>6 DEF IdxType
  <2> QED BY <1>6, <1>7, <2>1, TodoOK
<1>9. /\ Moves /\ LiveOK' /\ EventsOK' /\ CallsOK' /\ StateOK' /\ Types' /\ Entries' = Entries
  BY <1>1, <1>3, <1>4, <1>8, RunOnly DEF Types, liveVars
<1>10. IndexOK'
  BY <1>6, <1>8, <1>9 DEF IndexOK
<1>11. RunShape' /\ RunInv'
  <2>1. Steady => LsnOK(run'.lsn)
    BY <1>1, <1>3, <1>4 DEF RunInv, RunOK, At
  <2> QED BY <1>3, <1>4, <1>9, <2>1, EarlyOK DEF Early, logVars
<1> QED BY <1>9, <1>10, <1>11 DEF SnapInv

LEMMA ScanFailsInv ==
    ASSUME SnapInv, ScanFails
    PROVE  SnapInv'
<1>1. Types /\ RunInv
  BY DEF SnapInv
<1>2. /\ run.pc = "scan" /\ st' = st /\ snapIDs' = snapIDs
      /\ UNCHANGED dbVars /\ UNCHANGED liveVars /\ UNCHANGED logVars
      /\ run' = [run EXCEPT !.pc = "query"] /\ idx' = NoIndex
  BY DEF ScanFails, At, Goto
<1>3. run' \in RunType /\ run'.pc = "query" /\ run'.lsn = run.lsn /\ SameRows(run', run)
  <2>1. run \in RunType /\ "query" \in Pcs
    BY <1>1 DEF Types, Pcs
  <2> QED BY <1>2, <2>1, RunGoes
<1>4. /\ Moves /\ LiveOK' /\ EventsOK' /\ CallsOK' /\ StateOK' /\ Types'
  BY <1>1, <1>2, <1>3, NoIndexType, RunOnly DEF Types, liveVars
<1>5. IndexOK'
  BY <1>2, NoIndexOK
<1>6. RunShape' /\ RunInv'
  <2>1. Steady => LsnOK(run'.lsn)
    BY <1>1, <1>2, <1>3 DEF RunInv, RunOK, At
  <2> QED BY <1>2, <1>3, <1>4, <2>1, EarlyOK DEF Early, logVars
<1> QED BY <1>4, <1>5, <1>6 DEF SnapInv

\* A Run resumes the saved snapshot, or begins one under an ID not used before.
LEMMA RunStartsInv ==
    ASSUME SnapInv, RunStarts
    PROVE  SnapInv'
<1>1. Types /\ EventsOK /\ CallsOK /\ LiveOK /\ StateOK /\ IndexOK /\ RunShape /\ RunInv
  BY DEF SnapInv
<1> DEFINE s == IF st.status = "none" THEN FirstState ELSE st
           id == IF s.snap = 0 THEN snapIDs + 1 ELSE s.snap
           r == [NoRun EXCEPT !.pc = "lsn", !.status = "running", !.snap = id,
                              !.cursor = s.cursor, !.lsn = s.lsn]
           t == [s EXCEPT !.status = "running", !.snap = id]
<1>2. /\ run.pc = "idle" /\ UNCHANGED dbVars /\ UNCHANGED liveVars /\ UNCHANGED logVars /\ idx' = idx
  BY DEF RunStarts, At
<1>3. wal' = wal /\ slotStart' = slotStart /\ conn' = conn /\ wcur' = wcur /\ log' = log
      /\ call' = call /\ nextSeq' = nextSeq
  BY <1>2 DEF dbVars, liveVars, logVars
<1>4. CASE UNCHANGED <<st, run, snapIDs>>
  <2>1. st' = st /\ run' = run /\ snapIDs' = snapIDs
    BY <1>4
  <2>2. /\ Moves /\ LiveOK' /\ EventsOK' /\ CallsOK' /\ StateOK' /\ IndexOK' /\ Types'
    BY <1>1, <1>2, <2>1, RunOnly DEF Types, liveVars
  <2>3. RunShape' /\ RunInv'
    BY <1>1, <1>3, <2>1, <2>2, RunStays
  <2> QED BY <2>2, <2>3 DEF SnapInv
<1>5. CASE run' = r /\ st' = t /\ snapIDs' = (IF s.snap = 0 THEN id ELSE snapIDs)
  <2>1. /\ s \in StType /\ snapIDs \in Nat /\ s.cursor \in Nat /\ s.lsn \in Nat /\ s.snap \in Nat
        /\ (s.snap = 0 \/ s.snap = st.snap) /\ s.snap <= snapIDs
    <3>1. FirstState \in StType /\ FirstState.snap = 0
      BY DEF FirstState, StType
    <3>2. s \in StType /\ snapIDs \in Nat
      BY <1>1, <3>1 DEF Types
    <3>3. s.cursor \in Nat /\ s.lsn \in Nat /\ s.snap \in Nat
      BY <3>2 DEF StType
    <3>4. (s.snap = 0 \/ s.snap = st.snap) /\ s.snap <= snapIDs
      BY <1>1, <3>1, <3>2 DEF StateOK
    <3> QED BY <3>2, <3>3, <3>4
  <2>2. Steady => LsnOK(s.lsn) /\ \A k \in Keys : k <= s.cursor => Snapshotted(k)
    <3>1. CASE st.status = "none"
      <4>1. s.lsn = 0 /\ s.cursor = 0 /\ \A k \in Keys : ~(k <= 0)
        BY <3>1, BackfillAssumption DEF FirstState
      <4> QED BY <1>1, <3>1, <4>1 DEF StateOK, LsnOK
    <3>2. CASE st.status # "none"
      BY <1>1, <3>2 DEF StateOK
    <3> QED BY <3>1, <3>2
  <2>3. /\ id \in Nat /\ id > 0 /\ snapIDs' \in Nat /\ snapIDs <= snapIDs' /\ id <= snapIDs'
        /\ id > snapIDs \/ (id = st.snap /\ snapIDs' = snapIDs)
    BY <1>5, <2>1
  <2> HIDE DEF s, id
  <2>4. /\ r \in RunType /\ r.pc = "lsn" /\ r.status = "running" /\ r.snap = id
        /\ r.cursor = s.cursor /\ r.lsn = s.lsn /\ r.buf = <<>> /\ r.page = <<>> /\ r.last = 0
    <3> DEFINE c == s.cursor
               l == s.lsn
    <3>1. c \in Nat /\ l \in Nat /\ id \in Nat /\ "lsn" \in Pcs
      BY <2>1, <2>3 DEF Pcs
    <3> HIDE DEF c, l
    <3>2. LET e == [NoRun EXCEPT !.pc = "lsn", !.status = "running", !.snap = id,
                                 !.cursor = c, !.lsn = l]
          IN  /\ e \in RunType /\ e.pc = "lsn" /\ e.status = "running" /\ e.snap = id
              /\ e.cursor = c /\ e.lsn = l
              /\ e.buf = NoRun.buf /\ e.page = NoRun.page /\ e.last = NoRun.last
      BY <3>1, NoRunOK DEF RunType
    <3> QED BY <3>2, NoRunOK DEF c, l
  <2>5. /\ t \in StType /\ t.status = "running" /\ t.snap = id /\ t.cursor = s.cursor /\ t.lsn = s.lsn
    BY <2>1, <2>3 DEF StType
  <2> HIDE DEF r, t
  <2>6. Entries' = Entries /\ Steady' = Steady
    BY <1>3 DEF Entries, Steady
  <2>7. Moves /\ WalGrows
    BY <1>3, <2>6, StillMoves
  <2>8. SnapMoves
    BY <1>5, <2>3, <2>5, <2>7 DEF SnapMoves
  <2>9. EventsOK' /\ CallsOK' /\ Known' = Known
    BY <1>1, <1>3, <2>8, CallsStay
  <2>10. Types'
    BY <1>1, <1>2, <1>3, <1>5, <2>3, <2>4, <2>5 DEF Types
  <2>11. LiveOK' /\ IndexOK'
    BY <1>1, <1>2, <1>3, <2>6, <2>9, LiveStays, IndexStays
  <2>12. \A k \in Keys : Snapshotted(k) => Snapshotted(k)'
    BY <2>7, SnapStays
  <2>13. Steady' => LsnOK(run.lsn)' /\ LsnOK(st.lsn)'
    BY <1>3, <1>5, <2>2, <2>4, <2>5, <2>6 DEF LsnOK
  <2>14. StateOK'
    BY <1>5, <2>2, <2>3, <2>5, <2>6, <2>12, <2>13 DEF StateOK
  <2>15. RunShape'
    <3>1. ~call'["backfill"].busy
      BY <1>1, <1>2, <1>3 DEF RunShape
    <3>2. Elems(<<>>) = {}
      BY DEF Elems
    <3> QED BY <1>5, <2>3, <2>4, <2>5, <3>1, <3>2 DEF RunShape, At, Elems
  <2>16. RunInv'
    <3>1. PageCursor' = run'.cursor
      BY <1>5, <2>4 DEF PageCursor
    <3>2. run'.cursor \in Nat
      BY <1>5, <2>1, <2>4
    <3> QED BY <1>5, <2>2, <2>4, <2>6, <2>12, <2>13, <3>1, <3>2 DEF RunInv, RunOK, At
  <2> QED BY <2>9, <2>10, <2>11, <2>14, <2>15, <2>16 DEF SnapInv
<1> QED BY <1>4, <1>5 DEF RunStarts

LEMMA PrefixOK ==
    ASSUME NEW S, NEW s \in Seq(S), NEW n \in Nat
    PROVE  /\ Prefix(s, n) \in Seq(S) /\ Len(Prefix(s, n)) \in Nat
           /\ DOMAIN Prefix(s, n) = 1..Len(Prefix(s, n)) /\ Len(Prefix(s, n)) <= Len(s)
           /\ \A j \in DOMAIN Prefix(s, n) : Prefix(s, n)[j] = s[j]
           /\ Len(Prefix(s, n)) = Len(s) \/ Len(Prefix(s, n)) = n
<1>1. CASE Len(s) <= n
  <2>1. Prefix(s, n) = s
    BY <1>1 DEF Prefix
  <2> QED BY <2>1
<1>2. CASE ~(Len(s) <= n)
  <2> DEFINE t == SubSeq(s, 1, n)
  <2>1. Prefix(s, n) = t
    BY <1>2 DEF Prefix
  <2>2. t \in Seq(S) /\ Len(t) = n /\ \A j \in 1..n : t[j] = s[j]
    BY <1>2
  <2> HIDE DEF t
  <2>3. DOMAIN t = 1..n
    BY <2>2
  <2> QED BY <1>2, <2>1, <2>2, <2>3
<1> QED BY <1>1, <1>2

\* A page of the rows behind a cursor, as they are in the table.
PageOf(ks) == [i \in DOMAIN ks |-> [key |-> ks[i], ver |-> Version(ks[i], Len(wal))]]

LEMMA PageOfOK ==
    ASSUME Types, NEW ks \in Seq(Keys)
    PROVE  /\ PageOf(ks) \in Seq(Row) /\ Len(PageOf(ks)) = Len(ks) /\ DOMAIN PageOf(ks) = DOMAIN ks
           /\ \A j \in DOMAIN ks : PageOf(ks)[j].key = ks[j] /\ PageOf(ks)[j].ver = V(ks[j])
<1> DEFINE R(i) == [key |-> ks[i], ver |-> Version(ks[i], Len(wal))]
           n == Len(ks)
<1>1. n \in Nat /\ DOMAIN ks = 1..n /\ \A j \in 1..n : ks[j] \in Keys
  OBVIOUS
<1>2. ASSUME NEW j \in 1..n PROVE R(j) \in Row /\ R(j).key = ks[j] /\ R(j).ver = V(ks[j])
  <2>1. V(ks[j]) \in Nat
    BY VersionType
  <2> QED BY <1>1, <2>1 DEF Row, V
<1>3. PageOf(ks) = [i \in DOMAIN ks |-> R(i)]
  BY Zenon DEF PageOf
<1> HIDE DEF R, n
<1>4. PageOf(ks) \in [1..n -> Row] /\ \A j \in 1..n : PageOf(ks)[j] = R(j)
  BY <1>1, <1>2, <1>3
<1> DEFINE P == PageOf(ks)
<1>5. P \in Seq(Row) /\ Len(P) = n
  <2>1. P \in UNION {[1..m -> Row] : m \in Nat}
    BY <1>1, <1>4
  <2> HIDE DEF P
  <2>2. P \in Seq(Row)
    BY <2>1, SeqDef
  <2>3. DOMAIN P = 1..n
    BY <1>4 DEF P
  <2> QED BY <1>1, <2>2, <2>3
<1> QED BY <1>1, <1>2, <1>4, <1>5 DEF n

\* The rows of the page: they are behind the cursor, and no old row between them is
\* left out.
LEMMA QueryPageInv ==
    ASSUME SnapInv, QueryPage
    PROVE  SnapInv'
<1>1. Types /\ RunShape /\ RunInv
  BY DEF SnapInv
<1>2. PICK n \in PageSizes :
        run' = [run EXCEPT !.pc = "row", !.limit = n, !.rows = 0, !.last = 0,
                           !.page = PageOf(Prefix(RowsBehind(run.cursor), n))]
  BY DEF QueryPage, PageOf
<1>3. /\ run.pc = "query" /\ st' = st /\ snapIDs' = snapIDs /\ idx' = idx
      /\ UNCHANGED dbVars /\ UNCHANGED liveVars /\ UNCHANGED logVars
  BY DEF QueryPage, At
<1> DEFINE B == {k \in Keys : k > run.cursor /\ Present(k, Len(wal))}
           s == RowsBehind(run.cursor)
           ks == Prefix(s, n)
           P == PageOf(ks)
<1>4. n \in Nat
  BY BackfillAssumption
<1>5. /\ s \in Seq(B) /\ Len(s) \in Nat /\ DOMAIN s = 1..Len(s)
      /\ \A i, j \in DOMAIN s : i < j => s[i] < s[j]
      /\ \A k \in B : \E j \in DOMAIN s : s[j] = k
  <2>1. B \in SUBSET Keys /\ s = InKeyOrder(B)
    BY DEF RowsBehind
  <2> HIDE DEF B, s
  <2> QED BY <2>1, InKeyOrderOK
<1> HIDE DEF B, s
<1>6. /\ ks \in Seq(B) /\ Len(ks) \in Nat /\ DOMAIN ks = 1..Len(ks) /\ Len(ks) <= Len(s)
      /\ (\A j \in DOMAIN ks : ks[j] = s[j]) /\ (Len(ks) = Len(s) \/ Len(ks) = n)
  BY <1>4, <1>5, PrefixOK
<1> HIDE DEF ks
<1> DEFINE m == Len(ks)
           q == Len(s)
<1>7. /\ m \in Nat /\ q \in Nat /\ DOMAIN ks = 1..m /\ DOMAIN s = 1..q
       /\ m <= q /\ (m = q \/ m = n)
  BY <1>5, <1>6
<1> HIDE DEF m, q
<1>8. \A j \in DOMAIN ks : j \in DOMAIN s
  BY <1>7
<1>9. ks \in Seq(Keys) /\ \A j \in DOMAIN ks : ks[j] \in Keys /\ ks[j] > run.cursor
  <2>1. \A j \in 1..Len(ks) : ks[j] \in B
    BY <1>6
  <2>2. B \subseteq Keys
    BY DEF B
  <2> QED BY <1>6, <2>1, <2>2 DEF B
<1>10. /\ P \in Seq(Row) /\ Len(P) = Len(ks) /\ DOMAIN P = DOMAIN ks
      /\ \A j \in DOMAIN ks : P[j].key = ks[j] /\ P[j].ver = V(ks[j])
  BY <1>1, <1>9, PageOfOK
<1>11. run' = [run EXCEPT !.pc = "row", !.limit = n, !.rows = 0, !.last = 0, !.page = P]
  BY <1>2 DEF ks, s
<1> HIDE DEF P
<1>12. /\ run' \in RunType /\ run'.pc = "row" /\ run'.limit = n /\ run'.rows = 0 /\ run'.last = 0
       /\ run'.page = P /\ run'.cursor = run.cursor /\ run'.lsn = run.lsn /\ run'.snap = run.snap
       /\ run'.status = run.status /\ run'.buf = run.buf /\ run'.bufLast = run.bufLast
  <2>1. LET e == [run EXCEPT !.pc = "row", !.limit = n, !.rows = 0, !.last = 0, !.page = P]
        IN  /\ e \in RunType /\ e.pc = "row" /\ e.limit = n /\ e.rows = 0 /\ e.last = 0
            /\ e.page = P /\ e.cursor = run.cursor /\ e.lsn = run.lsn /\ e.snap = run.snap
            /\ e.status = run.status /\ e.buf = run.buf /\ e.bufLast = run.bufLast
    <3>1. run \in RunType /\ "row" \in Pcs
      BY <1>1 DEF Types, Pcs
    <3> QED BY <1>4, <1>10, <3>1 DEF RunType
  <2> QED BY <1>11, <2>1
<1>13. /\ Moves /\ LiveOK' /\ EventsOK' /\ CallsOK' /\ StateOK' /\ IndexOK' /\ Types'
       /\ Steady' = Steady /\ (\A k : Old(k)' = Old(k) /\ Snapshotted(k)' = Snapshotted(k))
       /\ (\A k, v : Right(k, v)' = Right(k, v)) /\ (\A x : ReadEv(x)' = ReadEv(x))
  BY <1>1, <1>3, <1>12, RunOnly DEF Types, liveVars
<1>14. \A r \in Elems(P) : r.key \in Keys /\ r.key > run.cursor /\ r.ver = V(r.key)
  BY <1>9, <1>10 DEF Elems
<1>15. RunShape'
  <2>1. \A r \in Elems(run'.page) : Right(r.key, r.ver)'
    BY <1>12, <1>13, <1>14 DEF Right
  <2>2. \A x \in Elems(run'.buf) : ReadEv(x)' /\ x.id[3] = run'.snap
    BY <1>1, <1>12, <1>13 DEF RunShape
  <2>3. call' = call
    BY <1>3 DEF logVars
  <2>4. run'.snap = st'.snap /\ run'.snap > 0 /\ run'.status = "running" /\ ~call'["backfill"].busy
    BY <1>1, <1>3, <1>12, <2>3 DEF RunShape, At
  <2> QED BY <1>12, <2>1, <2>2, <2>4 DEF RunShape, Elems
<1>16. RunInv'
  <2> SUFFICES ASSUME Steady' PROVE RunOK'
    BY DEF RunInv
  <2>1. RunOK
    BY <1>1, <1>3, <1>13 DEF RunInv, At
  <2>2. run.buf = <<>> /\ run.last = 0 /\ PageCursor = run.cursor
    BY <1>3, <2>1 DEF RunOK, PageCursor
  <2>3. PageCursor' = run.cursor /\ run.cursor \in Nat
    BY <1>1, <1>12, RunFields DEF PageCursor
  <2>4. BufOK'
    <3>1. \A k \in Keys : k <= run.cursor => Snapshotted(k)'
      BY <1>13, <2>1 DEF RunOK
    <3> QED BY <1>12, <2>2, <2>3, <3>1 DEF BufOK, At
  <2>5. PageOK'
    <3>1. \A j, l \in DOMAIN P : j < l => P[j].key < P[l].key
      <4>1. \A j \in DOMAIN ks : j \in DOMAIN s /\ P[j].key = s[j]
        BY <1>6, <1>10, <1>8
      <4> QED BY <1>5, <1>10, <4>1
    <3>2. ASSUME NEW k \in Keys, k > run.cursor, Old(k)
          PROVE  \/ \E r \in Elems(P) : r.key = k
                 \/ 0 + Len(P) >= n /\ \A r \in Elems(P) : k > r.key
      <4>1. k \in B
        BY <3>2 DEF B, Old
      <4>2. PICK i \in DOMAIN s : s[i] = k
        BY <1>5, <4>1
      <4>3. CASE i \in DOMAIN ks
        <5>1. P[i] \in Elems(P) /\ P[i].key = k
          BY <1>6, <1>10, <4>2, <4>3 DEF Elems
        <5> QED BY <5>1
      <4>4. CASE i \notin DOMAIN ks
        <5>1. i > m /\ m = n
          BY <1>7, <4>4
        <5>2. \A j \in DOMAIN ks : P[j].key < k
          <6>1. \A j \in DOMAIN ks : j \in DOMAIN s /\ P[j].key = s[j]
            BY <1>6, <1>10, <1>8
          <6>2. \A j \in DOMAIN ks : j < i
            BY <1>7, <5>1
          <6> QED BY <1>5, <4>2, <6>1, <6>2
        <5>3. \A r \in Elems(P) : r.key < k /\ r.key \in Nat
          BY <1>10, <1>14, <5>2, BackfillAssumption DEF Elems
        <5>4. k \in Nat
          BY BackfillAssumption
        <5> QED BY <1>4, <1>10, <5>1, <5>3, <5>4 DEF m
      <4> QED BY <4>3, <4>4
    <3> QED BY <1>12, <1>13, <1>14, <2>3, <3>1, <3>2 DEF PageOK, Elems
  <2>6. LsnOK(run.lsn)'
    BY <1>3, <1>12, <2>1 DEF RunOK, LsnOK, dbVars
  <2>7. \A k \in Keys : k <= run'.cursor => Snapshotted(k)'
    BY <1>12, <1>13, <2>1 DEF RunOK
  <2> QED BY <1>12, <2>3, <2>4, <2>5, <2>6, <2>7 DEF RunOK, At
<1> QED BY <1>13, <1>15, <1>16 DEF SnapInv

LEMMA PageTail ==
    ASSUME NEW p \in Seq(Row), p # <<>>
    PROVE  /\ Head(p) \in Row /\ Tail(p) \in Seq(Row) /\ Len(Tail(p)) = Len(p) - 1 /\ Len(p) \in Nat
           /\ 1 \in DOMAIN p /\ Head(p) = p[1]
           /\ \A j \in DOMAIN Tail(p) : j + 1 \in DOMAIN p /\ Tail(p)[j] = p[j + 1] /\ 1 < j + 1
           /\ DOMAIN Tail(p) \subseteq Nat /\ Elems(p) = {Head(p)} \cup Elems(Tail(p))
<1> DEFINE t == Tail(p)
           n == Len(p)
<1>1. n \in Nat /\ n > 0 /\ DOMAIN p = 1..n /\ \A j \in 1..n : p[j] \in Row
  OBVIOUS
<1>2. t \in Seq(Row) /\ Len(t) = n - 1 /\ \A j \in 1..(n - 1) : t[j] = p[j + 1]
  BY <1>1
<1>3. Head(p) = p[1]
  OBVIOUS
<1> HIDE DEF t
<1>4. DOMAIN t = 1..(n - 1)
  BY <1>1, <1>2
<1> HIDE DEF n
<1>5. \A j \in 1..n : j = 1 \/ (j - 1 \in 1..(n - 1) /\ (j - 1) + 1 = j)
  BY <1>1
<1>6. Elems(p) = {Head(p)} \cup Elems(t)
  <2>1. ASSUME NEW j \in 1..n PROVE p[j] = p[1] \/ p[j] \in Elems(t)
    <3>1. CASE j = 1
      BY <3>1
    <3>2. CASE j # 1
      <4>1. j - 1 \in 1..(n - 1) /\ t[j - 1] = p[j]
        BY <1>2, <1>5, <3>2
      <4> QED BY <1>4, <4>1 DEF Elems
    <3> QED BY <3>1, <3>2
  <2>2. p[1] \in Elems(p)
    BY <1>1 DEF Elems
  <2>3. \A x \in Elems(t) : x \in Elems(p)
    <3>1. \A j \in 1..(n - 1) : j + 1 \in 1..n
      BY <1>1
    <3> QED BY <1>1, <1>2, <1>4, <3>1 DEF Elems
  <2>4. \A x \in Elems(p) : x = p[1] \/ x \in Elems(t)
    BY <1>1, <2>1 DEF Elems
  <2> QED BY <1>3, <2>2, <2>3, <2>4
<1>7. 1 \in 1..n /\ \A j \in 1..(n - 1) : j \in Nat /\ j + 1 \in 1..n /\ 1 < j + 1
  BY <1>1
<1> QED BY <1>1, <1>2, <1>3, <1>4, <1>6, <1>7 DEF t, n

LEMMA AppendElems ==
    ASSUME NEW s \in Seq(Evt), NEW x \in Evt
    PROVE  /\ Append(s, x) \in Seq(Evt) /\ Append(s, x) # <<>>
           /\ Elems(Append(s, x)) = Elems(s) \cup {x}
<1> DEFINE t == Append(s, x)
           n == Len(s)
<1>1. /\ n \in Nat /\ DOMAIN s = 1..n /\ t \in Seq(Evt) /\ DOMAIN t = 1..(n + 1) /\ t # <<>>
      /\ t[n + 1] = x /\ \A j \in 1..n : t[j] = s[j]
  OBVIOUS
<1> HIDE DEF t, n
<1>2. \A j \in 1..(n + 1) : j \in 1..n \/ j = n + 1
  BY <1>1
<1>3. (\A j \in 1..n : j \in 1..(n + 1)) /\ n + 1 \in 1..(n + 1)
  BY <1>1
<1>4. Elems(t) = Elems(s) \cup {x}
  BY <1>1, <1>2, <1>3 DEF Elems
<1> QED BY <1>1, <1>4 DEF t

\* A row that the stream superseded is not old.
LEMMA SupersededOK ==
    ASSUME SnapInv, Steady, ~At("idle"), NEW k \in Keys, Superseded(k)
    PROVE  ~Old(k)
<1>1. Types /\ EventsOK /\ LiveOK /\ IndexOK /\ RunInv
  BY DEF SnapInv
<1>2. PICK e \in Entries : e.ev.key = k /\ e.ev.lsn > run.lsn
  <2>1. CASE Indexed
    BY <1>1, <2>1 DEF Indexed, Superseded, IndexOK
  <2>2. CASE ~Indexed
    <3>1. PICK it \in log[PartitionOf[k]] : it.ev.key = k /\ it.ev.lsn > run.lsn
      BY <2>2 DEF Superseded
    <3>2. PartitionOf[k] \in Partitions
      BY BackfillAssumption DEF Partitions
    <3>3. it \in Entries
      BY <3>1, <3>2 DEF Entries
    <3> QED BY <3>1, <3>3
  <2> QED BY <2>1, <2>2
<1> DEFINE x == e.ev
<1>3. EventOK(x) /\ x.key = k /\ x.lsn > run.lsn
  BY <1>1, <1>2 DEF EventsOK, Logged
<1> HIDE DEF x
<1>4. run.lsn \in Nat /\ slotStart \in Nat /\ LsnOK(run.lsn)
  BY <1>1, RunFields DEF Types, RunInv, RunOK
<1>5. x.ver \in 1..Len(wal) /\ k \in wal[x.ver].keys /\ x.lsn = x.ver + 1
  BY <1>3, <1>4 DEF EventOK, ReadEv, ControlEv, LiveEv, LSN
<1>6. Len(wal) \in Nat /\ x.ver <= V(k) /\ V(k) \in Nat
  <2>1. Len(wal) \in Nat /\ V(k) \in 0..Len(wal)
    BY <1>1, VersionType
  <2>2. x.ver <= V(k)
    BY <1>5, <2>1, VersionOK DEF V
  <2> QED BY <2>1, <2>2
<1>7. x.ver > slotStart
  BY <1>3, <1>4, <1>5, <1>6 DEF LsnOK
<1>8. V(k) > slotStart
  BY <1>4, <1>5, <1>6, <1>7
<1> QED BY <1>4, <1>6, <1>8 DEF Old

LEMMA ReadEventOK ==
    ASSUME SnapInv, ~At("idle"), NEW r \in Elems(run.page)
    PROVE  /\ ReadEvent(r) \in Evt /\ ReadEv(ReadEvent(r)) /\ ReadEvent(r).id[3] = run.snap
           /\ ReadEvent(r).key = r.key /\ r.key \in Keys
<1>1. Types /\ StateOK /\ RunShape
  BY DEF SnapInv
<1>2. r.key \in Keys /\ r.key \in Nat /\ r.ver \in Nat /\ run.snap \in Nat
  BY <1>1, RunFields, BackfillAssumption DEF Elems
<1>3. run.snap = st.snap /\ run.snap > 0 /\ st.snap <= snapIDs /\ snapIDs \in Nat
  BY <1>1 DEF RunShape, StateOK, Types
<1>4. run.snap \in 1..snapIDs
  BY <1>2, <1>3
<1>5. Right(r.key, r.ver)
  BY <1>1 DEF RunShape
<1>6. ReadEvent(r) = [id |-> <<"read", r.key, run.snap>>, key |-> r.key, ver |-> r.ver, lsn |-> 0]
  BY DEF ReadEvent
<1>7. ReadEvent(r) \in Evt
  BY <1>2, <1>6 DEF Evt, Id
<1>8. ReadEv(ReadEvent(r))
  <2> DEFINE x == ReadEvent(r)
  <2>1. /\ x.key = r.key /\ x.lsn = 0 /\ x.ver = r.ver
        /\ x.id[1] = "read" /\ x.id[2] = r.key /\ x.id[3] = run.snap
    BY <1>6
  <2> HIDE DEF x
  <2>2. ReadEv(x)
    BY <1>2, <1>4, <1>5, <2>1 DEF ReadEv
  <2> QED BY <2>2 DEF x
<1> QED BY <1>2, <1>6, <1>7, <1>8

\* A row of the page is skipped or joins the buffer.
LEMMA ScanRowFields ==
    ASSUME Types, run.pc = "row", run.page # <<>>, Head(run.page) \in Elems(run.page),
           NEW emit \in BOOLEAN, ScanRow(emit), ReadEvent(Head(run.page)) \in Evt
    PROVE  LET r == Head(run.page)
               b == Append(run.buf, ReadEvent(r))
           IN  /\ run' \in RunType /\ run'.page = Tail(run.page) /\ run'.rows = run.rows + 1
               /\ run'.last = r.key /\ run'.limit = run.limit
               /\ run'.cursor = run.cursor /\ run'.lsn = run.lsn /\ run'.snap = run.snap
               /\ run'.status = run.status
               /\ emit => run'.buf = b /\ run'.bufLast = r.key /\ run'.pc \in {"row", "flush"}
               /\ ~emit => run'.buf = run.buf /\ run'.bufLast = run.bufLast /\ run'.pc = "row"
<1> DEFINE r == Head(run.page)
           k == r.key
           b == IF emit THEN Append(run.buf, ReadEvent(r)) ELSE run.buf
           q == IF emit THEN k ELSE run.bufLast
           c == IF emit /\ Len(Append(run.buf, ReadEvent(r))) >= BackfillBatchSize
                THEN "flush" ELSE "row"
           pg == Tail(run.page)
           n == run.rows + 1
           e == [run EXCEPT !.page = pg, !.rows = n, !.last = k, !.buf = b, !.bufLast = q, !.pc = c]
<1>1. run' = e
  BY DEF ScanRow
<1>2. /\ run \in RunType /\ k \in Nat /\ pg \in Seq(Row) /\ n \in Nat /\ b \in Seq(Evt) /\ q \in Nat
      /\ c \in {"row", "flush"} /\ c \in Pcs /\ (~emit => c = "row")
  <2>1. /\ run \in RunType /\ run.page \in Seq(Row) /\ run.rows \in Nat /\ run.buf \in Seq(Evt)
        /\ run.bufLast \in Nat
    BY RunFields DEF Types
  <2>2. pg \in Seq(Row) /\ r \in Row
    BY <2>1, PageTail
  <2>3. k \in Nat
    BY <2>2, BackfillAssumption DEF Row
  <2>4. b \in Seq(Evt)
    BY <2>1, AppendElems
  <2> QED BY <2>1, <2>2, <2>3, <2>4 DEF Pcs
<1>3. emit => b = Append(run.buf, ReadEvent(r)) /\ q = k
  OBVIOUS
<1>4. ~emit => b = run.buf /\ q = run.bufLast
  OBVIOUS
<1> HIDE DEF k, b, q, c, pg, n
<1>5. /\ e \in RunType /\ e.page = pg /\ e.rows = n /\ e.last = k /\ e.limit = run.limit
      /\ e.cursor = run.cursor /\ e.lsn = run.lsn /\ e.snap = run.snap /\ e.status = run.status
      /\ e.buf = b /\ e.bufLast = q /\ e.pc = c
  BY <1>2 DEF RunType
<1> HIDE DEF e
<1> QED BY <1>1, <1>2, <1>3, <1>4, <1>5 DEF k, pg, n

LEMMA ScanRowInv ==
    ASSUME SnapInv, run.pc = "row", run.page # <<>>, NEW emit \in BOOLEAN, ScanRow(emit),
           ~emit => Superseded(Head(run.page).key),
           UNCHANGED <<dbVars, liveVars, st, idx, snapIDs, logVars>>
    PROVE  SnapInv'
<1>1. Types /\ RunShape /\ RunInv
  BY DEF SnapInv
<1>2. /\ UNCHANGED dbVars /\ UNCHANGED liveVars /\ UNCHANGED logVars
      /\ st' = st /\ idx' = idx /\ snapIDs' = snapIDs
  OBVIOUS
<1> DEFINE r == Head(run.page)
           x == ReadEvent(r)
           t == Tail(run.page)
<1>3. /\ run.page \in Seq(Row) /\ r \in Row /\ t \in Seq(Row) /\ Len(t) = Len(run.page) - 1
      /\ Len(run.page) \in Nat /\ 1 \in DOMAIN run.page /\ r = run.page[1]
      /\ \A j \in DOMAIN t : j + 1 \in DOMAIN run.page /\ t[j] = run.page[j + 1] /\ 1 < j + 1
      /\ DOMAIN t \subseteq Nat /\ Elems(run.page) = {r} \cup Elems(t)
  BY <1>1, RunFields, PageTail
<1>4. x \in Evt /\ ReadEv(x) /\ x.id[3] = run.snap /\ x.key = r.key /\ r.key \in Keys /\ r.key \in Nat
  BY <1>3, ReadEventOK, BackfillAssumption DEF At
<1>5. /\ run' \in RunType /\ run'.page = t /\ run'.rows = run.rows + 1
      /\ run'.last = r.key /\ run'.limit = run.limit
      /\ run'.cursor = run.cursor /\ run'.lsn = run.lsn /\ run'.snap = run.snap
      /\ run'.status = run.status
      /\ emit => run'.buf = Append(run.buf, x) /\ run'.bufLast = r.key /\ run'.pc \in {"row", "flush"}
      /\ ~emit => run'.buf = run.buf /\ run'.bufLast = run.bufLast /\ run'.pc = "row"
  BY <1>1, <1>3, <1>4, ScanRowFields
<1>6. run.buf \in Seq(Evt) /\ run.rows \in Nat /\ run.limit \in Nat /\ run.bufLast \in Nat
      /\ run.cursor \in Nat /\ run.last \in Nat
  BY <1>1, RunFields
<1>7. /\ Append(run.buf, x) \in Seq(Evt) /\ Append(run.buf, x) # <<>>
      /\ Elems(Append(run.buf, x)) = Elems(run.buf) \cup {x}
  BY <1>4, <1>6, AppendElems
<1> DEFINE B == Elems(run'.buf)
<1>8. /\ Elems(run.buf) \subseteq B /\ B \subseteq Elems(run.buf) \cup {x} /\ (emit => x \in B)
      /\ (run'.pc = "flush" => run'.buf # <<>>) /\ run'.pc \in {"row", "flush"}
  BY <1>5, <1>7
<1>9. /\ Moves /\ LiveOK' /\ EventsOK' /\ CallsOK' /\ StateOK' /\ IndexOK' /\ Types'
      /\ Steady' = Steady /\ (\A k : Old(k)' = Old(k) /\ Snapshotted(k)' = Snapshotted(k))
      /\ (\A k, v : Right(k, v)' = Right(k, v)) /\ (\A y : ReadEv(y)' = ReadEv(y))
  BY <1>1, <1>2, <1>5, RunOnly DEF Types, liveVars
<1> HIDE DEF r, x, t, B
<1>10. \A j \in DOMAIN t : t[j].key \in Nat
  <2>1. \A j \in DOMAIN t : t[j] \in Row
    BY <1>3
  <2>2. \A y \in Row : y.key \in Nat
    BY BackfillAssumption DEF Row
  <2> QED BY <2>1, <2>2
<1>11. RunShape'
  <2>1. \A y \in B : ReadEv(y)' /\ y.id[3] = run'.snap
    BY <1>1, <1>4, <1>5, <1>8, <1>9 DEF RunShape
  <2>2. \A y \in Elems(t) : Right(y.key, y.ver)'
    BY <1>1, <1>3, <1>9 DEF RunShape
  <2>3. call' = call
    BY <1>2 DEF logVars
  <2>4. run'.snap = st'.snap /\ run'.snap > 0 /\ run'.status = "running" /\ ~call'["backfill"].busy
    BY <1>1, <1>2, <1>5, <2>3 DEF RunShape, At
  <2> QED BY <1>5, <2>1, <2>2, <2>4 DEF RunShape, Elems, B
<1>12. RunInv'
  <2> SUFFICES ASSUME Steady' PROVE RunOK'
    BY DEF RunInv
  <2>1. Steady /\ RunOK
    BY <1>1, <1>9 DEF RunInv, At
  <2>2. BufOK /\ PageOK /\ run.cursor <= PageCursor
    BY <2>1 DEF RunOK
  <2>3. PageCursor' = r.key /\ r.key # 0 /\ PageCursor \in Nat
    BY <1>4, <1>5, <1>6, BackfillAssumption DEF PageCursor
  <2>4. r.key > PageCursor
    BY <1>3, <2>2 DEF PageOK
  <2>5. \A y \in Elems(t) : y.key > r.key
    <3>1. \A j \in DOMAIN t : t[j].key > r.key
      <4>1. \A j \in DOMAIN t : run.page[1].key < run.page[j + 1].key
        BY <1>3, <2>2 DEF PageOK
      <4>2. \A j \in DOMAIN t : r.key < t[j].key
        BY <1>3, <4>1
      <4> QED BY <1>4, <1>10, <4>2
    <3> QED BY <3>1 DEF Elems
  <2>6. ASSUME NEW k \in Keys, k <= r.key
        PROVE  Snapshotted(k) \/ \E y \in B : y.key = k
    <3>1. k \in Nat
      BY BackfillAssumption
    <3>2. CASE k <= PageCursor
      BY <1>8, <2>2, <2>6, <3>2 DEF BufOK
    <3>3. CASE k > PageCursor /\ k # r.key
      <4>1. \A y \in Elems(run.page) : y.key # k /\ ~(k > r.key)
        <5>1. \A y \in Elems(t) : y.key \in Nat
          BY <1>10 DEF Elems
        <5> QED BY <1>3, <1>4, <2>5, <2>6, <3>1, <3>3, <5>1
      <4>2. ~Old(k)
        <5>1. r \in Elems(run.page)
          BY <1>3
        <5> QED BY <2>2, <3>3, <4>1, <5>1 DEF PageOK
      <4> QED BY <4>2 DEF Snapshotted
    <3>4. CASE k = r.key /\ emit
      BY <1>4, <1>8, <3>4
    <3>5. CASE k = r.key /\ ~emit
      <4>1. ~Old(k)
        BY <2>1, <3>5, SupersededOK DEF At, r
      <4> QED BY <4>1 DEF Snapshotted
    <3> QED BY <2>3, <3>1, <3>2, <3>3, <3>4, <3>5
  <2>7. BufOK'
    <3>1. run'.buf # <<>> => run'.last # 0 /\ run'.bufLast <= run'.last
      <4>1. CASE emit
        BY <1>4, <1>5, <2>3, <4>1
      <4>2. CASE ~emit
        <5>1. run.buf # <<>> => run.bufLast <= PageCursor
          BY <1>6, <2>2 DEF BufOK, PageCursor
        <5> QED BY <1>4, <1>5, <1>6, <2>3, <2>4, <4>2, <5>1
      <4> QED BY <4>1, <4>2
    <3>2. \A k \in Keys : k <= r.key => Snapshotted(k)' \/ \E y \in B : y.key = k
      BY <1>9, <2>6
    <3>3. Elems(run.buf)' = B
      BY DEF B, Elems
    <3> QED BY <1>8, <2>3, <3>1, <3>2, <3>3 DEF BufOK, At
  <2>8. PageOK'
    <3>1. \A j, m \in DOMAIN t : j < m => t[j].key < t[m].key
      <4>1. \A j, m \in DOMAIN t : j < m => j + 1 < m + 1
        BY <1>3
      <4> QED BY <1>3, <2>2, <4>1 DEF PageOK
    <3>2. ASSUME NEW k \in Keys, k > r.key, Old(k)
          PROVE  \/ \E y \in Elems(t) : y.key = k
                 \/ run.rows + 1 + Len(t) >= run.limit /\ \A y \in Elems(t) : k > y.key
      <4>1. k \in Nat /\ k > PageCursor /\ k # r.key
        BY <1>4, <2>3, <2>4, <3>2, BackfillAssumption
      <4>2. \/ \E y \in Elems(run.page) : y.key = k
            \/ run.rows + Len(run.page) >= run.limit /\ \A y \in Elems(run.page) : k > y.key
        BY <2>2, <3>2, <4>1 DEF PageOK
      <4>3. run.rows + 1 + Len(t) = run.rows + Len(run.page)
        BY <1>3, <1>6
      <4> QED BY <1>3, <4>1, <4>2, <4>3
    <3>3. Elems(run.page)' = Elems(t)
      BY <1>5 DEF Elems
    <3> QED BY <1>5, <1>9, <2>3, <2>5, <3>1, <3>2, <3>3 DEF PageOK
  <2>9. LsnOK(run.lsn)'
    BY <1>2, <1>5, <2>1 DEF RunOK, LsnOK, dbVars
  <2>10. (\A k \in Keys : k <= run'.cursor => Snapshotted(k)') /\ run'.cursor <= PageCursor'
    BY <1>4, <1>5, <1>6, <1>9, <2>1, <2>2, <2>3, <2>4 DEF RunOK
  <2> QED BY <1>8, <2>7, <2>8, <2>9, <2>10 DEF RunOK, At
<1> QED BY <1>9, <1>11, <1>12 DEF SnapInv

LEMMA CheckRowInv ==
    ASSUME SnapInv, CheckRow \/ CheckRowFails
    PROVE  SnapInv'
<1>1. /\ run.pc = "row" /\ run.page # <<>>
      /\ UNCHANGED <<dbVars, liveVars, st, idx, snapIDs, logVars>>
      /\ ScanRow(TRUE) \/ ScanRow(~Superseded(Head(run.page).key))
  BY DEF CheckRow, CheckRowFails, At
<1>2. CASE ScanRow(TRUE)
  BY <1>1, <1>2, ScanRowInv
<1>3. CASE ScanRow(~Superseded(Head(run.page).key))
  <2> DEFINE emit == ~Superseded(Head(run.page).key)
  <2>1. emit \in BOOLEAN /\ (~emit => Superseded(Head(run.page).key)) /\ ScanRow(emit)
    BY <1>3
  <2> HIDE DEF emit
  <2> QED BY <1>1, <2>1, ScanRowInv
<1> QED BY <1>1, <1>2, <1>3

LEMMA FlushRestInv ==
    ASSUME SnapInv, FlushRest
    PROVE  SnapInv'
<1>1. Types /\ RunShape /\ RunInv
  BY DEF SnapInv
<1>2. /\ run.pc = "row" /\ run.buf # <<>> /\ run' = [run EXCEPT !.pc = "flush"]
      /\ UNCHANGED dbVars /\ UNCHANGED liveVars /\ UNCHANGED logVars
      /\ st' = st /\ idx' = idx /\ snapIDs' = snapIDs
  BY DEF FlushRest, At, Goto
<1>3. run' \in RunType /\ run'.pc = "flush" /\ run'.lsn = run.lsn /\ SameRows(run', run)
  <2>1. run \in RunType /\ "flush" \in Pcs
    BY <1>1 DEF Types, Pcs
  <2> QED BY <1>2, <2>1, RunGoes
<1>4. /\ Moves /\ LiveOK' /\ EventsOK' /\ CallsOK' /\ StateOK' /\ IndexOK' /\ Types'
      /\ Steady' = Steady /\ (\A k : Old(k)' = Old(k) /\ Snapshotted(k)' = Snapshotted(k))
      /\ (\A k, v : Right(k, v)' = Right(k, v)) /\ (\A y : ReadEv(y)' = ReadEv(y))
  BY <1>1, <1>2, <1>3, RunOnly DEF Types, liveVars
<1>5. call' = call /\ slotStart' = slotStart
  BY <1>2 DEF logVars, dbVars
<1>6. RunShape'
  BY <1>1, <1>2, <1>3, <1>4, <1>5 DEF RunShape, SameRows, Elems, At
<1>7. RunInv'
  <2> SUFFICES ASSUME Steady' PROVE RunOK'
    BY DEF RunInv
  <2>1. RunOK /\ BufOK /\ PageOK
    BY <1>1, <1>2, <1>4 DEF RunInv, RunOK, At
  <2>2. PageCursor' = PageCursor /\ Elems(run.buf)' = Elems(run.buf) /\ Elems(run.page)' = Elems(run.page)
    BY <1>3 DEF PageCursor, Elems, SameRows
  <2>3. BufOK'
    BY <1>2, <1>3, <1>4, <2>1, <2>2 DEF BufOK, SameRows
  <2>4. PageOK'
    BY <1>3, <1>4, <2>1, <2>2 DEF PageOK, SameRows
  <2>5. \A k \in Keys : k <= run'.cursor => Snapshotted(k)'
    BY <1>3, <1>4, <2>1 DEF RunOK, SameRows
  <2> QED BY <1>3, <1>5, <2>1, <2>2, <2>3, <2>4, <2>5 DEF RunOK, At, SameRows, LsnOK
<1> QED BY <1>4, <1>6, <1>7 DEF SnapInv

LEMMA FlushInv ==
    ASSUME SnapInv, Flush
    PROVE  SnapInv'
<1>1. Types /\ EventsOK /\ CallsOK /\ StateOK /\ IndexOK /\ RunShape /\ RunInv
  BY DEF SnapInv
<1>2. /\ run.pc = "flush" /\ run' = [run EXCEPT !.pc = "flushing"] /\ Prepare("backfill", run.buf)
      /\ UNCHANGED dbVars /\ UNCHANGED liveVars /\ st' = st /\ idx' = idx /\ snapIDs' = snapIDs
  BY DEF Flush, At, Goto
<1>3. run' \in RunType /\ run'.pc = "flushing" /\ run'.lsn = run.lsn /\ SameRows(run', run)
  <2>1. run \in RunType /\ "flushing" \in Pcs
    BY <1>1 DEF Types, Pcs
  <2> QED BY <1>2, <2>1, RunGoes
<1>4. run.buf \in Seq(Evt)
  BY <1>1, RunFields
<1>5. /\ nextSeq' \in [Partitions -> Nat] /\ call' \in [Writers -> CallType] /\ log' = log
      /\ call'["wal"] = call["wal"]
  BY <1>1, <1>2, <1>4, PrepareOK, TwoWriters
<1>6. /\ Moves /\ SnapMoves /\ LiveOK' /\ Entries' = Entries /\ Steady' = Steady
      /\ (\A k : Old(k)' = Old(k) /\ Snapshotted(k)' = Snapshotted(k))
      /\ (\A k, v : Right(k, v)' = Right(k, v)) /\ (\A y : ReadEv(y)' = ReadEv(y))
  BY <1>2, <1>5, RunAlone DEF liveVars
<1>7. /\ EventsOK' /\ CallsOK' /\ EvsOf(call'["backfill"].items) = Elems(run.buf)
  <2>1. \A x \in Elems(run.buf) : EventOK(x)
    BY <1>1 DEF RunShape, EventOK
  <2> QED BY <1>1, <1>2, <1>4, <1>6, <2>1, PrepareEvents, TwoWriters
<1>8. Types'
  BY <1>1, <1>2, <1>3, <1>5 DEF Types, dbVars, liveVars
<1>9. StateOK' /\ IndexOK'
  BY <1>1, <1>2, <1>6, StateStays, IndexStays
<1>10. RunShape'
  BY <1>1, <1>2, <1>3, <1>6 DEF RunShape, SameRows, Elems, At
<1>11. RunInv'
  <2> SUFFICES ASSUME Steady' PROVE RunOK'
    BY DEF RunInv
  <2>1. RunOK /\ BufOK /\ PageOK
    BY <1>1, <1>2, <1>6 DEF RunInv, RunOK, At
  <2>2. PageCursor' = PageCursor /\ Elems(run.buf)' = Elems(run.buf) /\ Elems(run.page)' = Elems(run.page)
    BY <1>3 DEF PageCursor, Elems, SameRows
  <2>3. BufOK'
    BY <1>2, <1>3, <1>6, <2>1, <2>2 DEF BufOK, SameRows, At
  <2>4. PageOK'
    BY <1>3, <1>6, <2>1, <2>2 DEF PageOK, SameRows
  <2>5. \A k \in Keys : k <= run'.cursor => Snapshotted(k)'
    BY <1>3, <1>6, <2>1 DEF RunOK, SameRows
  <2>6. \A x \in Elems(run.buf) : x.id \in ItemIds(call["backfill"].items)'
    <3>1. ItemIds(call["backfill"].items)' = {x.id : x \in EvsOf(call'["backfill"].items)}
      BY DEF ItemIds, EvsOf
    <3> QED BY <1>7, <3>1
  <2>7. slotStart' = slotStart
    BY <1>2 DEF dbVars
  <2> QED BY <1>3, <2>1, <2>2, <2>3, <2>4, <2>5, <2>6, <2>7 DEF RunOK, At, SameRows, LsnOK
<1> QED BY <1>6, <1>7, <1>8, <1>9, <1>10, <1>11 DEF SnapInv

LEMMA EmitControlInv ==
    ASSUME SnapInv, EmitControl
    PROVE  SnapInv'
<1>1. Types /\ EventsOK /\ CallsOK /\ StateOK /\ IndexOK /\ RunShape /\ RunInv
  BY DEF SnapInv
<1> DEFINE evs == <<ControlEvent>>
<1>2. /\ run.pc = "control" /\ run' = [run EXCEPT !.pc = "controlling"] /\ Prepare("backfill", evs)
      /\ UNCHANGED dbVars /\ UNCHANGED liveVars /\ st' = st /\ idx' = idx /\ snapIDs' = snapIDs
  BY DEF EmitControl, At, Goto
<1>3. run' \in RunType /\ run'.pc = "controlling" /\ run'.lsn = run.lsn /\ SameRows(run', run)
  <2>1. run \in RunType /\ "controlling" \in Pcs
    BY <1>1 DEF Types, Pcs
  <2> QED BY <1>2, <2>1, RunGoes
<1>4. evs \in Seq(Evt) /\ \A x \in Elems(evs) : EventOK(x)
  <2>1. run.snap \in Nat
    BY <1>1, RunFields
  <2>2. ControlEvent \in Evt /\ ControlEv(ControlEvent)
    BY <2>1 DEF ControlEvent, Evt, Id, ControlEv
  <2>3. Elems(evs) = {ControlEvent}
    BY DEF Elems
  <2> QED BY <2>2, <2>3 DEF EventOK
<1> HIDE DEF evs
<1>5. /\ nextSeq' \in [Partitions -> Nat] /\ call' \in [Writers -> CallType] /\ log' = log
      /\ call'["wal"] = call["wal"]
  BY <1>1, <1>2, <1>4, PrepareOK, TwoWriters
<1>6. /\ Moves /\ SnapMoves /\ LiveOK' /\ Entries' = Entries /\ Steady' = Steady
      /\ (\A k : Old(k)' = Old(k) /\ Snapshotted(k)' = Snapshotted(k))
      /\ (\A k, v : Right(k, v)' = Right(k, v)) /\ (\A y : ReadEv(y)' = ReadEv(y))
  BY <1>2, <1>5, RunAlone DEF liveVars
<1>7. EventsOK' /\ CallsOK'
  BY <1>1, <1>2, <1>4, <1>6, PrepareEvents, TwoWriters
<1>8. Types'
  BY <1>1, <1>2, <1>3, <1>5 DEF Types, dbVars, liveVars
<1>9. StateOK' /\ IndexOK'
  BY <1>1, <1>2, <1>6, StateStays, IndexStays
<1>10. RunShape'
  BY <1>1, <1>2, <1>3, <1>6 DEF RunShape, SameRows, Elems, At
<1>11. RunInv'
  <2> SUFFICES ASSUME Steady' PROVE RunOK'
    BY DEF RunInv
  <2>1. RunOK /\ \A k \in Keys : Snapshotted(k)
    BY <1>1, <1>2, <1>6 DEF RunInv, RunOK, At
  <2>2. PageCursor' = PageCursor /\ slotStart' = slotStart
    BY <1>2, <1>3 DEF PageCursor, SameRows, dbVars
  <2> QED BY <1>3, <1>6, <2>1, <2>2 DEF RunOK, At, SameRows, LsnOK
<1> QED BY <1>6, <1>7, <1>8, <1>9, <1>10, <1>11 DEF SnapInv

\* What is saved is of the snapshot that is being taken.
LEMMA SavedOK ==
    ASSUME Types, RunShape, ~At("idle")
    PROVE  /\ Saved \in StType /\ Saved.snap = st.snap /\ Saved.lsn = run.lsn
           /\ Saved.status = "running" /\ Saved.cursor = run.cursor
<1>1. /\ run.status = "running" /\ run.snap = st.snap /\ run.cursor \in Nat /\ run.lsn \in Nat
      /\ run.snap \in Nat
  BY RunFields DEF RunShape
<1> QED BY <1>1 DEF Saved, StType

\* Once the flush has returned, the buffered rows are in the log: each by its own
\* event, or by an earlier one of the same row and snapshot.
LEMMA FlushedRows ==
    ASSUME Types, EventsOK, CallsOK, RunShape, RunOK, Steady, At("flushing"),
           AppendReturns("backfill"), NEW k \in Keys, k <= PageCursor
    PROVE  Snapshotted(k)
<1>1. BufOK /\ \A x \in Elems(run.buf) : x.id \in ItemIds(call["backfill"].items)
  BY DEF RunOK, At
<1>2. SUFFICES ASSUME NEW x \in Elems(run.buf), x.key = k PROVE Snapshotted(k)
  BY <1>1 DEF BufOK
<1>3. x.id \in Known
  BY <1>1, <1>2, ReturnedInLog, TwoWriters
<1>4. PICK e \in Entries : e.ev.id = x.id
  BY <1>3 DEF Known
<1> DEFINE y == e.ev
<1>5. EventOK(y) /\ y.id = x.id
  BY <1>4 DEF EventsOK, Logged
<1>6. /\ ReadEv(x) /\ x.id[3] = run.snap /\ run.snap = st.snap
      /\ x.id[1] = "read" /\ x.id[2] = k
  BY <1>2 DEF RunShape, ReadEv, At
<1> HIDE DEF y
<1>7. ReadEv(y)
  BY <1>5, <1>6 DEF EventOK, LiveEv, ControlEv
<1>8. y.key = k /\ Right(k, y.ver)
  BY <1>5, <1>6, <1>7 DEF ReadEv
<1> QED BY <1>4, <1>8 DEF Snapshotted, Old, Right, y

LEMMA BackfillReturnsInv ==
    ASSUME SnapInv, BackfillReturns
    PROVE  SnapInv'
<1>1. Types /\ EventsOK /\ CallsOK /\ StateOK /\ IndexOK /\ RunShape /\ RunInv
  BY DEF SnapInv
<1>2. /\ AppendReturns("backfill") /\ UNCHANGED dbVars /\ UNCHANGED liveVars
      /\ idx' = idx /\ snapIDs' = snapIDs
  BY DEF BackfillReturns
<1>3. Return("backfill") /\ call["backfill"].busy
  BY <1>2 DEF AppendReturns
<1>4. /\ call' \in [Writers -> CallType] /\ log' = log /\ nextSeq' = nextSeq
      /\ call'["backfill"] = NoCall /\ call'["wal"] = call["wal"]
      /\ \A w \in Writers : call'[w] = call[w] \/ call'[w] = NoCall
  BY <1>1, <1>3, ReturnOK, TwoWriters
<1>5. run.pc \in {"flushing", "controlling"} /\ ~At("idle") /\ run.snap = st.snap /\ run.status = "running"
  BY <1>1, <1>3 DEF RunShape, At
<1>6. slotStart' = slotStart /\ ~call'["backfill"].busy
  BY <1>2, <1>4, NoCallOK DEF dbVars
<1>7. CASE At("flushing")
  <2> DEFINE l == run.bufLast
             e == [run EXCEPT !.pc = "row", !.cursor = l, !.buf = <<>>, !.bufLast = 0]
  <2>1. st' = st /\ run' = e
    BY <1>7 DEF BackfillReturns
  <2>2. run \in RunType /\ "row" \in Pcs /\ l \in Nat /\ run.last \in Nat /\ <<>> \in Seq(Evt)
    BY <1>1, RunFields DEF Types, Pcs
  <2> HIDE DEF l
  <2>3. /\ e \in RunType /\ e.pc = "row" /\ e.cursor = l /\ e.buf = <<>> /\ e.bufLast = 0
        /\ e.page = run.page /\ e.last = run.last /\ e.limit = run.limit /\ e.rows = run.rows
        /\ e.lsn = run.lsn /\ e.snap = run.snap /\ e.status = run.status
    BY <2>2 DEF RunType
  <2> HIDE DEF e
  <2>4. /\ Moves /\ SnapMoves /\ LiveOK' /\ Entries' = Entries /\ Steady' = Steady
        /\ (\A k : Old(k)' = Old(k) /\ Snapshotted(k)' = Snapshotted(k))
        /\ (\A k, v : Right(k, v)' = Right(k, v)) /\ (\A y : ReadEv(y)' = ReadEv(y))
    BY <1>2, <1>4, <2>1, RunAlone DEF liveVars
  <2>5. EventsOK' /\ CallsOK'
    BY <1>1, <1>4, <2>4, CallsStay
  <2>6. Types'
    BY <1>1, <1>2, <1>4, <2>1, <2>3 DEF Types, dbVars, liveVars
  <2>7. StateOK' /\ IndexOK'
    BY <1>1, <1>2, <2>1, <2>4, StateStays, IndexStays
  <2>8. Elems(<<>>) = {}
    BY DEF Elems
  <2>9. RunShape'
    BY <1>1, <1>5, <1>6, <2>1, <2>3, <2>4, <2>8 DEF RunShape, Elems, At
  <2>10. RunInv'
    <3> SUFFICES ASSUME Steady' PROVE RunOK'
      BY DEF RunInv
    <3>1. Steady /\ RunOK /\ BufOK /\ PageOK
      BY <1>1, <1>5, <1>7, <2>4 DEF RunInv, RunOK, At
    <3>2. \A k \in Keys : k <= PageCursor => Snapshotted(k)
      BY <1>1, <1>2, <1>7, <3>1, FlushedRows
    <3>3. run.last # 0 /\ l <= run.last /\ PageCursor = run.last
      BY <1>7, <3>1 DEF BufOK, PageCursor, At, l
    <3>4. PageCursor' = PageCursor /\ run'.cursor <= PageCursor'
      BY <2>1, <2>3, <3>3 DEF PageCursor
    <3>5. \A k \in Keys : k \in Nat
      BY BackfillAssumption
    <3>6. \A k \in Keys : k <= run'.cursor => Snapshotted(k)'
      BY <2>1, <2>2, <2>3, <2>4, <3>2, <3>3, <3>5
    <3>7. BufOK'
      BY <2>1, <2>3, <2>4, <3>2, <3>4 DEF BufOK, At
    <3>8. PageOK'
      BY <2>1, <2>3, <2>4, <3>1, <3>4 DEF PageOK, Elems
    <3>9. LsnOK(run.lsn)'
      BY <1>6, <2>1, <2>3, <3>1 DEF RunOK, LsnOK
    <3> QED BY <2>1, <2>3, <3>4, <3>6, <3>7, <3>8, <3>9 DEF RunOK, At
  <2> QED BY <2>4, <2>5, <2>6, <2>7, <2>9, <2>10 DEF SnapInv
<1>8. CASE ~At("flushing")
  <2> DEFINE t == [Saved EXCEPT !.status = "completed"]
  <2>1. st' = t /\ run' = NoRun /\ run.pc = "controlling"
    BY <1>5, <1>8 DEF BackfillReturns, At
  <2>2. t \in StType /\ t.snap = st.snap /\ t.lsn = run.lsn /\ t.status = "completed"
    BY <1>1, <1>5, SavedOK DEF StType
  <2> HIDE DEF t
  <2>3. /\ Moves /\ SnapMoves /\ LiveOK' /\ Entries' = Entries /\ Steady' = Steady
        /\ (\A k : Old(k)' = Old(k) /\ Snapshotted(k)' = Snapshotted(k))
    BY <1>2, <1>4, <2>1, <2>2, RunAlone DEF liveVars
  <2>4. EventsOK' /\ CallsOK'
    BY <1>1, <1>4, <2>3, CallsStay
  <2>5. Types'
    BY <1>1, <1>2, <1>4, <2>1, <2>2, NoRunOK DEF Types, dbVars, liveVars
  <2>6. IndexOK'
    BY <1>1, <1>2, <2>3, IndexStays
  <2>7. StateOK'
    <3>1. Steady => LsnOK(run.lsn) /\ \A k \in Keys : Snapshotted(k)
      BY <1>1, <1>5, <2>1 DEF RunInv, RunOK
    <3>2. Steady' => LsnOK(st.lsn)'
      BY <1>6, <2>1, <2>2, <2>3, <3>1 DEF LsnOK
    <3> QED BY <1>1, <1>2, <2>1, <2>2, <2>3, <3>1, <3>2 DEF StateOK
  <2>8. RunShape' /\ RunInv'
    BY <1>6, <2>1, NoRunOK, RunEnded
  <2> QED BY <2>3, <2>4, <2>5, <2>6, <2>7, <2>8 DEF SnapInv
<1> QED BY <1>7, <1>8

LEMMA EndPageInv ==
    ASSUME SnapInv, EndPage
    PROVE  SnapInv'
<1>1. Types /\ StateOK /\ IndexOK /\ RunShape /\ RunInv
  BY DEF SnapInv
<1> DEFINE full == run.rows >= run.limit
           c == PageCursor
           p == IF full THEN "query" ELSE "control"
           e == [run EXCEPT !.cursor = c, !.limit = 0, !.rows = 0, !.last = 0, !.pc = p]
           t == [Saved EXCEPT !.cursor = c]
<1>2. /\ run.pc = "row" /\ run.page = <<>> /\ run.buf = <<>> /\ run' = e /\ st' = t
      /\ idx' = idx \/ idx' = NoIndex
      /\ UNCHANGED dbVars /\ UNCHANGED liveVars /\ UNCHANGED logVars /\ snapIDs' = snapIDs
  BY DEF EndPage, At
<1>3. /\ run \in RunType /\ run.last \in Nat /\ c \in Nat /\ p \in Pcs /\ run.snap = st.snap
      /\ run.status = "running" /\ run.snap > 0 /\ run.rows \in Nat /\ run.limit \in Nat
  BY <1>1, <1>2, RunFields DEF Types, PageCursor, Pcs, RunShape, At
<1>4. (p = "query" \/ p = "control") /\ (p = "control" => run.rows < run.limit)
  BY <1>3
<1> HIDE DEF c, p
<1>5. /\ e \in RunType /\ e.cursor = c /\ e.last = 0 /\ e.pc = p /\ e.buf = run.buf
      /\ e.page = run.page /\ e.lsn = run.lsn /\ e.snap = run.snap /\ e.status = run.status
  BY <1>3 DEF RunType
<1>6. t \in StType /\ t.snap = st.snap /\ t.lsn = run.lsn /\ t.status = "running" /\ t.cursor = c
  BY <1>1, <1>2, <1>3, SavedOK DEF StType, At
<1> HIDE DEF e, t
<1>7. idx' \in IdxType
  BY <1>1, <1>2, NoIndexType DEF Types
<1>8. /\ Moves /\ LiveOK' /\ EventsOK' /\ CallsOK' /\ Types' /\ Entries' = Entries
      /\ Steady' = Steady /\ (\A k : Old(k)' = Old(k) /\ Snapshotted(k)' = Snapshotted(k))
      /\ (\A k, v : Right(k, v)' = Right(k, v)) /\ (\A y : ReadEv(y)' = ReadEv(y))
      /\ (idx' = idx => IndexOK')
  BY <1>1, <1>2, <1>5, <1>6, <1>7, RunOnly DEF Types, liveVars
<1>9. IndexOK'
  BY <1>2, <1>8, NoIndexOK
<1>10. Elems(<<>>) = {} /\ Len(<<>>) = 0
  BY DEF Elems
<1>11. slotStart' = slotStart /\ call' = call
  BY <1>2 DEF dbVars, logVars
<1>12. Steady => /\ LsnOK(run.lsn) /\ (\A k \in Keys : k <= c => Snapshotted(k))
                 /\ (p = "control" => \A k \in Keys : Snapshotted(k))
  <2> SUFFICES ASSUME Steady
               PROVE  /\ LsnOK(run.lsn) /\ (\A k \in Keys : k <= c => Snapshotted(k))
                      /\ (p = "control" => \A k \in Keys : Snapshotted(k))
    OBVIOUS
  <2>1. RunOK /\ BufOK /\ PageOK
    BY <1>1, <1>2 DEF RunInv, RunOK, At
  <2>2. \A k \in Keys : k <= c => Snapshotted(k)
    BY <1>2, <1>10, <2>1 DEF BufOK, c
  <2>3. ASSUME p = "control", NEW k \in Keys PROVE Snapshotted(k)
    <3>1. k \in Nat
      BY BackfillAssumption
    <3>2. CASE k <= c
      BY <2>2, <3>2
    <3>3. CASE k > c
      <4>1. ~Old(k)
        BY <1>2, <1>3, <1>4, <1>10, <2>1, <2>3, <3>3 DEF PageOK, c
      <4> QED BY <4>1 DEF Snapshotted
    <3> QED BY <1>3, <3>1, <3>2, <3>3
  <2>4. LsnOK(run.lsn)
    BY <2>1 DEF RunOK
  <2> QED BY <2>2, <2>3, <2>4
<1>13. StateOK'
  <2>1. Steady' => LsnOK(st.lsn)'
    BY <1>2, <1>6, <1>8, <1>11, <1>12 DEF LsnOK
  <2> QED BY <1>1, <1>2, <1>6, <1>8, <1>12, <2>1 DEF StateOK
<1>14. RunShape'
  <2>1. ~call["backfill"].busy
    BY <1>1, <1>2 DEF RunShape
  <2> QED BY <1>2, <1>3, <1>4, <1>5, <1>6, <1>10, <1>11, <2>1 DEF RunShape, At, Elems
<1>15. RunInv'
  <2>1. PageCursor' = c
    BY <1>2, <1>5 DEF PageCursor
  <2>2. Steady' => LsnOK(run.lsn)'
    BY <1>2, <1>5, <1>8, <1>11, <1>12 DEF LsnOK
  <2> QED BY <1>2, <1>3, <1>4, <1>5, <1>8, <1>12, <2>1, <2>2 DEF RunInv, RunOK, At
<1> QED BY <1>8, <1>9, <1>13, <1>14, <1>15 DEF SnapInv

-----------------------------------------------------------------------------
(* The invariant holds, and what it says of the snapshot.                   *)

LEMMA InitInv == Init => SnapInv
<1> SUFFICES ASSUME Init PROVE SnapInv
  OBVIOUS
<1>1. /\ wal = <<>> /\ slotStart = 0 /\ wcur = 0 /\ conn = "down" /\ run = NoRun /\ idx = NoIndex
      /\ snapIDs = 0 /\ st = [FirstState EXCEPT !.status = "none"]
      /\ log = [p \in Partitions |-> {}] /\ nextSeq = [p \in Partitions |-> 1]
      /\ call = [w \in Writers |-> NoCall]
  BY DEF Init, LogInit
<1>2. st \in StType /\ st.snap = 0 /\ st.status = "none" /\ st.cursor = 0 /\ st.lsn = 0
  BY <1>1 DEF FirstState, StType
<1>3. Types
  BY <1>1, <1>2, NoRunOK, NoIndexType, NoCallOK DEF Types
<1>4. Entries = {} /\ Logged = {} /\ Len(wal) = 0
  BY <1>1 DEF Entries, Logged
<1>5. \A w \in Writers : call[w] = NoCall /\ Committed(call[w]) /\ ~call[w].busy
  BY <1>1, NoCallOK, NothingCommitted
<1>6. EventsOK /\ CallsOK
  <2>1. EvsOf(NoCall.items) = {}
    BY NoCallOK DEF EvsOf
  <2>2. Sent = {}
    BY <1>5, <2>1 DEF Sent
  <2> QED BY <1>4, <1>5, <2>2 DEF EventsOK, CallsOK
<1>7. LiveOK
  <2>1. (0 + 1)..0 = {}
    OBVIOUS
  <2> QED BY <1>1, <1>4, <1>5, <2>1, TwoWriters DEF LiveOK
<1>8. StateOK
  <2>1. \A k \in Keys : ~(k <= 0)
    BY BackfillAssumption
  <2> QED BY <1>1, <1>2, <2>1 DEF StateOK, LsnOK
<1>9. IndexOK /\ RunShape /\ RunInv
  <2>1. Elems(<<>>) = {}
    BY DEF Elems
  <2>2. ~call["backfill"].busy
    BY <1>5, TwoWriters
  <2> QED BY <1>1, <2>1, <2>2, NoRunOK DEF IndexOK, NoIndex, RunShape, RunInv, At
<1> QED BY <1>3, <1>6, <1>7, <1>8, <1>9 DEF SnapInv

LEMMA UnmovedInv ==
    ASSUME SnapInv, UNCHANGED vars
    PROVE  SnapInv'
<1>1. Types /\ EventsOK /\ CallsOK /\ LiveOK /\ StateOK /\ IndexOK /\ RunShape /\ RunInv
  BY DEF SnapInv
<1>2. /\ UNCHANGED dbVars /\ UNCHANGED liveVars /\ UNCHANGED logVars
      /\ st' = st /\ run' = run /\ idx' = idx /\ snapIDs' = snapIDs /\ call' = call
  BY DEF vars, dbVars, liveVars, logVars
<1>3. /\ Moves /\ LiveOK' /\ EventsOK' /\ CallsOK' /\ StateOK' /\ IndexOK' /\ Types'
  BY <1>1, <1>2, RunOnly DEF Types, liveVars
<1>4. RunShape' /\ RunInv'
  BY <1>1, <1>2, <1>3, RunStays
<1> QED BY <1>3, <1>4 DEF SnapInv

LEMMA NextInv == SnapInv /\ [Next]_vars => SnapInv'
<1> SUFFICES ASSUME SnapInv, [Next]_vars PROVE SnapInv'
  OBVIOUS
<1>1. CASE RunStep
  BY <1>1, RunStartsInv, AssignLSNInv, RegisterIndexInv, ScanPartitionInv, QueryPageInv,
     CheckRowInv, FlushRestInv, FlushInv, EmitControlInv, BackfillReturnsInv, EndPageInv DEF RunStep
<1>2. CASE Faults
  BY <1>2, AssignLSNInv, ScanFailsInv, CheckRowInv, RunFailsInv, ConnectSlotLostInv,
     DisconnectInv, CrashInv DEF Faults
<1>3. CASE Commit \/ Connect \/ ResetForSlotLoss \/ LiveAppend \/ LiveReturns \/ CommitChunks
  BY <1>3, CommitInv, ConnectInv, ResetForSlotLossInv, LiveAppendInv, LiveReturnsInv,
     CommitChunksInv
<1>4. CASE UNCHANGED vars
  BY <1>4, UnmovedInv
<1> QED BY <1>1, <1>2, <1>3, <1>4 DEF Next

LEMMA InvSnapshot == SnapInv => SnapshotComplete
<1> SUFFICES ASSUME SnapInv, conn = "up", NEW k \in Keys,
                    st.status = "completed" \/ k <= st.cursor,
                    Present(k, Len(wal)), V(k) <= wcur
             PROVE  \E e \in Entries : e.ev.key = k /\ e.ev.ver = V(k)
  BY DEF SnapshotComplete, Covered, V
<1>1. Types /\ EventsOK /\ LiveOK /\ StateOK
  BY DEF SnapInv
<1>2. CASE V(k) <= slotStart
  <2>1. Snapshotted(k) /\ Old(k)
    BY <1>1, <1>2 DEF StateOK, Steady, Old
  <2> QED BY <2>1 DEF Snapshotted
<1>3. CASE ~(V(k) <= slotStart)
  <2>1. V(k) \in Nat /\ slotStart \in Nat /\ wcur \in Nat /\ Len(wal) \in Nat
    BY <1>1, VersionType DEF Types
  <2>2. V(k) \in (slotStart + 1)..wcur /\ V(k) # 0
    BY <1>3, <2>1
  <2>3. k \in wal[V(k)].keys
    BY <2>1, <2>2, VersionOK DEF V
  <2>4. <<"wal", k, V(k)>> \in Known
    BY <1>1, <2>2, <2>3 DEF LiveOK
  <2>5. PICK e \in Entries : e.ev.id = <<"wal", k, V(k)>>
    BY <2>4 DEF Known
  <2> DEFINE x == e.ev
  <2>6. EventOK(x) /\ x.id[1] = "wal" /\ x.id[2] = k /\ x.id[3] = V(k)
    BY <1>1, <2>5 DEF EventsOK, Logged
  <2> HIDE DEF x
  <2>7. x.key = k /\ x.ver = V(k)
    BY <2>6 DEF EventOK, ReadEv, LiveEv, ControlEv
  <2> QED BY <2>7 DEF x
<1> QED BY <1>2, <1>3

\* BKF-03 and SRC-06: behind the saved cursor of a snapshot, and in the whole table
\* once it is completed, every row is in the log in its current version, unless the
\* stream has still to bring it; for any pages, crashes, lost sessions and lost slots.
THEOREM SnapshotAlwaysComplete == Spec => []SnapshotComplete
<1>1. Spec => []SnapInv
  BY InitInv, NextInv, PTL DEF Spec
<1> QED BY <1>1, InvSnapshot, PTL

-----------------------------------------------------------------------------
(* LOG-03: with appendMu the log grows only at its end.                      *)

\* The items of a call are numbered upwards, below the next numbers N, and those
\* still to be committed are numbered after the entries of the log L.
Rising(items, N) ==
    \A j \in DOMAIN items :
        /\ items[j].seq < N[PartOf(items[j].ev)]
        /\ \A k \in DOMAIN items :
             j < k /\ PartOf(items[j].ev) = PartOf(items[k].ev) => items[j].seq < items[k].seq
Behind(items, n, L) ==
    \A k \in DOMAIN items : k > n =>
        \A it \in L[PartOf(items[k].ev)] : it.seq < items[k].seq

\* Only the holder of appendMu is in a call.
SeqInv ==
    /\ \A w \in Writers : call[w].busy =>
          /\ w \in appendMu /\ Rising(call[w].items, nextSeq)
          /\ Behind(call[w].items, call[w].done, log)
    /\ \A v, w \in appendMu : v = w
    /\ \A p \in Partitions : \A it \in log[p] : it.seq < nextSeq[p]

\* Calls end, or nothing happens to the log.
Quiet ==
    /\ log' = log /\ nextSeq' = nextSeq /\ appendMu' \subseteq appendMu
    /\ \A w \in Writers :
          \/ call'[w] = NoCall
          \/ call'[w] = call[w] /\ (w \in appendMu => w \in appendMu')

LEMMA UnmovedQuiet == UNCHANGED logVars => Quiet
BY DEF logVars, Quiet

LEMMA ReturnQuiet ==
    ASSUME Types, NEW w \in Writers, Return(w)
    PROVE  Quiet
<1>1. /\ log' = log /\ nextSeq' = nextSeq /\ call'[w] = NoCall
      /\ \A d \in Writers \ {w} : call'[d] = call[d]
  BY ReturnOK
<1>2. appendMu' = appendMu \ {w} /\ ~NoCall.busy
  BY NoCallOK DEF Return
<1> QED BY <1>1, <1>2 DEF Quiet

LEMMA ReopenQuiet ==
    ASSUME Reopen
    PROVE  Quiet
BY NoCallOK DEF Reopen, Quiet

\* A transaction changes a row once.
LEMMA LiveEventsFew ==
    ASSUME Types, NEW i \in 1..Len(wal)
    PROVE  Len(LiveEvents(i)) <= Cardinality(Keys)
<1> DEFINE K == wal[i].keys
           ks == InKeyOrder(K)
<1>1. K \in SUBSET Keys
  BY Transactions DEF Types
<1> HIDE DEF K
<1>2. Len(ks) = Cardinality(K) /\ Len(ks) \in Nat /\ DOMAIN ks = 1..Len(ks)
  BY <1>1, InKeyOrderOK
<1>3. Cardinality(K) <= Cardinality(Keys)
  BY <1>1, FS_Subset, BackfillAssumption
<1> HIDE DEF ks
<1>4. DOMAIN LiveEvents(i) = 1..Len(ks)
  BY <1>2 DEF LiveEvents, K, ks
<1>5. LiveEvents(i) \in Seq(Evt)
  BY LiveEventsOK
<1>6. Len(LiveEvents(i)) \in Nat /\ DOMAIN LiveEvents(i) = 1..Len(LiveEvents(i))
  BY <1>5
<1>7. Len(LiveEvents(i)) = Len(ks)
  BY <1>2, <1>4, <1>6
<1> QED BY <1>2, <1>3, <1>7

\* All that the steps of the program do to the log.
LEMMA LogSteps ==
    ASSUME SnapInv, [Next]_vars
    PROVE  \/ Quiet
           \/ \E evs \in Seq(Evt) : Prepare("wal", evs) /\ Len(evs) <= Cardinality(Keys)
           \/ \E evs \in Seq(Evt) :
                 Prepare("backfill", evs) /\ \A x \in Elems(evs) : x.lsn = 0
           \/ \E w \in Writers : CommitChunk(w)
<1>1. Types /\ LiveOK /\ RunShape
  BY DEF SnapInv
<1>2. CASE LiveAppend
  <2>1. wcur + 1 \in 1..Len(wal)
    BY <1>1, <1>2 DEF Types, LiveAppend
  <2>2. LiveEvents(wcur + 1) \in Seq(Evt) /\ Len(LiveEvents(wcur + 1)) <= Cardinality(Keys)
    BY <1>1, <2>1, LiveEventsOK, LiveEventsFew
  <2> QED BY <1>2, <2>2 DEF LiveAppend
<1>3. CASE Flush
  <2>1. run.buf \in Seq(Evt) /\ \A x \in Elems(run.buf) : x.lsn = 0
    BY <1>1, RunFields DEF RunShape, ReadEv
  <2> QED BY <1>3, <2>1 DEF Flush
<1>4. CASE EmitControl
  <2>1. run.snap \in Nat
    BY <1>1, RunFields
  <2>2. ControlEvent \in Evt /\ ControlEvent.lsn = 0
    BY <2>1 DEF ControlEvent, Evt, Id
  <2>3. <<ControlEvent>> \in Seq(Evt) /\ Elems(<<ControlEvent>>) = {ControlEvent}
    BY <2>2 DEF Elems
  <2> QED BY <1>4, <2>2, <2>3 DEF EmitControl
<1>5. CASE CommitChunks
  BY <1>5 DEF CommitChunks
<1>6. CASE LiveReturns \/ BackfillReturns
  BY <1>1, <1>6, ReturnQuiet, TwoWriters DEF LiveReturns, BackfillReturns, AppendReturns
<1>7. CASE Disconnect \/ RunFails
  BY <1>1, <1>7, ReturnQuiet, UnmovedQuiet, TwoWriters DEF Disconnect, RunFails, AppendFails
<1>8. CASE Crash
  BY <1>8, ReopenQuiet DEF Crash
<1>9. CASE \/ RunStarts \/ AssignLSN \/ RegisterIndex \/ ScanPartition \/ QueryPage
           \/ CheckRow \/ FlushRest \/ EndPage
  <2>1. CASE RunStarts
    BY <2>1, UnmovedQuiet DEF RunStarts
  <2>2. CASE AssignLSN \/ RegisterIndex \/ ScanPartition
    BY <2>2, UnmovedQuiet DEF AssignLSN, RegisterIndex, ScanPartition
  <2>3. CASE QueryPage
    BY <2>3, UnmovedQuiet DEF QueryPage
  <2>4. CASE CheckRow \/ FlushRest
    BY <2>4, UnmovedQuiet DEF CheckRow, FlushRest
  <2>5. CASE EndPage
    BY <2>5, UnmovedQuiet DEF EndPage
  <2> QED BY <1>9, <2>1, <2>2, <2>3, <2>4, <2>5
<1>10. CASE \/ AssignLSNFails \/ ScanFails \/ CheckRowFails \/ ConnectSlotLost \/ Commit
            \/ Connect \/ ResetForSlotLoss
  <2>1. CASE AssignLSNFails \/ ScanFails \/ CheckRowFails
    BY <2>1, UnmovedQuiet DEF AssignLSNFails, ScanFails, CheckRowFails
  <2>2. CASE ConnectSlotLost \/ Commit
    BY <2>2, UnmovedQuiet DEF ConnectSlotLost, Commit
  <2>3. CASE Connect \/ ResetForSlotLoss
    BY <2>3, UnmovedQuiet DEF Connect, ResetForSlotLoss
  <2> QED BY <1>10, <2>1, <2>2, <2>3
<1>11. CASE UNCHANGED vars
  <2>1. UNCHANGED logVars
    BY <1>11 DEF vars, logVars
  <2> QED BY <2>1, UnmovedQuiet
<1> QED BY <1>2, <1>3, <1>4, <1>5, <1>6, <1>7, <1>8, <1>9, <1>10, <1>11
        DEF Next, RunStep, Faults

LEMMA SmallerCard ==
    ASSUME NEW T, NEW S, T \subseteq S, NEW x \in S, x \notin T, IsFiniteSet(S)
    PROVE  /\ Cardinality(T) \in Nat /\ Cardinality(S) \in Nat
           /\ Cardinality(T) < Cardinality(S)
<1>1. IsFiniteSet(T) /\ Cardinality(T) <= Cardinality(S) /\ Cardinality(T) # Cardinality(S)
  BY FS_Subset
<1>2. Cardinality(T) \in Nat /\ Cardinality(S) \in Nat
  BY <1>1, FS_CardinalityType
<1> QED BY <1>1, <1>2

\* Phase 1: the numbers of a batch grow along it and are new.
LEMMA NumberedRises ==
    ASSUME Types, NEW w \in Writers, NEW evs \in Seq(Evt), Prepare(w, evs)
    PROVE  /\ call'[w].items = Numbered(evs) /\ Rising(Numbered(evs), nextSeq')
           /\ \A p \in Partitions : nextSeq[p] <= nextSeq'[p]
           /\ \A k \in DOMAIN evs : Numbered(evs)[k].seq >= nextSeq[PartOf(evs[k])]
<1> DEFINE its == Numbered(evs)
           S(i) == {j \in 1..(i - 1) : PartOf(evs[j]) = PartOf(evs[i])}
           A(p) == {i \in DOMAIN evs : PartOf(evs[i]) = p}
           d == [NoCall EXCEPT !.busy = TRUE, !.items = its]
<1>1. /\ DOMAIN evs = 1..Len(evs) /\ Len(evs) \in Nat
      /\ \A i \in DOMAIN evs : evs[i] \in Evt /\ PartOf(evs[i]) \in Partitions
  <2>1. DOMAIN evs = 1..Len(evs) /\ Len(evs) \in Nat /\ \A i \in DOMAIN evs : evs[i] \in Evt
    OBVIOUS
  <2> QED BY <2>1, EventsHavePartitions
<1>2. /\ nextSeq \in [Partitions -> Nat]
      /\ nextSeq' = [p \in Partitions |-> nextSeq[p] + Cardinality(A(p))]
      /\ call' = [call EXCEPT ![w] = d]
  BY DEF Prepare, Types
<1>3. d.items = its
  BY DEF NoCall
<1>4. /\ DOMAIN its = DOMAIN evs
      /\ \A i \in DOMAIN evs : /\ its[i].ev = evs[i]
                               /\ its[i].seq = nextSeq[PartOf(evs[i])] + Cardinality(S(i))
  BY DEF Numbered
<1> HIDE DEF d, its
<1>5. call'[w] = d
  BY <1>2 DEF Types
<1>6. IsFiniteSet(DOMAIN evs) /\ \A i \in DOMAIN evs : IsFiniteSet(1..(i - 1))
  BY <1>1, FS_Interval
<1>7. \A p : IsFiniteSet(A(p)) /\ Cardinality(A(p)) \in Nat
  <2>1. \A p : A(p) \subseteq DOMAIN evs
    OBVIOUS
  <2> QED BY <1>6, <2>1, FS_Subset, FS_CardinalityType
<1>8. \A i \in DOMAIN evs : IsFiniteSet(S(i)) /\ Cardinality(S(i)) \in Nat
  <2>1. \A i \in DOMAIN evs : S(i) \subseteq 1..(i - 1)
    OBVIOUS
  <2> QED BY <1>6, <2>1, FS_Subset, FS_CardinalityType
<1>9. \A p \in Partitions : nextSeq'[p] = nextSeq[p] + Cardinality(A(p))
  BY <1>2
<1>10. ASSUME NEW j \in DOMAIN evs PROVE Cardinality(S(j)) < Cardinality(A(PartOf(evs[j])))
  <2>1. S(j) \subseteq A(PartOf(evs[j])) /\ j \in A(PartOf(evs[j])) /\ j \notin S(j)
    BY <1>1
  <2> HIDE DEF S, A
  <2> QED BY <1>7, <2>1, SmallerCard
<1>11. ASSUME NEW j \in DOMAIN evs, NEW k \in DOMAIN evs, j < k, PartOf(evs[j]) = PartOf(evs[k])
       PROVE  Cardinality(S(j)) < Cardinality(S(k))
  <2>1. S(j) \subseteq S(k) /\ j \in S(k) /\ j \notin S(j)
    BY <1>1, <1>11
  <2> HIDE DEF S
  <2> QED BY <1>8, <2>1, SmallerCard
<1> HIDE DEF S, A
<1>12. Rising(its, nextSeq')
  <2>1. ASSUME NEW j \in DOMAIN its PROVE its[j].seq < nextSeq'[PartOf(its[j].ev)]
    BY <1>1, <1>2, <1>4, <1>7, <1>8, <1>9, <1>10
  <2>2. ASSUME NEW j \in DOMAIN its, NEW k \in DOMAIN its, j < k, PartOf(its[j].ev) = PartOf(its[k].ev)
        PROVE  its[j].seq < its[k].seq
    <3>1. Cardinality(S(j)) < Cardinality(S(k)) /\ nextSeq[PartOf(evs[j])] = nextSeq[PartOf(evs[k])]
      BY <1>4, <1>11, <2>2
    <3>2. nextSeq[PartOf(evs[j])] \in Nat
      BY <1>1, <1>2, <1>4
    <3> QED BY <1>4, <1>8, <3>1, <3>2
  <2> QED BY <2>1, <2>2 DEF Rising
<1>13. \A p \in Partitions : nextSeq[p] <= nextSeq'[p]
  BY <1>2, <1>7, <1>9
<1>14. \A k \in DOMAIN evs : its[k].seq >= nextSeq[PartOf(evs[k])]
  BY <1>1, <1>2, <1>4, <1>8
<1> QED BY <1>3, <1>5, <1>12, <1>13, <1>14 DEF its

\* The holder of appendMu numbers its events after everything in the log.
LEMMA PrepareSeq ==
    ASSUME Locked, Types, SeqInv, NEW w \in Writers, NEW evs \in Seq(Evt), Prepare(w, evs)
    PROVE  SeqInv'
<1> DEFINE its == Numbered(evs)
<1>1. /\ call'[w].items = its /\ Rising(its, nextSeq')
      /\ \A p \in Partitions : nextSeq[p] <= nextSeq'[p]
      /\ \A k \in DOMAIN evs : its[k].seq >= nextSeq[PartOf(evs[k])]
  BY NumberedRises
<1>2. its \in Seq(Item) /\ DOMAIN its = DOMAIN evs /\ \A k \in DOMAIN evs : its[k].ev = evs[k]
  BY NumberedOK
<1>3. /\ log' = log /\ nextSeq' \in [Partitions -> Nat] /\ call'[w].done = 0
      /\ \A d \in Writers \ {w} : call'[d] = call[d]
  BY PrepareOK
<1>4. appendMu = {} /\ appendMu' = {w}
  BY DEF Prepare
<1>5. \A v \in Writers : call'[v].busy => v = w
  BY <1>3, <1>4 DEF SeqInv
<1> HIDE DEF its
<1>6. \A p \in Partitions : \A it \in log[p] : it.seq \in Nat /\ it.seq < nextSeq[p]
  BY ItemFields DEF Types, SeqInv
<1>7. \A p \in Partitions : nextSeq[p] \in Nat /\ nextSeq'[p] \in Nat
  BY <1>3 DEF Types
<1>8. \A k \in DOMAIN its : its[k].seq \in Nat /\ PartOf(its[k].ev) \in Partitions
  BY <1>2, ItemFields, EventsHavePartitions
<1>9. Behind(its, 0, log)
  <2> SUFFICES ASSUME NEW k \in DOMAIN its, NEW it \in log[PartOf(its[k].ev)]
               PROVE  it.seq < its[k].seq
    BY DEF Behind
  <2>1. its[k].seq >= nextSeq[PartOf(its[k].ev)]
    BY <1>1, <1>2
  <2> QED BY <1>6, <1>7, <1>8, <2>1
<1>10. \A p \in Partitions : \A it \in log'[p] : it.seq < nextSeq'[p]
  BY <1>1, <1>3, <1>6, <1>7
<1> QED BY <1>1, <1>3, <1>4, <1>5, <1>9, <1>10 DEF SeqInv

\* What commitChunk adds to a partition: items of the call that were still to be
\* committed, each with a key that the log did not have, and no two with one key.
LEMMA NewEntries ==
    ASSUME Types, NEW w \in Writers, CommitChunk(w)
    PROVE  LET its == call[w].items
               D == call[w].done
               m == Len(Chunk(w))
           IN  /\ \A p \in Partitions : log'[p] = log[p] \cup {it \in New(Chunk(w)) : PartOf(it.ev) = p}
               /\ \A it \in New(Chunk(w)) : \E k \in DOMAIN its : it = its[k] /\ D < k /\ k <= D + m
               /\ \A it \in New(Chunk(w)) : ~InLog(it.ev.id)
               /\ \A e, it \in New(Chunk(w)) : e.ev.id = it.ev.id => e = it
<1> DEFINE ch == Chunk(w)
           its == call[w].items
           D == call[w].done
           m == Len(ch)
<1>1. /\ its \in Seq(Item) /\ D \in Nat /\ ch \in Seq(Item) /\ m \in Nat
      /\ D + m <= Len(its) /\ (\A j \in 1..m : ch[j] = its[D + j])
  BY ChunkShape
<1>2. \A p \in Partitions : log'[p] = log[p] \cup {it \in New(ch) : PartOf(it.ev) = p}
  BY DEF CommitChunk
<1>3. \A it \in New(ch) : \E j \in DOMAIN ch :
          it = ch[j] /\ ~InLog(it.ev.id) /\ \A k \in 1..(j - 1) : ch[k].ev.id # it.ev.id
  BY DEF New
<1> HIDE DEF ch, its, D
<1>4. DOMAIN ch = 1..m /\ DOMAIN its = 1..Len(its) /\ Len(its) \in Nat
  BY <1>1
<1> HIDE DEF m
<1>5. ASSUME NEW it \in New(ch) PROVE \E k \in DOMAIN its : it = its[k] /\ D < k /\ k <= D + m
  <2>1. PICK j \in 1..m : it = ch[j]
    BY <1>3, <1>4
  <2>2. D + j \in DOMAIN its /\ D < D + j /\ D + j <= D + m
    BY <1>1, <1>4
  <2> QED BY <1>1, <2>1, <2>2
<1>6. ASSUME NEW e \in New(ch), NEW it \in New(ch), e.ev.id = it.ev.id PROVE e = it
  <2>1. PICK i \in 1..m : e = ch[i] /\ \A k \in 1..(i - 1) : ch[k].ev.id # e.ev.id
    BY <1>3, <1>4
  <2>2. PICK j \in 1..m : it = ch[j] /\ \A k \in 1..(j - 1) : ch[k].ev.id # it.ev.id
    BY <1>3, <1>4
  <2>3. ~(i < j) /\ ~(j < i)
    <3>1. (i < j => i \in 1..(j - 1)) /\ (j < i => j \in 1..(i - 1))
      BY <1>1
    <3> QED BY <1>6, <2>1, <2>2, <3>1
  <2>4. i = j
    BY <1>1, <2>3
  <2> QED BY <2>1, <2>2, <2>4
<1>7. \A it \in New(ch) : ~InLog(it.ev.id)
  BY <1>3
<1> QED BY <1>2, <1>5, <1>6, <1>7 DEF ch, its, D, m

LEMMA CommitSeq ==
    ASSUME SnapInv, SeqInv, NEW w \in Writers, CommitChunk(w)
    PROVE  SeqInv'
<1>1. Types /\ Committed(call[w])
  BY DEF SnapInv, CallsOK
<1> DEFINE its == call[w].items
           D == call[w].done
           m == Len(Chunk(w))
           F == New(Chunk(w))
<1>2. /\ \A p \in Partitions : log'[p] = log[p] \cup {it \in F : PartOf(it.ev) = p}
      /\ \A it \in F : \E k \in DOMAIN its : it = its[k] /\ D < k /\ k <= D + m
  BY <1>1, NewEntries
<1>3. /\ call'[w].items = its /\ \A d \in Writers \ {w} : call'[d] = call[d]
  BY <1>1, CommitOK
<1>4. call'[w].done = D + m /\ nextSeq' = nextSeq /\ appendMu' = appendMu /\ call[w].busy
  BY <1>1 DEF CommitChunk, Types, CallType
<1>5. its \in Seq(Item) /\ D \in Nat /\ m \in Nat
  BY <1>1, ChunkShape
<1> HIDE DEF its, D, m, F
<1>6. w \in appendMu /\ Rising(its, nextSeq) /\ Behind(its, D, log)
  BY <1>4 DEF SeqInv, its, D
<1>7. \A v \in Writers : call'[v].busy => v = w
  BY <1>3, <1>6 DEF SeqInv
<1>8. \A k \in DOMAIN its : k \in Nat /\ its[k].seq \in Nat /\ PartOf(its[k].ev) \in Partitions
  <2>1. DOMAIN its = 1..Len(its) /\ Len(its) \in Nat /\ \A k \in DOMAIN its : its[k] \in Item
    BY <1>5
  <2> QED BY <2>1, ItemFields, EventsHavePartitions
<1>9. Behind(its, D + m, log')
  <2> SUFFICES ASSUME NEW k \in DOMAIN its, k > D + m, NEW it \in log'[PartOf(its[k].ev)]
               PROVE  it.seq < its[k].seq
    BY DEF Behind
  <2>1. CASE it \in log[PartOf(its[k].ev)]
    <3>1. k > D
      BY <1>5, <1>8
    <3> QED BY <1>6, <2>1, <3>1 DEF Behind
  <2>2. CASE it \in F /\ PartOf(it.ev) = PartOf(its[k].ev)
    <3>1. PICK l \in DOMAIN its : it = its[l] /\ l <= D + m
      BY <1>2, <2>2
    <3>2. l < k
      BY <1>5, <1>8, <3>1
    <3> QED BY <1>6, <2>2, <3>1, <3>2 DEF Rising
  <2> QED BY <1>2, <1>8, <2>1, <2>2
<1>10. ASSUME NEW p \in Partitions, NEW it \in log'[p] PROVE it.seq < nextSeq[p]
  <2>1. CASE it \in log[p]
    BY <2>1 DEF SeqInv
  <2>2. CASE it \in F /\ PartOf(it.ev) = p
    BY <1>2, <1>6, <2>2 DEF Rising
  <2> QED BY <1>2, <1>10, <2>1, <2>2
<1> QED BY <1>3, <1>4, <1>6, <1>7, <1>9, <1>10 DEF SeqInv

LEMMA QuietSeq ==
    ASSUME SeqInv, Quiet
    PROVE  SeqInv'
BY NoCallOK DEF SeqInv, Quiet

LEMMA SeqInit == Init => SeqInv
<1> SUFFICES ASSUME Init PROVE SeqInv
  OBVIOUS
<1>1. /\ log = [p \in Partitions |-> {}] /\ call = [w \in Writers |-> NoCall] /\ appendMu = {}
  BY DEF Init, LogInit
<1> QED BY <1>1, NoCallOK DEF SeqInv

LEMMA SeqNext ==
    ASSUME Locked, SnapInv, SeqInv, [Next]_vars
    PROVE  SeqInv'
<1>1. Types
  BY DEF SnapInv
<1> QED BY <1>1, LogSteps, QuietSeq, PrepareSeq, CommitSeq, TwoWriters

\* Only commitChunk adds entries, and what it adds comes after what is there.
LEMMA StepGrows ==
    ASSUME SnapInv, SeqInv, [Next]_vars,
           NEW p \in Partitions, NEW new \in log'[p] \ log[p]
    PROVE  /\ \A old \in log[p] : new.seq > old.seq
           /\ \A e \in UNION {log'[q] : q \in Partitions} : e.ev.id = new.ev.id => e = new
<1>1. Types
  BY DEF SnapInv
<1>2. PICK w \in Writers : CommitChunk(w)
  BY <1>1, LogSteps, PrepareOK, TwoWriters DEF Quiet
<1> DEFINE its == call[w].items
           D == call[w].done
           F == New(Chunk(w))
<1>3. /\ \A q \in Partitions : log'[q] = log[q] \cup {it \in F : PartOf(it.ev) = q}
      /\ \A it \in F : \E k \in DOMAIN its : it = its[k] /\ D < k
      /\ \A it \in F : ~InLog(it.ev.id)
      /\ \A e, it \in F : e.ev.id = it.ev.id => e = it
  BY <1>1, <1>2, NewEntries
<1>4. Behind(its, D, log) /\ D \in Nat /\ its \in Seq(Item)
  BY <1>1, <1>2, ChunkShape DEF SeqInv, CommitChunk
<1> HIDE DEF its, D, F
<1>5. new \in F /\ PartOf(new.ev) = p
  BY <1>3
<1>6. ASSUME NEW old \in log[p] PROVE new.seq > old.seq
  <2>1. PICK k \in DOMAIN its : new = its[k] /\ D < k
    BY <1>3, <1>5
  <2>2. k \in Nat /\ its[k] \in Item /\ old \in Item
    BY <1>1, <1>4 DEF Types
  <2>3. old.seq < its[k].seq
    BY <1>4, <1>5, <2>1, <2>2 DEF Behind
  <2> QED BY <2>1, <2>2, <2>3, ItemFields
<1>7. ASSUME NEW q \in Partitions, NEW e \in log'[q], e.ev.id = new.ev.id PROVE e = new
  <2>1. CASE e \in log[q]
    BY <1>3, <1>5, <1>7, <2>1 DEF InLog
  <2>2. CASE e \in F
    BY <1>3, <1>5, <1>7, <2>2
  <2> QED BY <1>3, <2>1, <2>2
<1> QED BY <1>6, <1>7

\* LOG-03 for the Postgres connector, whose writers share appendMu: entries are
\* added with greater sequence numbers than all of their partition and with keys
\* the log did not have, so no reader that goes on behind the last entry it has
\* seen can miss one; whatever is resent, cut off or interleaved.
THEOREM LogGrowsAtEnd == Locked => (Spec => GrowsAtEnd)
<1> SUFFICES ASSUME Locked PROVE Spec => GrowsAtEnd
  OBVIOUS
<1>1. Init => SnapInv /\ SeqInv
  BY InitInv, SeqInit
<1>2. SnapInv /\ SeqInv /\ [Next]_vars => (SnapInv /\ SeqInv)'
  BY NextInv, SeqNext
<1>3. SnapInv /\ SeqInv /\ [Next]_vars =>
        [\A p \in Partitions : \A new \in log'[p] \ log[p] :
           /\ \A old \in log[p] : new.seq > old.seq
           /\ \A e \in UNION {log'[q] : q \in Partitions} : e.ev.id = new.ev.id => e = new]_log
  BY StepGrows
<1> QED BY <1>1, <1>2, <1>3, PTL DEF Spec, GrowsAtEnd

-----------------------------------------------------------------------------
(* The watermark index is exact.                                            *)

\* In the partitions that have been scanned, the index ix knows the row of each
\* newer event of the log L, but for the events W that it was not told of.
Knows(ix, L, W) ==
    ix.on /\ ~ix.over =>
        \A p \in Partitions \ ix.todo : \A e \in L[p] :
            e.ev.lsn > ix.lsn => e.ev.key \in ix.keys \/ e.ev \in W

\* What the observers have not been told: the chunks of the call under way, and
\* those of the calls that failed in a later chunk.
Unseen == call["wal"].written \cup untold

ExactInv ==
    /\ Knows(idx, log, Unseen)
    /\ ~call["wal"].busy => call["wal"] = NoCall
    /\ \A x \in EvsOf(call["backfill"].items) : x.lsn = 0

\* The observer learns of what it is told, and unlearns nothing.
LEMMA ObservedExact ==
    ASSUME NEW ix \in IdxType, NEW evs
    PROVE  LET o == Observed(ix, evs)
           IN  o.on /\ ~o.over =>
                 /\ ix.on /\ ~ix.over /\ o.lsn = ix.lsn /\ o.todo = ix.todo
                 /\ ix.keys \subseteq o.keys
                 /\ \A x \in evs : x.lsn > ix.lsn => x.key \in o.keys
<1> DEFINE ks == ix.keys \cup {e.key : e \in {x \in evs : x.lsn > ix.lsn}}
<1>1. ix.keys \subseteq ks /\ \A x \in evs : x.lsn > ix.lsn => x.key \in ks
  OBVIOUS
<1>2. \/ Observed(ix, evs) = ix /\ ~(ix.on /\ ~ix.over)
      \/ Observed(ix, evs) = [ix EXCEPT !.over = TRUE, !.keys = {}]
      \/ Observed(ix, evs) = [ix EXCEPT !.keys = ks] /\ ix.on /\ ~ix.over
  BY DEF Observed, Merge
<1> HIDE DEF ks
<1>3. [ix EXCEPT !.over = TRUE, !.keys = {}].over
  BY DEF IdxType
<1>4. LET o == [ix EXCEPT !.keys = ks]
      IN  o.lsn = ix.lsn /\ o.todo = ix.todo /\ o.keys = ks
  BY DEF IdxType
<1> QED BY <1>1, <1>2, <1>3, <1>4

\* The calls.
LEMMA CallsExact ==
    ASSUME SnapInv, ExactInv, [Next]_vars
    PROVE  /\ (~call["wal"].busy => call["wal"] = NoCall)'
           /\ \A x \in EvsOf(call'["backfill"].items) : x.lsn = 0
<1>1. /\ Types /\ CallsOK /\ "wal" \in Writers /\ "backfill" \in Writers /\ "wal" # "backfill"
      /\ EvsOf(NoCall.items) = {}
  BY TwoWriters, NoCallOK DEF SnapInv, EvsOf
<1>2. CASE Quiet
  BY <1>1, <1>2 DEF Quiet, ExactInv
<1>3. ASSUME NEW evs \in Seq(Evt), Prepare("wal", evs)
      PROVE  /\ (~call["wal"].busy => call["wal"] = NoCall)'
             /\ \A x \in EvsOf(call'["backfill"].items) : x.lsn = 0
  <2>1. call'["wal"].busy /\ call'["backfill"] = call["backfill"]
    BY <1>1, <1>3, PrepareOK
  <2> QED BY <2>1 DEF ExactInv
<1>4. ASSUME NEW evs \in Seq(Evt), Prepare("backfill", evs), \A x \in Elems(evs) : x.lsn = 0
      PROVE  /\ (~call["wal"].busy => call["wal"] = NoCall)'
             /\ \A x \in EvsOf(call'["backfill"].items) : x.lsn = 0
  <2>1. /\ DOMAIN call'["backfill"].items = DOMAIN evs /\ call'["wal"] = call["wal"]
        /\ \A j \in DOMAIN evs : call'["backfill"].items[j].ev = evs[j]
    BY <1>1, <1>4, PrepareOK
  <2>2. \A x \in EvsOf(call'["backfill"].items) : x \in Elems(evs)
    BY <2>1 DEF EvsOf, Elems
  <2> QED BY <1>4, <2>1, <2>2 DEF ExactInv
<1>5. ASSUME NEW w \in Writers, CommitChunk(w)
      PROVE  /\ (~call["wal"].busy => call["wal"] = NoCall)'
             /\ \A x \in EvsOf(call'["backfill"].items) : x.lsn = 0
  <2>1. /\ call'[w].items = call[w].items /\ call'[w].busy = call[w].busy /\ call[w].busy
        /\ \A d \in Writers \ {w} : call'[d] = call[d]
    BY <1>1, <1>5, CommitOK DEF CallsOK, CommitChunk
  <2>2. w = "wal" \/ w = "backfill"
    BY BackfillAssumption
  <2> QED BY <1>1, <2>1, <2>2 DEF ExactInv
<1> QED BY <1>2, <1>3, <1>4, <1>5, LogSteps

\* Steps that leave the index and the log alone, or throw the index away.
LEMMA KnowsStays ==
    ASSUME Knows(idx, log, Unseen), log' = log, Unseen \subseteq Unseen',
           idx' = idx \/ idx' = NoIndex
    PROVE  Knows(idx', log', Unseen')
BY DEF Knows, NoIndex

LEMMA CommitKnows ==
    ASSUME SnapInv, ExactInv, CommitChunks
    PROVE  Knows(idx', log', Unseen')
<1>1. Types /\ CallsOK /\ idx' = idx /\ idx \in IdxType /\ untold' = untold
  BY DEF SnapInv, Types, CommitChunks, runVars, liveVars
<1>2. PICK w \in Writers : CommitChunk(w)
  BY DEF CommitChunks
<1> DEFINE F == New(Chunk(w))
<1>3. /\ \A p \in Partitions : log'[p] = log[p] \cup {it \in F : PartOf(it.ev) = p}
      /\ \A it \in F : \E k \in DOMAIN call[w].items : it = call[w].items[k]
  BY <1>1, <1>2, NewEntries
<1>4. /\ \A d \in Writers \ {w} : call'[d] = call[d]
      /\ call'[w].written = call[w].written \cup {it.ev : it \in F}
  <2>1. call'[w].written = call[w].written \cup {it.ev : it \in F}
    BY <1>1, <1>2 DEF CommitChunk, Types, CallType
  <2> QED BY <1>1, <1>2, <2>1, CommitOK DEF CallsOK
<1> HIDE DEF F
<1>5. call["wal"].written \subseteq call'["wal"].written /\ Unseen \subseteq Unseen'
  BY <1>1, <1>4, TwoWriters DEF Unseen
<1>6. \A it \in F : it.ev.lsn > idx.lsn => it.ev \in Unseen'
  <2>1. CASE w = "wal"
    BY <1>4, <2>1 DEF Unseen
  <2>2. CASE w = "backfill"
    <3>1. \A it \in F : it.ev \in EvsOf(call["backfill"].items)
      BY <1>3, <2>2 DEF EvsOf
    <3>2. idx.lsn \in Nat
      BY <1>1 DEF IdxType
    <3> QED BY <3>1, <3>2 DEF ExactInv
  <2> QED BY <2>1, <2>2, BackfillAssumption
<1>7. Knows(idx, log, Unseen)
  BY DEF ExactInv
<1>8. ASSUME idx.on, ~idx.over, NEW p \in Partitions \ idx.todo, NEW e \in log'[p],
             e.ev.lsn > idx.lsn
      PROVE  e.ev.key \in idx.keys \/ e.ev \in Unseen'
  <2>1. CASE e \in log[p]
    BY <1>5, <1>7, <1>8, <2>1 DEF Knows
  <2>2. CASE e \in F
    BY <1>6, <1>8, <2>2
  <2> QED BY <1>3, <2>1, <2>2
<1> QED BY <1>1, <1>8 DEF Knows

\* The scan of a partition: what is appended to it later is observed.
LEMMA ScanKnows ==
    ASSUME SnapInv, ExactInv, ScanPartition
    PROVE  Knows(idx', log', Unseen')
<1>1. Types /\ idx \in IdxType /\ log' = log /\ Unseen' = Unseen
  BY DEF SnapInv, Types, ScanPartition, logVars, liveVars, Unseen
<1>2. PICK p \in idx.todo :
        idx' = [Observed(idx, {it.ev : it \in log[p]}) EXCEPT !.todo = @ \ {p}]
  BY DEF ScanPartition
<1> DEFINE evs == {it.ev : it \in log[p]}
           o == Observed(idx, evs)
<1>3. o \in IdxType
  <2>1. p \in Partitions
    BY <1>1 DEF IdxType
  <2>2. evs \in SUBSET Evt
    BY <1>1, <2>1, ItemFields DEF Types
  <2> HIDE DEF evs
  <2> QED BY <1>1, <2>2, ObservedOK
<1>4. o.on /\ ~o.over =>
        /\ idx.on /\ ~idx.over /\ o.lsn = idx.lsn /\ o.todo = idx.todo
        /\ idx.keys \subseteq o.keys /\ \A x \in evs : x.lsn > idx.lsn => x.key \in o.keys
  <2> HIDE DEF evs
  <2> QED BY <1>1, ObservedExact
<1>5. \A e \in log[p] : e.ev \in evs
  OBVIOUS
<1> HIDE DEF evs, o
<1>6. /\ idx'.on = o.on /\ idx'.over = o.over /\ idx'.lsn = o.lsn /\ idx'.keys = o.keys
      /\ idx'.todo = o.todo \ {p}
  BY <1>2, <1>3 DEF IdxType, o, evs
<1>7. Knows(idx, log, Unseen)
  BY DEF ExactInv
<1>8. ASSUME idx'.on, ~idx'.over, NEW q \in Partitions \ idx'.todo, NEW e \in log[q],
             e.ev.lsn > idx'.lsn
      PROVE  e.ev.key \in idx'.keys \/ e.ev \in Unseen
  <2>1. CASE q = p
    BY <1>4, <1>5, <1>6, <1>8, <2>1
  <2>2. CASE q # p
    <3>1. q \in Partitions \ idx.todo
      BY <1>4, <1>6, <1>8, <2>2
    <3> QED BY <1>4, <1>6, <1>7, <1>8, <3>1 DEF Knows
  <2> QED BY <2>1, <2>2
<1> QED BY <1>1, <1>8 DEF Knows

\* The observer is told before AppendBatch returns.
LEMMA ReturnKnows ==
    ASSUME SnapInv, ExactInv, LiveReturns
    PROVE  Knows(idx', log', Unseen')
<1>1. Types /\ CallsOK /\ idx \in IdxType /\ idx' = Observed(idx, call["wal"].written)
  BY DEF SnapInv, Types, LiveReturns
<1>2. log' = log /\ untold' = untold
  BY <1>1, ReturnOK, TwoWriters DEF LiveReturns, AppendReturns
<1>3. idx'.on /\ ~idx'.over =>
        /\ idx.on /\ ~idx.over /\ idx'.lsn = idx.lsn /\ idx'.todo = idx.todo
        /\ idx.keys \subseteq idx'.keys
        /\ \A x \in call["wal"].written : x.lsn > idx.lsn => x.key \in idx'.keys
  BY <1>1, ObservedExact
<1>4. Knows(idx, log, Unseen)
  BY DEF ExactInv
<1>5. \A x \in Unseen : x \in call["wal"].written \/ x \in Unseen'
  BY <1>2 DEF Unseen
<1> QED BY <1>2, <1>3, <1>4, <1>5 DEF Knows

LEMMA ExactNext ==
    ASSUME SnapInv, ExactInv, [Next]_vars
    PROVE  ExactInv'
<1>1. /\ Types /\ Knows(idx, log, Unseen)
      /\ ~call["wal"].busy => call["wal"] = NoCall
  BY DEF SnapInv, ExactInv
<1>2. Knows(idx', log', Unseen')
  <2>1. CASE CommitChunks
    BY <2>1, CommitKnows
  <2>2. CASE ScanPartition
    BY <2>2, ScanKnows
  <2>3. CASE LiveReturns
    BY <2>3, ReturnKnows
  <2>4. CASE LiveAppend
    <3>1. wcur + 1 \in 1..Len(wal)
      BY <2>4 DEF Types, LiveAppend, SnapInv, LiveOK
    <3>2. LiveEvents(wcur + 1) \in Seq(Evt)
      BY <1>1, <3>1, LiveEventsOK
    <3>3. log' = log /\ ~call["wal"].busy /\ idx' = idx /\ untold' = untold
      BY <1>1, <2>4, <3>2, PrepareOK, TwoWriters DEF LiveAppend, runVars, liveVars
    <3>4. Unseen \subseteq Unseen'
      BY <1>1, <3>3, NoCallOK DEF Unseen
    <3> QED BY <1>1, <3>3, <3>4, KnowsStays
  <2>5. CASE Disconnect
    <3>1. idx' = idx
      BY <2>5 DEF Disconnect, runVars
    <3>2. CASE UNCHANGED <<untold, logVars>>
      BY <1>1, <3>1, <3>2, KnowsStays DEF logVars, Unseen
    <3>3. CASE AppendFails("wal") /\ untold' = untold \cup call["wal"].written
      <4>1. log' = log
        BY <1>1, <3>3, ReturnOK, TwoWriters DEF AppendFails
      <4> QED BY <1>1, <3>1, <3>3, <4>1, KnowsStays DEF Unseen
    <3> QED BY <2>5, <3>2, <3>3 DEF Disconnect
  <2>6. CASE Crash \/ RunFails \/ ScanFails
    <3>1. idx' = NoIndex
      BY <2>6 DEF Crash, RunFails, ScanFails
    <3> QED BY <3>1 DEF Knows, NoIndex
  <2>7. CASE RegisterIndex
    <3>1. idx'.todo = Partitions
      BY <2>7 DEF RegisterIndex, NoIndex
    <3> QED BY <3>1 DEF Knows
  <2>8. CASE BackfillReturns
    <3>1. log' = log /\ call'["wal"] = call["wal"] /\ idx' = idx /\ untold' = untold
      BY <1>1, <2>8, ReturnOK, TwoWriters DEF BackfillReturns, AppendReturns, liveVars
    <3> QED BY <1>1, <3>1, KnowsStays DEF Unseen
  <2>9. CASE Flush \/ EmitControl
    <3>1. log' = log /\ call'["wal"] = call["wal"] /\ idx' = idx /\ untold' = untold
      BY <1>1, <2>9, TwoWriters DEF Flush, EmitControl, Prepare, Types, liveVars
    <3> QED BY <1>1, <3>1, KnowsStays DEF Unseen
  <2>10. CASE \/ RunStarts \/ AssignLSN \/ QueryPage \/ CheckRow \/ FlushRest \/ EndPage
              \/ AssignLSNFails \/ CheckRowFails \/ ConnectSlotLost \/ Commit \/ Connect
              \/ ResetForSlotLoss \/ UNCHANGED vars
    <3>1. CASE RunStarts
      BY <1>1, <3>1, KnowsStays DEF RunStarts, logVars, liveVars, Unseen
    <3>2. CASE AssignLSN \/ AssignLSNFails
      BY <1>1, <3>2, KnowsStays DEF AssignLSN, AssignLSNFails, logVars, liveVars, Unseen
    <3>3. CASE QueryPage
      BY <1>1, <3>3, KnowsStays DEF QueryPage, logVars, liveVars, Unseen
    <3>4. CASE CheckRow \/ CheckRowFails \/ FlushRest
      BY <1>1, <3>4, KnowsStays DEF CheckRow, CheckRowFails, FlushRest, logVars, liveVars, Unseen
    <3>5. CASE EndPage
      BY <1>1, <3>5, KnowsStays DEF EndPage, logVars, liveVars, Unseen
    <3>6. CASE ConnectSlotLost \/ Commit
      BY <1>1, <3>6, KnowsStays DEF ConnectSlotLost, Commit, logVars, runVars, liveVars, Unseen
    <3>7. CASE Connect \/ ResetForSlotLoss
      BY <1>1, <3>7, KnowsStays DEF Connect, ResetForSlotLoss, logVars, liveVars, Unseen
    <3>8. CASE UNCHANGED vars
      BY <1>1, <3>8, KnowsStays DEF vars, Unseen
    <3> QED BY <2>10, <3>1, <3>2, <3>3, <3>4, <3>5, <3>6, <3>7, <3>8
  <2> QED BY <2>1, <2>2, <2>3, <2>4, <2>5, <2>6, <2>7, <2>8, <2>9, <2>10
          DEF Next, RunStep, Faults
<1> QED BY <1>2, CallsExact DEF ExactInv

LEMMA ExactInit == Init => ExactInv
<1> SUFFICES ASSUME Init PROVE ExactInv
  OBVIOUS
<1>1. call = [w \in Writers |-> NoCall] /\ idx = NoIndex
  BY DEF Init, LogInit
<1>2. call["wal"] = NoCall /\ call["backfill"] = NoCall
  BY <1>1, TwoWriters
<1>3. EvsOf(NoCall.items) = {}
  BY NoCallOK DEF EvsOf
<1> QED BY <1>1, <1>2, <1>3 DEF ExactInv, Knows, NoIndex

LEMMA InvExact == SnapInv /\ ExactInv => IndexExact
<1> SUFFICES ASSUME SnapInv, ExactInv, idx.on, ~idx.over, idx.todo = {}
             PROVE  LET newer == {e \in Entries : e.ev.lsn > idx.lsn}
                    IN  /\ idx.keys \subseteq {e.ev.key : e \in newer}
                        /\ \A e \in newer : e.ev.key \in idx.keys \/ e.ev \in Unseen
  BY DEF IndexExact, Unseen
<1>1. \A k \in idx.keys : \E e \in Entries : e.ev.key = k /\ e.ev.lsn > idx.lsn
  BY DEF SnapInv, IndexOK
<1>2. \A e \in Entries : e.ev.lsn > idx.lsn => e.ev.key \in idx.keys \/ e.ev \in Unseen
  BY DEF ExactInv, Knows, Entries
<1> QED BY <1>1, <1>2

\* StartTable registers the index before it scans, so an event is seen by the scan or
\* by the observer: a complete index holds exactly the rows that a newer live event
\* of the log changed, but for a call that has yet to tell its observers, or that failed in a later chunk.
THEOREM IndexAlwaysExact == Spec => []IndexExact
<1>1. Init => SnapInv /\ ExactInv
  BY InitInv, ExactInit
<1>2. SnapInv /\ ExactInv /\ [Next]_vars => (SnapInv /\ ExactInv)'
  BY NextInv, ExactNext
<1> QED BY <1>1, <1>2, InvExact, PTL DEF Spec

=============================================================================
