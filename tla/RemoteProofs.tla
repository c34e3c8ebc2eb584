---------------------------- MODULE RemoteProofs ----------------------------
(***************************************************************************)
(* Proofs about the two places where kaptanto calls a service.  The        *)
(* batching sinks (Sinks): no event below a sink's cursor is lost, and the *)
(* serial sinks and Pub/Sub keep the order of a key, for any kind of sink, *)
(* log, window, request size, poison set and number of faults.  The        *)
(* enrichment stage (Enrich): it is safe for any batch, any number of      *)
(* goroutines at a time and any circuit threshold.                         *)
(***************************************************************************)
EXTENDS Sinks, Enrich, FiniteSetTheorems, SequenceTheorems, WellFoundedInduction, TLAPS

-----------------------------------------------------------------------------
(* The invariant of the sinks.                                              *)

\* Dealt with for good: what NothingLost asks of every event below the cursor.
Done(s) == s \in arrived \cup (dlq \cap refused) \cup unchanged \/ Dropped(s)
DoneBelow(n) == \A s \in 1..(n - 1) : Done(s)

Ascending(b) == \A i, j \in DOMAIN b : i < j => b[i] < b[j]

\* The events of the requests w; the requests and what is in them are in log order.
Waiting(w) == UNION {ToSet(w[q]) : q \in DOMAIN w}
WorkInOrder(w) ==
    /\ \A q \in DOMAIN w : w[q] # <<>> /\ Ascending(w[q])
    /\ \A p, q \in DOMAIN w : p < q => \A x \in ToSet(w[p]), y \in ToSet(w[q]) : x < y

Pcs == {"read", "deliver", "flush", "ack", "settle"}

SinkTypes ==
    /\ kind \in AllKinds /\ tail \in 0..N /\ cursor \in 1..(N + 1) /\ prov \in 0..(N + 1)
    /\ skipped \subseteq 1..N /\ dlq \subseteq 1..N /\ pc \in Pcs
    /\ at \in 0..N /\ last \in 0..N
    /\ out \in [res : {"none", "ok", "transient", "poison"}, seq : 0..N]
    /\ pending \in Seq(1..N) /\ work \in Seq(Seq(1..N))
    /\ arrived \subseteq 1..N /\ refused \subseteq 1..N /\ unchanged \subseteq 1..N

ReadOK == pending = <<>> /\ work = <<>> /\ failed = {} /\ prov = 0

\* What has been dispatched is dealt with or in the buffer; a publisher's is dealt
\* with, or a failure is on record, and Pub/Sub's key is paused.
DeliverOK ==
    /\ 1 <= at /\ at <= last /\ prov <= at
    /\ Ascending(pending) /\ \A x \in ToSet(pending) : x < at
    /\ failed # {} => kind \in Publisher
    /\ \A s \in 1..(at - 1) :
          Done(s) \/ IF kind \in Publisher THEN failed # {} ELSE s \in ToSet(pending)
    /\ kind = "pubsub" => \A s \in 1..(at - 1) : Done(s) \/ KeyOf(s) \in paused

\* The same of the window while its requests are made: a sink that goes on after a
\* failure has it on record, the serial ones stop, so what they have left is all
\* that is not dealt with, in order.
FlushOK ==
    /\ prov <= last + 1 /\ pending = <<>>
    /\ \A s \in 1..last :
          Done(s) \/ failed # {} \/ (kind \notin Publisher /\ s \in Waiting(work))
    /\ kind \in Serial =>
          failed = {} /\ WorkInOrder(work) /\ \A x \in Waiting(work) : x <= last
    /\ pc = "ack" => kind = "vector" /\ work # <<>> /\ ToSet(Request) \subseteq arrived

\* "ok" vouches for the window; a poison for everything before it.
SettleOKs ==
    /\ pending = <<>> /\ work = <<>> /\ failed = {}
    /\ out.res = "ok" => DoneBelow(prov)
    /\ out.res = "poison" => out.seq \in refused /\ DoneBelow(out.seq)

SinkInv ==
    /\ SinkTypes
    /\ DoneBelow(cursor)
    /\ \A s \in skipped : DoneBelow(s + 1)
    /\ pc = "read" => ReadOK
    /\ pc = "deliver" => DeliverOK
    /\ pc \in {"flush", "ack"} => FlushOK
    /\ pc = "settle" => SettleOKs

-----------------------------------------------------------------------------
(* Requests: every buffered event is in one of them.                        *)

\* A set of naturals has a least element.
LEMMA LeastOf ==
    ASSUME NEW T, T \subseteq Nat, T # {}
    PROVE  \E x \in T : \A y \in T : x <= y
<1> DEFINE R == {ss \in Nat \X Nat : ss[1] < ss[2]}
<1>1. OpToRel(<, Nat) = R
  BY Zenon DEF OpToRel
<1>2. IsWellFoundedOn(R, Nat)
  BY <1>1, NatLessThanWellFounded, Zenon
<1>3. \A x, y \in Nat : ~(<<y, x>> \in R) => x <= y
  OBVIOUS
<1> HIDE DEF R
<1>4. PICK x \in T : \A y \in T : ~(<<y, x>> \in R)
  BY <1>2, WFMin, Zenon
<1> QED BY <1>3, <1>4

\* The requests begin in order, and each ends before the next begins.
LEMMA StartsShape ==
    ASSUME NEW b \in Seq(1..N), NEW s \in Starts(b)
    PROVE  /\ Len(s) \in Nat /\ DOMAIN s = 1..Len(s)
           /\ \A q \in DOMAIN s : s[q] \in 1..Len(b) /\ Until(b, s, q) \in s[q]..Len(b)
           /\ \A p, q \in DOMAIN s : p < q => Until(b, s, p) < s[q]
<1> DEFINE n == Len(b)
<1>1. n \in Nat /\ DOMAIN b = 1..n
  OBVIOUS
<1>2. PICK m \in 0..n : s \in [1..m -> 1..n]
  BY <1>1 DEF Starts, SeqOf
<1>3. Len(s) = m /\ DOMAIN s = 1..m
  BY <1>2
<1>4. \A p, q \in 1..m : p < q => s[p] < s[q]
  BY <1>3 DEF Starts
<1>5. \A q \in 1..m : s[q] \in 1..n
  BY <1>2
<1>6. ASSUME NEW q \in 1..m PROVE Until(b, s, q) \in s[q]..n
  <2>1. CASE q = m
    BY <2>1, <1>1, <1>3, <1>5 DEF Until
  <2>2. CASE q # m
    <3>1. q + 1 \in 1..m /\ q < q + 1
      BY <2>2
    <3>2. s[q] < s[q + 1] /\ s[q] \in 1..n /\ s[q + 1] \in 1..n
      BY <3>1, <1>4, <1>5
    <3> QED BY <2>2, <3>2, <1>1, <1>3 DEF Until
  <2> QED BY <2>1, <2>2
<1>7. ASSUME NEW p \in 1..m, NEW q \in 1..m, p < q PROVE Until(b, s, p) < s[q]
  <2>1. p + 1 \in 1..m /\ p # m
    BY <1>7
  <2>2. s[p + 1] <= s[q] /\ s[p + 1] \in 1..n /\ s[q] \in 1..n
    <3>1. CASE p + 1 = q
      BY <3>1, <2>1, <1>5
    <3>2. CASE p + 1 # q
      BY <3>2, <2>1, <1>7, <1>4, <1>5
    <3> QED BY <3>1, <3>2
  <2> QED BY <2>1, <2>2, <1>3 DEF Until
<1> QED BY <1>3, <1>5, <1>6, <1>7

\* Every event of the batch is in a request.
LEMMA CutCovers ==
    ASSUME NEW b \in Seq(1..N), NEW s \in Starts(b), NEW i \in DOMAIN b
    PROVE  \E q \in DOMAIN s : s[q] <= i /\ i <= Until(b, s, q)
<1> DEFINE T == {q \in DOMAIN s : i <= Until(b, s, q)}
<1>1. i \in 1..Len(b) /\ Len(b) \in Nat /\ b # <<>>
  OBVIOUS
<1>2. s # <<>> /\ s[1] = 1
  BY <1>1 DEF Starts
<1>3. /\ Len(s) \in Nat /\ DOMAIN s = 1..Len(s)
      /\ \A q \in DOMAIN s : s[q] \in 1..Len(b) /\ Until(b, s, q) \in s[q]..Len(b)
  BY StartsShape
<1>4. Len(s) # 0
  <2>1. PICK m \in 0..Len(b) : s \in [1..m -> DOMAIN b]
    BY DEF Starts, SeqOf
  <2> QED BY <2>1, <1>2
<1>5. Len(s) \in T
  BY <1>1, <1>3, <1>4 DEF Until
<1>6. T \subseteq Nat
  BY <1>3
<1>7. PICK q \in T : \A y \in T : q <= y
  BY <1>5, <1>6, LeastOf
<1>8. s[q] <= i
  <2>1. CASE q = 1
    BY <2>1, <1>1, <1>2
  <2>2. CASE q # 1
    <3>1. q - 1 \in 1..Len(s) /\ q \in 1..Len(s) /\ q - 1 # Len(s) /\ q - 1 + 1 = q
      BY <2>2, <1>3
    <3>2. q - 1 \notin T
      BY <1>7, <3>1
    <3>3. ~(i <= s[q] - 1)
      BY <3>1, <3>2, <1>3 DEF Until
    <3> QED BY <3>1, <3>3, <1>1, <1>3
  <2> QED BY <2>1, <2>2
<1> QED BY <1>7, <1>8

\* What is in a sequence over a set is in the set.
LEMMA Elements == \A S : \A t \in Seq(S) : \A i \in 1..Len(t) : t[i] \in S
OBVIOUS

\* A request as a piece of the batch.
LEMMA Piece ==
    ASSUME NEW S, NEW b \in Seq(S), NEW a \in 1..Len(b), NEW z \in a..Len(b)
    PROVE  \A c : c = SubSeq(b, a, z) =>
               /\ c \in Seq(S) /\ Len(c) = z - a + 1
               /\ \A i \in 1..Len(c) : c[i] = b[a + i - 1] /\ a + i - 1 \in a..z
<1>1. a \in Int /\ z \in Int /\ a <= z /\ Len(b) \in Nat /\ a..z \subseteq 1..Len(b)
  OBVIOUS
<1>2. \A i \in a..z : b[i] \in S
  BY <1>1, Elements
<1>3. /\ SubSeq(b, a, z) \in Seq(S) /\ Len(SubSeq(b, a, z)) = z - a + 1
      /\ \A i \in 1..(z - a + 1) : SubSeq(b, a, z)[i] = b[a + i - 1]
  BY <1>1, <1>2, SubSeqProperties
<1>4. \A i \in 1..(z - a + 1) : a + i - 1 \in a..z
  BY <1>1
<1> QED BY <1>3, <1>4

\* One cut b into requests.
LEMMA ChunksShape ==
    ASSUME NEW b \in Seq(1..N), NEW w \in Chunks(b)
    PROVE  /\ w \in Seq(Seq(1..N)) /\ Waiting(w) = ToSet(b)
           /\ Ascending(b) => WorkInOrder(w)
<1>1. PICK s \in Starts(b) : w = [q \in DOMAIN s |-> SubSeq(b, s[q], Until(b, s, q))]
  BY DEF Chunks
<1>2. /\ Len(s) \in Nat /\ DOMAIN s = 1..Len(s)
      /\ \A q \in DOMAIN s : s[q] \in 1..Len(b) /\ Until(b, s, q) \in s[q]..Len(b)
      /\ \A p, q \in DOMAIN s : p < q => Until(b, s, p) < s[q]
  BY StartsShape
<1>3. DOMAIN w = 1..Len(s) /\ \A q \in 1..Len(s) : w[q] = SubSeq(b, s[q], Until(b, s, q))
  BY <1>1, <1>2
<1>4. ASSUME NEW q \in 1..Len(s)
      PROVE  /\ w[q] \in Seq(1..N) /\ Len(w[q]) = Until(b, s, q) - s[q] + 1
             /\ \A i \in 1..Len(w[q]) :
                   w[q][i] = b[s[q] + i - 1] /\ s[q] + i - 1 \in s[q]..Until(b, s, q)
  <2>1. s[q] \in 1..Len(b) /\ Until(b, s, q) \in s[q]..Len(b)
    BY <1>2
  <2>2. \A c : c = SubSeq(b, s[q], Until(b, s, q)) =>
            /\ c \in Seq(1..N) /\ Len(c) = Until(b, s, q) - s[q] + 1
            /\ \A i \in 1..Len(c) :
                  c[i] = b[s[q] + i - 1] /\ s[q] + i - 1 \in s[q]..Until(b, s, q)
    BY <2>1, Piece
  <2> QED BY <2>2, <1>3
<1>5. w \in Seq(Seq(1..N))
  <2>1. w = [q \in 1..Len(s) |-> w[q]]
    BY <1>1, <1>2, <1>3
  <2>2. w \in [1..Len(s) -> Seq(1..N)]
    BY <2>1, <1>4
  <2> QED BY <2>2, <1>2
<1>6. ASSUME NEW q \in 1..Len(s), NEW i \in s[q]..Until(b, s, q)
      PROVE  b[i] \in ToSet(w[q])
  <2>1. s[q] \in 1..Len(b) /\ Until(b, s, q) \in s[q]..Len(b)
    BY <1>2
  <2>2. i - s[q] + 1 \in 1..Len(w[q]) /\ s[q] + (i - s[q] + 1) - 1 = i
    <3>1. \A a \in 1..Len(b) : \A z \in a..Len(b) : \A l \in a..z :
              l - a + 1 \in 1..(z - a + 1) /\ a + (l - a + 1) - 1 = l
      OBVIOUS
    <3> QED BY <2>1, <3>1, <1>4
  <2>3. w[q][i - s[q] + 1] = b[i]
    BY <2>2, <1>4
  <2> QED BY <2>2, <2>3, <1>4 DEF ToSet
<1>7. ASSUME NEW q \in 1..Len(s), NEW x \in ToSet(w[q])
      PROVE  \E i \in s[q]..Until(b, s, q) : b[i] = x /\ i \in DOMAIN b
  <2>1. PICK j \in DOMAIN w[q] : w[q][j] = x
    BY DEF ToSet
  <2>2. j \in 1..Len(w[q])
    BY <2>1, <1>4
  <2>3. b[s[q] + j - 1] = x /\ s[q] + j - 1 \in s[q]..Until(b, s, q)
    BY <2>1, <2>2, <1>4
  <2>4. s[q]..Until(b, s, q) \subseteq DOMAIN b
    <3>1. \A a \in 1..Len(b) : \A z \in a..Len(b) : a..z \subseteq 1..Len(b)
      OBVIOUS
    <3> QED BY <3>1, <1>2
  <2> QED BY <2>3, <2>4
<1>8. Waiting(w) = ToSet(b)
  <2>1. ASSUME NEW x \in Waiting(w) PROVE x \in ToSet(b)
    <3>1. PICK q \in 1..Len(s) : x \in ToSet(w[q])
      BY <1>3 DEF Waiting
    <3> QED BY <3>1, <1>7 DEF ToSet
  <2>2. ASSUME NEW x \in ToSet(b) PROVE x \in Waiting(w)
    <3>1. PICK i \in DOMAIN b : b[i] = x
      BY DEF ToSet
    <3>2. PICK q \in DOMAIN s : s[q] <= i /\ i <= Until(b, s, q)
      BY CutCovers
    <3>3. i \in s[q]..Until(b, s, q) /\ q \in 1..Len(s)
      BY <3>2, <1>2
    <3>4. x \in ToSet(w[q])
      BY <3>1, <3>3, <1>6
    <3> QED BY <3>3, <3>4, <1>3 DEF Waiting
  <2> QED BY <2>1, <2>2
<1>9. ASSUME Ascending(b) PROVE WorkInOrder(w)
  <2>1. ASSUME NEW q \in 1..Len(s) PROVE w[q] # <<>> /\ Ascending(w[q])
    <3>1. s[q] \in 1..Len(b) /\ Until(b, s, q) \in s[q]..Len(b)
      BY <1>2
    <3>2. w[q] # <<>>
      BY <3>1, <1>4
    <3>3. ASSUME NEW i \in DOMAIN w[q], NEW j \in DOMAIN w[q], i < j PROVE w[q][i] < w[q][j]
      <4>1. i \in 1..Len(w[q]) /\ j \in 1..Len(w[q])
        BY <3>3, <1>4
      <4>2. /\ w[q][i] = b[s[q] + i - 1] /\ s[q] + i - 1 \in s[q]..Until(b, s, q)
            /\ w[q][j] = b[s[q] + j - 1] /\ s[q] + j - 1 \in s[q]..Until(b, s, q)
        BY <4>1, <1>4
      <4>3. \A a \in 1..Len(b) : \A z \in a..Len(b) :
                a..z \subseteq DOMAIN b /\ a + i - 1 < a + j - 1
        BY <3>3, <4>1
      <4>4. /\ s[q] + i - 1 \in DOMAIN b /\ s[q] + j - 1 \in DOMAIN b
            /\ s[q] + i - 1 < s[q] + j - 1
        BY <3>1, <4>2, <4>3
      <4> QED BY <4>2, <4>4, <1>9 DEF Ascending
    <3> QED BY <3>2, <3>3 DEF Ascending
  <2>2. ASSUME NEW p \in 1..Len(s), NEW q \in 1..Len(s), p < q,
               NEW x \in ToSet(w[p]), NEW y \in ToSet(w[q])
        PROVE  x < y
    <3>1. PICK i \in s[p]..Until(b, s, p) : b[i] = x /\ i \in DOMAIN b
      BY <1>7
    <3>2. PICK j \in s[q]..Until(b, s, q) : b[j] = y /\ j \in DOMAIN b
      BY <1>7
    <3>3. i < j
      <4>1. /\ s[p] \in 1..Len(b) /\ Until(b, s, p) \in s[p]..Len(b)
            /\ s[q] \in 1..Len(b) /\ Until(b, s, q) \in s[q]..Len(b) /\ Until(b, s, p) < s[q]
        BY <2>2, <1>2
      <4>2. \A a, c \in 1..Len(b) : \A y1 \in a..Len(b), z \in c..Len(b) :
                y1 < c => \A l \in a..y1, m \in c..z : l < m
        OBVIOUS
      <4> QED BY <3>1, <3>2, <4>1, <4>2
    <3> QED BY <3>1, <3>2, <3>3, <1>9 DEF Ascending
  <2> QED BY <2>1, <2>2, <1>3 DEF WorkInOrder
<1> QED BY <1>5, <1>8, <1>9

\* A flush's requests hold what was buffered; but for SQS's queues, in its order.
LEMMA RequestsShape ==
    ASSUME NEW p \in Seq(1..N), NEW w \in Requests(p)
    PROVE  /\ w \in Seq(Seq(1..N)) /\ Waiting(w) = ToSet(p)
           /\ kind # "sqs" /\ Ascending(p) => WorkInOrder(w)
<1>1. CASE kind # "sqs"
  <2>1. w \in Chunks(p)
    BY <1>1 DEF Requests
  <2> QED BY <2>1, ChunksShape
<1>2. CASE kind = "sqs"
  <2>1. PICK b \in ByQueue(p) : w \in Chunks(b)
    BY <1>2 DEF Requests
  <2>2. b \in [1..Len(p) -> ToSet(p)] /\ ToSet(b) = ToSet(p) /\ Len(p) \in Nat
    BY <2>1 DEF ByQueue
  <2>3. ToSet(p) \subseteq 1..N
    <3>1. DOMAIN p = 1..Len(p)
      OBVIOUS
    <3>2. \A i \in DOMAIN p : p[i] \in 1..N
      BY <3>1, Elements
    <3> QED BY <3>2, Zenon DEF ToSet
  <2>4. b \in [1..Len(p) -> 1..N]
    BY <2>2, <2>3
  <2>5. b \in Seq(1..N)
    <3>1. \A S : \A n \in Nat : \A f \in [1..n -> S] : f \in Seq(S)
      OBVIOUS
    <3> QED BY <2>2, <2>4, <3>1, Zenon
  <2> QED BY <1>2, <2>1, <2>2, <2>5, ChunksShape
<1> QED BY <1>1, <1>2

-----------------------------------------------------------------------------
(* Dispatching a window.                                                    *)

\* What no step takes back.
Grows ==
    /\ kind' = kind /\ entry' = entry
    /\ arrived \subseteq arrived' /\ dlq \subseteq dlq' /\ refused \subseteq refused'
    /\ unchanged \subseteq unchanged'

\* What is dealt with stays dealt with.
LEMMA StillDone ==
    ASSUME Grows
    PROVE  /\ \A s : Done(s) => Done(s)'
           /\ \A n : DoneBelow(n) => DoneBelow(n)'
BY DEF Grows, Done, DoneBelow, Dropped

LEMMA BoundIsNat == N \in Nat /\ N > 0
BY SinksAssumption

\* The buffer after entry "at" was appended to it.
LEMMA BufferedOK ==
    ASSUME NEW p \in Seq(1..N), NEW a \in 1..N, Ascending(p), \A x \in ToSet(p) : x < a
    PROVE  /\ Append(p, a) \in Seq(1..N) /\ Ascending(Append(p, a))
           /\ ToSet(Append(p, a)) = ToSet(p) \cup {a} /\ \A x \in ToSet(Append(p, a)) : x <= a
<1> DEFINE q == Append(p, a)
           n == Len(p)
<1>1. /\ n \in Nat /\ q \in Seq(1..N) /\ Len(q) = n + 1
      /\ \A i \in 1..n : q[i] = p[i] /\ q[n + 1] = a
  BY AppendProperties
<1>2. DOMAIN p = 1..n /\ DOMAIN q = 1..(n + 1) /\ \A i \in 1..n : p[i] \in ToSet(p)
  BY <1>1 DEF ToSet
<1>3. q[n + 1] = a
  BY AppendProperties
<1> HIDE DEF q
<1>4. \A i \in 1..(n + 1) : i \in 1..n \/ i = n + 1
  BY <1>1
<1>5. ToSet(q) = ToSet(p) \cup {a}
  <2>1. \A x \in ToSet(q) : x \in ToSet(p) \cup {a}
    BY <1>1, <1>2, <1>3, <1>4 DEF ToSet
  <2>2. n + 1 \in DOMAIN q /\ \A i \in DOMAIN p : i \in DOMAIN q
    BY <1>1, <1>2
  <2>3. \A x \in ToSet(p) : x \in ToSet(q)
    BY <1>1, <1>2, <2>2 DEF ToSet
  <2>4. a \in ToSet(q)
    BY <1>3, <2>2 DEF ToSet
  <2> QED BY <2>1, <2>3, <2>4
<1>6. ASSUME NEW i \in DOMAIN q, NEW j \in DOMAIN q, i < j PROVE q[i] < q[j]
  <2>1. i \in 1..n
    BY <1>1, <1>2, <1>6
  <2>2. CASE j \in 1..n
    BY <1>1, <1>2, <1>6, <2>1, <2>2 DEF Ascending
  <2>3. CASE j = n + 1
    BY <1>1, <1>2, <1>3, <2>1, <2>3
  <2> QED BY <1>2, <1>4, <2>2, <2>3
<1>7. \A x \in ToSet(p) : x \in 1..N
  BY <1>2, Elements DEF ToSet
<1>8. \A x \in ToSet(q) : x <= a
  BY <1>5, <1>7
<1> QED BY <1>1, <1>5, <1>6, <1>8 DEF Ascending, q

\* What a Deliver leaves when it has dealt with entry "at", with the buffer p.
Ready(p) ==
    /\ kind' = kind /\ entry' = entry /\ last' = last
    /\ p \in Seq(1..N) /\ Ascending(p) /\ \A x \in ToSet(p) : x <= at
    /\ prov' \in 0..(N + 1) /\ prov' <= at + 1
    /\ failed' # {} => kind \in Publisher
    /\ \A s \in 1..at : Done(s)' \/ IF kind \in Publisher THEN failed' # {} ELSE s \in ToSet(p)
    /\ kind = "pubsub" => \A s \in 1..at : Done(s)' \/ KeyOf(s) \in paused'

\* The dispatch of an entry keeps its part of the invariant: the next entry or the flush.
LEMMA DispatchedOK ==
    ASSUME SinkTypes, pc = "deliver", DeliverOK, NEW p, Ready(p), Dispatched(p)
    PROVE  /\ pending' \in Seq(1..N) /\ work' \in Seq(Seq(1..N)) /\ at' \in 0..N /\ pc' \in Pcs
           /\ last' \in 0..N
           /\ pc' \in {"deliver", "flush"}
           /\ pc' = "deliver" => DeliverOK'
           /\ pc' = "flush" => FlushOK'
<1>1. N \in Nat /\ at \in 1..N /\ last \in 1..N /\ at <= last
  BY BoundIsNat DEF SinkTypes, DeliverOK
<1>2. CASE at < last
  <2>1. at' = at + 1 /\ pending' = p /\ pc' = pc /\ work' = work /\ last' = last
    BY <1>2 DEF Dispatched, Ready
  <2>2. at' \in 1..N /\ at' - 1 = at
    BY <1>1, <1>2, <2>1
  <2>3. \A x \in ToSet(p) : x \in 1..N
    <3>1. p \in Seq(1..N) /\ DOMAIN p = 1..Len(p)
      BY DEF Ready
    <3>2. \A i \in DOMAIN p : p[i] \in 1..N
      BY <3>1, Elements
    <3> QED BY <3>2, Zenon DEF ToSet
  <2>4. \A x \in ToSet(pending') : x < at'
    BY <1>1, <2>1, <2>3 DEF Ready
  <2>5. DeliverOK'
    BY <1>1, <1>2, <2>1, <2>2, <2>4 DEF DeliverOK, Ready, Ascending, KeyOf
  <2> QED BY <1>1, <2>1, <2>2, <2>5 DEF SinkTypes, Pcs, Ready
<1>3. CASE ~(at < last)
  <2>1. /\ at' = at /\ pending' = <<>> /\ pc' = "flush" /\ work' \in Requests(p)
        /\ last' = last /\ at = last
    BY <1>1, <1>3 DEF Dispatched, Ready
  <2>2. /\ work' \in Seq(Seq(1..N)) /\ Waiting(work') = ToSet(p)
        /\ kind # "sqs" => WorkInOrder(work')
    BY <2>1, RequestsShape DEF Ready
  <2>3. kind \in Serial => kind # "sqs" /\ kind \notin Publisher
    BY DEF Serial, Publisher
  <2>4. \A s \in 1..last' :
            \/ Done(s)' \/ failed' # {}
            \/ (kind' \notin Publisher /\ s \in Waiting(work'))
    BY <2>1, <2>2 DEF Ready
  <2>5. \A x \in Waiting(work') : x <= last'
    BY <2>1, <2>2 DEF Ready
  <2>6. FlushOK'
    <3>1. prov' <= last' + 1 /\ pc' # "ack"
      BY <2>1 DEF Ready
    <3>2. kind' \in Serial => failed' = {} /\ WorkInOrder(work')
      BY <2>2, <2>3 DEF Ready
    <3>3. Waiting(work)' = Waiting(work') /\ WorkInOrder(work)' = WorkInOrder(work')
      BY DEF Waiting, WorkInOrder, Ascending
    <3> QED BY <2>1, <2>4, <2>5, <3>1, <3>2, <3>3 DEF FlushOK
  <2>7. pending' \in Seq(1..N)
    BY <2>1
  <2> QED BY <1>1, <2>1, <2>2, <2>6, <2>7 DEF Pcs
<1> QED BY <1>2, <1>3

\* The rest of the invariant after a dispatch.
LEMMA DispatchInv ==
    ASSUME SinkInv, pc = "deliver", Grows, NEW p, Ready(p), Dispatched(p),
           cursor' \in 1..(N + 1), DoneBelow(cursor'), tail' = tail, skipped' = skipped,
           out' = out, dlq' \subseteq 1..N,
           arrived' \subseteq 1..N, refused' \subseteq 1..N, unchanged' \subseteq 1..N
    PROVE  SinkInv'
<1>1. SinkTypes /\ DeliverOK
  BY DEF SinkInv
<1>2. /\ pending' \in Seq(1..N) /\ work' \in Seq(Seq(1..N)) /\ at' \in 0..N /\ last' \in 0..N
      /\ pc' \in {"deliver", "flush"} /\ pc' \in Pcs
      /\ pc' = "deliver" => DeliverOK'
      /\ pc' = "flush" => FlushOK'
  BY <1>1, DispatchedOK
<1>3. SinkTypes'
  BY <1>1, <1>2 DEF SinkTypes, Ready
<1>4. DoneBelow(cursor)'
  <2>1. \A n : DoneBelow(n) => DoneBelow(n)'
    BY StillDone
  <2>2. DoneBelow(cursor)' <=> \A s \in 1..(cursor' - 1) : Done(s)'
    BY DEF DoneBelow
  <2>3. \A s \in 1..(cursor' - 1) : Done(s)
    BY DEF DoneBelow
  <2> QED BY <2>2, <2>3, StillDone
<1>5. \A s \in skipped' : DoneBelow(s + 1)'
  BY StillDone DEF SinkInv
<1> QED BY <1>2, <1>3, <1>4, <1>5 DEF SinkInv

\* While a window is dispatched, "at" is an entry of the log.
LEMMA AtIsEntry ==
    ASSUME SinkInv, pc = "deliver"
    PROVE  /\ SinkTypes /\ DeliverOK /\ at \in 1..N /\ at + 1 \in 1..(N + 1)
           /\ prov \in 0..(N + 1) /\ prov <= at + 1 /\ at + 1 <= N + 1
           /\ \A x \in ToSet(pending) : x <= at
<1>1. SinkTypes /\ DeliverOK /\ N \in Nat
  BY BoundIsNat DEF SinkInv
<1>2. \A x \in ToSet(pending) : x \in 1..N
  <2>1. pending \in Seq(1..N) /\ DOMAIN pending = 1..Len(pending)
    BY <1>1 DEF SinkTypes
  <2>2. \A i \in DOMAIN pending : pending[i] \in 1..N
    BY <2>1, Elements
  <2> QED BY <2>2, Zenon DEF ToSet
<1> QED BY <1>1, <1>2 DEF SinkTypes, DeliverOK

\* The entry is not buffered: it is dealt with.
LEMMA ReadyAsIs ==
    ASSUME SinkInv, pc = "deliver", Grows, \A s : s = at => Done(s)', last' = last,
           prov' \in {prov, at + 1}, failed' = failed, paused' = paused
    PROVE  Ready(pending)
<1>1. /\ SinkTypes /\ DeliverOK /\ at \in 1..N /\ at + 1 \in 1..(N + 1)
      /\ prov \in 0..(N + 1) /\ prov <= at + 1 /\ at + 1 <= N + 1
      /\ \A x \in ToSet(pending) : x <= at
  BY AtIsEntry
<1>2. \A s : Done(s) => Done(s)'
  BY StillDone
<1>3. \A s \in 1..at : s = at \/ s \in 1..(at - 1)
  BY <1>1
<1>4. ASSUME NEW s \in 1..at
      PROVE  /\ Done(s)' \/ IF kind \in Publisher THEN failed' # {} ELSE s \in ToSet(pending)
             /\ kind = "pubsub" => Done(s)' \/ KeyOf(s) \in paused'
  <2>1. CASE s = at
    BY <2>1
  <2>2. CASE s \in 1..(at - 1)
    BY <2>2, <1>1, <1>2 DEF DeliverOK
  <2> QED BY <1>3, <2>1, <2>2
<1>5. prov' \in 0..(N + 1) /\ prov' <= at + 1
  BY <1>1
<1> QED BY <1>1, <1>4, <1>5 DEF Ready, DeliverOK, SinkTypes, Grows

\* The entry is buffered, and a publisher's has arrived or is on record as failed.
LEMMA ReadyBuffered ==
    ASSUME SinkInv, pc = "deliver", Grows, last' = last, prov' = at + 1,
           failed \subseteq failed', failed' # {} => kind \in Publisher,
           paused \subseteq paused',
           kind \in Publisher => failed' # {} \/ \A s : s = at => Done(s)',
           kind = "pubsub" => KeyOf(at) \in paused' \/ \A s : s = at => Done(s)'
    PROVE  Ready(Append(pending, at))
<1>1. /\ SinkTypes /\ DeliverOK /\ at \in 1..N /\ at + 1 \in 1..(N + 1)
      /\ at + 1 <= N + 1
  BY AtIsEntry
<1>2. \A s : Done(s) => Done(s)'
  BY StillDone
<1>3. \A s \in 1..at : s = at \/ s \in 1..(at - 1)
  BY <1>1
<1> DEFINE q == Append(pending, at)
<1>4. /\ q \in Seq(1..N) /\ Ascending(q) /\ ToSet(q) = ToSet(pending) \cup {at}
      /\ \A x \in ToSet(q) : x <= at
  BY <1>1, BufferedOK DEF SinkTypes, DeliverOK
<1> HIDE DEF q
<1>5. ASSUME NEW s \in 1..at
      PROVE  /\ Done(s)' \/ IF kind \in Publisher THEN failed' # {} ELSE s \in ToSet(q)
             /\ kind = "pubsub" => Done(s)' \/ KeyOf(s) \in paused'
  <2>1. CASE s = at
    BY <2>1, <1>4
  <2>2. CASE s \in 1..(at - 1)
    BY <2>2, <1>1, <1>2, <1>4 DEF DeliverOK
  <2> QED BY <1>3, <2>1, <2>2
<1>6. prov' \in 0..(N + 1) /\ prov' <= at + 1
  BY <1>1
<1>7. Ready(q)
  BY <1>1, <1>4, <1>5, <1>6 DEF Ready, Grows
<1> QED BY <1>7 DEF q

\* A skipped seq has everything before it dealt with: the cursor may pass it at once.
LEMMA PassOverInv ==
    ASSUME SinkInv, PassOver
    PROVE  SinkInv'
<1>1. /\ pc = "deliver" /\ at \in skipped /\ cursor' = Larger(cursor, at + 1)
      /\ Dispatched(pending)
      /\ UNCHANGED <<fixed, tail, prov, skipped, streak, dlq, last, out, failed, farVars,
                     unchanged, paused, refusing, cacheVars, faults>>
  BY DEF PassOver
<1>2. Grows
  BY <1>1 DEF Grows, fixed, farVars
<1>3. DoneBelow(at + 1) /\ DoneBelow(cursor)
  BY <1>1 DEF SinkInv
<1>4. /\ SinkTypes /\ at \in 1..N /\ at + 1 \in 1..(N + 1)
  BY <1>1, AtIsEntry
<1>5. \A s : s = at => Done(s)'
  <2>1. at \in 1..((at + 1) - 1)
    BY <1>4
  <2>2. Done(at)
    BY <2>1, <1>3 DEF DoneBelow
  <2> QED BY <2>2, <1>2, StillDone
<1>6. Ready(pending)
  BY <1>1, <1>2, <1>5, ReadyAsIs
<1>7. cursor' \in 1..(N + 1) /\ DoneBelow(cursor')
  BY <1>1, <1>3, <1>4 DEF Larger, SinkTypes
<1> QED BY <1>1, <1>2, <1>4, <1>6, <1>7, DispatchInv DEF SinkTypes, farVars

\* What stays of the invariant when a Deliver leaves the cursor alone.
LEMMA DeliverKeeps ==
    ASSUME SinkInv, Grows, pc = "deliver", cursor' = cursor
    PROVE  SinkTypes /\ cursor' \in 1..(N + 1) /\ DoneBelow(cursor') /\ at \in 1..N
BY AtIsEntry DEF SinkInv, SinkTypes

\* A dropped or unchanged event is dealt with without a request.
LEMMA DeliverNeedlessInv ==
    ASSUME SinkInv, DeliverNeedless
    PROVE  SinkInv'
<1>1. /\ pc = "deliver" /\ (Dropped(at) \/ Unchanged(at)) /\ prov' = at + 1
      /\ unchanged' = IF Dropped(at) THEN unchanged ELSE unchanged \cup {at}
      /\ Dispatched(pending)
      /\ UNCHANGED <<fixed, tail, cursor, skipped, streak, dlq, last, out, failed, farVars,
                     paused, refusing, db, cache, faults>>
  BY DEF DeliverNeedless
<1>2. Grows
  BY <1>1 DEF Grows, fixed, farVars
<1>3. SinkTypes /\ cursor' \in 1..(N + 1) /\ DoneBelow(cursor') /\ at \in 1..N
  BY <1>1, <1>2, DeliverKeeps
<1>4. \A s : s = at => Done(s)'
  BY <1>1 DEF Done, Dropped, fixed
<1>5. Ready(pending)
  BY <1>1, <1>2, <1>4, ReadyAsIs
<1>6. unchanged' \subseteq 1..N
  BY <1>1, <1>3 DEF SinkTypes
<1> QED BY <1>1, <1>2, <1>3, <1>5, <1>6, DispatchInv DEF SinkTypes, farVars

\* Any other is in the buffer.
LEMMA DeliverBuffersInv ==
    ASSUME SinkInv, DeliverBuffers, kind \notin Publisher
    PROVE  SinkInv'
<1>1. /\ pc = "deliver" /\ prov' = at + 1 /\ Dispatched(Append(pending, at))
      /\ UNCHANGED <<fixed, tail, cursor, skipped, streak, dlq, last, out, failed, farVars,
                     unchanged, paused, refusing, cacheVars, faults>>
  BY DEF DeliverBuffers
<1>2. Grows
  BY <1>1 DEF Grows, fixed, farVars
<1>3. SinkTypes /\ cursor' \in 1..(N + 1) /\ DoneBelow(cursor') /\ at \in 1..N
  BY <1>1, <1>2, DeliverKeeps
<1>4. failed' # {} => kind \in Publisher
  BY <1>1 DEF SinkInv, DeliverOK
<1>5. Ready(Append(pending, at))
  BY <1>1, <1>2, <1>4, ReadyBuffered DEF Publisher
<1> QED BY <1>1, <1>2, <1>3, <1>5, DispatchInv DEF SinkTypes, farVars

\* A published one has arrived.
LEMMA DeliverPublishesInv ==
    ASSUME SinkInv, DeliverPublishes, kind \in Publisher
    PROVE  SinkInv'
<1>1. /\ pc = "deliver" /\ prov' = at + 1 /\ Dispatched(Append(pending, at))
      /\ arrived' = arrived \cup {at}
      /\ UNCHANGED <<fixed, tail, cursor, skipped, streak, dlq, last, out, failed, refused,
                     unchanged, paused>>
  BY DEF DeliverPublishes
<1>2. Grows
  BY <1>1 DEF Grows, fixed
<1>3. SinkTypes /\ cursor' \in 1..(N + 1) /\ DoneBelow(cursor') /\ at \in 1..N
  BY <1>1, <1>2, DeliverKeeps
<1>4. \A s : s = at => Done(s)'
  BY <1>1 DEF Done
<1>5. Ready(Append(pending, at))
  BY <1>1, <1>2, <1>4, ReadyBuffered
<1>6. arrived' \subseteq 1..N
  BY <1>1, <1>3 DEF SinkTypes
<1> QED BY <1>1, <1>2, <1>3, <1>5, <1>6, DispatchInv DEF SinkTypes

\* A nack or a lost confirm is on record, and Pub/Sub's key is paused.
LEMMA PublishFailsInv ==
    ASSUME SinkInv, PublishFails, kind \in Publisher
    PROVE  SinkInv'
<1>1. /\ pc = "deliver" /\ prov' = at + 1 /\ Dispatched(Append(pending, at))
      /\ arrived' \in {arrived, arrived \cup {at}}
      /\ paused' = IF kind = "pubsub" THEN paused \cup {KeyOf(at)} ELSE paused
      /\ failed' = failed \cup {<<at, "error">>}
      /\ UNCHANGED <<fixed, tail, cursor, skipped, streak, dlq, last, out, refused, unchanged>>
  BY DEF PublishFails
<1>2. Grows
  BY <1>1 DEF Grows, fixed
<1>3. SinkTypes /\ cursor' \in 1..(N + 1) /\ DoneBelow(cursor') /\ at \in 1..N
  BY <1>1, <1>2, DeliverKeeps
<1>4. /\ failed \subseteq failed' /\ failed' # {} /\ paused \subseteq paused'
      /\ kind = "pubsub" => KeyOf(at) \in paused'
  BY <1>1
<1>5. Ready(Append(pending, at))
  BY <1>1, <1>2, <1>4, ReadyBuffered
<1>6. arrived' \subseteq 1..N
  BY <1>1, <1>3 DEF SinkTypes
<1> QED BY <1>1, <1>2, <1>3, <1>5, <1>6, DispatchInv DEF SinkTypes

\* So is an answer with ErrPublishingPaused, of a key that was paused before.
LEMMA PublishPausedInv ==
    ASSUME SinkInv, PublishPaused, kind \in Publisher
    PROVE  SinkInv'
<1>1. /\ pc = "deliver" /\ prov' = at + 1 /\ Dispatched(Append(pending, at))
      /\ KeyOf(at) \in paused /\ failed' = failed \cup {<<at, "paused">>}
      /\ UNCHANGED <<fixed, tail, cursor, skipped, streak, dlq, last, out, farVars, unchanged,
                     paused>>
  BY DEF PublishPaused
<1>2. Grows
  BY <1>1 DEF Grows, fixed, farVars
<1>3. SinkTypes /\ cursor' \in 1..(N + 1) /\ DoneBelow(cursor') /\ at \in 1..N
  BY <1>1, <1>2, DeliverKeeps
<1>4. /\ failed \subseteq failed' /\ failed' # {} /\ paused \subseteq paused'
      /\ KeyOf(at) \in paused'
  BY <1>1
<1>5. Ready(Append(pending, at))
  BY <1>1, <1>2, <1>4, ReadyBuffered
<1> QED BY <1>1, <1>2, <1>3, <1>5, DispatchInv DEF SinkTypes, farVars

-----------------------------------------------------------------------------
(* Reading a window, and flushing it.                                       *)

\* A window begins at the cursor, below which all is dealt with.
LEMMA ReadWindowInv ==
    ASSUME SinkInv, ReadWindow
    PROVE  SinkInv'
<1>1. /\ pc = "read" /\ cursor <= tail /\ at' = cursor /\ pc' = "deliver"
      /\ last' = IF tail < cursor + Window THEN tail ELSE cursor + Window - 1
      /\ UNCHANGED <<fixed, tail, routerVars, out, pending, work, failed, farVars, unchanged>>
  BY DEF ReadWindow
<1>2. SinkTypes /\ ReadOK /\ DoneBelow(cursor) /\ N \in Nat /\ Window \in Nat /\ Window > 0
  BY <1>1, BoundIsNat, SinksAssumption DEF SinkInv
<1>3. /\ cursor \in 1..N /\ tail \in 0..N /\ last' \in 1..N /\ cursor <= last'
      /\ prov' = 0 /\ pending' = <<>> /\ failed' = {} /\ at' \in 1..N
  BY <1>1, <1>2 DEF SinkTypes, ReadOK, routerVars
<1>4. Grows /\ \A n : DoneBelow(n) => DoneBelow(n)'
  <2>1. Grows
    BY <1>1 DEF Grows, fixed, routerVars, farVars
  <2> QED BY <2>1, StillDone
<1>5. SinkTypes'
  BY <1>1, <1>2, <1>3 DEF SinkTypes, fixed, routerVars, farVars, Pcs
<1>6. DeliverOK'
  <2>1. \A s \in 1..(at' - 1) : Done(s)'
    BY <1>1, <1>2, <1>4, StillDone DEF DoneBelow
  <2>2. ToSet(pending') = {} /\ Ascending(pending')
    BY <1>3 DEF ToSet, Ascending
  <2>3. Ascending(pending)' /\ ToSet(pending)' = {}
    BY <2>2 DEF Ascending, ToSet
  <2> QED BY <1>1, <1>3, <2>1, <2>3 DEF DeliverOK
<1>7. DoneBelow(cursor)' /\ \A s \in skipped' : DoneBelow(s + 1)'
  BY <1>1, <1>2, <1>4 DEF SinkInv, routerVars, DoneBelow
<1> QED BY <1>1, <1>5, <1>6, <1>7 DEF SinkInv

\* What a step of a flush leaves alone, or only adds to.
FlushKeeps ==
    /\ Grows
    /\ UNCHANGED <<tail, cursor, prov, skipped, dlq, at, last, unchanged>>
    /\ pending' = pending
    /\ arrived' \subseteq 1..N /\ refused' \subseteq 1..N
    /\ out' \in [res : {"none", "ok", "transient", "poison"}, seq : 0..N]
    /\ work' \in Seq(Seq(1..N)) /\ pc' \in {"flush", "ack", "settle"}

\* A step of a flush keeps the invariant if it keeps the part of where it goes.
LEMMA FlushStepInv ==
    ASSUME SinkInv, pc \in {"flush", "ack"}, FlushKeeps,
           pc' \in {"flush", "ack"} => FlushOK', pc' = "settle" => SettleOKs'
    PROVE  SinkInv'
<1>1. SinkTypes'
  BY DEF SinkInv, SinkTypes, FlushKeeps, Grows, Pcs
<1>2. /\ \A s : Done(s) => Done(s)'
      /\ \A n : DoneBelow(n) => DoneBelow(n)'
  BY StillDone DEF FlushKeeps
<1>3. DoneBelow(cursor)' /\ \A s \in skipped' : DoneBelow(s + 1)'
  BY <1>2 DEF SinkInv, FlushKeeps, DoneBelow
<1> QED BY <1>1, <1>3 DEF SinkInv, FlushKeeps

\* The first request and the others.
LEMMA HeadOfWork ==
    ASSUME NEW w \in Seq(Seq(1..N)), w # <<>>
    PROVE  /\ Head(w) \in Seq(1..N) /\ Tail(w) \in Seq(Seq(1..N)) /\ ToSet(Head(w)) \subseteq 1..N
           /\ Waiting(w) = ToSet(Head(w)) \cup Waiting(Tail(w))
           /\ WorkInOrder(w) =>
                /\ Head(w) # <<>> /\ Ascending(Head(w)) /\ WorkInOrder(Tail(w))
                /\ \A x \in ToSet(Head(w)), y \in Waiting(Tail(w)) : x < y
<1> DEFINE h == Head(w)
           t == Tail(w)
           n == Len(w)
<1>1. /\ h \in Seq(1..N) /\ t \in Seq(Seq(1..N)) /\ n \in Nat /\ n > 0 /\ Len(t) = n - 1
      /\ h = w[1] /\ \A i \in 1..(n - 1) : t[i] = w[i + 1]
  BY HeadTailProperties
<1>2. DOMAIN w = 1..n /\ DOMAIN t = 1..(n - 1)
  BY <1>1
<1> HIDE DEF h, t, n
<1>3. \A q \in 1..n : q = 1 \/ (q - 1 \in 1..(n - 1) /\ w[q] = t[q - 1])
  <2>1. \A q \in 1..n : q = 1 \/ (q - 1 \in 1..(n - 1) /\ (q - 1) + 1 = q)
    BY <1>1
  <2> QED BY <1>1, <2>1
<1>4. ToSet(h) \subseteq 1..N
  <2>1. DOMAIN h = 1..Len(h)
    BY <1>1
  <2>2. \A i \in DOMAIN h : h[i] \in 1..N
    BY <1>1, <2>1, Elements
  <2> QED BY <2>2, Zenon DEF ToSet
<1>5. Waiting(w) = ToSet(h) \cup Waiting(t)
  <2>1. ASSUME NEW x \in Waiting(w) PROVE x \in ToSet(h) \cup Waiting(t)
    <3>1. PICK q \in DOMAIN w : x \in ToSet(w[q])
      BY DEF Waiting
    <3> QED BY <3>1, <1>1, <1>2, <1>3 DEF Waiting
  <2>2. ASSUME NEW x \in ToSet(h) PROVE x \in Waiting(w)
    <3>1. 1 \in DOMAIN w
      BY <1>1, <1>2
    <3> QED BY <3>1, <1>1 DEF Waiting
  <2>3. ASSUME NEW x \in Waiting(t) PROVE x \in Waiting(w)
    <3>1. PICK q \in DOMAIN t : x \in ToSet(t[q])
      BY DEF Waiting
    <3>2. q + 1 \in DOMAIN w /\ t[q] = w[q + 1]
      BY <1>1, <1>2
    <3> QED BY <3>1, <3>2 DEF Waiting
  <2> QED BY <2>1, <2>2, <2>3
<1>6. ASSUME WorkInOrder(w)
      PROVE  /\ h # <<>> /\ Ascending(h) /\ WorkInOrder(t)
             /\ \A x \in ToSet(h), y \in Waiting(t) : x < y
  <2>1. 1 \in DOMAIN w /\ \A q \in DOMAIN t : q + 1 \in DOMAIN w /\ t[q] = w[q + 1] /\ 1 < q + 1
    BY <1>1, <1>2
  <2>2. h # <<>> /\ Ascending(h)
    BY <1>1, <1>6, <2>1 DEF WorkInOrder
  <2>3. \A p, q \in DOMAIN t : p < q => p + 1 < q + 1
    BY <1>1, <1>2
  <2>4. WorkInOrder(t)
    BY <1>6, <2>1, <2>3 DEF WorkInOrder
  <2>5. ASSUME NEW x \in ToSet(h), NEW y \in Waiting(t) PROVE x < y
    <3>1. PICK q \in DOMAIN t : y \in ToSet(t[q])
      BY DEF Waiting
    <3> QED BY <1>1, <1>6, <2>1, <3>1 DEF WorkInOrder
  <2> QED BY <2>2, <2>4, <2>5
<1> QED BY <1>1, <1>4, <1>5, <1>6 DEF h, t

-----------------------------------------------------------------------------
(* The steps of a flush.                                                    *)

\* What is known while a flush goes on.
LEMMA FlushFacts ==
    ASSUME SinkInv, pc \in {"flush", "ack"}
    PROVE  SinkTypes /\ FlushOK /\ N \in Nat
BY BoundIsNat DEF SinkInv

\* The first request is left behind once its events have arrived.
LEMMA RequestDone ==
    ASSUME SinkInv, pc \in {"flush", "ack"}, kind \in Serial, work # <<>>, FlushKeeps,
           work' = Tail(work), pc' = "flush", failed' = failed, ToSet(Request) \subseteq arrived'
    PROVE  SinkInv'
<1>1. SinkTypes /\ FlushOK /\ N \in Nat
  BY FlushFacts
<1>2. /\ Waiting(work) = ToSet(Request) \cup Waiting(Tail(work))
      /\ WorkInOrder(work) => WorkInOrder(Tail(work))
  BY <1>1, HeadOfWork DEF SinkTypes, Request
<1>3. \A s : Done(s) => Done(s)'
  BY StillDone DEF FlushKeeps
<1>4. \A s : s \in ToSet(Request) => Done(s)'
  BY DEF Done
<1>5. kind' = kind /\ last' = last /\ prov' = prov /\ pending' = pending
  BY DEF FlushKeeps, Grows
<1>6. Waiting(work)' = Waiting(Tail(work)) /\ WorkInOrder(work)' = WorkInOrder(Tail(work))
  BY DEF Waiting, WorkInOrder, Ascending
<1>7. \A s \in 1..last :
          Done(s)' \/ failed' # {} \/ (kind' \notin Publisher /\ s \in Waiting(work)')
  BY <1>1, <1>2, <1>3, <1>4, <1>5, <1>6 DEF FlushOK
<1>8. FlushOK'
  BY <1>1, <1>2, <1>5, <1>6, <1>7 DEF FlushOK
<1> QED BY <1>8, FlushStepInv

\* An accepted request has arrived; the vector sink still has it at the head of its work.
LEMMA SendAcceptedInv ==
    ASSUME SinkInv, SendAccepted
    PROVE  SinkInv'
<1>1. /\ pc = "flush" /\ kind \in Serial /\ work # <<>>
      /\ arrived' = arrived \cup ToSet(Request)
      /\ UNCHANGED <<fixed, tail, routerVars, at, last, out, pending, failed, refused, unchanged>>
  BY DEF SendAccepted
<1>2. SinkTypes /\ FlushOK /\ N \in Nat
  BY <1>1, FlushFacts
<1>3. ToSet(Request) \subseteq 1..N /\ Tail(work) \in Seq(Seq(1..N))
  BY <1>1, <1>2, HeadOfWork DEF SinkTypes, Request
<1>4. Grows
  BY <1>1 DEF Grows, fixed, routerVars
<1>5. CASE kind = "vector"
  <2>1. pc' = "ack" /\ work' = work
    BY <1>5 DEF SendAccepted
  <2>2. FlushKeeps
    BY <1>1, <1>2, <1>3, <1>4, <2>1 DEF FlushKeeps, SinkTypes, routerVars
  <2>3. \A s : Done(s) => Done(s)'
    BY <1>4, StillDone
  <2>4. /\ Request' = Request /\ Waiting(work)' = Waiting(work)
        /\ WorkInOrder(work)' = WorkInOrder(work)
    BY <2>1 DEF Request, Waiting, WorkInOrder, Ascending
  <2>5. kind' = kind /\ last' = last /\ prov' = prov /\ failed' = failed /\ pending' = pending
    BY <1>1 DEF fixed, routerVars
  <2>6. ToSet(Request)' = ToSet(Request)
    BY <2>4 DEF ToSet
  <2>7. FlushOK'
    <3>1. \A s \in 1..last :
              Done(s)' \/ failed' # {} \/ (kind' \notin Publisher /\ s \in Waiting(work)')
      BY <1>2, <2>3, <2>4, <2>5 DEF FlushOK
    <3> QED BY <1>1, <1>2, <1>5, <2>1, <2>4, <2>5, <2>6, <3>1 DEF FlushOK
  <2> QED BY <1>1, <2>1, <2>2, <2>7, FlushStepInv
<1>6. CASE kind # "vector"
  <2>1. work' = Tail(work) /\ pc' = "flush"
    BY <1>1, <1>6 DEF SendAccepted
  <2>2. FlushKeeps
    BY <1>1, <1>2, <1>3, <1>4, <2>1 DEF FlushKeeps, SinkTypes, routerVars
  <2> QED BY <1>1, <2>1, <2>2, RequestDone
<1> QED BY <1>5, <1>6

\* Whether the hash cache could be written does not matter to what has arrived.
LEMMA AckInv ==
    ASSUME SinkInv, AckCached \/ AckCacheFails
    PROVE  SinkInv'
<1>1. /\ pc = "ack" /\ work' = Tail(work) /\ pc' = "flush"
      /\ UNCHANGED <<fixed, tail, routerVars, at, last, out, pending, failed, farVars, unchanged>>
  BY DEF AckCached, AckCacheFails
<1>2. SinkTypes /\ FlushOK /\ N \in Nat
  BY <1>1, FlushFacts
<1>3. kind \in Serial /\ work # <<>> /\ ToSet(Request) \subseteq arrived
  BY <1>1, <1>2 DEF FlushOK, Serial
<1>4. Tail(work) \in Seq(Seq(1..N))
  BY <1>2, <1>3, HeadOfWork DEF SinkTypes
<1>5. FlushKeeps
  BY <1>1, <1>2, <1>4 DEF FlushKeeps, Grows, SinkTypes, fixed, routerVars, farVars
<1> QED BY <1>1, <1>3, <1>5, RequestDone DEF farVars

\* An error ends the flush of a serial sink: nothing is vouched for.
LEMMA SendTransientInv ==
    ASSUME SinkInv, SendTransient
    PROVE  SinkInv'
<1>1. /\ pc = "flush" /\ kind \in Serial /\ work # <<>>
      /\ arrived' = arrived \/ arrived' = arrived \cup ToSet(Request)
      /\ out' = [res |-> "transient", seq |-> 0] /\ pc' = "settle" /\ work' = <<>> /\ failed' = {}
      /\ UNCHANGED <<fixed, tail, routerVars, at, last, pending, refused, unchanged>>
  BY DEF SendTransient, TakenOrNot, Answer
<1>2. SinkTypes /\ FlushOK /\ N \in Nat
  BY <1>1, FlushFacts
<1>3. ToSet(Request) \subseteq 1..N
  BY <1>1, <1>2, HeadOfWork DEF SinkTypes, Request
<1>4. out' \in [res : {"none", "ok", "transient", "poison"}, seq : 0..N] /\ out'.res = "transient"
  BY <1>1, <1>2
<1>5. FlushKeeps
  <2>1. arrived \subseteq arrived' /\ arrived' \subseteq 1..N
    BY <1>1, <1>2, <1>3, Zenon DEF SinkTypes
  <2>2. work' \in Seq(Seq(1..N))
    BY <1>1
  <2> QED BY <1>1, <1>2, <1>4, <2>1, <2>2 DEF FlushKeeps, Grows, SinkTypes, fixed, routerVars
<1>6. SettleOKs'
  BY <1>1, <1>2, <1>4 DEF SettleOKs, FlushOK
<1> QED BY <1>1, <1>5, <1>6, FlushStepInv

\* The events of a refused request, one request each.
LEMMA IsolatedShape ==
    ASSUME NEW h \in Seq(1..N), NEW t \in Seq(Seq(1..N))
    PROVE  LET w == [i \in DOMAIN h |-> <<h[i]>>] \o t
           IN  /\ w \in Seq(Seq(1..N))
               /\ Waiting(w) = ToSet(h) \cup Waiting(t)
               /\ Ascending(h) /\ WorkInOrder(t) /\ (\A x \in ToSet(h), y \in Waiting(t) : x < y)
                    => WorkInOrder(w)
<1> DEFINE u == [i \in DOMAIN h |-> <<h[i]>>]
           w == u \o t
           m == Len(h)
           n == Len(t)
<1>1. m \in Nat /\ n \in Nat /\ DOMAIN h = 1..m /\ DOMAIN t = 1..n
  OBVIOUS
<1>2. \A i \in 1..m : h[i] \in 1..N
  BY Elements
<1>3. u \in Seq(Seq(1..N)) /\ Len(u) = m /\ \A i \in 1..m : u[i] = <<h[i]>>
  <2>1. u \in [1..m -> Seq(1..N)]
    BY <1>1, <1>2
  <2> QED BY <1>1, <2>1
<1>4. w \in Seq(Seq(1..N)) /\ Len(w) = m + n
  BY <1>1, <1>3, ConcatProperties
<1>5. \A i \in 1..(m + n) : w[i] = IF i <= m THEN u[i] ELSE t[i - m]
  BY <1>1, <1>3, ConcatProperties
<1>6. DOMAIN w = 1..(m + n)
  BY <1>1, <1>4
<1> HIDE DEF u, w, m, n
<1>7. /\ \A i \in 1..m : i \in 1..(m + n) /\ w[i] = <<h[i]>>
      /\ \A i \in 1..n : m + i \in 1..(m + n) /\ w[m + i] = t[i]
      /\ \A i \in 1..(m + n) : i \in 1..m \/ (i - m \in 1..n /\ w[i] = t[i - m] /\ i > m)
  <2>1. \A i \in 1..n : m + i \in 1..(m + n) /\ ~(m + i <= m) /\ (m + i) - m = i
    BY <1>1
  <2>2. \A i \in 1..m : i \in 1..(m + n) /\ i <= m
    BY <1>1
  <2>3. \A i \in 1..(m + n) : i \in 1..m \/ (i - m \in 1..n /\ ~(i <= m) /\ i > m)
    BY <1>1
  <2> QED BY <1>3, <1>5, <2>1, <2>2, <2>3
<1>8. \A i \in 1..m : ToSet(w[i]) = {h[i]} /\ w[i] # <<>> /\ Ascending(w[i])
  <2> SUFFICES ASSUME NEW i \in 1..m
               PROVE  ToSet(w[i]) = {h[i]} /\ w[i] # <<>> /\ Ascending(w[i])
    OBVIOUS
  <2>1. w[i] = <<h[i]>> /\ DOMAIN w[i] = {1} /\ w[i][1] = h[i]
    BY <1>7
  <2> QED BY <2>1 DEF ToSet, Ascending
<1>9. Waiting(w) = ToSet(h) \cup Waiting(t)
  <2>1. ASSUME NEW x \in Waiting(w) PROVE x \in ToSet(h) \cup Waiting(t)
    <3>1. PICK q \in 1..(m + n) : x \in ToSet(w[q])
      BY <1>6 DEF Waiting
    <3>2. CASE q \in 1..m
      <4>1. x = h[q]
        BY <1>8, <3>1, <3>2
      <4> QED BY <1>1, <3>2, <4>1 DEF ToSet
    <3>3. CASE q - m \in 1..n /\ w[q] = t[q - m]
      BY <1>1, <3>1, <3>3 DEF Waiting
    <3> QED BY <1>7, <3>2, <3>3
  <2>2. ASSUME NEW x \in ToSet(h) PROVE x \in Waiting(w)
    <3>1. PICK i \in 1..m : x = h[i]
      BY <1>1 DEF ToSet
    <3>2. x \in ToSet(w[i]) /\ i \in DOMAIN w
      BY <1>6, <1>7, <1>8, <3>1
    <3> QED BY <3>2 DEF Waiting
  <2>3. ASSUME NEW x \in Waiting(t) PROVE x \in Waiting(w)
    <3>1. PICK i \in 1..n : x \in ToSet(t[i])
      BY <1>1 DEF Waiting
    <3>2. x \in ToSet(w[m + i]) /\ m + i \in DOMAIN w
      BY <1>6, <1>7, <3>1
    <3> QED BY <3>2 DEF Waiting
  <2> QED BY <2>1, <2>2, <2>3
<1>10. ASSUME Ascending(h), WorkInOrder(t), \A x \in ToSet(h), y \in Waiting(t) : x < y
       PROVE  WorkInOrder(w)
  <2>1. \A i \in 1..m : h[i] \in ToSet(h)
    BY <1>1 DEF ToSet
  <2>2. \A i \in 1..n : \A y \in ToSet(t[i]) : y \in Waiting(t)
    BY <1>1 DEF Waiting
  <2>4. \A q \in 1..(m + n) : w[q] # <<>> /\ Ascending(w[q])
    BY <1>1, <1>7, <1>8, <1>10 DEF WorkInOrder
  <2>5. ASSUME NEW p \in 1..(m + n), NEW q \in 1..(m + n), p < q,
               NEW x \in ToSet(w[p]), NEW y \in ToSet(w[q])
        PROVE  x < y
    <3>1. CASE p \in 1..m /\ q \in 1..m
      <4>1. x = h[p] /\ y = h[q]
        BY <1>8, <2>5, <3>1
      <4> QED BY <1>1, <1>10, <2>5, <3>1, <4>1 DEF Ascending
    <3>2. CASE p \in 1..m /\ q \notin 1..m
      <4>1. x = h[p] /\ x \in ToSet(h)
        BY <1>8, <2>1, <2>5, <3>2
      <4>2. y \in Waiting(t)
        BY <1>7, <2>2, <2>5, <3>2
      <4> QED BY <1>10, <4>1, <4>2
    <3>3. CASE p \notin 1..m
      <4>1. q \notin 1..m
        BY <1>1, <2>5, <3>3
      <4>2. p - m \in 1..n /\ q - m \in 1..n /\ w[p] = t[p - m] /\ w[q] = t[q - m]
        BY <1>7, <3>3, <4>1
      <4>3. p - m < q - m
        BY <1>1, <2>5
      <4> QED BY <1>1, <1>10, <2>5, <4>2, <4>3 DEF WorkInOrder
    <3> QED BY <3>1, <3>2, <3>3
  <2> QED BY <1>6, <2>4, <2>5 DEF WorkInOrder
<1> QED BY <1>4, <1>9, <1>10 DEF w, u

\* An event refused alone is poison only when everything before it is dealt with:
\* the requests before it were taken, or the flush would have stopped.
LEMMA SendRefusedInv ==
    ASSUME SinkInv, SendRefused
    PROVE  SinkInv'
<1>1. /\ pc = "flush" /\ kind \in Serial /\ work # <<>>
      /\ UNCHANGED <<fixed, tail, routerVars, at, last, pending, failed, arrived, unchanged>>
  BY DEF SendRefused
<1>2. SinkTypes /\ FlushOK /\ N \in Nat
  BY <1>1, FlushFacts
<1>3. /\ failed = {} /\ WorkInOrder(work) /\ kind \notin Publisher
      /\ \A x \in Waiting(work) : x <= last
  BY <1>1, <1>2 DEF FlushOK, Serial, Publisher
<1>4. /\ Request \in Seq(1..N) /\ Tail(work) \in Seq(Seq(1..N)) /\ ToSet(Request) \subseteq 1..N
      /\ Waiting(work) = ToSet(Request) \cup Waiting(Tail(work))
      /\ Request # <<>> /\ Ascending(Request) /\ WorkInOrder(Tail(work))
      /\ \A x \in ToSet(Request), y \in Waiting(Tail(work)) : x < y
  BY <1>1, <1>2, <1>3, HeadOfWork DEF SinkTypes, Request
<1>5. CASE Len(Request) = 1
  <2>1. /\ out' = [res |-> "poison", seq |-> Request[1]]
        /\ refused' = refused \cup {Request[1]} /\ pc' = "settle" /\ work' = <<>>
    BY <1>5 DEF SendRefused
  <2>2. ToSet(Request) = {Request[1]} /\ Request[1] \in 1..N
    <3>1. DOMAIN Request = {1}
      BY <1>4, <1>5
    <3> QED BY <1>4, <3>1 DEF ToSet
  <2>3. Grows
    BY <1>1, <2>1 DEF Grows, fixed, routerVars
  <2>4. FlushKeeps
    <3>1. work' \in Seq(Seq(1..N)) /\ pc' = "settle"
      BY <2>1
    <3>2. out' \in [res : {"none", "ok", "transient", "poison"}, seq : 0..N]
      BY <1>2, <2>1, <2>2
    <3>3. refused' \subseteq 1..N
      BY <1>2, <2>1, <2>2 DEF SinkTypes
    <3> QED BY <1>1, <1>2, <2>3, <3>1, <3>2, <3>3 DEF FlushKeeps, SinkTypes, routerVars
  <2>5. \A s \in 1..(Request[1] - 1) : Done(s)
    <3>1. Request[1] <= last
      BY <1>3, <1>4, <2>2
    <3>2. \A s \in 1..(Request[1] - 1) : s \in 1..last /\ s < Request[1]
      BY <1>2, <2>2, <3>1 DEF SinkTypes
    <3>3. \A s \in Waiting(work) : s = Request[1] \/ Request[1] < s
      BY <1>4, <2>2
    <3>4. \A s \in 1..N : s < Request[1] => ~(s = Request[1] \/ Request[1] < s)
      BY <1>2, <2>2
    <3> QED BY <1>2, <1>3, <3>2, <3>3, <3>4 DEF FlushOK, SinkTypes
  <2>6. DoneBelow(out.seq)' /\ out'.seq \in refused' /\ out'.res = "poison"
    <3>1. DoneBelow(Request[1])
      BY <2>5 DEF DoneBelow
    <3>2. out'.seq = Request[1] /\ out'.res = "poison"
      BY <2>1
    <3>3. \A s \in 1..(Request[1] - 1) : Done(s)'
      BY <2>3, <2>5, StillDone
    <3> QED BY <2>1, <3>2, <3>3 DEF DoneBelow
  <2>7. SettleOKs'
    BY <1>1, <1>2, <1>3, <2>1, <2>6 DEF SettleOKs, FlushOK
  <2> QED BY <1>1, <2>1, <2>4, <2>7, FlushStepInv
<1>6. CASE Len(Request) # 1
  <2>1. /\ work' = [i \in DOMAIN Request |-> <<Request[i]>>] \o Tail(work)
        /\ out' = out /\ refused' = refused /\ pc' = "flush"
    BY <1>1, <1>6 DEF SendRefused
  <2>2. /\ work' \in Seq(Seq(1..N)) /\ Waiting(work') = Waiting(work) /\ WorkInOrder(work')
    BY <1>4, <2>1, IsolatedShape
  <2>3. Grows
    BY <1>1, <2>1 DEF Grows, fixed, routerVars
  <2>4. FlushKeeps
    BY <1>1, <1>2, <2>1, <2>2, <2>3 DEF FlushKeeps, SinkTypes, routerVars
  <2>5. Waiting(work)' = Waiting(work') /\ WorkInOrder(work)' = WorkInOrder(work')
    BY DEF Waiting, WorkInOrder, Ascending
  <2>6. kind' = kind /\ last' = last /\ prov' = prov /\ failed' = failed /\ pending' = pending
    BY <1>1 DEF fixed, routerVars
  <2>7. \A s : Done(s) => Done(s)'
    BY <2>3, StillDone
  <2>8. \A s \in 1..last :
            Done(s)' \/ failed' # {} \/ (kind' \notin Publisher /\ s \in Waiting(work)')
    BY <1>2, <2>2, <2>5, <2>6, <2>7 DEF FlushOK
  <2>9. FlushOK'
    BY <1>2, <1>3, <2>1, <2>2, <2>5, <2>6, <2>8 DEF FlushOK
  <2> QED BY <1>1, <2>1, <2>4, <2>9, FlushStepInv
<1> QED BY <1>5, <1>6

\* An asynchronous request leaves the queue confirmed, or its error on record.
LEMMA BulkInv ==
    ASSUME SinkInv, BulkConfirmed \/ BulkFails
    PROVE  SinkInv'
<1>1. /\ pc = "flush" /\ kind \in Bulk /\ work # <<>> /\ work' = Tail(work) /\ pc' = pc
      /\ UNCHANGED <<fixed, tail, routerVars, at, last, out, pending, refused, unchanged>>
  BY DEF BulkConfirmed, BulkFails
<1>2. SinkTypes /\ FlushOK /\ N \in Nat
  BY <1>1, FlushFacts
<1>3. kind \notin Serial /\ kind \notin Publisher
  BY <1>1 DEF Bulk, Serial, Publisher
<1>4. /\ Request \in Seq(1..N) /\ Tail(work) \in Seq(Seq(1..N)) /\ ToSet(Request) \subseteq 1..N
      /\ Waiting(work) = ToSet(Request) \cup Waiting(Tail(work))
  BY <1>1, <1>2, HeadOfWork DEF SinkTypes, Request
<1>5. arrived \subseteq arrived' /\ arrived' \subseteq 1..N
  <2>1. \E taken \in SUBSET ToSet(Request) : arrived' = arrived \cup taken
    BY DEF BulkConfirmed, BulkFails
  <2> QED BY <1>2, <1>4, <2>1 DEF SinkTypes
<1>6. Grows
  BY <1>1, <1>5 DEF Grows, fixed, routerVars
<1>7. \A s : Done(s) => Done(s)'
  BY <1>6, StillDone
<1>8. kind' = kind /\ last' = last /\ prov' = prov /\ pending' = pending
  BY <1>1 DEF fixed, routerVars
<1>9. Waiting(work)' = Waiting(Tail(work))
  BY <1>1 DEF Waiting
<1>10. \A s \in 1..last : Done(s)' \/ failed' # {} \/ s \in Waiting(work)'
  <2>1. CASE BulkConfirmed
    <3>1. failed' = failed /\ ToSet(Request) \subseteq arrived'
      BY <2>1 DEF BulkConfirmed
    <3>2. \A s \in ToSet(Request) : Done(s)'
      BY <3>1 DEF Done
    <3> QED BY <1>2, <1>4, <1>7, <1>9, <3>1, <3>2 DEF FlushOK
  <2>2. CASE BulkFails
    BY <2>2 DEF BulkFails
  <2> QED BY <2>1, <2>2
<1>11. FlushKeeps
  BY <1>1, <1>2, <1>4, <1>5, <1>6, <1>10 DEF FlushKeeps, SinkTypes, routerVars
<1>12. FlushOK'
  BY <1>1, <1>2, <1>3, <1>8, <1>10 DEF FlushOK
<1> QED BY <1>1, <1>11, <1>12, FlushStepInv

\* With no failure on record and nothing waiting, the whole window is dealt with.
LEMMA FlushReturnsInv ==
    ASSUME SinkInv, FlushReturns
    PROVE  SinkInv'
<1>1. /\ pc = "flush" /\ (work = <<>> \/ kind \in Publisher)
      /\ out' = [res |-> IF failed = {} THEN "ok" ELSE "transient", seq |-> 0]
      /\ pc' = "settle" /\ work' = <<>> /\ failed' = {}
      /\ UNCHANGED <<fixed, tail, routerVars, at, last, pending, farVars, unchanged>>
  BY DEF FlushReturns, Answer
<1>2. SinkTypes /\ FlushOK /\ N \in Nat
  BY <1>1, FlushFacts
<1>3. Grows
  BY <1>1 DEF Grows, fixed, routerVars, farVars
<1>4. FlushKeeps
  <2>1. work' \in Seq(Seq(1..N))
    BY <1>1
  <2>2. out' \in [res : {"none", "ok", "transient", "poison"}, seq : 0..N]
    BY <1>1, <1>2
  <2> QED BY <1>1, <1>2, <1>3, <2>1, <2>2 DEF FlushKeeps, SinkTypes, routerVars, farVars
<1>5. failed = {} => \A s \in 1..(prov - 1) : Done(s)
  <2>1. work = <<>> => Waiting(work) = {}
    BY DEF Waiting
  <2>2. failed = {} => \A s \in 1..last : Done(s)
    BY <1>1, <1>2, <2>1 DEF FlushOK
  <2>3. \A s \in 1..(prov - 1) : s \in 1..last
    BY <1>2 DEF FlushOK, SinkTypes
  <2> QED BY <2>2, <2>3
<1>6. out'.res = "ok" => DoneBelow(prov)'
  <2>1. out'.res = "ok" => failed = {}
    BY <1>1
  <2>2. prov' = prov
    BY <1>1 DEF routerVars
  <2>3. failed = {} => \A s \in 1..(prov - 1) : Done(s)'
    BY <1>3, <1>5, StillDone
  <2> QED BY <2>1, <2>2, <2>3 DEF DoneBelow
<1>7. out'.res # "poison"
  BY <1>1
<1>8. SettleOKs'
  BY <1>1, <1>2, <1>6, <1>7 DEF SettleOKs, FlushOK
<1> QED BY <1>1, <1>4, <1>8, FlushStepInv

-----------------------------------------------------------------------------
(* Settling a flush, and the other steps.                                   *)

\* Between two windows only the cursor, the skip-set and the dead letters count.
LEMMA BetweenWindows ==
    ASSUME SinkInv, Grows, pc' = "read", out' = NoAnswer, prov' = 0, at' = 0, last' = 0,
           pending' = <<>>, work' = <<>>, failed' = {}, tail' = tail,
           cursor' \in 1..(N + 1), \A s \in 1..(cursor' - 1) : Done(s)',
           skipped' \subseteq 1..N, \A s \in skipped' : \A r \in 1..s : Done(r)',
           dlq' \subseteq 1..N, arrived' = arrived, refused' = refused, unchanged' = unchanged
    PROVE  SinkInv'
<1>1. SinkTypes /\ N \in Nat
  BY BoundIsNat DEF SinkInv
<1>2. out' \in [res : {"none", "ok", "transient", "poison"}, seq : 0..N]
  BY <1>1 DEF NoAnswer
<1>3. pending' \in Seq(1..N) /\ work' \in Seq(Seq(1..N))
  OBVIOUS
<1>4. SinkTypes'
  BY <1>1, <1>2, <1>3 DEF SinkTypes, Grows, Pcs
<1>5. DoneBelow(cursor)'
  BY DEF DoneBelow
<1>6. \A s \in skipped' : DoneBelow(s + 1)'
  <2> SUFFICES ASSUME NEW s \in skipped' PROVE \A r \in 1..((s + 1) - 1) : Done(r)'
    BY DEF DoneBelow
  <2>1. (s + 1) - 1 = s
    BY <1>1
  <2> QED BY <2>1
<1> QED BY <1>4, <1>5, <1>6 DEF SinkInv, ReadOK

\* What the actions that settle a flush have in common.
LEMMA SettledFacts ==
    ASSUME SinkInv, pc = "settle", Settled, dlq \subseteq dlq'
    PROVE  /\ SinkTypes /\ SettleOKs /\ N \in Nat /\ Grows
           /\ pending' = <<>> /\ work' = <<>> /\ failed' = {}
           /\ \A s : Done(s) => Done(s)'
           /\ \A s \in 1..(cursor - 1) : Done(s)'
           /\ \A s \in skipped : \A r \in 1..s : Done(r)'
<1>1. SinkTypes /\ SettleOKs /\ N \in Nat
  BY BoundIsNat DEF SinkInv
<1>2. Grows
  BY DEF Settled, Grows, fixed, farVars
<1>3. \A s : Done(s) => Done(s)'
  BY <1>2, StillDone
<1>4. \A s \in skipped : \A r \in 1..s : Done(r)
  <2> SUFFICES ASSUME NEW s \in skipped PROVE \A r \in 1..s : Done(r)
    OBVIOUS
  <2>1. s \in 1..N /\ (s + 1) - 1 = s
    BY <1>1 DEF SinkTypes
  <2> QED BY <2>1 DEF SinkInv, DoneBelow
<1> QED BY <1>1, <1>2, <1>3, <1>4 DEF Settled, SettleOKs, SinkInv, DoneBelow

\* The answer moves the cursor or the skip-set past what it vouches for, and no further.
LEMMA SettleInv ==
    ASSUME SinkInv, SettleOK \/ SettleTransient \/ SettlePoison \/ SettlePoisonFails
    PROVE  SinkInv'
<1>1. /\ pc = "settle" /\ Settled /\ dlq \subseteq dlq'
  BY DEF SettleOK, SettleTransient, SettlePoison, SettlePoisonFails
<1>2. /\ SinkTypes /\ SettleOKs /\ N \in Nat /\ Grows
      /\ pending' = <<>> /\ work' = <<>> /\ failed' = {}
      /\ \A s : Done(s) => Done(s)'
      /\ \A s \in 1..(cursor - 1) : Done(s)'
      /\ \A s \in skipped : \A r \in 1..s : Done(r)'
  BY <1>1, SettledFacts
<1>3. /\ pc' = "read" /\ out' = NoAnswer /\ prov' = 0 /\ at' = 0 /\ last' = 0 /\ tail' = tail
      /\ arrived' = arrived /\ refused' = refused /\ unchanged' = unchanged
  BY <1>1 DEF Settled, farVars
<1>4. CASE SettleOK
  <2>1. out.res = "ok" /\ cursor' = Larger(cursor, prov) /\ skipped' \subseteq skipped /\ dlq' = dlq
    BY <1>4 DEF SettleOK
  <2>2. \A s \in 1..(prov - 1) : Done(s)'
    BY <1>2, <2>1 DEF SettleOKs, DoneBelow
  <2>3. cursor' \in 1..(N + 1) /\ (cursor' = cursor \/ cursor' = prov)
    BY <1>2, <2>1 DEF SinkTypes, Larger
  <2>4. \A s \in 1..(cursor' - 1) : Done(s)'
    BY <1>2, <2>2, <2>3
  <2>5. skipped' \subseteq 1..N /\ dlq' \subseteq 1..N
    BY <1>2, <2>1 DEF SinkTypes
  <2>6. \A s \in skipped' : \A r \in 1..s : Done(r)'
    BY <1>2, <2>1
  <2> QED BY <1>2, <1>3, <2>3, <2>4, <2>5, <2>6, BetweenWindows
<1>5. CASE SettleTransient \/ SettlePoisonFails
  <2>1. cursor' = cursor /\ skipped' = skipped /\ dlq' = dlq
    BY <1>5 DEF SettleTransient, SettlePoisonFails
  <2> QED BY <1>2, <1>3, <2>1, BetweenWindows DEF SinkTypes
<1>6. CASE SettlePoison
  <2>1. /\ out.res = "poison" /\ cursor' = cursor
        /\ skipped' = skipped \cup {out.seq} /\ dlq' = dlq \cup {out.seq}
    BY <1>6 DEF SettlePoison, PoisonSettles
  <2>2. out.seq \in refused /\ DoneBelow(out.seq) /\ out.seq \in 1..N
    BY <1>2, <2>1 DEF SettleOKs, SinkTypes
  <2>3. \A s : s = out.seq => Done(s)'
    BY <1>3, <2>1, <2>2 DEF Done
  <2>4. \A r \in 1..out.seq : r = out.seq \/ r \in 1..(out.seq - 1)
    BY <2>2
  <2>5. \A r \in 1..out.seq : Done(r)'
    BY <1>2, <2>2, <2>3, <2>4 DEF DoneBelow
  <2>6. skipped' \subseteq 1..N /\ dlq' \subseteq 1..N /\ cursor' \in 1..(N + 1)
    BY <1>2, <2>1, <2>2 DEF SinkTypes
  <2>7. \A s \in skipped' : \A r \in 1..s : Done(r)'
    BY <1>2, <2>1, <2>5
  <2>8. \A s \in 1..(cursor' - 1) : Done(s)'
    BY <1>2, <2>1
  <2> QED BY <1>2, <1>3, <2>6, <2>7, <2>8, BetweenWindows
<1> QED BY <1>4, <1>5, <1>6

\* A restart begins at a cursor below which all was dealt with, with an empty skip-set.
LEMMA CrashInv ==
    ASSUME SinkInv, Crash
    PROVE  SinkInv'
<1>1. SinkTypes /\ N \in Nat /\ DoneBelow(cursor)
  BY BoundIsNat DEF SinkInv
<1>2. /\ cursor' \in 1..cursor /\ prov' = 0 /\ skipped' = {} /\ dlq' = dlq
      /\ pc' = "read" /\ at' = 0 /\ last' = 0 /\ out' = NoAnswer
      /\ pending' = <<>> /\ work' = <<>> /\ failed' = {} /\ tail' = tail
      /\ arrived' = arrived /\ refused' = refused /\ unchanged' = unchanged
  BY DEF Crash, farVars
<1>3. Grows
  BY <1>2 DEF Crash, Grows, fixed
<1>4. cursor' \in 1..(N + 1) /\ \A s \in 1..(cursor' - 1) : s \in 1..(cursor - 1)
  <2>1. cursor \in 1..(N + 1)
    BY <1>1 DEF SinkTypes
  <2>2. \A c \in 1..cursor : c \in 1..(N + 1) /\ \A s \in 1..(c - 1) : s \in 1..(cursor - 1)
    BY <1>1, <2>1
  <2> QED BY <1>2, <2>2
<1>5. \A s \in 1..(cursor' - 1) : Done(s)'
  BY <1>1, <1>3, <1>4, StillDone DEF DoneBelow
<1> QED BY <1>1, <1>2, <1>3, <1>4, <1>5, BetweenWindows DEF SinkTypes


\* Steps of the source and of an outage.
LEMMA IdleInv ==
    ASSUME SinkInv, tail' \in 0..N,
           UNCHANGED <<fixed, cursor, prov, skipped, dlq, pc, at, last, out, pending, work,
                       failed, arrived, refused, unchanged, paused>>
    PROVE  SinkInv'
<1>1. Grows
  BY DEF Grows, fixed
<1>2. \A s : Done(s) <=> Done(s)'
  BY DEF Done, Dropped, fixed
<1>3. SinkTypes'
  BY DEF SinkInv, SinkTypes, fixed
<1>4. DoneBelow(cursor)' /\ \A s \in skipped' : DoneBelow(s + 1)'
  BY <1>2 DEF SinkInv, DoneBelow
<1>5. pc' = "read" => ReadOK'
  BY DEF SinkInv, ReadOK
<1>6. pc' = "deliver" => DeliverOK'
  BY <1>2 DEF SinkInv, DeliverOK, Ascending, KeyOf, fixed, ToSet
<1>7. pc' \in {"flush", "ack"} => FlushOK'
  <2>1. WorkInOrder(work)' = WorkInOrder(work) /\ Waiting(work)' = Waiting(work)
    BY DEF WorkInOrder, Waiting, Ascending, ToSet
  <2>2. /\ ToSet(Request)' = ToSet(Request)
        /\ (ToSet(Request) \subseteq arrived)' = (ToSet(Request) \subseteq arrived)
    BY DEF Request, ToSet
  <2> QED BY <1>2, <2>1, <2>2 DEF SinkInv, FlushOK, fixed
<1>8. pc' = "settle" => SettleOKs'
  BY <1>2 DEF SinkInv, SettleOKs, DoneBelow
<1> QED BY <1>3, <1>4, <1>5, <1>6, <1>7, <1>8 DEF SinkInv

-----------------------------------------------------------------------------
(* The theorems.                                                            *)

LEMMA SinkInit == Init => SinkInv
<1> SUFFICES ASSUME Init PROVE SinkInv
  OBVIOUS
<1>1. N \in Nat /\ N > 0 /\ Kinds \subseteq AllKinds
  BY SinksAssumption
<1>2. /\ kind \in Kinds /\ tail = 0 /\ cursor = 1 /\ prov = 0 /\ skipped = {} /\ dlq = {}
      /\ pc = "read" /\ at = 0 /\ last = 0 /\ out = NoAnswer
      /\ pending = <<>> /\ work = <<>> /\ failed = {}
      /\ arrived = {} /\ refused = {} /\ unchanged = {}
  BY DEF Init, Start
<1>3. out \in [res : {"none", "ok", "transient", "poison"}, seq : 0..N]
  BY <1>1, <1>2 DEF NoAnswer
<1>4. SinkTypes
  BY <1>1, <1>2, <1>3 DEF SinkTypes, Pcs
<1>5. DoneBelow(cursor) /\ \A s \in skipped : DoneBelow(s + 1)
  BY <1>2 DEF DoneBelow
<1> QED BY <1>2, <1>4, <1>5 DEF SinkInv, ReadOK

\* Deliver of each sink.
LEMMA DeliverInv ==
    ASSUME SinkInv,
           \/ WebhookDeliver \/ VectorDeliver \/ SQSDeliver \/ KafkaDeliver \/ NATSDeliver
           \/ RabbitMQDeliver \/ PubSubDeliver
    PROVE  SinkInv'
<1>1. CASE WebhookDeliver \/ VectorDeliver \/ SQSDeliver \/ KafkaDeliver \/ NATSDeliver
  <2>1. kind \notin Publisher /\ (DeliverNeedless \/ DeliverBuffers)
    BY <1>1 DEF WebhookDeliver, VectorDeliver, SQSDeliver, KafkaDeliver, NATSDeliver, Publisher
  <2> QED BY <2>1, DeliverNeedlessInv, DeliverBuffersInv
<1>2. CASE RabbitMQDeliver \/ PubSubDeliver
  <2>1. kind \in Publisher /\ (DeliverPublishes \/ PublishFails \/ PublishPaused)
    BY <1>2 DEF RabbitMQDeliver, PubSubDeliver, Publisher
  <2> QED BY <2>1, DeliverPublishesInv, PublishFailsInv, PublishPausedInv
<1> QED BY <1>1, <1>2

\* FlushBatch of each sink.
LEMMA FlushInv ==
    ASSUME SinkInv,
           \/ WebhookFlush \/ VectorFlush \/ SQSFlush \/ KafkaFlush \/ NATSFlush
           \/ RabbitMQFlush \/ PubSubFlush
    PROVE  SinkInv'
<1>1. \/ SendAccepted \/ SendTransient \/ SendRefused \/ FlushReturns
      \/ AckCached \/ AckCacheFails \/ BulkConfirmed \/ BulkFails
  BY DEF WebhookFlush, VectorFlush, SQSFlush, KafkaFlush, NATSFlush, RabbitMQFlush, PubSubFlush
<1> QED BY <1>1, SendAcceptedInv, SendTransientInv, SendRefusedInv, FlushReturnsInv, AckInv,
           BulkInv

LEMMA SinkNext == SinkInv /\ [Next]_vars => SinkInv'
<1> SUFFICES ASSUME SinkInv, [Next]_vars PROVE SinkInv'
  OBVIOUS
<1>1. SinkTypes /\ N \in Nat
  BY BoundIsNat DEF SinkInv
<1>2. CASE ReadWindow \/ PassOver
  BY <1>2, ReadWindowInv, PassOverInv
<1>3. CASE \/ WebhookDeliver \/ VectorDeliver \/ SQSDeliver \/ KafkaDeliver \/ NATSDeliver
           \/ RabbitMQDeliver \/ PubSubDeliver
  BY <1>3, DeliverInv
<1>4. CASE \/ WebhookFlush \/ VectorFlush \/ SQSFlush \/ KafkaFlush \/ NATSFlush
           \/ RabbitMQFlush \/ PubSubFlush
  BY <1>4, FlushInv
<1>5. CASE SettleOK \/ SettleTransient \/ SettlePoison \/ SettlePoisonFails
  BY <1>5, SettleInv
<1>6. CASE AppendEntry
  <2>1. tail' \in 0..N
    BY <1>1, <1>6 DEF AppendEntry, SinkTypes
  <2> QED BY <1>6, <2>1, IdleInv DEF AppendEntry, fixed, routerVars, farVars
<1>7. CASE OutageStarts \/ OutageEnds \/ UNCHANGED vars
  <2>1. tail' = tail
    BY <1>7 DEF OutageStarts, OutageEnds, vars
  <2>2. tail' \in 0..N
    BY <1>1, <2>1 DEF SinkTypes
  <2> QED BY <1>7, <2>2, IdleInv DEF OutageStarts, OutageEnds, vars, fixed, routerVars, farVars
<1>8. CASE Crash
  BY <1>8, CrashInv
<1> QED BY <1>2, <1>3, <1>4, <1>5, <1>6, <1>7, <1>8 DEF Next, Loop

\* The inductive invariant: what has been dispatched is dealt with, in the buffer,
\* among the requests left or on record as failed.
THEOREM SinkInvHolds == Spec => []SinkInv
<1>1. Init => SinkInv
  BY SinkInit
<1>2. SinkInv /\ [Next]_vars => SinkInv'
  BY SinkNext
<1> QED BY <1>1, <1>2, PTL DEF Spec

\* At-least-once, for all seven sinks: no event below the cursor is lost, whatever
\* fails in a flush and wherever the process stops.
THEOREM NothingEverLost == Spec => []NothingLost
<1>1. SinkInv => NothingLost
  BY DEF SinkInv, DoneBelow, Done, NothingLost
<1> QED BY <1>1, SinkInvHolds, PTL

\* A serial sink's next request is the oldest of what is not dealt with.
LEMMA RequestInOrder ==
    ASSUME SinkInv, pc = "flush", kind \in Serial, work # <<>>,
           arrived' = arrived \cup ToSet(Request)
    PROVE  InKeyOrder(arrived' \ arrived)
<1>1. SinkTypes /\ FlushOK /\ N \in Nat
  BY FlushFacts
<1>2. failed = {} /\ WorkInOrder(work) /\ \A x \in Waiting(work) : x <= last
  BY <1>1 DEF FlushOK
<1>3. /\ ToSet(Request) \subseteq 1..N
      /\ Waiting(work) = ToSet(Request) \cup Waiting(Tail(work))
      /\ \A x \in ToSet(Request), y \in Waiting(Tail(work)) : x < y
  BY <1>1, <1>2, HeadOfWork DEF SinkTypes, Request
<1>4. SUFFICES ASSUME NEW s \in ToSet(Request), NEW r \in 1..N, r < s, ~Dropped(r)
               PROVE  r \in arrived' \cup dlq \cup unchanged
  BY DEF InKeyOrder
<1>5. r \in 1..last
  BY <1>1, <1>2, <1>3, <1>4 DEF SinkTypes
<1>6. r \notin Waiting(Tail(work))
  <2>1. ~(s < r)
    BY <1>1, <1>3, <1>4
  <2> QED BY <1>3, <2>1
<1>7. Done(r) \/ r \in ToSet(Request)
  BY <1>1, <1>2, <1>3, <1>5, <1>6 DEF FlushOK
<1> QED BY <1>4, <1>7 DEF Done

\* Pub/Sub publishes only while the key is not paused: what came before of the key
\* is dealt with.
LEMMA PublishInOrder ==
    ASSUME SinkInv, kind = "pubsub", pc = "deliver", KeyOf(at) \notin paused,
           arrived' \in {arrived, arrived \cup {at}}
    PROVE  InKeyOrder(arrived' \ arrived)
<1>1. SinkTypes /\ DeliverOK /\ N \in Nat /\ at \in 1..N
  BY BoundIsNat, AtIsEntry
<1>2. SUFFICES ASSUME NEW r \in 1..N, r < at, KeyOf(r) = KeyOf(at), ~Dropped(r)
               PROVE  r \in arrived' \cup dlq \cup unchanged
  BY DEF InKeyOrder
<1>3. r \in 1..(at - 1)
  BY <1>1, <1>2
<1>4. Done(r)
  BY <1>1, <1>2, <1>3 DEF DeliverOK
<1> QED BY <1>2, <1>4 DEF Done

\* What arrives in a step is in key order.
LEMMA KeyOrderNext ==
    SinkInv /\ [Next]_vars
        => [(kind \in Serial \cup {"pubsub"}) => InKeyOrder(arrived' \ arrived)]_vars
<1> SUFFICES ASSUME SinkInv, Next, kind \in Serial \cup {"pubsub"}
             PROVE  InKeyOrder(arrived' \ arrived)
  OBVIOUS
<1>1. arrived' = arrived => InKeyOrder(arrived' \ arrived)
  BY DEF InKeyOrder
<1>2. CASE WebhookFlush \/ VectorFlush
  <2>1. CASE SendAccepted
    BY <2>1, RequestInOrder DEF SendAccepted
  <2>2. CASE SendTransient
    BY <2>2, <1>1, RequestInOrder DEF SendTransient, TakenOrNot
  <2>3. CASE SendRefused \/ FlushReturns \/ AckCached \/ AckCacheFails
    BY <2>3, <1>1 DEF SendRefused, FlushReturns, AckCached, AckCacheFails, farVars
  <2> QED BY <1>2, <2>1, <2>2, <2>3 DEF WebhookFlush, VectorFlush
<1>3. CASE PubSubDeliver
  <2>1. kind = "pubsub" /\ (DeliverPublishes \/ PublishFails \/ PublishPaused)
    BY <1>3 DEF PubSubDeliver
  <2>2. CASE DeliverPublishes \/ PublishFails
    BY <2>1, <2>2, PublishInOrder DEF DeliverPublishes, PublishFails
  <2>3. CASE PublishPaused
    BY <2>3, <1>1 DEF PublishPaused, farVars
  <2> QED BY <2>1, <2>2, <2>3
<1>4. CASE WebhookDeliver \/ VectorDeliver
  BY <1>4, <1>1 DEF WebhookDeliver, VectorDeliver, DeliverNeedless, DeliverBuffers, farVars
<1>5. CASE PubSubFlush
  BY <1>5, <1>1 DEF PubSubFlush, FlushReturns, farVars
<1>6. CASE \/ SQSDeliver \/ KafkaDeliver \/ NATSDeliver \/ RabbitMQDeliver
           \/ SQSFlush \/ KafkaFlush \/ NATSFlush \/ RabbitMQFlush
  BY <1>6 DEF SQSDeliver, KafkaDeliver, NATSDeliver, RabbitMQDeliver, SQSFlush, KafkaFlush,
              NATSFlush, RabbitMQFlush, Serial
<1>7. CASE ReadWindow \/ PassOver
  BY <1>7, <1>1 DEF ReadWindow, PassOver, farVars
<1>8. CASE SettleOK \/ SettleTransient \/ SettlePoison \/ SettlePoisonFails
  BY <1>8, <1>1 DEF SettleOK, SettleTransient, SettlePoison, SettlePoisonFails,
                       Settled, farVars
<1>9. CASE AppendEntry \/ OutageStarts \/ OutageEnds \/ Crash
  BY <1>9, <1>1 DEF AppendEntry, OutageStarts, OutageEnds, Crash, farVars
<1> QED BY <1>2, <1>3, <1>4, <1>5, <1>6, <1>7, <1>8, <1>9 DEF Next, Loop

\* An event first reaches a webhook, a vector store or Pub/Sub only after every
\* earlier event of its key was taken, dead-lettered or needed no sending.
THEOREM KeyOrderKept == Spec => SerialSinksKeepKeyOrder
<1>1. SinkInv /\ [Next]_vars
          => [(kind \in Serial \cup {"pubsub"}) => InKeyOrder(arrived' \ arrived)]_vars
  BY KeyOrderNext
<1> QED BY <1>1, SinkInvHolds, PTL DEF Spec, SerialSinksKeepKeyOrder

-----------------------------------------------------------------------------
(* The enrichment stage.                                                    *)

EnrichTypeOK ==
    /\ task \in [Slot -> {"none", "waiting", "checked", "posting", "done"}]
    /\ matching \in SUBSET Slot /\ given \in SUBSET Slot
    /\ logged \in [Caller -> {NotLogged} \cup {<<s>> : s \in SUBSET Slot}]
    /\ late \in [Caller -> Nat]
    /\ timeouts \in Nat /\ openedAt \in {"zero", "cooling", "cooled"}

\* A batch is in the log only while no goroutine of its caller runs, and what it was
\* given is what its events carry.
BatchSettled ==
    /\ context = given /\ given \subseteq matching
    /\ \A i \in Slot : task[i] \in {"checked", "posting"} => i \in matching
    /\ \A c \in Caller : logged[c] # NotLogged =>
          NoBatch(c) /\ logged[c][1] = given \cap Batch(c)

\* The breaker's two fields agree, so checkCircuit never starts a cool-down of its
\* own, and each call's sem bounds its requests that are under way.
Breaker ==
    /\ openedAt # "zero" <=> CircuitOpen
    /\ \A c \in Caller : Cardinality(Running(c)) <= EnrichConcurrency
    /\ CircuitHolds

EnrichInv == EnrichTypeOK /\ BatchSettled /\ Breaker

-----------------------------------------------------------------------------
(* Counting goroutines.                                                     *)

LEMMA RunningFinite ==
    ASSUME NEW c \in Caller
    PROVE  /\ IsFiniteSet(Running(c)) /\ IsFiniteSet(Posting(c)) /\ Posting(c) \subseteq Running(c)
           /\ Cardinality(Running(c)) \in Nat /\ Cardinality(Posting(c)) \in Nat
           /\ Cardinality(Posting(c)) <= Cardinality(Running(c))
<1>1. Running(c) \subseteq Slot /\ Posting(c) \subseteq Running(c) /\ Posting(c) \subseteq Slot
  BY DEF Running, Posting, Batch
<1>2. IsFiniteSet(Running(c)) /\ IsFiniteSet(Posting(c))
  BY <1>1, EnrichAssumption, FS_Subset
<1> QED BY <1>1, <1>2, FS_CardinalityType, FS_Subset

\* A set that grows by one, or loses one.
LEMMA CountUp ==
    ASSUME NEW S, IsFiniteSet(S), NEW T, NEW i, T \subseteq S \cup {i}
    PROVE  Cardinality(T) \in Nat /\ Cardinality(T) <= Cardinality(S) + 1
<1>1. IsFiniteSet(S \cup {i}) /\ Cardinality(S \cup {i}) <= Cardinality(S) + 1
  <2>1. Cardinality(S) \in Nat
    BY FS_CardinalityType
  <2>2. /\ IsFiniteSet(S \cup {i})
        /\ Cardinality(S \cup {i}) = IF i \in S THEN Cardinality(S) ELSE Cardinality(S) + 1
    BY FS_AddElement
  <2> QED BY <2>1, <2>2
<1>2. Cardinality(T) <= Cardinality(S \cup {i}) /\ IsFiniteSet(T)
  BY <1>1, FS_Subset
<1> QED BY <1>1, <1>2, FS_CardinalityType

LEMMA CountDown ==
    ASSUME NEW S, IsFiniteSet(S), NEW i \in S
    PROVE  Cardinality(S \ {i}) \in Nat /\ Cardinality(S \ {i}) = Cardinality(S) - 1
BY FS_RemoveElement, FS_CardinalityType

LEMMA CountSub ==
    ASSUME NEW S, IsFiniteSet(S), NEW T, T \subseteq S
    PROVE  Cardinality(T) \in Nat /\ Cardinality(T) <= Cardinality(S) /\ Cardinality(S) \in Nat
BY FS_Subset, FS_CardinalityType

-----------------------------------------------------------------------------
(* The steps.                                                               *)

\* What a step that sets one goroutine's stage does to its caller's counted sets.
LEMMA OneGoroutine ==
    ASSUME EnrichTypeOK, NEW i \in Slot, NEW c \in Caller, c = CallerOf[i],
           NEW t \in {"checked", "posting", "done"}, task' = [task EXCEPT ![i] = t]
    PROVE  /\ Running(c)' = IF t = "done" THEN Running(c) \ {i} ELSE Running(c) \cup {i}
           /\ Posting(c)' = IF t = "posting" THEN Posting(c) \cup {i} ELSE Posting(c) \ {i}
           /\ task' \in [Slot -> {"none", "waiting", "checked", "posting", "done"}]
           /\ task'[i] = t /\ \A j \in Slot \ {i} : task'[j] = task[j]
BY DEF EnrichTypeOK, Running, Posting, Batch

\* The other callers do not notice.
LEMMA OtherCallers ==
    ASSUME NEW c, \A j \in Slot : CallerOf[j] # c => task'[j] = task[j]
    PROVE  \A d \in Caller \ {c} : Running(d)' = Running(d) /\ Posting(d)' = Posting(d)
BY DEF Running, Posting, Batch

\* While a goroutine is not done with its event, its caller's batch is not in the
\* log, so the step of a goroutine leaves what is known of the logs alone.
LEMMA StillSettled ==
    ASSUME EnrichInv, NEW i \in Slot, task[i] # "none", NEW new \in SUBSET {i},
           new # {} => i \in matching,
           given' = given \cup new, context' = context \cup new,
           matching' = matching, logged' = logged,
           task' \in [Slot -> {"none", "waiting", "checked", "posting", "done"}],
           \A j \in Slot \ {i} : task'[j] = task[j],
           task'[i] \in {"checked", "posting"} => i \in matching
    PROVE  BatchSettled'
<1>1. EnrichTypeOK /\ BatchSettled
  BY DEF EnrichInv
<1>2. ASSUME NEW c \in Caller, logged'[c] # NotLogged
      PROVE  NoBatch(c)' /\ logged'[c][1] = given' \cap Batch(c)
  <2>1. NoBatch(c) /\ logged[c][1] = given \cap Batch(c)
    BY <1>1, <1>2 DEF BatchSettled
  <2>2. i \notin Batch(c)
    BY <2>1 DEF NoBatch
  <2>3. NoBatch(c)'
    BY <2>1, <2>2 DEF NoBatch, Batch
  <2> QED BY <2>1, <2>2, <2>3
<1>3. context' = given' /\ given' \subseteq matching'
  BY <1>1 DEF BatchSettled
<1>4. \A j \in Slot : task'[j] \in {"checked", "posting"} => j \in matching'
  BY <1>1 DEF BatchSettled
<1> QED BY <1>2, <1>3, <1>4 DEF BatchSettled, Batch

\* A step that starts no request and leaves the breaker alone.
LEMMA FewerRequests ==
    ASSUME EnrichInv, UNCHANGED <<timeouts, openedAt, late>>,
           \A c \in Caller : Running(c)' \subseteq Running(c) /\ Posting(c)' \subseteq Posting(c)
    PROVE  Breaker'
<1>1. EnrichTypeOK /\ Breaker
  BY DEF EnrichInv
<1>2. ASSUME NEW c \in Caller
      PROVE  /\ Cardinality(Running(c)') <= EnrichConcurrency
             /\ openedAt = "cooling" => late[c] + Cardinality(Posting(c)') <= EnrichConcurrency
  <2>1. /\ Cardinality(Running(c)) \in Nat /\ Cardinality(Posting(c)) \in Nat
        /\ IsFiniteSet(Running(c)) /\ IsFiniteSet(Posting(c))
    BY RunningFinite
  <2>2. /\ Cardinality(Running(c)') \in Nat /\ Cardinality(Running(c)') <= Cardinality(Running(c))
        /\ Cardinality(Posting(c)') \in Nat /\ Cardinality(Posting(c)') <= Cardinality(Posting(c))
    BY <2>1, CountSub
  <2>3. /\ late[c] \in Nat /\ Cardinality(Running(c)) <= EnrichConcurrency
        /\ openedAt = "cooling" => late[c] + Cardinality(Posting(c)) <= EnrichConcurrency
    BY <1>1 DEF EnrichTypeOK, Breaker, CircuitHolds
  <2> QED BY <2>1, <2>2, <2>3, EnrichAssumption
<1> QED BY <1>1, <1>2 DEF Breaker, CircuitHolds, CircuitOpen

\* The whole batch of a caller turns to a stage in which nothing is counted.
LEMMA BatchTurns ==
    ASSUME EnrichTypeOK, NEW c \in Caller, NEW t \in {"none", "waiting"}, Turns(c, t)
    PROVE  /\ task' \in [Slot -> {"none", "waiting", "checked", "posting", "done"}]
           /\ \A j \in Slot : task'[j] = IF CallerOf[j] = c THEN t ELSE task[j]
           /\ \A d \in Caller : Running(d)' \subseteq Running(d) /\ Posting(d)' \subseteq Posting(d)
<1>1. /\ task' \in [Slot -> {"none", "waiting", "checked", "posting", "done"}]
      /\ \A j \in Slot : task'[j] = IF CallerOf[j] = c THEN t ELSE task[j]
  BY DEF EnrichTypeOK, Turns
<1>2. Running(c)' = {} /\ Posting(c)' = {}
  BY <1>1 DEF Running, Posting, Batch
<1>3. \A d \in Caller \ {c} : Running(d)' = Running(d) /\ Posting(d)' = Posting(d)
  BY <1>1, OtherCallers
<1> QED BY <1>1, <1>2, <1>3

LEMMA EnrichBatchInv ==
    ASSUME EnrichInv, NEW c \in Caller, EnrichBatch(c)
    PROVE  EnrichInv'
<1>1. EnrichTypeOK /\ BatchSettled
  BY DEF EnrichInv
<1>2. PICK m \in SUBSET Batch(c) : matching' = (matching \ Batch(c)) \cup m
  BY DEF EnrichBatch
<1>3. /\ Turns(c, "waiting") /\ UNCHANGED <<timeouts, openedAt, healthy, late>>
      /\ context' = context \ Batch(c) /\ given' = given \ Batch(c)
      /\ logged' = [logged EXCEPT ![c] = NotLogged]
  BY DEF EnrichBatch
<1>4. /\ task' \in [Slot -> {"none", "waiting", "checked", "posting", "done"}]
      /\ \A j \in Slot : task'[j] = IF CallerOf[j] = c THEN "waiting" ELSE task[j]
      /\ \A d \in Caller : Running(d)' \subseteq Running(d) /\ Posting(d)' \subseteq Posting(d)
  BY <1>1, <1>3, BatchTurns
<1>5. /\ logged'[c] = NotLogged /\ \A d \in Caller \ {c} : logged'[d] = logged[d]
      /\ logged' \in [Caller -> {NotLogged} \cup {<<s>> : s \in SUBSET Slot}]
  BY <1>1, <1>3 DEF EnrichTypeOK
<1>6. EnrichTypeOK'
  BY <1>1, <1>2, <1>3, <1>4, <1>5 DEF EnrichTypeOK, Batch
<1>7. BatchSettled'
  <2>1. context' = given' /\ given' \subseteq matching'
    BY <1>1, <1>2, <1>3 DEF BatchSettled
  <2>2. \A i \in Slot : task'[i] \in {"checked", "posting"} => i \in matching'
    BY <1>1, <1>2, <1>4 DEF BatchSettled, Batch
  <2>3. ASSUME NEW d \in Caller \ {c}, logged'[d] # NotLogged
        PROVE  NoBatch(d)' /\ logged'[d][1] = given' \cap Batch(d)
    <3>1. NoBatch(d) /\ logged[d][1] = given \cap Batch(d)
      BY <1>1, <1>5, <2>3 DEF BatchSettled
    <3>2. Batch(d) \cap Batch(c) = {}
      BY DEF Batch
    <3>3. NoBatch(d)'
      BY <1>4, <3>1 DEF NoBatch, Batch
    <3> QED BY <1>3, <1>5, <3>1, <3>2, <3>3
  <2> QED BY <1>5, <2>1, <2>2, <2>3 DEF BatchSettled, Batch
<1> QED BY <1>3, <1>4, <1>6, <1>7, FewerRequests DEF EnrichInv

LEMMA BatchAppendedInv ==
    ASSUME EnrichInv, NEW c \in Caller, BatchAppended(c)
    PROVE  EnrichInv'
<1>1. EnrichTypeOK /\ BatchSettled
  BY DEF EnrichInv
<1>2. /\ Turns(c, "none") /\ logged' = [logged EXCEPT ![c] = <<context \cap Batch(c)>>]
      /\ UNCHANGED <<matching, context, timeouts, openedAt, healthy, given, late>>
  BY DEF BatchAppended, AppendEnriched
<1>3. /\ task' \in [Slot -> {"none", "waiting", "checked", "posting", "done"}]
      /\ \A j \in Slot : task'[j] = IF CallerOf[j] = c THEN "none" ELSE task[j]
      /\ \A d \in Caller : Running(d)' \subseteq Running(d) /\ Posting(d)' \subseteq Posting(d)
  BY <1>1, <1>2, BatchTurns
<1>4. context = given /\ context \cap Batch(c) \in SUBSET Slot
  BY <1>1 DEF BatchSettled, EnrichTypeOK, Batch
<1>5. /\ logged'[c] = <<given \cap Batch(c)>> /\ \A d \in Caller \ {c} : logged'[d] = logged[d]
      /\ logged' \in [Caller -> {NotLogged} \cup {<<s>> : s \in SUBSET Slot}]
  BY <1>1, <1>2, <1>4 DEF EnrichTypeOK
<1>6. EnrichTypeOK'
  BY <1>1, <1>2, <1>3, <1>5 DEF EnrichTypeOK
<1>7. BatchSettled'
  <2>1. context' = given' /\ given' \subseteq matching'
    BY <1>1, <1>2 DEF BatchSettled
  <2>2. \A i \in Slot : task'[i] \in {"checked", "posting"} => i \in matching'
    BY <1>1, <1>2, <1>3 DEF BatchSettled
  <2>3. ASSUME NEW d \in Caller \ {c}, logged'[d] # NotLogged
        PROVE  NoBatch(d)' /\ logged'[d][1] = given' \cap Batch(d)
    <3>1. NoBatch(d) /\ logged[d][1] = given \cap Batch(d)
      BY <1>1, <1>5, <2>3 DEF BatchSettled
    <3>2. NoBatch(d)'
      BY <1>3, <3>1 DEF NoBatch, Batch
    <3> QED BY <1>2, <1>5, <3>1, <3>2
  <2>4. NoBatch(c)' /\ logged'[c][1] = given' \cap Batch(c)
    BY <1>2, <1>3, <1>5 DEF NoBatch, Batch
  <2> QED BY <2>1, <2>2, <2>3, <2>4 DEF BatchSettled, Batch
<1> QED BY <1>2, <1>3, <1>6, <1>7, FewerRequests DEF EnrichInv

LEMMA EnrichStartsInv ==
    ASSUME EnrichInv, NEW i \in Slot, EnrichStarts(i)
    PROVE  EnrichInv'
<1> DEFINE c == CallerOf[i]
           t == IF i \in matching THEN "checked" ELSE "done"
<1>1. EnrichTypeOK /\ Breaker /\ c \in Caller
  BY EnrichAssumption DEF EnrichInv
<1>2. /\ task[i] = "waiting" /\ Cardinality(Running(c)) < EnrichConcurrency
      /\ task' = [task EXCEPT ![i] = t]
      /\ UNCHANGED <<matching, context, logged, timeouts, openedAt, healthy, given, late>>
  BY DEF EnrichStarts
<1>3. /\ Running(c)' = IF t = "done" THEN Running(c) \ {i} ELSE Running(c) \cup {i}
      /\ Posting(c)' = Posting(c) \ {i}
      /\ task' \in [Slot -> {"none", "waiting", "checked", "posting", "done"}]
      /\ task'[i] = t /\ \A j \in Slot \ {i} : task'[j] = task[j]
  BY <1>1, <1>2, OneGoroutine
<1>4. EnrichTypeOK'
  BY <1>1, <1>2, <1>3 DEF EnrichTypeOK
<1>5. BatchSettled'
  <2>1. {} \in SUBSET {i} /\ given' = given \cup {} /\ context' = context \cup {}
    BY <1>2
  <2> QED BY <1>2, <1>3, <2>1, StillSettled
<1>6. Posting(c)' = Posting(c) /\ Running(c)' \subseteq Running(c) \cup {i}
  BY <1>2, <1>3 DEF Posting
<1>7. Cardinality(Running(c)') <= EnrichConcurrency
  <2>1. IsFiniteSet(Running(c)) /\ Cardinality(Running(c)) \in Nat
    BY <1>1, RunningFinite
  <2>2. /\ Cardinality(Running(c)') \in Nat
        /\ Cardinality(Running(c)') <= Cardinality(Running(c)) + 1
    BY <1>6, <2>1, CountUp
  <2> QED BY <1>2, <2>1, <2>2, EnrichAssumption
<1>8. \A d \in Caller \ {c} : Running(d)' = Running(d) /\ Posting(d)' = Posting(d)
  BY <1>3, OtherCallers
<1>9. Breaker'
  BY <1>1, <1>2, <1>6, <1>7, <1>8 DEF Breaker, CircuitHolds, CircuitOpen
<1> QED BY <1>4, <1>5, <1>9 DEF EnrichInv

LEMMA PostBeginsInv ==
    ASSUME EnrichInv, NEW i \in Slot, PostBegins(i)
    PROVE  EnrichInv'
<1> DEFINE c == CallerOf[i]
           t == IF CircuitOpen /\ openedAt = "cooling" THEN "done" ELSE "posting"
<1>1. EnrichTypeOK /\ BatchSettled /\ Breaker /\ c \in Caller
  BY EnrichAssumption DEF EnrichInv
<1>2. /\ task[i] = "checked" /\ openedAt' = openedAt /\ task' = [task EXCEPT ![i] = t]
      /\ UNCHANGED <<matching, context, logged, timeouts, healthy, given, late>>
  BY <1>1 DEF PostBegins, CheckCircuit, Breaker
<1>3. /\ Running(c)' = IF t = "done" THEN Running(c) \ {i} ELSE Running(c) \cup {i}
      /\ Posting(c)' = IF t = "posting" THEN Posting(c) \cup {i} ELSE Posting(c) \ {i}
      /\ task' \in [Slot -> {"none", "waiting", "checked", "posting", "done"}]
      /\ task'[i] = t /\ \A j \in Slot \ {i} : task'[j] = task[j]
  BY <1>1, <1>2, OneGoroutine
<1>4. EnrichTypeOK'
  BY <1>1, <1>2, <1>3 DEF EnrichTypeOK
<1>5. BatchSettled'
  <2>1. {} \in SUBSET {i} /\ given' = given \cup {} /\ context' = context \cup {} /\ i \in matching
    BY <1>1, <1>2 DEF BatchSettled
  <2> QED BY <1>2, <1>3, <2>1, StillSettled
<1>6. \A d \in Caller \ {c} : Running(d)' = Running(d) /\ Posting(d)' = Posting(d)
  BY <1>3, OtherCallers
<1>7. Running(c)' \subseteq Running(c)
  <2>1. i \in Running(c)
    BY <1>2 DEF Running, Batch
  <2> QED BY <1>3, <2>1
<1>8. CASE openedAt = "cooling"
  <2>1. Posting(c)' \subseteq Posting(c)
    BY <1>1, <1>3, <1>8 DEF Breaker
  <2> QED BY <1>2, <1>4, <1>5, <1>6, <1>7, <2>1, FewerRequests DEF EnrichInv
<1>9. CASE openedAt # "cooling"
  <2>1. Cardinality(Running(c)') <= EnrichConcurrency
    BY <1>1, <1>7, RunningFinite, CountSub, EnrichAssumption DEF Breaker
  <2>2. \A d \in Caller : Cardinality(Running(d)') <= EnrichConcurrency
    BY <1>1, <1>6, <2>1 DEF Breaker
  <2> QED BY <1>1, <1>2, <1>4, <1>5, <1>9, <2>2 DEF EnrichInv, Breaker, CircuitHolds, CircuitOpen
<1> QED BY <1>8, <1>9

\* The call of slot i is over, whatever came of it.
LEMMA PostEnds ==
    ASSUME EnrichInv, NEW i \in Slot, task[i] = "posting", task' = [task EXCEPT ![i] = "done"],
           NEW c \in Caller, c = CallerOf[i]
    PROVE  /\ task' \in [Slot -> {"none", "waiting", "checked", "posting", "done"}]
           /\ task'[i] = "done" /\ \A j \in Slot \ {i} : task'[j] = task[j]
           /\ i \in matching
           /\ Running(c)' \subseteq Running(c) /\ Posting(c)' \subseteq Posting(c)
           /\ Cardinality(Posting(c)') \in Nat
           /\ Cardinality(Posting(c)') = Cardinality(Posting(c)) - 1
           /\ \A d \in Caller \ {c} : Running(d)' = Running(d) /\ Posting(d)' = Posting(d)
           /\ \A d \in Caller : Cardinality(Running(d)') <= EnrichConcurrency
           /\ \A d \in Caller : Cardinality(Posting(d)') <= EnrichConcurrency
<1>1. EnrichTypeOK /\ BatchSettled /\ Breaker
  BY DEF EnrichInv
<1>2. /\ Running(c)' = Running(c) \ {i} /\ Posting(c)' = Posting(c) \ {i}
      /\ task' \in [Slot -> {"none", "waiting", "checked", "posting", "done"}]
      /\ task'[i] = "done" /\ \A j \in Slot \ {i} : task'[j] = task[j]
  BY <1>1, OneGoroutine
<1>3. i \in Posting(c) /\ i \in matching
  BY <1>1 DEF Posting, Batch, BatchSettled
<1>4. Cardinality(Posting(c)') \in Nat /\ Cardinality(Posting(c)') = Cardinality(Posting(c)) - 1
  BY <1>2, <1>3, RunningFinite, CountDown
<1>5. \A d \in Caller \ {c} : Running(d)' = Running(d) /\ Posting(d)' = Posting(d)
  BY <1>2, OtherCallers
<1>6. ASSUME NEW d \in Caller
      PROVE  /\ Cardinality(Running(d)') <= EnrichConcurrency
             /\ Cardinality(Posting(d)') <= EnrichConcurrency
  <2>1. Running(d)' \subseteq Running(d) /\ Posting(d)' \subseteq Posting(d)
    BY <1>2, <1>5
  <2>2. /\ IsFiniteSet(Running(d)) /\ IsFiniteSet(Posting(d))
        /\ Cardinality(Running(d)) \in Nat /\ Cardinality(Posting(d)) \in Nat
        /\ Cardinality(Posting(d)) <= Cardinality(Running(d))
    BY RunningFinite
  <2>3. /\ Cardinality(Running(d)') \in Nat /\ Cardinality(Running(d)') <= Cardinality(Running(d))
        /\ Cardinality(Posting(d)') \in Nat /\ Cardinality(Posting(d)') <= Cardinality(Posting(d))
    BY <2>1, <2>2, CountSub
  <2>4. Cardinality(Running(d)) <= EnrichConcurrency /\ EnrichConcurrency \in Nat
    BY <1>1, EnrichAssumption DEF Breaker
  <2> QED BY <2>2, <2>3, <2>4
<1> QED BY <1>2, <1>3, <1>4, <1>5, <1>6

LEMMA PostTimesOutInv ==
    ASSUME EnrichInv, NEW i \in Slot, PostTimesOut(i)
    PROVE  EnrichInv'
<1> DEFINE c == CallerOf[i]
<1>1. EnrichTypeOK /\ BatchSettled /\ Breaker /\ c \in Caller
  BY EnrichAssumption DEF EnrichInv
<1>2. /\ task[i] = "posting" /\ task' = [task EXCEPT ![i] = "done"]
      /\ timeouts' = IF CircuitOpen THEN timeouts ELSE timeouts + 1
      /\ openedAt' = IF timeouts' >= CircuitThreshold THEN "cooling" ELSE openedAt
      /\ late' = IF openedAt = "cooling" THEN [late EXCEPT ![c] = @ + 1]
                 ELSE [d \in Caller |-> 0]
      /\ UNCHANGED <<matching, context, logged, healthy, given>>
  BY DEF PostTimesOut, RecordTimeout
<1>3. /\ task' \in [Slot -> {"none", "waiting", "checked", "posting", "done"}]
      /\ task'[i] = "done" /\ \A j \in Slot \ {i} : task'[j] = task[j]
      /\ Cardinality(Posting(c)') \in Nat /\ Cardinality(Posting(c)') = Cardinality(Posting(c)) - 1
      /\ \A d \in Caller \ {c} : Posting(d)' = Posting(d)
      /\ \A d \in Caller : Cardinality(Running(d)') <= EnrichConcurrency
      /\ \A d \in Caller : Cardinality(Posting(d)') <= EnrichConcurrency
  BY <1>1, <1>2, PostEnds
<1>4. late' \in [Caller -> Nat] /\ timeouts' \in Nat
  BY <1>1, <1>2 DEF EnrichTypeOK
<1>5. EnrichTypeOK'
  BY <1>1, <1>2, <1>3, <1>4 DEF EnrichTypeOK
<1>6. BatchSettled'
  <2>1. {} \in SUBSET {i} /\ given' = given \cup {} /\ context' = context \cup {}
    BY <1>2
  <2> QED BY <1>2, <1>3, <2>1, StillSettled
<1>7. openedAt' # "zero" <=> CircuitOpen'
  BY <1>1, <1>2, EnrichAssumption DEF Breaker, CircuitOpen, EnrichTypeOK
<1>8. ASSUME NEW d \in Caller
      PROVE  late'[d] + Cardinality(Posting(d)') <= EnrichConcurrency
             \/ openedAt' # "cooling"
  <2>1. CASE openedAt = "cooling" /\ d = c
    <3>1. late'[d] = late[d] + 1 /\ late[d] \in Nat /\ Cardinality(Posting(d)) \in Nat
      BY <1>1, <1>2, <2>1, RunningFinite DEF EnrichTypeOK
    <3>2. late[d] + Cardinality(Posting(d)) <= EnrichConcurrency
      BY <1>1, <2>1 DEF Breaker, CircuitHolds
    <3>3. Cardinality(Posting(d)') \in Nat
          /\ Cardinality(Posting(d)') = Cardinality(Posting(d)) - 1
      BY <1>3, <2>1
    <3> QED BY <3>1, <3>2, <3>3, EnrichAssumption
  <2>2. CASE openedAt = "cooling" /\ d # c
    BY <1>1, <1>2, <1>3, <2>2 DEF Breaker, CircuitHolds, EnrichTypeOK
  <2>3. CASE openedAt # "cooling"
    <3>1. late'[d] = 0 /\ Cardinality(Posting(d)') <= EnrichConcurrency
      BY <1>2, <1>3, <2>3
    <3>2. Cardinality(Posting(d)') \in Nat
      BY <1>1, <1>3, RunningFinite
    <3> QED BY <3>1, <3>2
  <2> QED BY <2>1, <2>2, <2>3
<1>9. CircuitHolds'
  BY <1>8 DEF CircuitHolds
<1> QED BY <1>3, <1>5, <1>6, <1>7, <1>9 DEF EnrichInv, Breaker

LEMMA PostAnswersInv ==
    ASSUME EnrichInv, NEW i \in Slot, PostAnswers(i)
    PROVE  EnrichInv'
<1> DEFINE c == CallerOf[i]
<1>1. EnrichTypeOK /\ BatchSettled /\ Breaker /\ c \in Caller
  BY EnrichAssumption DEF EnrichInv
<1>2. /\ task[i] = "posting" /\ task' = [task EXCEPT ![i] = "done"]
      /\ timeouts' = 0 /\ openedAt' = "zero"
      /\ \/ context' = context \cup {i} /\ given' = given \cup {i}
         \/ context' = context /\ given' = given
      /\ UNCHANGED <<matching, logged, healthy, late>>
  BY DEF PostAnswers, RecordSuccess
<1>3. /\ task' \in [Slot -> {"none", "waiting", "checked", "posting", "done"}]
      /\ task'[i] = "done" /\ \A j \in Slot \ {i} : task'[j] = task[j]
      /\ i \in matching
      /\ \A d \in Caller : Cardinality(Running(d)') <= EnrichConcurrency
  BY <1>1, <1>2, PostEnds
<1>4. EnrichTypeOK'
  BY <1>1, <1>2, <1>3 DEF EnrichTypeOK
<1>5. BatchSettled'
  <2>1. PICK new \in SUBSET {i} : given' = given \cup new /\ context' = context \cup new
    <3>1. {i} \in SUBSET {i} /\ {} \in SUBSET {i} /\ given = given \cup {} /\ context = context \cup {}
      OBVIOUS
    <3> QED BY <1>2, <3>1
  <2> QED BY <1>2, <1>3, <2>1, StillSettled
<1>6. Breaker'
  BY <1>2, <1>3, EnrichAssumption DEF Breaker, CircuitOpen, CircuitHolds
<1> QED BY <1>4, <1>5, <1>6 DEF EnrichInv

LEMMA PostFailsInv ==
    ASSUME EnrichInv, NEW i \in Slot, PostFails(i)
    PROVE  EnrichInv'
<1> DEFINE c == CallerOf[i]
<1>1. EnrichTypeOK /\ BatchSettled /\ Breaker /\ c \in Caller
  BY EnrichAssumption DEF EnrichInv
<1>2. /\ task[i] = "posting" /\ task' = [task EXCEPT ![i] = "done"]
      /\ UNCHANGED <<matching, context, logged, timeouts, openedAt, healthy, given, late>>
  BY DEF PostFails
<1>3. /\ task' \in [Slot -> {"none", "waiting", "checked", "posting", "done"}]
      /\ task'[i] = "done" /\ \A j \in Slot \ {i} : task'[j] = task[j]
      /\ Running(c)' \subseteq Running(c) /\ Posting(c)' \subseteq Posting(c)
      /\ \A d \in Caller \ {c} : Running(d)' = Running(d) /\ Posting(d)' = Posting(d)
  BY <1>1, <1>2, PostEnds
<1>4. EnrichTypeOK'
  BY <1>1, <1>2, <1>3 DEF EnrichTypeOK
<1>5. BatchSettled'
  <2>1. {} \in SUBSET {i} /\ given' = given \cup {} /\ context' = context \cup {}
    BY <1>2
  <2> QED BY <1>2, <1>3, <2>1, StillSettled
<1> QED BY <1>2, <1>3, <1>4, <1>5, FewerRequests DEF EnrichInv

LEMMA CoolDownInv ==
    ASSUME EnrichInv, CoolDown
    PROVE  EnrichInv'
BY DEF EnrichInv, EnrichTypeOK, BatchSettled, NoBatch, Breaker, CoolDown, CircuitHolds, CircuitOpen,
       Running, Posting, Batch

LEMMA Unmoved ==
    ASSUME EnrichInv, UNCHANGED <<task, matching, context, logged, timeouts, openedAt, given, late>>
    PROVE  EnrichInv'
BY DEF EnrichInv, EnrichTypeOK, BatchSettled, NoBatch, Breaker, CircuitHolds, CircuitOpen,
       Running, Posting, Batch

LEMMA EnrichInitInv == EnrichInit => EnrichInv
<1> SUFFICES ASSUME EnrichInit PROVE EnrichInv
  OBVIOUS
<1>1. \A c \in Caller : Running(c) = {} /\ Posting(c) = {}
  BY DEF EnrichInit, Running, Posting, Batch
<1>2. EnrichTypeOK /\ BatchSettled
  BY DEF EnrichInit, EnrichTypeOK, BatchSettled, NotLogged
<1>3. Breaker
  BY <1>1, FS_EmptySet, EnrichAssumption DEF EnrichInit, Breaker, CircuitOpen, CircuitHolds
<1> QED BY <1>2, <1>3 DEF EnrichInv

LEMMA EnrichNextInv == EnrichInv /\ [EnrichNext]_enrichVars => EnrichInv'
<1> SUFFICES ASSUME EnrichInv, [EnrichNext]_enrichVars PROVE EnrichInv'
  OBVIOUS
<1>1. ASSUME NEW c \in Caller, EnrichStep(c) PROVE EnrichInv'
  <2>1. CASE \E i \in Batch(c) : EnrichStarts(i) \/ Post(i)
    BY <2>1, EnrichStartsInv, PostBeginsInv, PostTimesOutInv, PostAnswersInv, PostFailsInv
    DEF Post, Batch
  <2> QED BY <1>1, <2>1, EnrichBatchInv, BatchAppendedInv DEF EnrichStep
<1>2. CASE EnricherChanges \/ UNCHANGED enrichVars
  <2>1. UNCHANGED <<task, matching, context, logged, timeouts, openedAt, given, late>>
    BY <1>2 DEF EnricherChanges, enrichVars
  <2> QED BY <2>1, Unmoved
<1> QED BY <1>1, <1>2, CoolDownInv DEF EnrichNext

\* Enrichment (internal/enrich) never holds an event back half done nor floods a slow
\* enricher: for any callers that append at the same time through the one breaker, any
\* batches, any bound on a call's goroutines and any threshold, the log gets exactly
\* the contexts that the enricher gave, and from the timeout that opens the circuit
\* on only the requests already under way can still time out.
THEOREM EnrichmentAlwaysSafe == EnrichSpec => []EnrichmentSafe
<1>1. EnrichInv => EnrichmentSafe
  BY DEF EnrichInv, BatchSettled, Breaker, EnrichmentSafe, LoggedIsSettled
<1> QED BY <1>1, EnrichInitInv, EnrichNextInv, PTL DEF EnrichSpec
=============================================================================
