---------------------------- MODULE RouterProofs ----------------------------
(***************************************************************************)
(* Proofs about Router, for any consumers, keys, window size and length of *)
(* the log: what dispatch passes over and what the cursor store holds, the *)
(* order in which events are settled (OrderedDelivery), and that a healthy *)
(* consumer is handed nothing twice.                                       *)
(***************************************************************************)
EXTENDS Router, SequenceTheorems, TLAPS

\* The scheduler's proofs, about the scheduler inside the router.
RP == INSTANCE RetrySchedulerProofs

Started == Range(Boot)

\* The deployments the theorems are about: every sink of start-up has an id of
\* its own; the batching ones are started with the process, accept what they
\* are given, fail only when they flush, and refuse no event for good.  The
\* others may fail, close, come and go as they like.
Dependable ==
    /\ \A c \in Started, d \in Conn : IdOf[c] = IdOf[d] => c = d
    /\ Batchers \subseteq Started \ (Flaky \cup Quits)
    /\ Poison = {}

-----------------------------------------------------------------------------
(* The inductive invariant.                                                *)

SnapType == [on : BOOLEAN, blocked : BOOLEAN, cursor : Nat, skipped : BOOLEAN]

PgType ==
    [seq : Nat, last : Nat, n : Nat, i : Nat, snap : [Conn -> SnapType],
     err : SUBSET Conn, persist : Nat, saves : Seq(ConsumerID \X Nat),
     out : {"none", "ok", "transient"}, poison : Nat]

RouterTypes ==
    /\ log \in Seq(Key) /\ consumers \in Seq(Conn) /\ removed \subseteq Conn
    /\ closed \subseteq Quits
    /\ cursor \in [Conn -> Nat \ {0}] /\ prov \in [Conn -> Nat]
    /\ skipped = NoSeqs
    /\ buffered \in [Conn -> SUBSET Nat] /\ flushed \in [Conn -> SUBSET Nat]
    /\ pg \in PgType
    /\ ppc \in {"read", "snap", "deliver", "apply", "cap", "save", "flush", "settle"}
    /\ saved \in [ConsumerID -> Nat] /\ durable \in [ConsumerID -> Nat]
    /\ crashes \in Nat

\* Consumer c is among the first n.
Among(c, n) == \E j \in 1..n : consumers[j] = c

\* A retry goes to the object whose id the queue is kept under.
OwnTarget == \A id \in ConsumerID : target[id] \in Conn => IdOf[target[id]] = id

BatchersNeverBlocked == \A c \in Batchers, k \in Key : blocked[IdOf[c]][k] = <<>>

\* A plain consumer has the event, or the scheduler has it for the consumer.
Reached(c, s) == Settled(c, s) \/ Queued(c, s)

\* What dispatch has done with event s: it is in the sink or in its buffer, or
\* settled, or queued.  A crash forgets the queues, and with them the promise.
Has(c, s) ==
    IF c \in Batchers THEN s \in flushed[c] \cup buffered[c]
                      ELSE crashes = 0 => Reached(c, s)

\* Events below the in-memory cursor.
Passed(c) ==
    IF c \in Batchers THEN \A s \in 1..(cursor[c] - 1) : s \in flushed[c]
    ELSE crashes = 0 => /\ cursor[c] <= Len(log) + 1
                        /\ \A s \in 1..(cursor[c] - 1) : Reached(c, s)

\* FlushBatch of c has returned and the router has not yet looked at the result.
Flushing(c) == ppc = "settle" /\ At(pg.i) = c

\* Events below the provisional cursor.
Provisional(c) ==
    c \in Batchers =>
        \A s \in 1..(prov[c] - 1) :
            \/ s \in flushed[c]
            \/ IF Flushing(c) THEN pg.out = "transient" ELSE s \in buffered[c]

\* Events below the stored cursors of a batcher.
Persisted(c) ==
    c \in Batchers =>
        /\ \A s \in 1..(saved[IdOf[c]] - 1) : s \in flushed[c]
        /\ \A s \in 1..(durable[IdOf[c]] - 1) : s \in flushed[c]

InWindow    == ppc \in {"snap", "deliver", "apply", "cap", "save"}
Dispatching == ppc \in {"deliver", "apply", "cap"}
Looping     == Dispatching \/ ppc \in {"flush", "settle"}

\* The goroutine's own place in the window and in the list of consumers.
Place ==
    /\ InWindow => /\ pg.seq \in 1..Len(log) /\ pg.last \in 1..Len(log)
    /\ Looping => pg.i \in 1..pg.n /\ pg.n <= Len(consumers)
    /\ pg.err \subseteq Flaky \cup Quits
    /\ \A i \in 1..Len(pg.saves) : \A c \in Batchers : pg.saves[i][1] # IdOf[c]
    /\ ppc = "cap" => At(pg.i) \notin Batchers
    /\ ppc = "settle" => pg.out \in {"ok", "transient"} /\ At(pg.i) \in Batchers

\* The snapshot that phases 2 and 3 go by.
Snapped(c) ==
    /\ Among(c, pg.n)
    /\ pg.snap[c].on /\ ~pg.snap[c].skipped /\ pg.snap[c].cursor <= cursor[c]
    /\ c \in Batchers => ~pg.snap[c].blocked

Got(c) == IF c \in Batchers THEN pg.seq \in buffered[c] ELSE <<c, log[pg.seq], pg.seq>> \in acked

Tried(c) == Wanted(c) => c \in pg.err \/ Got(c)

\* How far the window being dispatched has got for c.
Window(c) ==
    /\ InWindow => \A s \in 1..(pg.seq - 1) : Has(c, s)
    /\ Dispatching => Snapped(c)
    /\ ppc = "deliver" /\ Among(c, pg.i - 1) => Tried(c)
    /\ ppc \in {"apply", "cap"} => Tried(c)
    /\ ppc = "apply" /\ Among(c, pg.i - 1) => Has(c, pg.seq)
    /\ ppc = "cap" /\ Among(c, pg.i) => Has(c, pg.seq)
    /\ ppc = "save" => Has(c, pg.seq)

ConsumerOK(c) ==
    /\ Among(c, Len(consumers))
    /\ Persisted(c)
    /\ c \notin removed => Passed(c) /\ Provisional(c) /\ Window(c)

RouterInv ==
    /\ RP!Inv /\ RouterTypes /\ OwnTarget /\ BatchersNeverBlocked /\ Place
    /\ \A c \in Started : ConsumerOK(c)

-----------------------------------------------------------------------------
(* The scheduler's steps, seen from the router.                            *)

SchedulerStep == [RP!Next]_(RP!vars)

\* Started consumers are consumers.
LEMMA StartedAreConn == Started \subseteq Conn
<1>1. Boot \in Seq(Conn)
  BY RouterAssumption
<1>2. DOMAIN Boot = 1..Len(Boot)
  BY <1>1, LenProperties
<1>3. \A j \in 1..Len(Boot) : Boot[j] \in Conn
  BY <1>1, ElementOfSeq
<1> QED BY <1>2, <1>3 DEF Started, Range

\* The constants of the router are fit for its scheduler.
LEMMA Constants ==
    /\ IdOf \in [Conn -> ConsumerID] /\ NoConn \notin Conn
    /\ PartOf \in [Key -> Partition] /\ MaxRetries \in Nat \ {0} /\ DLQEnabled \in BOOLEAN
BY RouterAssumption

\* Every step of the scheduler settles what it takes out of a queue.
LEMMA ReachedStays ==
    ASSUME Dependable, RP!Inv, OwnTarget, SchedulerStep, log \in Seq(Key), log' = log,
           flushed' = flushed, acked \subseteq acked', dlq \subseteq dlq', dropped \subseteq dropped',
           NEW c \in Started \ Batchers, NEW s \in 1..Len(log), Reached(c, s)
    PROVE  Reached(c, s)'
<1> DEFINE id == IdOf[c]
           k == log[s]
<1>1. id \in ConsumerID /\ k \in Key /\ c \in Conn
  BY StartedAreConn, Constants, ElementOfSeq
<1>2. CASE Settled(c, s)
  BY <1>2 DEF Reached, Settled
<1>3. CASE Queued(c, s)
  <2>1. PICK i \in DOMAIN blocked[id][k] : blocked[id][k][i].seq = s
    BY <1>3 DEF Queued
  <2>2. blocked[id][k] \in Seq(RP!RetryRecord) /\ blocked'[id][k] \in Seq(RP!RetryRecord)
    <3>1. RP!Inv'
      BY RP!NextInv, Constants DEF SchedulerStep
    <3>2. blocked \in RP!QueueMap /\ blocked' \in RP!QueueMap
      BY <3>1 DEF RP!Inv, RP!TypeOK
    <3> QED BY <1>1, <3>2 DEF RP!QueueMap
  <2>3. /\ DOMAIN blocked[id][k] = 1..Len(blocked[id][k]) /\ Len(blocked[id][k]) \in Nat
        /\ DOMAIN blocked'[id][k] = 1..Len(blocked'[id][k]) /\ Len(blocked'[id][k]) \in Nat
    BY <2>2, LenProperties
  <2>4. \A j \in DOMAIN blocked'[id][k] : blocked'[id][k][j].seq = s => Queued(c, s)'
    BY DEF Queued
  <2> HIDE DEF id, k
  <2>5. CASE \A x \in ConsumerID, j \in Key : RP!Extends(blocked'[x][j], blocked[x][j])
    <3>1. RP!Extends(blocked'[id][k], blocked[id][k])
      BY <1>1, <2>5
    <3>2. i \in 1..Len(blocked[id][k]) /\ blocked[id][k][i].seq = s
      BY <2>1, <2>3
    <3>3. /\ Len(blocked'[id][k]) >= Len(blocked[id][k])
          /\ blocked'[id][k][i].seq = blocked[id][k][i].seq
      BY <3>1, <3>2 DEF RP!Extends
    <3>4. i \in DOMAIN blocked'[id][k]
      BY <2>3, <3>2, <3>3
    <3> QED BY <2>4, <3>2, <3>3, <3>4 DEF Reached
  <2>6. CASE RP!PopsSettled
    <3>1. \/ blocked'[id][k] = blocked[id][k]
          \/ /\ Len(blocked'[id][k]) = Len(blocked[id][k]) - 1
             /\ \A x \in 1..(Len(blocked[id][k]) - 1) :
                   blocked'[id][k][x].seq = blocked[id][k][x + 1].seq
             /\ RP!HeadSettled(id, k)
      BY <1>1, <2>6, RP!PoppedQueue, Constants
    <3>2. CASE blocked'[id][k] = blocked[id][k]
      BY <2>1, <2>4, <3>2 DEF Reached
    <3>3. CASE i > 1 /\ blocked'[id][k] # blocked[id][k]
      <4>1. i - 1 \in DOMAIN blocked'[id][k] /\ blocked'[id][k][i - 1].seq = s
        <5>1. i \in 1..Len(blocked[id][k])
          BY <2>3
        <5>2. i - 1 \in 1..(Len(blocked[id][k]) - 1) /\ (i - 1) + 1 = i
          BY <2>3, <3>3, <5>1
        <5>3. blocked'[id][k][i - 1].seq = blocked[id][k][(i - 1) + 1].seq
          BY <3>1, <3>3, <5>2
        <5> QED BY <2>1, <2>3, <3>1, <3>3, <5>2, <5>3
      <4> QED BY <2>4, <4>1 DEF Reached
    <3>4. CASE i = 1 /\ RP!HeadSettled(id, k)
      <4>1. Head(blocked[id][k]).seq = s /\ blocked[id][k] # <<>>
        BY <2>1, <2>2, <2>3, <3>4
      <4>2. target[id] = c
        <5>1. target[id] \in Conn
          BY <1>1, <4>1 DEF RP!Inv, RP!BlockedHasTarget
        <5>2. IdOf[target[id]] = IdOf[c]
          BY <1>1, <5>1 DEF OwnTarget, id
        <5> QED BY <1>1, <5>1, <5>2 DEF Dependable
      <4>3. \/ <<c, k, s>> \in acked' \/ <<id, k, s>> \in dlq' \/ <<id, k, s>> \in dropped'
        BY <3>4, <4>1, <4>2 DEF RP!HeadSettled
      <4> QED BY <4>3 DEF Reached, Settled, id, k
    <3> QED BY <2>1, <2>3, <3>1, <3>2, <3>3, <3>4
  <2> QED BY <2>5, <2>6, RP!QueueSteps, Constants DEF SchedulerStep
<1> QED BY <1>2, <1>3 DEF Reached

-----------------------------------------------------------------------------
(* Steps that are not the partition goroutine's.                           *)

\* r is q with perhaps more behind it.
Prolongs(r, q) == Len(q) <= Len(r) /\ \A j \in 1..Len(q) : r[j] = q[j]

\* A sequence prolongs itself, and an append prolongs it.
LEMMA AppendProlongs ==
    ASSUME NEW S, NEW q \in Seq(S)
    PROVE  /\ Prolongs(q, q)
           /\ \A e \in S : Prolongs(Append(q, e), q) /\ Append(q, e) \in Seq(S)
<1>1. Len(q) \in Nat
  BY LenProperties
<1> QED BY <1>1, AppendProperties DEF Prolongs

\* The partition goroutine stands still and nobody takes anything from c.
Aside(c) ==
    /\ ppc' = ppc /\ pg' = pg /\ crashes' = crashes /\ flushed' = flushed
    /\ cursor'[c] = cursor[c] /\ (c \notin removed' => prov'[c] = prov[c])
    /\ Prolongs(consumers', consumers) /\ removed \subseteq removed'
    /\ Prolongs(log', log)
    /\ buffered[c] \subseteq buffered'[c] /\ acked \subseteq acked'
    /\ c \notin Batchers => \A s \in 1..Len(log) : Reached(c, s) => Reached(c, s)'

\* The types of the goroutine's locals.
LEMMA PgFields ==
    ASSUME NEW p \in PgType
    PROVE  /\ p.seq \in Nat /\ p.last \in Nat /\ p.n \in Nat /\ p.i \in Nat
           /\ p.snap \in [Conn -> SnapType] /\ p.err \subseteq Conn /\ p.persist \in Nat
           /\ p.saves \in Seq(ConsumerID \X Nat)
           /\ p.out \in {"none", "ok", "transient"} /\ p.poison \in Nat
BY DEF PgType

LEMMA Lengths ==
    ASSUME RouterTypes
    PROVE  Len(log) \in Nat /\ Len(consumers) \in Nat /\ Len(pg.saves) \in Nat
<1>1. pg.saves \in Seq(ConsumerID \X Nat)
  BY PgFields DEF RouterTypes
<1> QED BY <1>1, LenProperties DEF RouterTypes

\* What dispatch has done with the event at hand.
LEMMA HasHere ==
    ASSUME NEW c, NEW s
    PROVE  /\ s = pg.seq => (Has(c, pg.seq) <=> Has(c, s))
           /\ s = pg'.seq => (Has(c, pg.seq)' <=> Has(c, s)')
BY DEF Has, Reached, Settled, Queued

\* A consumer that is left alone by a step of somebody else stays as it was.
LEMMA ConsumerStays ==
    ASSUME RouterTypes, Place, NEW c \in Started, ConsumerOK(c), Aside(c), Persisted(c)',
           Len(consumers') \in Nat, Len(log') \in Nat
    PROVE  ConsumerOK(c)'
<1>0. /\ Len(log) \in Nat /\ Len(consumers) \in Nat /\ c \in Conn
      /\ pg.i \in Nat /\ pg.n \in Nat /\ pg.seq \in Nat /\ cursor[c] \in Nat /\ prov[c] \in Nat
  BY Lengths, PgFields, StartedAreConn DEF RouterTypes
<1>1. Among(c, Len(consumers))'
  <2>1. PICK j \in 1..Len(consumers) : consumers[j] = c
    BY DEF ConsumerOK, Among
  <2>2. j \in 1..Len(consumers') /\ consumers'[j] = c
    BY <1>0, <2>1 DEF Aside, Prolongs
  <2> QED BY <2>2 DEF Among
<1> SUFFICES ASSUME c \notin removed' PROVE Passed(c)' /\ Provisional(c)' /\ Window(c)'
  BY <1>1 DEF ConsumerOK
<1>2. Passed(c) /\ Provisional(c) /\ Window(c) /\ prov'[c] = prov[c]
  BY DEF ConsumerOK, Aside
<1>3. ASSUME NEW s \in 1..Len(log), Has(c, s) PROVE Has(c, s)'
  BY <1>3 DEF Has, Aside
<1>4. Passed(c)'
  <2>1. CASE c \in Batchers
    BY <1>2, <2>1 DEF Passed, Aside
  <2>2. CASE c \notin Batchers /\ crashes = 0
    <3>1. /\ cursor[c] <= Len(log) + 1 /\ \A s \in 1..(cursor[c] - 1) : Reached(c, s)
      BY <1>2, <2>2 DEF Passed
    <3>2. cursor'[c] = cursor[c] /\ cursor[c] <= Len(log') + 1
      BY <1>0, <3>1 DEF Aside, Prolongs
    <3>3. \A s \in 1..(cursor[c] - 1) : Reached(c, s)'
      BY <1>0, <2>2, <3>1 DEF Aside
    <3> QED BY <2>2, <3>2, <3>3 DEF Passed
  <2>3. CASE c \notin Batchers /\ crashes # 0
    BY <2>3 DEF Passed, Aside
  <2> QED BY <2>1, <2>2, <2>3
<1>5. At(pg.i)' = At(pg.i) \/ ppc # "settle"
  BY <1>0 DEF Aside, Prolongs, At, Place, Looping
<1>6. Provisional(c)'
  <2> SUFFICES ASSUME c \in Batchers, NEW s \in 1..(prov[c] - 1)
               PROVE  \/ s \in flushed'[c]
                      \/ IF Flushing(c)' THEN pg'.out = "transient" ELSE s \in buffered'[c]
    BY <1>2 DEF Provisional
  <2>1. Flushing(c)' <=> Flushing(c)
    BY <1>5 DEF Flushing, Aside
  <2>2. s \in flushed[c] \/ IF Flushing(c) THEN pg.out = "transient" ELSE s \in buffered[c]
    BY <1>2 DEF Provisional
  <2> QED BY <2>1, <2>2 DEF Aside
<1>7. Window(c)'
  <2>0. ppc' = ppc /\ pg' = pg
    BY DEF Aside
  <2>1. InWindow => pg.seq \in 1..Len(log)
    BY DEF Place
  <2>2. InWindow => \A s \in 1..(pg.seq - 1) : Has(c, s)'
    BY <1>0, <1>2, <1>3, <2>1 DEF Window
  <2>3. InWindow /\ Has(c, pg.seq) => Has(c, pg.seq)'
    <3> SUFFICES ASSUME InWindow, Has(c, pg.seq) PROVE Has(c, pg.seq)'
      OBVIOUS
    <3>1. PICK s \in 1..Len(log) : s = pg.seq
      BY <2>1
    <3>2. Has(c, s)'
      BY <1>3, <3>1
    <3> QED BY <2>0, <3>1, <3>2, HasHere
  <2>4. Looping => pg.i \in 1..pg.n /\ pg.n <= Len(consumers)
    BY DEF Place
  <2>5. Looping => /\ Among(c, pg.n)' <=> Among(c, pg.n)
                   /\ Among(c, pg.i)' <=> Among(c, pg.i)
                   /\ Among(c, pg.i - 1)' <=> Among(c, pg.i - 1)
    <3> SUFFICES ASSUME Looping
                 PROVE  \A j : (j \in 1..pg.n \/ j \in 1..pg.i \/ j \in 1..(pg.i - 1)) =>
                            consumers'[j] = consumers[j]
      BY <2>0 DEF Among
    <3>1. \A j : (j \in 1..pg.n \/ j \in 1..pg.i \/ j \in 1..(pg.i - 1)) => j \in 1..Len(consumers)
      BY <1>0, <2>4
    <3> QED BY <3>1 DEF Aside, Prolongs
  <2>6. Dispatching => Snapped(c)'
    <3> SUFFICES ASSUME Dispatching PROVE Snapped(c)'
      OBVIOUS
    <3>1. Snapped(c) /\ Among(c, pg.n)'
      BY <1>2, <2>5 DEF Window, Snapped, Looping
    <3> QED BY <2>0, <3>1 DEF Snapped, Aside, Among
  <2>7. InWindow /\ Tried(c) => Tried(c)'
    <3> SUFFICES ASSUME InWindow, Tried(c) PROVE Tried(c)'
      OBVIOUS
    <3>1. log'[pg.seq] = log[pg.seq]
      BY <2>1 DEF Aside, Prolongs
    <3>2. Wanted(c)' <=> Wanted(c)
      BY <2>0 DEF Wanted
    <3>3. Got(c) => Got(c)'
      BY <2>0, <3>1 DEF Got, Aside
    <3> QED BY <2>0, <3>2, <3>3 DEF Tried
  <2>8. /\ InWindow' <=> InWindow
        /\ Dispatching' <=> Dispatching
        /\ Dispatching => InWindow /\ Looping
    BY <2>0 DEF InWindow, Dispatching, Looping
  <2> QED BY <1>2, <2>0, <2>2, <2>3, <2>5, <2>6, <2>7, <2>8 DEF Window, InWindow, Dispatching, Looping
<1> QED BY <1>4, <1>6, <1>7

LEMMA PlaceStays ==
    ASSUME RouterTypes, Place, ppc' = ppc, pg' = pg,
           Prolongs(consumers', consumers), Prolongs(log', log),
           Len(consumers') \in Nat, Len(log') \in Nat
    PROVE  Place'
<1>1. Len(log) \in Nat /\ Len(consumers) \in Nat /\ pg.i \in Nat /\ pg.n \in Nat
  BY Lengths, PgFields DEF RouterTypes
<1>2. Looping => At(pg.i)' = At(pg.i)
  <2> SUFFICES ASSUME Looping PROVE At(pg.i)' = At(pg.i)
    OBVIOUS
  <2>1. pg.i \in 1..pg.n /\ pg.n <= Len(consumers)
    BY DEF Place
  <2>2. pg.i \in 1..Len(consumers)
    BY <1>1, <2>1
  <2> QED BY <2>2 DEF Prolongs, At
<1>3. Len(log) <= Len(log') /\ Len(consumers) <= Len(consumers')
  BY DEF Prolongs
<1>4. InWindow' => pg'.seq \in 1..Len(log') /\ pg'.last \in 1..Len(log')
  BY <1>1, <1>3 DEF Place, InWindow
<1>5. Looping' => pg'.i \in 1..pg'.n /\ pg'.n <= Len(consumers')
  BY <1>1, <1>3 DEF Place, Looping, Dispatching
<1>6. /\ ppc' = "cap" => At(pg.i)' \notin Batchers
      /\ ppc' = "settle" => pg'.out \in {"ok", "transient"} /\ At(pg.i)' \in Batchers
  BY <1>2 DEF Place, Looping, Dispatching
<1> QED BY <1>4, <1>5, <1>6 DEF Place

RetrySide == RetryStep \/ \E id \in ConsumerID, k \in Key : BackoffElapses(id, k)

\* The current queue is one of the queues.
LEMMA CurrentQueue ==
    ASSUME RP!Inv, tpc \in {"deliver", "deadletter"}
    PROVE  /\ cur[1] \in ConsumerID /\ cur[2] \in Key
           /\ blocked[cur[1]][cur[2]] # <<>>
           /\ Head(blocked[cur[1]][cur[2]]).seq \in Nat
           /\ target[cur[1]] \in Conn
<1>1. /\ cur[1] \in ConsumerID /\ cur[2] \in Key /\ blocked[cur[1]][cur[2]] # <<>>
      /\ Head(RP!CurQueue) \in RP!RetryRecord /\ target[cur[1]] \in Conn
  BY RP!CurrentHead, Constants
<1> QED BY <1>1 DEF RP!CurQueue, RP!RetryRecord, RP!SeqNo

\* The scheduler that the proofs are about is the router's.
LEMMA SameScheduler ==
    /\ RS!Tick => RP!Tick
    /\ RS!DrainNext => RP!DrainNext
    /\ RS!DrainPeek => RP!DrainPeek
    /\ RS!DeliverOK => RP!DeliverOK
    /\ RS!DeliverPermanent => RP!DeliverPermanent
    /\ RS!DeliverTransient => RP!DeliverTransient
    /\ RS!DeadLetterDrop => RP!DeadLetterDrop
    /\ RS!DeadLetterWrite => RP!DeadLetterWrite
    /\ RS!DeadLetterWriteFails => RP!DeadLetterWriteFails
    /\ RS!Notify => RP!Notify
    /\ \A id \in ConsumerID, k \in Key : RS!BackoffElapses(id, k) => RP!BackoffElapses(id, k)
    /\ \A c \in Conn, k \in Key, s \in Nat :
          /\ RS!AddBlocked(c, k, RS!FailedRecord(s)) => RP!AddBlocked(c, k, RP!FailedRecord(s))
          /\ RS!AddBlocked(c, k, RS!FollowOnRecord(s)) => RP!AddBlocked(c, k, RP!FollowOnRecord(s))
<1>1. RS!PopAndRelease <=> RP!PopAndRelease
  BY DEF RS!CurQueue, RP!CurQueue, RS!PopAndRelease, RP!PopAndRelease, RS!WithQueue, RP!WithQueue,
     RS!PopHead, RP!PopHead, RS!WithHead, RP!WithHead, RS!Due, RP!Due,
     RS!RecomputedFloor, RP!RecomputedFloor, RS!Heads, RP!Heads
<1>2. RS!CurQueue = RP!CurQueue /\ RS!CurEvent = RP!CurEvent
  BY DEF RS!CurQueue, RP!CurQueue, RS!CurEvent, RP!CurEvent
<1>3. RS!Tick => RP!Tick
  BY DEF RS!Tick, RP!Tick, RS!Group, RP!Group, RS!stateVars, RP!stateVars, RS!resultVars, RP!resultVars
<1>4. (RS!DrainNext => RP!DrainNext) /\ (RS!DrainPeek => RP!DrainPeek)
  BY <1>2 DEF RS!DrainNext, RP!DrainNext, RS!DrainPeek, RP!DrainPeek,
     RS!stateVars, RP!stateVars, RS!resultVars, RP!resultVars
<1>5. (RS!DeliverOK => RP!DeliverOK) /\ (RS!DeliverPermanent => RP!DeliverPermanent)
  BY <1>1, <1>2 DEF RS!DeliverOK, RP!DeliverOK, RS!DeliverPermanent, RP!DeliverPermanent,
     RS!stateVars, RP!stateVars, RS!resultVars, RP!resultVars
<1>6. RS!DeliverTransient => RP!DeliverTransient
  BY <1>2 DEF RS!DeliverTransient, RP!DeliverTransient, RS!WithQueue, RP!WithQueue,
     RS!WithHead, RP!WithHead, RS!Retried, RP!Retried, RS!resultVars, RP!resultVars
<1>7. (RS!DeadLetterDrop => RP!DeadLetterDrop) /\ (RS!DeadLetterWrite => RP!DeadLetterWrite)
  BY <1>1, <1>2 DEF RS!DeadLetterDrop, RP!DeadLetterDrop, RS!DeadLetterWrite, RP!DeadLetterWrite
<1>8. RS!DeadLetterWriteFails => RP!DeadLetterWriteFails
  BY <1>2 DEF RS!DeadLetterWriteFails, RP!DeadLetterWriteFails, RS!WithQueue, RP!WithQueue,
     RS!WithHead, RP!WithHead, RS!Deferred, RP!Deferred, RS!resultVars, RP!resultVars
<1>9. RS!Notify => RP!Notify
  BY DEF RS!Notify, RP!Notify, RS!stateVars, RP!stateVars, RS!resultVars, RP!resultVars
<1>10. ASSUME NEW id \in ConsumerID, NEW k \in Key, RS!BackoffElapses(id, k) PROVE RP!BackoffElapses(id, k)
  BY <1>10 DEF RS!BackoffElapses, RP!BackoffElapses, RS!WithQueue, RP!WithQueue, RS!WithHead,
     RP!WithHead, RS!Due, RP!Due, RS!tickVars, RP!tickVars, RS!resultVars, RP!resultVars
<1>11. ASSUME NEW c \in Conn, NEW k \in Key, NEW s \in Nat
       PROVE  /\ RS!AddBlocked(c, k, RS!FailedRecord(s)) => RP!AddBlocked(c, k, RP!FailedRecord(s))
              /\ RS!AddBlocked(c, k, RS!FollowOnRecord(s)) => RP!AddBlocked(c, k, RP!FollowOnRecord(s))
  BY DEF RS!AddBlocked, RP!AddBlocked, RS!WithQueue, RP!WithQueue, RS!LowerFloor, RP!LowerFloor,
     RS!FailedRecord, RP!FailedRecord, RS!FollowOnRecord, RP!FollowOnRecord
<1> QED BY <1>3, <1>4, <1>5, <1>6, <1>7, <1>8, <1>9, <1>10, <1>11

\* Rewriting a queue that has records leaves the empty ones empty.
LEMMA EmptyStaysEmpty ==
    ASSUME RP!Inv, NEW id \in ConsumerID, NEW k \in Key, NEW q, blocked[id][k] # <<>>,
           blocked' = RP!WithQueue(id, k, q)
    PROVE  \A i \in ConsumerID, j \in Key : blocked[i][j] = <<>> => blocked'[i][j] = <<>>
<1>1. blocked \in [ConsumerID -> [Key -> Seq(RP!RetryRecord)]]
  BY DEF RP!Inv, RP!TypeOK, RP!QueueMap
<1> QED BY <1>1 DEF RP!WithQueue

\* The retry goroutine and the clock take steps of the scheduler; no queue that
\* was empty gets a record from them.
LEMMA RetryIsScheduler ==
    ASSUME RP!Inv, RetrySide
    PROVE  /\ SchedulerStep
           /\ target' = target /\ acked \subseteq acked' /\ dlq \subseteq dlq' /\ dropped \subseteq dropped'
           /\ \A id \in ConsumerID, k \in Key : blocked[id][k] = <<>> => blocked'[id][k] = <<>>
           /\ UNCHANGED <<log, consVars, memVars, flushed, partVars, durable, crashes>>
<1>0. UNCHANGED <<log, consVars, memVars, flushed, partVars, durable, crashes>>
  BY DEF RetrySide, RetryStep, RetryDeliverOK, RetryDeliverFails, RetryInternal, HandleFloorRelease,
     BackoffElapses, storeVars, sinkVars
<1>1. \/ RP!Tick \/ RP!DrainNext \/ RP!DrainPeek \/ RP!DeliverPermanent \/ RP!Notify
      \/ RP!DeliverOK \/ RP!DeadLetterDrop \/ RP!DeadLetterWrite
      \/ RP!DeliverTransient \/ RP!DeadLetterWriteFails
      \/ \E id \in ConsumerID, k \in Key : RP!BackoffElapses(id, k)
  BY SameScheduler DEF RetrySide, RetryStep, RetryDeliverOK, RetryDeliverFails, RetryInternal,
     HandleFloorRelease, BackoffElapses
<1>2. SchedulerStep
  BY <1>1 DEF SchedulerStep, RP!Next, RP!TickStep, RP!Elapse
<1>3. CASE RP!Tick \/ RP!DrainNext \/ RP!DrainPeek \/ RP!DeliverPermanent \/ RP!Notify
  BY <1>0, <1>2, <1>3 DEF RP!Tick, RP!DrainNext, RP!DrainPeek, RP!DeliverPermanent, RP!Notify,
     RP!stateVars, RP!resultVars
<1>4. CASE RP!DeliverOK \/ RP!DeadLetterDrop \/ RP!DeadLetterWrite
  <2>1. tpc \in {"deliver", "deadletter"} /\ RP!PopAndRelease
    BY <1>4 DEF RP!DeliverOK, RP!DeadLetterDrop, RP!DeadLetterWrite
  <2>2. target' = target /\ acked \subseteq acked' /\ dlq \subseteq dlq' /\ dropped \subseteq dropped'
    BY <1>4 DEF RP!DeliverOK, RP!DeadLetterDrop, RP!DeadLetterWrite
  <2>3. \A id \in ConsumerID, k \in Key : blocked[id][k] = <<>> => blocked'[id][k] = <<>>
    BY <2>1, CurrentQueue, EmptyStaysEmpty DEF RP!PopAndRelease
  <2> QED BY <1>0, <1>2, <2>2, <2>3
<1>5. CASE RP!DeliverTransient \/ RP!DeadLetterWriteFails
  <2>1. /\ tpc \in {"deliver", "deadletter"}
        /\ \E q : blocked' = RP!WithQueue(cur[1], cur[2], q)
    BY <1>5 DEF RP!DeliverTransient, RP!DeadLetterWriteFails
  <2>2. UNCHANGED <<target, acked, dlq, dropped>>
    BY <1>5 DEF RP!DeliverTransient, RP!DeadLetterWriteFails, RP!resultVars
  <2>3. \A id \in ConsumerID, k \in Key : blocked[id][k] = <<>> => blocked'[id][k] = <<>>
    BY <2>1, CurrentQueue, EmptyStaysEmpty
  <2> QED BY <1>0, <1>2, <2>2, <2>3
<1>6. CASE \E id \in ConsumerID, k \in Key : RP!BackoffElapses(id, k)
  <2>1. PICK id \in ConsumerID, k \in Key : RP!BackoffElapses(id, k)
    BY <1>6
  <2>2. UNCHANGED <<target, acked, dlq, dropped>>
    BY <2>1 DEF RP!BackoffElapses, RP!resultVars
  <2>3. \A i \in ConsumerID, j \in Key : blocked[i][j] = <<>> => blocked'[i][j] = <<>>
    BY <2>1, EmptyStaysEmpty DEF RP!BackoffElapses
  <2> QED BY <1>0, <1>2, <2>2, <2>3
<1> QED BY <1>1, <1>3, <1>4, <1>5, <1>6

Slots(id) == {i \in DOMAIN consumers : Live(At(i)) /\ IdOf[At(i)] = id}

\* The scan for the first live slot with an id finds one.
LEMMA FirstSlot ==
    ASSUME RouterTypes, NEW id, Slots(id) # {}
    PROVE  /\ At(Min(Slots(id))) \in Conn
           /\ At(Min(Slots(id))) \notin removed
           /\ IdOf[At(Min(Slots(id)))] = id
<1>1. DOMAIN consumers = 1..Len(consumers) /\ Len(consumers) \in Nat
  BY LenProperties DEF RouterTypes
<1>2. Slots(id) \subseteq Nat
  BY <1>1 DEF Slots
<1>3. \E m \in Slots(id) : \A h \in Slots(id) : m <= h
  BY <1>2, RP!MinExists, Constants
<1>4. Min(Slots(id)) \in Slots(id)
  BY <1>3 DEF Min
<1>5. \A i \in Slots(id) : At(i) \in Conn /\ At(i) \notin removed /\ IdOf[At(i)] = id
  BY <1>1, ElementOfSeq DEF Slots, Live, At, RouterTypes
<1> QED BY <1>4, <1>5

\* handleFloorRelease stores a cursor that is not above the consumer's own.
LEMMA FloorReleased ==
    ASSUME Dependable, RouterInv, HandleFloorRelease
    PROVE  /\ saved' \in [ConsumerID -> Nat]
           /\ \A c \in Started : Persisted(c)'
<1> DEFINE d == At(Min(Slots(rel.id)))
           v == IF rel.floor # 0 /\ rel.floor < cursor[d] THEN rel.floor ELSE cursor[d]
<1>1. /\ saved' = IF Slots(rel.id) = {} THEN saved ELSE [saved EXCEPT ![rel.id] = v]
      /\ UNCHANGED <<durable, flushed>>
  BY DEF HandleFloorRelease, Slots, sinkVars
<1>2. rel.id \in ConsumerID /\ rel.floor \in Nat
  BY DEF RouterInv, RP!Inv, RP!TypeOK, RP!Release
<1>3. RouterTypes /\ \A c \in Started : ConsumerOK(c)
  BY DEF RouterInv
<1>4. CASE Slots(rel.id) = {}
  BY <1>1, <1>3, <1>4 DEF RouterTypes, ConsumerOK, Persisted
<1>5. CASE Slots(rel.id) # {}
  <2>1. d \in Conn /\ d \notin removed /\ IdOf[d] = rel.id
    BY <1>3, <1>5, FirstSlot
  <2> HIDE DEF d
  <2>2. cursor[d] \in Nat
    BY <1>3, <2>1 DEF RouterTypes
  <2>3. v \in Nat /\ v <= cursor[d]
    BY <1>2, <2>2
  <2> HIDE DEF v
  <2>4. saved' = [saved EXCEPT ![rel.id] = v] /\ saved \in [ConsumerID -> Nat]
    BY <1>1, <1>3, <1>5 DEF RouterTypes
  <2>5. ASSUME NEW c \in Started, c \in Batchers PROVE Persisted(c)'
    <3>1. c \in Conn /\ IdOf[c] \in ConsumerID /\ ConsumerOK(c)
      BY <1>3, <2>5, StartedAreConn, Constants
    <3>2. CASE IdOf[c] = rel.id
      <4>1. d = c
        BY <2>1, <3>2, <2>5 DEF Dependable
      <4>2. \A s \in 1..(cursor[c] - 1) : s \in flushed[c]
        BY <2>1, <2>5, <3>1, <4>1 DEF ConsumerOK, Passed
      <4>3. saved'[IdOf[c]] = v
        BY <1>2, <2>4, <3>2
      <4>4. \A s \in 1..(v - 1) : s \in flushed[c]
        BY <2>2, <2>3, <4>1, <4>2
      <4> QED BY <1>1, <3>1, <4>3, <4>4 DEF ConsumerOK, Persisted
    <3>3. CASE IdOf[c] # rel.id
      BY <1>1, <2>4, <3>1, <3>3 DEF ConsumerOK, Persisted
    <3> QED BY <3>2, <3>3
  <2> QED BY <1>2, <2>3, <2>4, <2>5 DEF Persisted
<1> QED BY <1>4, <1>5

\* The retry goroutine, between the partition goroutine's steps.
LEMMA RetryInv ==
    ASSUME Dependable, RouterInv, RetrySide
    PROVE  RouterInv'
<1>1. /\ RP!Inv /\ RouterTypes /\ OwnTarget /\ BatchersNeverBlocked /\ Place
      /\ \A c \in Started : ConsumerOK(c)
  BY DEF RouterInv
<1>2. /\ SchedulerStep
      /\ target' = target /\ acked \subseteq acked' /\ dlq \subseteq dlq' /\ dropped \subseteq dropped'
      /\ \A id \in ConsumerID, k \in Key : blocked[id][k] = <<>> => blocked'[id][k] = <<>>
      /\ log' = log /\ consumers' = consumers /\ removed' = removed /\ closed' = closed
      /\ cursor' = cursor /\ prov' = prov /\ skipped' = skipped /\ flushed' = flushed
      /\ ppc' = ppc /\ pg' = pg /\ durable' = durable /\ crashes' = crashes
  BY <1>1, RetryIsScheduler DEF consVars, memVars, partVars
<1>3. RP!Inv'
  BY <1>1, <1>2, RP!NextInv, Constants DEF SchedulerStep
<1>4. /\ buffered' \in [Conn -> SUBSET Nat]
      /\ \A c \in Conn : buffered[c] \subseteq buffered'[c]
  <2>0. buffered \in [Conn -> SUBSET Nat]
    BY <1>1 DEF RouterTypes
  <2>1. CASE RetryDeliverOK
    <3>1. tpc = "deliver"
      BY <2>1 DEF RetryDeliverOK, RS!DeliverOK
    <3>2. RetryTarget \in Conn /\ Head(RS!CurQueue).seq \in Nat
      BY <1>1, <3>1, CurrentQueue DEF RetryTarget, RS!CurQueue
    <3> DEFINE h == Head(RS!CurQueue).seq
               t == RetryTarget
    <3>3. buffered' = buffered \/ buffered' = [buffered EXCEPT ![t] = @ \cup {h}]
      BY <2>1 DEF RetryDeliverOK
    <3> HIDE DEF h, t
    <3>4. t \in Conn /\ h \in Nat
      BY <3>2 DEF h, t
    <3> QED BY <2>0, <3>3, <3>4
  <2>2. CASE ~RetryDeliverOK
    <3>1. buffered' = buffered
      BY <2>2 DEF RetrySide, RetryStep, RetryDeliverFails, RetryInternal, HandleFloorRelease,
         BackoffElapses, sinkVars
    <3> QED BY <2>0, <3>1
  <2> QED BY <2>1, <2>2
<1>5. saved' \in [ConsumerID -> Nat] /\ \A c \in Started : Persisted(c)'
  <2>1. CASE HandleFloorRelease
    BY <2>1, FloorReleased
  <2>2. CASE ~HandleFloorRelease
    <3>1. saved' = saved
      BY <2>2 DEF RetrySide, RetryStep, RetryDeliverOK, RetryDeliverFails, RetryInternal,
         BackoffElapses, storeVars
    <3> QED BY <1>1, <1>2, <3>1 DEF RouterTypes, ConsumerOK, Persisted
  <2> QED BY <2>1, <2>2
<1>6. RouterTypes'
  BY <1>1, <1>2, <1>4, <1>5 DEF RouterTypes
<1>7. OwnTarget' /\ BatchersNeverBlocked'
  <2>1. OwnTarget'
    BY <1>1, <1>2 DEF OwnTarget
  <2>2. \A c \in Batchers : IdOf[c] \in ConsumerID
    BY Constants, RouterAssumption
  <2> QED BY <1>1, <1>2, <2>1, <2>2 DEF BatchersNeverBlocked
<1>8. /\ Prolongs(consumers', consumers) /\ Prolongs(log', log)
      /\ Len(consumers') \in Nat /\ Len(log') \in Nat
  BY <1>1, <1>2, AppendProlongs, Lengths DEF RouterTypes
<1>9. Place'
  BY <1>1, <1>2, <1>8, PlaceStays
<1>10. ASSUME NEW c \in Started PROVE ConsumerOK(c)'
  <2>1. c \in Conn
    BY StartedAreConn
  <2>2. ASSUME c \notin Batchers, NEW s \in 1..Len(log), Reached(c, s) PROVE Reached(c, s)'
    BY <1>1, <1>2, <2>2, ReachedStays DEF RouterTypes
  <2>3. Aside(c)
    BY <1>2, <1>4, <1>8, <2>1, <2>2 DEF Aside
  <2> QED BY <1>1, <1>5, <1>8, <2>3, ConsumerStays
<1> QED BY <1>3, <1>6, <1>7, <1>9, <1>10 DEF RouterInv

\* Steps that leave the scheduler alone.
LEMMA SchedulerIdle ==
    ASSUME RouterInv, UNCHANGED retryVars
    PROVE  RP!Inv' /\ OwnTarget' /\ BatchersNeverBlocked'
<1>1. RP!vars' = RP!vars
  BY DEF retryVars, RP!vars, RP!stateVars, RP!tickVars, RP!resultVars
<1>2. RP!Inv'
  BY <1>1, RP!NextInv, Constants DEF RouterInv
<1> QED BY <1>2 DEF retryVars, RouterInv, OwnTarget, BatchersNeverBlocked

\* What is settled or queued stays so while the queues stand still.
LEMMA ReachedIdle ==
    ASSUME blocked' = blocked, flushed' = flushed, acked \subseteq acked', dlq \subseteq dlq',
           dropped \subseteq dropped', Prolongs(log', log),
           NEW c, NEW s \in 1..Len(log), Reached(c, s)
    PROVE  Reached(c, s)'
<1>1. log'[s] = log[s]
  BY DEF Prolongs
<1> QED BY <1>1 DEF Reached, Settled, Queued

\* A quiet step: the scheduler and the goroutine stand still.
LEMMA QuietInv ==
    ASSUME RouterInv, UNCHANGED retryVars, RouterTypes',
           UNCHANGED <<ppc, pg, crashes, flushed, buffered>>,
           Prolongs(consumers', consumers), removed \subseteq removed', Prolongs(log', log),
           \A c \in Started : /\ cursor'[c] = cursor[c] /\ (c \notin removed' => prov'[c] = prov[c])
                              /\ Persisted(c)'
    PROVE  RouterInv'
<1>1. Len(consumers') \in Nat /\ Len(log') \in Nat
  BY LenProperties DEF RouterTypes
<1>2. RouterTypes /\ Place /\ \A c \in Started : ConsumerOK(c)
  BY DEF RouterInv
<1>3. Place'
  BY <1>1, <1>2, PlaceStays
<1>4. ASSUME NEW c \in Started PROVE ConsumerOK(c)'
  <2>1. \A s \in 1..Len(log) : Reached(c, s) => Reached(c, s)'
    BY ReachedIdle DEF retryVars
  <2>2. Aside(c)
    BY <2>1 DEF Aside, retryVars
  <2> QED BY <1>1, <1>2, <2>2, ConsumerStays
<1> QED BY <1>3, <1>4, SchedulerIdle DEF RouterInv

LEMMA AppendEventInv ==
    ASSUME RouterInv, NEW k \in Key, AppendEvent(k)
    PROVE  RouterInv'
<1>1. /\ log' = Append(log, k)
      /\ UNCHANGED <<retryVars, consVars, memVars, sinkVars, partVars, storeVars, crashes>>
  BY DEF AppendEvent
<1>2. RouterTypes /\ \A c \in Started : ConsumerOK(c)
  BY DEF RouterInv
<1>3. log' \in Seq(Key) /\ Prolongs(log', log) /\ Prolongs(consumers', consumers)
  BY <1>1, <1>2, AppendProlongs DEF RouterTypes, consVars
<1>4. RouterTypes'
  BY <1>1, <1>2, <1>3 DEF RouterTypes, consVars, memVars, sinkVars, partVars, storeVars
<1>5. \A c \in Started : Persisted(c)'
  BY <1>1, <1>2 DEF ConsumerOK, Persisted, storeVars, sinkVars
<1> QED BY <1>1, <1>3, <1>4, <1>5, QuietInv DEF consVars, memVars, sinkVars, partVars

LEMMA RegisterInv ==
    ASSUME RouterInv, NEW d \in Conn, Register(d)
    PROVE  RouterInv'
<1> DEFINE v == LoadCursor(IdOf[d])
<1>1. /\ consumers' = Append(consumers, d) /\ d \notin Range(consumers)
      /\ cursor' = [cursor EXCEPT ![d] = v]
      /\ UNCHANGED <<retryVars, log, removed, closed, prov, skipped, streak, sinkVars,
                     partVars, storeVars, crashes>>
  BY DEF Register
<1>2. RouterTypes /\ \A c \in Started : ConsumerOK(c)
  BY DEF RouterInv
<1>3. v \in Nat \ {0}
  BY <1>2, Constants DEF LoadCursor, RouterTypes
<1> HIDE DEF v
<1>4. cursor' \in [Conn -> Nat \ {0}] /\ \A c \in Conn \ {d} : cursor'[c] = cursor[c]
  BY <1>1, <1>2, <1>3 DEF RouterTypes
<1>5. d \notin Started
  <2>1. DOMAIN consumers = 1..Len(consumers)
    BY <1>2, LenProperties DEF RouterTypes
  <2> QED BY <1>1, <1>2, <2>1 DEF ConsumerOK, Among, Range
<1>6. /\ consumers' \in Seq(Conn) /\ Prolongs(consumers', consumers) /\ Prolongs(log', log)
  BY <1>1, <1>2, AppendProlongs DEF RouterTypes
<1>7. RouterTypes'
  BY <1>1, <1>2, <1>4, <1>6 DEF RouterTypes, sinkVars, partVars, storeVars
<1>8. \A c \in Started : cursor'[c] = cursor[c] /\ Persisted(c)'
  BY <1>1, <1>2, <1>4, <1>5, StartedAreConn DEF ConsumerOK, Persisted, storeVars, sinkVars
<1> QED BY <1>1, <1>6, <1>7, <1>8, QuietInv DEF sinkVars, partVars

LEMMA CloseInv ==
    ASSUME RouterInv, NEW d \in Conn, Close(d)
    PROVE  RouterInv'
<1>1. /\ closed' = closed \cup {d} /\ d \in Quits
      /\ UNCHANGED <<retryVars, log, consumers, removed, memVars, sinkVars, partVars,
                     storeVars, crashes>>
  BY DEF Close
<1>2. RouterTypes /\ \A c \in Started : ConsumerOK(c)
  BY DEF RouterInv
<1>3. Prolongs(consumers', consumers) /\ Prolongs(log', log)
  BY <1>1, <1>2, AppendProlongs DEF RouterTypes
<1>4. RouterTypes'
  BY <1>1, <1>2 DEF RouterTypes, memVars, sinkVars, partVars, storeVars
<1>5. \A c \in Started : Persisted(c)'
  BY <1>1, <1>2 DEF ConsumerOK, Persisted, storeVars, sinkVars
<1> QED BY <1>1, <1>3, <1>4, <1>5, QuietInv DEF memVars, sinkVars, partVars

LEMMA UnregisterInv ==
    ASSUME Dependable, RouterInv, NEW id \in ConsumerID, Unregister(id)
    PROVE  RouterInv'
<1> DEFINE d == At(Min(Slots(id)))
<1>1. /\ Slots(id) # {} /\ removed' = removed \cup {d}
      /\ prov' = [prov EXCEPT ![d] = 0]
      /\ skipped' = [skipped EXCEPT ![d] = {}]
      /\ saved' = [saved EXCEPT ![id] = 0]
      /\ durable' = [durable EXCEPT ![id] = 0]
      /\ UNCHANGED <<retryVars, log, consumers, closed, cursor, streak, sinkVars, partVars, crashes>>
  BY DEF Unregister, Slots
<1>2. RouterTypes /\ \A c \in Started : ConsumerOK(c)
  BY DEF RouterInv
<1>3. d \in Conn /\ IdOf[d] = id
  BY <1>1, <1>2, FirstSlot
<1> HIDE DEF d
<1>4. Prolongs(consumers', consumers) /\ Prolongs(log', log)
  BY <1>1, <1>2, AppendProlongs DEF RouterTypes
<1>5. skipped' = NoSeqs
  BY <1>1, <1>2 DEF RouterTypes, NoSeqs
<1>6. RouterTypes'
  BY <1>1, <1>2, <1>3, <1>5 DEF RouterTypes, sinkVars, partVars
<1>7. ASSUME NEW c \in Started
      PROVE  /\ cursor'[c] = cursor[c] /\ (c \notin removed' => prov'[c] = prov[c])
             /\ Persisted(c)'
  <2>1. c \in Conn /\ IdOf[c] \in ConsumerID /\ Persisted(c)
    BY <1>2, StartedAreConn, Constants DEF ConsumerOK
  <2>2. c \notin removed' => prov'[c] = prov[c]
    BY <1>1, <1>2, <2>1 DEF RouterTypes
  <2>3. /\ saved'[IdOf[c]] = IF IdOf[c] = id THEN 0 ELSE saved[IdOf[c]]
        /\ durable'[IdOf[c]] = IF IdOf[c] = id THEN 0 ELSE durable[IdOf[c]]
    BY <1>1, <1>2, <2>1 DEF RouterTypes
  <2>4. Persisted(c)'
    BY <1>1, <2>1, <2>3 DEF Persisted, sinkVars
  <2> QED BY <1>1, <2>2, <2>4
<1> QED BY <1>1, <1>4, <1>6, <1>7, QuietInv DEF sinkVars, partVars

LEMMA FlushCursorStoreInv ==
    ASSUME RouterInv, FlushCursorStore
    PROVE  RouterInv'
<1>1. /\ durable' = saved
      /\ UNCHANGED <<retryVars, log, consVars, memVars, sinkVars, partVars, saved, crashes>>
  BY DEF FlushCursorStore
<1>2. RouterTypes /\ \A c \in Started : ConsumerOK(c)
  BY DEF RouterInv
<1>3. Prolongs(consumers', consumers) /\ Prolongs(log', log)
  BY <1>1, <1>2, AppendProlongs DEF RouterTypes, consVars
<1>4. RouterTypes'
  BY <1>1, <1>2 DEF RouterTypes, consVars, memVars, sinkVars, partVars
<1>5. \A c \in Started : Persisted(c)'
  BY <1>1, <1>2 DEF ConsumerOK, Persisted, sinkVars
<1> QED BY <1>1, <1>3, <1>4, <1>5, QuietInv DEF consVars, memVars, sinkVars, partVars

-----------------------------------------------------------------------------
(* Process start.                                                          *)

\* A process has just started, for the first time or after a crash.
Fresh ==
    /\ blocked = NoQueues /\ target = NoTargets /\ floors = NoFloors
    /\ tpc = "idle" /\ due = {} /\ cur \in AnyGroup /\ rel = NoRelease
    /\ consumers = Boot /\ removed = {} /\ closed = {}
    /\ cursor = BootCursor(durable)
    /\ prov = Zeroes /\ skipped = NoSeqs /\ buffered = NoSeqs
    /\ ppc = "read" /\ pg = IdlePg /\ saved = durable

\* What outlives a process.
Lasting ==
    /\ log \in Seq(Key) /\ flushed \in [Conn -> SUBSET Nat] /\ durable \in [ConsumerID -> Nat]
    /\ acked \subseteq Conn \X Key \X RP!SeqNo
    /\ dlq \subseteq ConsumerID \X Key \X RP!SeqNo
    /\ dropped \subseteq ConsumerID \X Key \X RP!SeqNo
    /\ crashes \in Nat
    /\ crashes = 0 => \A id \in ConsumerID : durable[id] = 0
    /\ \A c \in Started : c \in Batchers => \A s \in 1..(durable[IdOf[c]] - 1) : s \in flushed[c]

LEMMA IdleType == IdlePg \in PgType /\ NoSnap \in SnapType
<1>1. NoSnap \in SnapType
  BY DEF NoSnap, SnapType
<1>2. [c \in Conn |-> NoSnap] \in [Conn -> SnapType]
  BY <1>1
<1>3. <<>> \in Seq(ConsumerID \X Nat)
  BY EmptySeq
<1> QED BY <1>1, <1>2, <1>3 DEF IdlePg, PgType

\* The invariant holds when a process starts.
LEMMA FreshInv == Fresh /\ Lasting => RouterInv
<1> SUFFICES ASSUME Fresh, Lasting PROVE RouterInv
  OBVIOUS
<1>1. /\ Boot \in Seq(Conn) /\ Len(Boot) \in Nat /\ 1 \in DOMAIN Boot
      /\ Boot[1] \in Conn /\ IdOf[Boot[1]] \in ConsumerID /\ Part \in Partition
  <2>1. Boot \in Seq(Conn) /\ Boot # <<>> /\ Part \in Partition
    BY RouterAssumption
  <2>2. Len(Boot) \in Nat \ {0} /\ DOMAIN Boot = 1..Len(Boot)
    BY <2>1, EmptySeq, LenProperties
  <2>3. Boot[1] \in Conn
    BY <2>1, <2>2, ElementOfSeq
  <2> QED BY <2>1, <2>2, <2>3, Constants
<1>2. RP!Inv
  <2>1. blocked \in RP!QueueMap
    BY EmptySeq DEF Fresh, NoQueues, RP!QueueMap
  <2>2. target \in [ConsumerID -> Conn \cup {NoConn}] /\ floors \in [ConsumerID -> [Partition -> Nat]]
    BY DEF Fresh, NoTargets, NoFloors
  <2>3. cur \in RP!Group /\ rel \in RP!Release /\ due \subseteq RP!Group
    BY <1>1 DEF Fresh, AnyGroup, NoRelease, RP!Group, RP!Release
  <2>4. RP!TypeOK
    BY <2>1, <2>2, <2>3 DEF RP!TypeOK, Fresh, Lasting
  <2>5. \A id \in ConsumerID, p \in Partition : RP!Heads(blocked, id, p) = {}
    BY DEF Fresh, NoQueues, RP!Heads
  <2>6. RP!FloorIsLowestHead
    BY <2>5 DEF Fresh, NoFloors, RP!FloorIsLowestHead
  <2>7. RP!HeadInFlight /\ RP!BlockedHasTarget
    BY DEF Fresh, NoQueues, RP!HeadInFlight, RP!BlockedHasTarget
  <2> QED BY <2>4, <2>6, <2>7 DEF RP!Inv
<1>3. cursor \in [Conn -> Nat \ {0}]
  BY Constants DEF Fresh, Lasting, BootCursor
<1>4. RouterTypes
  BY <1>1, <1>3, IdleType DEF RouterTypes, Fresh, Lasting, Zeroes, NoSeqs
<1>5. OwnTarget /\ BatchersNeverBlocked
  <2>1. OwnTarget
    BY RouterAssumption DEF Fresh, NoTargets, OwnTarget
  <2>2. \A c \in Batchers : IdOf[c] \in ConsumerID
    BY Constants, RouterAssumption
  <2> QED BY <2>1, <2>2 DEF Fresh, NoQueues, BatchersNeverBlocked
<1>6. Place
  <2>1. pg.err = {} /\ pg.saves = <<>> /\ ppc = "read"
    BY DEF Fresh, IdlePg
  <2> QED BY <2>1 DEF Place, InWindow, Looping, Dispatching
<1>7. ASSUME NEW c \in Started PROVE ConsumerOK(c)
  <2>1. c \in Conn /\ IdOf[c] \in ConsumerID
    BY StartedAreConn, Constants
  <2>2. Among(c, Len(consumers))
    BY <1>1, LenProperties DEF Fresh, Among, Started, Range
  <2>3. Persisted(c)
    BY DEF Fresh, Lasting, Persisted
  <2>4. cursor[c] = IF durable[IdOf[c]] # 0 THEN durable[IdOf[c]] ELSE 1
    BY <2>1 DEF Fresh, BootCursor, Started
  <2>5. Passed(c)
    <3>1. CASE c \in Batchers
      BY <2>1, <2>4, <3>1 DEF Passed, Lasting
    <3>2. CASE c \notin Batchers
      <4> SUFFICES ASSUME crashes = 0 PROVE cursor[c] = 1 /\ Len(log) \in Nat
        BY <3>2 DEF Passed
      <4> QED BY <2>1, <2>4, LenProperties DEF Lasting
    <3> QED BY <3>1, <3>2
  <2>6. Provisional(c)
    BY <2>1 DEF Fresh, Zeroes, Provisional
  <2>7. Window(c)
    BY DEF Fresh, Window, InWindow, Dispatching
  <2> QED BY <2>2, <2>3, <2>5, <2>6, <2>7 DEF ConsumerOK
<1> QED BY <1>2, <1>4, <1>5, <1>6, <1>7 DEF RouterInv

LEMMA FreshInvNext == Fresh' /\ Lasting' => RouterInv'
BY FreshInv, PTL

LEMMA InitInv == Init => RouterInv
<1> SUFFICES ASSUME Init PROVE RouterInv
  OBVIOUS
<1>1. Fresh
  BY DEF Init, Fresh
<1>2. Lasting
  <2>1. \A c \in Started : IdOf[c] \in ConsumerID
    BY StartedAreConn, Constants
  <2> QED BY <2>1, EmptySeq DEF Init, Lasting, NoSeqs
<1> QED BY <1>1, <1>2, FreshInv

LEMMA CrashInv ==
    ASSUME RouterInv, Crash
    PROVE  RouterInv'
<1>1. Fresh'
  BY DEF Crash, Fresh, BootCursor
<1>2. Lasting'
  <2>1. crashes' = crashes + 1 /\ crashes \in Nat
    BY DEF Crash, RouterInv, RouterTypes
  <2>2. UNCHANGED <<log, durable, flushed, acked, dlq, dropped>>
    BY DEF Crash
  <2>3. \A c \in Started : Persisted(c)
    BY DEF RouterInv, ConsumerOK
  <2> QED BY <2>1, <2>2, <2>3 DEF Lasting, RouterInv, RouterTypes, RP!Inv, RP!TypeOK, Persisted
<1> QED BY <1>1, <1>2, FreshInvNext

-----------------------------------------------------------------------------
(* The partition goroutine.                                                *)

\* Steps of the goroutine that change nothing but its own locals.
LEMMA HasIdle ==
    ASSUME UNCHANGED <<blocked, acked, dlq, dropped, log, flushed, buffered, crashes>>
    PROVE  \A c, s : /\ Has(c, s)' <=> Has(c, s)
                     /\ Reached(c, s)' <=> Reached(c, s)
BY DEF Has, Reached, Settled, Queued

\* Such a step that may also save a cursor.
LEMMA LocalsAndSaves ==
    ASSUME RouterInv, UNCHANGED <<retryVars, log, consVars, memVars, sinkVars, durable, crashes>>,
           saved' \in [ConsumerID -> Nat], \A c \in Started : Persisted(c)',
           pg' \in PgType, ppc' \in {"read", "snap", "deliver", "apply", "cap", "save", "flush"},
           ppc # "settle", Place', \A c \in Started : c \notin removed => Window(c)'
    PROVE  RouterInv'
<1>1. RouterTypes'
  BY DEF RouterInv, RouterTypes, consVars, memVars, sinkVars
<1>2. ASSUME NEW c \in Started PROVE ConsumerOK(c)'
  <2>1. ConsumerOK(c)
    BY DEF RouterInv
  <2>2. Among(c, Len(consumers))' /\ Persisted(c)'
    BY <2>1 DEF ConsumerOK, Among, consVars
  <2>3. Passed(c) => Passed(c)'
    BY HasIdle DEF Passed, retryVars, sinkVars, memVars
  <2>4. Provisional(c) => Provisional(c)'
    BY DEF Provisional, Flushing, sinkVars, memVars
  <2> QED BY <2>1, <2>2, <2>3, <2>4 DEF ConsumerOK, consVars
<1> QED BY <1>1, <1>2, SchedulerIdle DEF RouterInv

LEMMA OnlyLocals ==
    ASSUME RouterInv, UNCHANGED <<retryVars, log, consVars, memVars, sinkVars, storeVars, crashes>>,
           pg' \in PgType, ppc' \in {"read", "snap", "deliver", "apply", "cap", "save", "flush"},
           ppc # "settle", Place', \A c \in Started : c \notin removed => Window(c)'
    PROVE  RouterInv'
<1>1. saved' \in [ConsumerID -> Nat]
  BY DEF RouterInv, RouterTypes, storeVars
<1>2. \A c \in Started : Persisted(c)'
  BY DEF RouterInv, ConsumerOK, Persisted, sinkVars, storeVars
<1> QED BY <1>1, <1>2, LocalsAndSaves DEF storeVars

\* What NextConsumer makes of the locals p.
LEMMA NextConsumerFacts ==
    ASSUME NEW p \in PgType, NEW phase, NEW after, NextConsumer(phase, after, p)
    PROVE  /\ pg' \in PgType
           /\ pg'.seq = p.seq /\ pg'.last = p.last /\ pg'.n = p.n /\ pg'.snap = p.snap
           /\ pg'.err = p.err /\ pg'.saves = p.saves /\ pg'.out = p.out
           /\ \/ p.i < p.n /\ ppc' = phase /\ pg'.i = p.i + 1
              \/ ~(p.i < p.n) /\ ppc' = after /\ pg'.i = 1
<1>1. CASE p.i < p.n
  <2>1. ppc' = phase /\ pg' = [p EXCEPT !.i = p.i + 1, !.persist = 0]
    BY <1>1 DEF NextConsumer
  <2>2. p.i + 1 \in Nat
    BY PgFields
  <2> QED BY <1>1, <2>1, <2>2 DEF PgType
<1>2. CASE ~(p.i < p.n)
  <2>1. ppc' = after /\ pg' = [p EXCEPT !.i = 1, !.persist = 0]
    BY <1>2 DEF NextConsumer
  <2> QED BY <1>2, <2>1 DEF PgType
<1> QED BY <1>1, <1>2

LEMMA NextApplyFacts ==
    ASSUME NEW p \in PgType, NextApply(p)
    PROVE  /\ pg' \in PgType
           /\ pg'.seq = p.seq /\ pg'.last = p.last /\ pg'.saves = p.saves
           /\ pg'.err \subseteq p.err
           /\ \/ p.i < p.n /\ ppc' = "apply" /\ pg'.i = p.i + 1 /\ pg'.n = p.n
                 /\ pg'.snap = p.snap /\ pg'.err = p.err
              \/ ~(p.i < p.n) /\ ppc' = "save"
<1>1. CASE p.i < p.n
  BY <1>1, NextConsumerFacts DEF NextApply
<1>2. CASE ~(p.i < p.n)
  <2>1. ppc' = "save" /\ pg' = [IdlePg EXCEPT !.seq = p.seq, !.last = p.last, !.saves = p.saves]
    BY <1>2 DEF NextApply
  <2>2. p.seq \in Nat /\ p.last \in Nat /\ p.saves \in Seq(ConsumerID \X Nat) /\ p.err \subseteq Conn
    BY PgFields
  <2>3. pg' \in PgType
    BY <2>1, <2>2, IdleType DEF PgType
  <2>4. pg'.seq = p.seq /\ pg'.last = p.last /\ pg'.saves = p.saves /\ pg'.err = {}
    BY <2>1 DEF IdlePg
  <2> QED BY <1>2, <2>1, <2>3, <2>4
<1> QED BY <1>1, <1>2

\* The window starts at or below the cursor of every consumer.
LEMMA MinCursorLow ==
    ASSUME RouterInv
    PROVE  /\ MinCursor \in Nat \ {0}
           /\ \A c \in Started : c \notin removed => MinCursor <= cursor[c]
<1> DEFINE C == {cursor[c] : c \in {c \in Conn : Live(c)}}
<1>1. C \subseteq Nat \ {0}
  BY DEF RouterInv, RouterTypes
<1>2. \A c \in Started : c \notin removed => cursor[c] \in C
  <2> SUFFICES ASSUME NEW c \in Started, c \notin removed PROVE c \in Conn /\ Live(c)
    OBVIOUS
  <2>1. DOMAIN consumers = 1..Len(consumers)
    BY LenProperties DEF RouterInv, RouterTypes
  <2> QED BY <2>1, StartedAreConn DEF RouterInv, ConsumerOK, Among, Live, Range
<1>3. MinCursor = IF C = {} THEN 1 ELSE Min(C)
  BY DEF MinCursor
<1> HIDE DEF C
<1>4. CASE C = {}
  BY <1>2, <1>3, <1>4
<1>5. CASE C # {}
  <2>1. \E m \in C : \A h \in C : m <= h
    BY <1>1, <1>5, RP!MinExists, Constants
  <2>2. Min(C) \in C /\ \A h \in C : Min(C) <= h
    BY <2>1 DEF Min
  <2> QED BY <1>1, <1>2, <1>3, <1>5, <2>2
<1> QED BY <1>4, <1>5

LEMMA ReadPartitionInv ==
    ASSUME RouterInv, ReadPartition
    PROVE  RouterInv'
<1> DEFINE l == Min({Len(log), MinCursor + BatchLimit - 1})
           m == MinCursor
<1>0. Len(log) \in Nat
  BY Lengths DEF RouterInv
<1>1. m \in Nat \ {0} /\ m <= Len(log)
  BY MinCursorLow DEF ReadPartition
<1>2. l \in 1..Len(log)
  <2> DEFINE b == MinCursor + BatchLimit - 1
             S == {Len(log), b}
  <2>1. b \in Nat \ {0} /\ Len(log) \in Nat \ {0}
    BY <1>0, <1>1, RouterAssumption
  <2> HIDE DEF b
  <2>2. S \subseteq Nat /\ S # {}
    BY <2>1
  <2>2a. l = Min(S)
    BY DEF b
  <2> HIDE DEF l
  <2>3. \E x \in S : \A h \in S : x <= h
    <3> HIDE DEF S
    <3> QED BY <2>2, RP!MinExists, Constants
  <2>4. Min(S) \in S /\ \A h \in S : Min(S) <= h
    <3> HIDE DEF S
    <3> QED BY <2>3 DEF Min
  <2> QED BY <2>1, <2>2a, <2>4
<1>3. /\ pg' = [IdlePg EXCEPT !.seq = m, !.last = l] /\ ppc' = "snap" /\ ppc = "read"
      /\ UNCHANGED <<retryVars, log, consVars, memVars, sinkVars, storeVars, crashes>>
  BY DEF ReadPartition
<1> HIDE DEF l, m
<1>4. /\ pg' \in PgType /\ pg'.seq = m /\ pg'.last = l /\ pg'.err = {} /\ pg'.saves = <<>>
  <2>1. l \in Nat /\ m \in Nat
    BY <1>0, <1>1, <1>2
  <2> QED BY <1>3, <2>1, IdleType DEF PgType, IdlePg
<1>5. Place'
  BY <1>0, <1>1, <1>2, <1>3, <1>4 DEF Place, Looping, Dispatching
<1>6. ASSUME NEW c \in Started, c \notin removed PROVE Window(c)'
  <2>1. m <= cursor[c] /\ cursor[c] \in Nat /\ Passed(c)
    BY <1>6, MinCursorLow, StartedAreConn DEF RouterInv, RouterTypes, ConsumerOK, m
  <2>2. \A s \in 1..(m - 1) : Has(c, s)
    BY <1>1, <2>1 DEF Passed, Has
  <2>3. \A s \in 1..(m - 1) : Has(c, s)'
    BY <1>3, <2>2, HasIdle DEF retryVars, sinkVars
  <2> QED BY <1>3, <1>4, <2>3 DEF Window, Dispatching
<1> QED BY <1>3, <1>4, <1>5, <1>6, OnlyLocals

LEMMA SnapshotInv ==
    ASSUME Dependable, RouterInv, SnapshotConsumers
    PROVE  RouterInv'
<1> DEFINE S == [c \in Conn |->
                    IF Live(c)
                    THEN [on |-> TRUE, blocked |-> RS!IsBlocked(IdOf[c], log[pg.seq]),
                          cursor |-> cursor[c], skipped |-> pg.seq \in skipped[c]]
                    ELSE NoSnap]
           n == Len(consumers)
<1>0. /\ RouterTypes /\ pg \in PgType /\ n \in Nat /\ Len(log) \in Nat
      /\ \A c \in Started : ConsumerOK(c)
  BY Lengths DEF RouterInv, RouterTypes
<1>1. /\ pg' = [pg EXCEPT !.snap = S, !.n = n, !.i = 1] /\ ppc' = "deliver" /\ ppc = "snap"
      /\ UNCHANGED <<retryVars, log, consVars, memVars, sinkVars, storeVars, crashes>>
  BY DEF SnapshotConsumers
<1>2. S \in [Conn -> SnapType]
  <2> SUFFICES ASSUME NEW c \in Conn, Live(c)
               PROVE  [on |-> TRUE, blocked |-> RS!IsBlocked(IdOf[c], log[pg.seq]),
                       cursor |-> cursor[c], skipped |-> pg.seq \in skipped[c]] \in SnapType
    BY IdleType
  <2>1. cursor[c] \in Nat /\ RS!IsBlocked(IdOf[c], log[pg.seq]) \in BOOLEAN
    BY <1>0 DEF RouterTypes, RS!IsBlocked
  <2> QED BY <2>1 DEF SnapType
<1>3. ASSUME NEW c \in Started, c \notin removed
      PROVE  /\ S[c].on /\ ~S[c].skipped /\ S[c].cursor <= cursor[c]
             /\ c \in Batchers => ~S[c].blocked
  <2>1. DOMAIN consumers = 1..Len(consumers) /\ c \in Conn
    BY <1>0, LenProperties, StartedAreConn DEF RouterTypes
  <2>2. Live(c)
    BY <1>0, <1>3, <2>1 DEF ConsumerOK, Among, Live, Range
  <2>3. S[c] = [on |-> TRUE, blocked |-> RS!IsBlocked(IdOf[c], log[pg.seq]),
                cursor |-> cursor[c], skipped |-> pg.seq \in skipped[c]]
    BY <2>1, <2>2
  <2>4. pg.seq \notin skipped[c] /\ cursor[c] \in Nat
    BY <1>0, <2>1 DEF RouterTypes, NoSeqs
  <2>5. c \in Batchers => ~RS!IsBlocked(IdOf[c], log[pg.seq])
    <3>1. log[pg.seq] \in Key
      BY <1>0, <1>1, ElementOfSeq DEF RouterInv, Place, InWindow, RouterTypes
    <3> QED BY <3>1 DEF RouterInv, BatchersNeverBlocked, RS!IsBlocked
  <2> HIDE DEF S
  <2>6. /\ S[c].on /\ S[c].cursor = cursor[c]
        /\ S[c].blocked = RS!IsBlocked(IdOf[c], log[pg.seq])
        /\ S[c].skipped = (pg.seq \in skipped[c])
    BY <2>3
  <2>7. ~S[c].skipped /\ (c \in Batchers => ~S[c].blocked)
    BY <2>4, <2>5, <2>6, Zenon
  <2>8. S[c].cursor <= cursor[c]
    BY <2>4, <2>6
  <2> QED BY <2>6, <2>7, <2>8
<1> HIDE DEF S
<1>4. /\ pg' \in PgType /\ pg'.seq = pg.seq /\ pg'.last = pg.last /\ pg'.snap = S /\ pg'.n = n
      /\ pg'.i = 1 /\ pg'.err = pg.err /\ pg'.saves = pg.saves
  <2> HIDE DEF n
  <2> QED BY <1>0, <1>1, <1>2 DEF PgType
<1>5. n >= 1
  <2>1. Boot[1] \in Started
    <3>1. Boot \in Seq(Conn) /\ Boot # <<>>
      BY RouterAssumption
    <3>2. 1 \in DOMAIN Boot
      BY <3>1, EmptySeq, LenProperties
    <3> QED BY <3>2 DEF Started, Range
  <2> QED BY <1>0, <2>1 DEF ConsumerOK, Among
<1>6. Place'
  BY <1>0, <1>1, <1>4, <1>5 DEF Place, InWindow, Looping, Dispatching, RouterInv, consVars
<1>7. ASSUME NEW c \in Started, c \notin removed PROVE Window(c)'
  <2>1. Window(c) /\ Among(c, n)
    BY <1>0, <1>7 DEF ConsumerOK
  <2>2. \A s \in 1..(pg.seq - 1) : Has(c, s)'
    BY <1>1, <2>1, HasIdle DEF Window, InWindow, retryVars, sinkVars
  <2>3. Snapped(c)'
    BY <1>1, <1>3, <1>4, <1>7, <2>1 DEF Snapped, Among, consVars, memVars
  <2>4. ~ Among(c, pg.i - 1)'
    BY <1>4 DEF Among
  <2> QED BY <1>1, <1>4, <2>2, <2>3, <2>4 DEF Window
<1> QED BY <1>1, <1>4, <1>6, <1>7, OnlyLocals

\* The first i consumers are the first i - 1 and the i-th.
LEMMA AmongNext ==
    ASSUME NEW c, NEW i \in Nat \ {0}, Among(c, i)
    PROVE  Among(c, i - 1) \/ At(i) = c
BY DEF Among, At

\* The consumer at hand is a consumer.
LEMMA AtHand ==
    ASSUME RouterInv, Looping
    PROVE  /\ At(pg.i) \in Conn /\ IdOf[At(pg.i)] \in ConsumerID
           /\ pg.i \in Nat \ {0} /\ pg.n \in Nat /\ pg.i <= pg.n
<1>1. /\ pg.i \in 1..pg.n /\ pg.n <= Len(consumers) /\ pg.n \in Nat /\ Len(consumers) \in Nat
      /\ consumers \in Seq(Conn)
  BY Lengths, PgFields DEF RouterInv, RouterTypes, Place
<1>2. pg.i \in 1..Len(consumers)
  BY <1>1
<1>3. At(pg.i) \in Conn
  BY <1>1, <1>2, ElementOfSeq DEF At
<1> QED BY <1>1, <1>3, Constants

\* The event at hand is an event of the log.
LEMMA EventAtHand ==
    ASSUME RouterInv, InWindow
    PROVE  pg.seq \in 1..Len(log) /\ pg.seq \in Nat \ {0} /\ log[pg.seq] \in Key
<1>1. pg.seq \in 1..Len(log) /\ log \in Seq(Key) /\ Len(log) \in Nat
  BY Lengths DEF RouterInv, Place, RouterTypes
<1> QED BY <1>1, ElementOfSeq

\* A step that only adds to what the sinks accepted.
LEMMA SchedulerAccepts ==
    ASSUME RouterInv, UNCHANGED <<blocked, target, floors, tpc, due, cur, rel, dlq, dropped>>,
           acked' \subseteq Conn \X Key \X RP!SeqNo
    PROVE  RP!Inv' /\ OwnTarget' /\ BatchersNeverBlocked'
<1>1. RP!TypeOK'
  BY DEF RouterInv, RP!Inv, RP!TypeOK
<1>2. RP!FloorIsLowestHead' /\ RP!HeadInFlight' /\ RP!BlockedHasTarget'
  <2>1. RP!FloorIsLowestHead'
    BY DEF RouterInv, RP!Inv, RP!FloorIsLowestHead
  <2>2. RP!HeadInFlight' /\ RP!BlockedHasTarget'
    BY DEF RouterInv, RP!Inv, RP!HeadInFlight, RP!BlockedHasTarget, RP!CurQueue
  <2> QED BY <2>1, <2>2
<1> QED BY <1>1, <1>2 DEF RouterInv, RP!Inv, OwnTarget, BatchersNeverBlocked

\* Phase 2 for one consumer: E is what has failed by now.
LEMMA DeliversInv ==
    ASSUME RouterInv, ppc = "deliver",
           NEW E, pg.err \subseteq E, E \subseteq Conn, E \subseteq Flaky \cup Quits,
           NextConsumer("deliver", "apply", [pg EXCEPT !.err = E]),
           UNCHANGED <<blocked, target, floors, tpc, due, cur, rel, dlq, dropped,
                       log, consVars, memVars, flushed, storeVars, crashes>>,
           acked \subseteq acked', acked' \subseteq Conn \X Key \X RP!SeqNo,
           buffered' \in [Conn -> SUBSET Nat], \A c \in Conn : buffered[c] \subseteq buffered'[c],
           Wanted(At(pg.i)) =>
               \/ At(pg.i) \in E
               \/ IF At(pg.i) \in Batchers THEN pg.seq \in buffered'[At(pg.i)]
                  ELSE <<At(pg.i), log[pg.seq], pg.seq>> \in acked'
    PROVE  RouterInv'
<1> DEFINE p == [pg EXCEPT !.err = E]
<1>0. /\ RouterTypes /\ Place /\ pg \in PgType /\ \A c \in Started : ConsumerOK(c)
      /\ InWindow /\ Dispatching /\ Looping
  BY DEF RouterInv, RouterTypes, InWindow, Dispatching, Looping
<1>1. /\ p \in PgType /\ p.seq = pg.seq /\ p.last = pg.last /\ p.n = pg.n /\ p.i = pg.i
      /\ p.snap = pg.snap /\ p.err = E /\ p.saves = pg.saves
  BY <1>0 DEF PgType
<1>2. NextConsumer("deliver", "apply", p)
  OBVIOUS
<1> HIDE DEF p
<1>3. /\ pg' \in PgType /\ pg'.seq = pg.seq /\ pg'.last = pg.last /\ pg'.n = pg.n
      /\ pg'.snap = pg.snap /\ pg'.err = E /\ pg'.saves = pg.saves
      /\ \/ pg.i < pg.n /\ ppc' = "deliver" /\ pg'.i = pg.i + 1
         \/ ~(pg.i < pg.n) /\ ppc' = "apply" /\ pg'.i = 1
  BY <1>1, <1>2, NextConsumerFacts
<1>4. /\ pg.i \in Nat \ {0} /\ pg.n \in Nat /\ pg.i <= pg.n
      /\ pg.seq \in 1..Len(log) /\ Len(log) \in Nat
  BY <1>0, AtHand, EventAtHand, Lengths
<1>5. RouterTypes'
  BY <1>0, <1>3 DEF RouterTypes, consVars, memVars, storeVars
<1>6. Place'
  BY <1>0, <1>3, <1>4 DEF Place, InWindow, Looping, Dispatching, consVars
<1>7. ASSUME NEW c \in Started PROVE ConsumerOK(c)'
  <2>0. ConsumerOK(c) /\ c \in Conn
    BY <1>0, StartedAreConn
  <2>1. Among(c, Len(consumers))' /\ Persisted(c)'
    BY <2>0 DEF ConsumerOK, Among, Persisted, consVars, storeVars
  <2> SUFFICES ASSUME c \notin removed PROVE Passed(c)' /\ Provisional(c)' /\ Window(c)'
    BY <2>1 DEF ConsumerOK, consVars
  <2>2. Passed(c) /\ Provisional(c) /\ Window(c)
    BY <2>0 DEF ConsumerOK
  <2>3. ASSUME NEW s \in 1..Len(log), Reached(c, s) PROVE Reached(c, s)'
    <3>1. Prolongs(log', log)
      BY <1>0, AppendProlongs DEF RouterTypes
    <3> QED BY <2>3, <3>1, ReachedIdle
  <2>4. ASSUME NEW s \in 1..Len(log), Has(c, s) PROVE Has(c, s)'
    BY <2>0, <2>3, <2>4 DEF Has
  <2>5. Passed(c)'
    <3>1. cursor[c] \in Nat
      BY <1>0, <2>0 DEF RouterTypes
    <3>2. CASE c \in Batchers
      BY <2>2, <3>2 DEF Passed, memVars
    <3>3. CASE c \notin Batchers
      BY <1>4, <2>2, <2>3, <3>1, <3>3 DEF Passed, memVars
    <3> QED BY <3>2, <3>3
  <2>6. Provisional(c)'
    <3>1. ~Flushing(c) /\ ~Flushing(c)'
      BY <1>3 DEF Flushing
    <3> QED BY <2>0, <2>2, <3>1 DEF Provisional, memVars
  <2>7. \A s \in 1..(pg.seq - 1) : Has(c, s)'
    BY <1>0, <1>4, <2>2, <2>4 DEF Window
  <2>8. Snapped(c)'
    BY <1>0, <1>3, <2>2 DEF Window, Snapped, Among, consVars, memVars
  <2>9. Among(c, pg.i) => Tried(c)'
    <3> SUFFICES ASSUME Among(c, pg.i), Wanted(c) PROVE c \in E \/ Got(c)'
      BY <1>3 DEF Tried, Wanted
    <3>1. CASE Among(c, pg.i - 1)
      BY <1>3, <2>0, <2>2, <3>1 DEF Window, Tried, Got
    <3>2. CASE At(pg.i) = c
      BY <1>3, <3>2 DEF Got
    <3> QED BY <1>4, <3>1, <3>2, AmongNext
  <2>10. CASE ppc' = "deliver"
    <3>1. (pg'.i) - 1 = pg.i
      BY <1>3, <1>4, <2>10
    <3>2. Among(c, pg.i - 1)' => Among(c, pg.i)
      BY <3>1 DEF Among, consVars
    <3> QED BY <1>3, <2>7, <2>8, <2>9, <2>10, <3>2, <2>5, <2>6 DEF Window
  <2>11. CASE ppc' = "apply"
    <3>1. pg.i = pg.n /\ pg'.i = 1
      BY <1>3, <1>4, <2>11
    <3>2. Among(c, pg.i)
      BY <1>0, <2>2, <3>1 DEF Window, Snapped
    <3>3. ~Among(c, pg.i - 1)'
      BY <3>1 DEF Among
    <3> QED BY <1>3, <2>7, <2>8, <2>9, <2>11, <3>2, <3>3, <2>5, <2>6 DEF Window
  <2> QED BY <1>3, <2>10, <2>11
<1> QED BY <1>5, <1>6, <1>7, SchedulerAccepts DEF RouterInv

LEMMA DeliverInv ==
    ASSUME RouterInv, Deliver
    PROVE  RouterInv'
<1> DEFINE d == At(pg.i)
<1>0. ppc = "deliver" /\ RouterTypes /\ Place
  BY DEF Deliver, DeliverAccepted, DeliverRefused, DeliverNotWanted, RouterInv
<1>1. d \in Conn /\ pg.seq \in Nat \ {0} /\ log[pg.seq] \in Key
  BY <1>0, AtHand, EventAtHand DEF Looping, Dispatching, InWindow
<1>2. /\ acked \subseteq Conn \X Key \X RP!SeqNo /\ buffered \in [Conn -> SUBSET Nat]
      /\ pg \in PgType /\ pg.err \subseteq Conn /\ pg.err \subseteq Flaky \cup Quits
      /\ closed \subseteq Quits /\ pg = [pg EXCEPT !.err = pg.err]
  BY <1>0, PgFields DEF RouterInv, RP!Inv, RP!TypeOK, RouterTypes, Place, PgType
<1>3. CASE DeliverAccepted
  <2>1. /\ acked' = acked \cup {<<d, log[pg.seq], pg.seq>>}
        /\ buffered' = IF d \in Batchers THEN [buffered EXCEPT ![d] = @ \cup {pg.seq}] ELSE buffered
        /\ NextConsumer("deliver", "apply", pg)
        /\ UNCHANGED <<blocked, target, floors, tpc, due, cur, rel, dlq, dropped,
                       log, consVars, memVars, flushed, storeVars, crashes>>
    BY <1>3 DEF DeliverAccepted, Accept
  <2> HIDE DEF d
  <2>2. acked \subseteq acked' /\ acked' \subseteq Conn \X Key \X RP!SeqNo
    BY <1>1, <1>2, <2>1 DEF RP!SeqNo
  <2>3. /\ buffered' \in [Conn -> SUBSET Nat] /\ \A c \in Conn : buffered[c] \subseteq buffered'[c]
        /\ d \in Batchers => pg.seq \in buffered'[d]
    BY <1>1, <1>2, <2>1
  <2>4. IF d \in Batchers THEN pg.seq \in buffered'[d] ELSE <<d, log[pg.seq], pg.seq>> \in acked'
    BY <2>1, <2>3
  <2>5. NextConsumer("deliver", "apply", [pg EXCEPT !.err = pg.err])
    BY <1>2, <2>1
  <2> QED BY <1>0, <1>2, <2>1, <2>2, <2>3, <2>4, <2>5, DeliversInv DEF d
<1>4. CASE DeliverRefused
  <2> DEFINE E == pg.err \cup {d}
  <2>1. /\ d \in Flaky \cup closed
        /\ NextConsumer("deliver", "apply", [pg EXCEPT !.err = E])
        /\ UNCHANGED <<retryVars, log, consVars, memVars, sinkVars, storeVars, crashes>>
    BY <1>4 DEF DeliverRefused
  <2>2. pg.err \subseteq E /\ E \subseteq Conn /\ E \subseteq Flaky \cup Quits /\ d \in E
    BY <1>1, <1>2, <2>1
  <2> HIDE DEF E
  <2> QED BY <1>0, <1>2, <2>1, <2>2, DeliversInv DEF retryVars, sinkVars
<1>5. CASE DeliverNotWanted
  <2>1. /\ ~Wanted(d)
        /\ NextConsumer("deliver", "apply", [pg EXCEPT !.err = pg.err])
        /\ UNCHANGED <<retryVars, log, consVars, memVars, sinkVars, storeVars, crashes>>
    BY <1>2, <1>5 DEF DeliverNotWanted
  <2> QED BY <1>0, <1>2, <2>1, DeliversInv DEF retryVars, sinkVars
<1> QED BY <1>3, <1>4, <1>5 DEF Deliver

\* AddBlocked for a consumer that is no batcher: the event is queued, under the
\* consumer's own id, and for nobody else.
LEMMA QueuesEvent ==
    ASSUME Dependable, RouterInv, NEW d \in Conn \ Batchers, NEW s \in 1..Len(log),
           \/ RS!AddBlocked(d, log[s], RS!FailedRecord(s))
           \/ RS!AddBlocked(d, log[s], RS!FollowOnRecord(s)),
           UNCHANGED <<tpc, due, cur, rel, acked, dlq, dropped, log>>
    PROVE  /\ SchedulerStep /\ RP!Inv' /\ OwnTarget' /\ BatchersNeverBlocked'
           /\ Queued(d, s)'
<1> DEFINE id == IdOf[d]
           k == log[s]
<1>1. id \in ConsumerID /\ k \in Key /\ s \in RP!SeqNo /\ s \in Nat
  BY Constants, ElementOfSeq, Lengths DEF RouterInv, RouterTypes, RP!SeqNo
<1>2. RP!AddBlocked(d, k, RP!FailedRecord(s)) \/ RP!AddBlocked(d, k, RP!FollowOnRecord(s))
  BY <1>1, SameScheduler
<1>3. PICK r : RP!AddBlocked(d, k, r) /\ r.seq = s
  <2>1. RP!FailedRecord(s).seq = s /\ RP!FollowOnRecord(s).seq = s
    BY DEF RP!FailedRecord, RP!FollowOnRecord
  <2> QED BY <1>2, <2>1
<1>4. SchedulerStep
  <2>1. RP!Enqueue(d, k, s)
    BY <1>2 DEF RP!Enqueue, RP!tickVars, RP!resultVars
  <2>2. RP!Next
    BY <1>1, <2>1 DEF RP!Next
  <2> QED BY <2>2 DEF SchedulerStep
<1>5. RP!Inv /\ RP!Inv'
  BY <1>4, RP!NextInv, Constants DEF SchedulerStep, RouterInv
<1>6. /\ target \in [ConsumerID -> Conn \cup {NoConn}]
      /\ blocked \in [ConsumerID -> [Key -> Seq(RP!RetryRecord)]]
      /\ blocked' \in [ConsumerID -> [Key -> Seq(RP!RetryRecord)]]
  BY <1>5 DEF RP!Inv, RP!TypeOK, RP!QueueMap
<1> HIDE DEF id, k
<1>7. /\ target' = [target EXCEPT ![id] = IF @ = NoConn THEN d ELSE @]
      /\ blocked' = [blocked EXCEPT ![id][k] = Append(blocked[id][k], r)]
  BY <1>3 DEF RP!AddBlocked, RP!WithQueue, id
<1>8. OwnTarget'
  <2>1. OwnTarget
    BY DEF RouterInv
  <2> QED BY <1>1, <1>6, <1>7, <2>1 DEF OwnTarget, id
<1>9. BatchersNeverBlocked'
  <2> SUFFICES ASSUME NEW c \in Batchers, NEW j \in Key PROVE blocked'[IdOf[c]][j] = <<>>
    BY DEF BatchersNeverBlocked
  <2>1. blocked[IdOf[c]][j] = <<>> /\ IdOf[c] \in ConsumerID
    BY Constants, RouterAssumption DEF RouterInv, BatchersNeverBlocked
  <2>2. IdOf[c] # id
    BY DEF Dependable, id
  <2> QED BY <1>1, <1>6, <1>7, <2>1, <2>2
<1>10. Queued(d, s)'
  <2>1. blocked[id][k] \in Seq(RP!RetryRecord) /\ blocked'[id][k] = Append(blocked[id][k], r)
    BY <1>1, <1>6, <1>7
  <2>2. Len(blocked[id][k]) \in Nat /\ DOMAIN blocked[id][k] = 1..Len(blocked[id][k])
    BY <2>1, LenProperties
  <2> DEFINE q == blocked[id][k]
  <2> HIDE DEF q
  <2>3. Len(q) + 1 \in DOMAIN Append(q, r) /\ Append(q, r)[Len(q) + 1] = r
    BY <2>1, <2>2 DEF q
  <2>4. Len(q) + 1 \in DOMAIN blocked'[id][k] /\ blocked'[id][k][Len(q) + 1].seq = s
    BY <1>3, <2>1, <2>3 DEF q
  <2> QED BY <2>4 DEF Queued, id, k
<1> QED BY <1>4, <1>5, <1>8, <1>9, <1>10

LEMMA AtLeastFacts ==
    ASSUME NEW a \in Nat, NEW b \in Nat
    PROVE  AtLeast(a, b) \in Nat /\ AtLeast(a, b) >= a /\ AtLeast(a, b) >= b
           /\ (AtLeast(a, b) = a \/ AtLeast(a, b) = b)
BY DEF AtLeast

\* Phase 3 for consumer d and event q: where the goroutine goes from there.
Goes(d) ==
    \/ NextApply(pg)
    \/ /\ ppc' = "cap" /\ d \notin Batchers
       /\ \E v \in Nat : pg' = [pg EXCEPT !.persist = v]

LEMMA GoesFacts ==
    ASSUME pg \in PgType, NEW d, Goes(d)
    PROVE  /\ pg' \in PgType /\ pg'.seq = pg.seq /\ pg'.last = pg.last /\ pg'.saves = pg.saves
           /\ pg'.err \subseteq pg.err
           /\ \/ /\ ppc' = "apply" /\ pg.i < pg.n /\ pg'.i = pg.i + 1
                 /\ pg'.n = pg.n /\ pg'.snap = pg.snap /\ pg'.err = pg.err
              \/ ppc' = "save" /\ ~(pg.i < pg.n)
              \/ /\ ppc' = "cap" /\ d \notin Batchers /\ pg'.i = pg.i
                 /\ pg'.n = pg.n /\ pg'.snap = pg.snap /\ pg'.err = pg.err
<1>1. CASE NextApply(pg)
  BY <1>1, NextApplyFacts
<1>2. CASE ~NextApply(pg)
  <2>1. ppc' = "cap" /\ d \notin Batchers
    BY <1>2 DEF Goes
  <2>2. PICK v \in Nat : pg' = [pg EXCEPT !.persist = v]
    BY <1>2 DEF Goes
  <2>3. pg' \in PgType
    BY <2>2 DEF PgType
  <2>4. /\ pg'.seq = pg.seq /\ pg'.last = pg.last /\ pg'.saves = pg.saves /\ pg'.err = pg.err
        /\ pg'.i = pg.i /\ pg'.n = pg.n /\ pg'.snap = pg.snap
    BY <2>2 DEF PgType
  <2> QED BY <2>1, <2>3, <2>4
<1> QED BY <1>1, <1>2

\* The cursors after phase 3 for consumer d and event q.
Moved(d, q) ==
    /\ \/ cursor' = cursor
       \/ d \notin Batchers /\ cursor' = [cursor EXCEPT ![d] = AtLeast(cursor[d], q + 1)]
    /\ \/ prov' = prov
       \/ d \in Batchers /\ prov' = [prov EXCEPT ![d] = AtLeast(prov[d], q + 1)]

\* Only d's cursors move, by one event at most, and never back.
LEMMA MovedFacts ==
    ASSUME RouterTypes, NEW d \in Conn, NEW q \in Nat, Moved(d, q)
    PROVE  /\ cursor' \in [Conn -> Nat \ {0}] /\ prov' \in [Conn -> Nat]
           /\ \A c \in Conn :
                 /\ cursor'[c] >= cursor[c]
                 /\ cursor'[c] = cursor[c] \/ (c = d /\ c \notin Batchers /\ cursor'[c] = q + 1)
                 /\ prov'[c] = prov[c] \/ (c = d /\ c \in Batchers /\ prov'[c] = q + 1)
<1> DEFINE u == AtLeast(cursor[d], q + 1)
           w == AtLeast(prov[d], q + 1)
<1>1. cursor \in [Conn -> Nat \ {0}] /\ prov \in [Conn -> Nat]
  BY DEF RouterTypes
<1>2. /\ u \in Nat \ {0} /\ u >= cursor[d] /\ (u = cursor[d] \/ u = q + 1)
      /\ w \in Nat /\ (w = prov[d] \/ w = q + 1)
  <2>1. cursor[d] \in Nat \ {0} /\ cursor[d] \in Nat /\ prov[d] \in Nat /\ q + 1 \in Nat
    BY <1>1
  <2>2. u \in Nat /\ u >= cursor[d] /\ (u = cursor[d] \/ u = q + 1)
    BY <2>1, AtLeastFacts
  <2>3. w \in Nat /\ (w = prov[d] \/ w = q + 1)
    BY <2>1, AtLeastFacts
  <2> HIDE DEF u, w
  <2> QED BY <2>1, <2>2, <2>3
<1>3. /\ cursor' = cursor \/ (d \notin Batchers /\ cursor' = [cursor EXCEPT ![d] = u])
      /\ prov' = prov \/ (d \in Batchers /\ prov' = [prov EXCEPT ![d] = w])
  BY DEF Moved
<1> HIDE DEF u, w
<1>4. /\ cursor' \in [Conn -> Nat \ {0}]
      /\ \A c \in Conn :
            /\ cursor'[c] >= cursor[c]
            /\ cursor'[c] = cursor[c] \/ (c = d /\ c \notin Batchers /\ cursor'[c] = q + 1)
  BY <1>1, <1>2, <1>3
<1>5. /\ prov' \in [Conn -> Nat]
      /\ \A c \in Conn : prov'[c] = prov[c] \/ (c = d /\ c \in Batchers /\ prov'[c] = q + 1)
  BY <1>1, <1>2, <1>3
<1> QED BY <1>4, <1>5

\* Phase 3 for one consumer, whose event is by now in its sink, in its buffer
\* or in the scheduler.
LEMMA AppliesInv ==
    ASSUME Dependable, RouterInv, ppc = "apply",
           NEW d \in Conn, d = At(pg.i), NEW q \in Nat, q = pg.seq,
           SchedulerStep, RP!Inv', OwnTarget', BatchersNeverBlocked',
           UNCHANGED <<acked, dlq, dropped, log, consVars, skipped, sinkVars, storeVars, crashes>>,
           Moved(d, q), Goes(d),
           d \in Started /\ d \notin removed => Has(d, q)'
    PROVE  RouterInv'
<1>0. /\ RouterTypes /\ Place /\ pg \in PgType /\ \A c \in Started : ConsumerOK(c)
      /\ InWindow /\ Dispatching /\ Looping /\ RP!Inv /\ OwnTarget /\ log \in Seq(Key)
  BY DEF RouterInv, RouterTypes, InWindow, Dispatching, Looping
<1>1. /\ pg' \in PgType /\ pg'.seq = q /\ pg'.last = pg.last /\ pg'.saves = pg.saves
      /\ pg'.err \subseteq pg.err
      /\ \/ /\ ppc' = "apply" /\ pg.i < pg.n /\ pg'.i = pg.i + 1
            /\ pg'.n = pg.n /\ pg'.snap = pg.snap /\ pg'.err = pg.err
         \/ ppc' = "save" /\ ~(pg.i < pg.n)
         \/ /\ ppc' = "cap" /\ d \notin Batchers /\ pg'.i = pg.i
            /\ pg'.n = pg.n /\ pg'.snap = pg.snap /\ pg'.err = pg.err
  BY <1>0, GoesFacts
<1>2. /\ pg.i \in Nat \ {0} /\ pg.n \in Nat /\ pg.i <= pg.n
      /\ q \in 1..Len(log) /\ Len(log) \in Nat
  BY <1>0, AtHand, EventAtHand, Lengths
<1>3. /\ cursor' \in [Conn -> Nat \ {0}] /\ prov' \in [Conn -> Nat]
      /\ \A c \in Conn :
            /\ cursor'[c] >= cursor[c]
            /\ cursor'[c] = cursor[c] \/ (c = d /\ c \notin Batchers /\ cursor'[c] = q + 1)
            /\ prov'[c] = prov[c] \/ (c = d /\ c \in Batchers /\ prov'[c] = q + 1)
  BY <1>0, MovedFacts
<1>4. RouterTypes'
  BY <1>0, <1>1, <1>3 DEF RouterTypes, consVars, sinkVars, storeVars
<1>5. Place'
  BY <1>0, <1>1, <1>2 DEF Place, InWindow, Looping, Dispatching, consVars, At
<1>6. ASSUME NEW c \in Started PROVE ConsumerOK(c)'
  <2>0. ConsumerOK(c) /\ c \in Conn
    BY <1>0, StartedAreConn
  <2>1. Among(c, Len(consumers))' /\ Persisted(c)'
    BY <2>0 DEF ConsumerOK, Among, Persisted, consVars, storeVars, sinkVars
  <2> SUFFICES ASSUME c \notin removed PROVE Passed(c)' /\ Provisional(c)' /\ Window(c)'
    BY <2>1 DEF ConsumerOK, consVars
  <2>2. Passed(c) /\ Provisional(c) /\ Window(c) /\ cursor[c] \in Nat /\ prov[c] \in Nat
    BY <1>0, <2>0 DEF ConsumerOK, RouterTypes
  <2>3. ASSUME c \notin Batchers, NEW s \in 1..Len(log), Reached(c, s) PROVE Reached(c, s)'
    BY <1>0, <2>3, ReachedStays DEF sinkVars
  <2>4. ASSUME NEW s \in 1..Len(log), Has(c, s) PROVE Has(c, s)'
    BY <2>3, <2>4 DEF Has, sinkVars
  <2>5. \A s \in 1..(q - 1) : Has(c, s)'
    BY <1>0, <1>2, <2>2, <2>4 DEF Window
  <2>6. c = d => Has(c, q)'
    OBVIOUS
  <2>7. Passed(c)'
    <3>1. CASE c \in Batchers
      BY <1>3, <2>0, <2>2, <3>1 DEF Passed, sinkVars
    <3>2. CASE c \notin Batchers
      <4> SUFFICES ASSUME crashes = 0
                   PROVE  /\ cursor'[c] <= Len(log) + 1
                          /\ \A s \in 1..(cursor'[c] - 1) : Reached(c, s)'
        BY <3>2 DEF Passed
      <4>1. /\ cursor[c] <= Len(log) + 1
            /\ \A s \in 1..(cursor[c] - 1) : Reached(c, s)'
        BY <1>2, <2>2, <2>3, <3>2 DEF Passed
      <4>2. CASE cursor'[c] = cursor[c]
        BY <4>1, <4>2
      <4>3. CASE c = d /\ cursor'[c] = q + 1
        <5>1. \A s \in 1..q : Has(c, s)'
          BY <1>2, <2>5, <2>6, <4>3
        <5>2. \A s \in 1..q : Reached(c, s)'
          BY <3>2, <5>1 DEF Has
        <5> QED BY <1>2, <4>3, <5>2
      <4> QED BY <1>3, <2>0, <4>2, <4>3
    <3> QED BY <3>1, <3>2
  <2>8. Provisional(c)'
    <3>1. ~Flushing(c) /\ ~Flushing(c)'
      BY <1>1 DEF Flushing
    <3>2. CASE prov'[c] = prov[c]
      BY <2>2, <3>1, <3>2 DEF Provisional, sinkVars
    <3>3. CASE c = d /\ c \in Batchers /\ prov'[c] = q + 1
      <4>1. \A s \in 1..q : Has(c, s)'
        BY <1>2, <2>5, <2>6, <3>3
      <4>2. \A s \in 1..q : s \in flushed'[c] \/ s \in buffered'[c]
        BY <3>3, <4>1 DEF Has
      <4> QED BY <1>2, <3>1, <3>3, <4>2 DEF Provisional
    <3> QED BY <1>3, <2>0, <3>2, <3>3
  <2>9. Among(c, pg.i) => Has(c, q)'
    <3> SUFFICES ASSUME Among(c, pg.i) PROVE Has(c, q)'
      OBVIOUS
    <3>1. CASE Among(c, pg.i - 1)
      <4>1. Has(c, q)
        BY <2>2, <3>1, HasHere DEF Window
      <4> QED BY <1>2, <2>4, <4>1
    <3> QED BY <1>2, <2>6, <3>1, AmongNext
  <2>10. Has(c, pg.seq)' <=> Has(c, q)'
    BY <1>1, HasHere
  <2>11. Dispatching' => Snapped(c)' /\ Tried(c)'
    <3> SUFFICES ASSUME Dispatching' PROVE Snapped(c)' /\ Tried(c)'
      OBVIOUS
    <3>1. pg'.n = pg.n /\ pg'.snap = pg.snap /\ pg'.err = pg.err
      BY <1>1 DEF Dispatching
    <3>2. Snapped(c) /\ Tried(c)
      BY <1>0, <2>2 DEF Window
    <3>3. pg.snap[c].cursor \in Nat
      BY <1>0, <2>0, PgFields DEF SnapType
    <3>4. (pg.snap[c].cursor <= cursor[c])' /\ Among(c, pg.n)'
      BY <1>3, <2>0, <2>2, <3>1, <3>2, <3>3 DEF Snapped, Among, consVars
    <3>5. Snapped(c)'
      BY <3>1, <3>2, <3>4 DEF Snapped
    <3>6. Tried(c)'
      BY <1>1, <3>1, <3>2 DEF Tried, Wanted, Got, sinkVars
    <3> QED BY <3>5, <3>6
  <2>12. CASE ppc' = "apply"
    <3>1. (pg'.i) - 1 = pg.i
      BY <1>1, <1>2, <2>12
    <3>2. Among(c, pg.i - 1)' => Among(c, pg.i)
      BY <3>1 DEF Among, consVars
    <3> QED BY <1>1, <2>5, <2>7, <2>8, <2>9, <2>10, <2>11, <2>12, <3>2 DEF Window, Dispatching
  <2>13. CASE ppc' = "cap"
    <3>1. Among(c, pg.i)' => Among(c, pg.i)
      BY <1>1, <2>13 DEF Among, consVars
    <3> QED BY <1>1, <2>5, <2>7, <2>8, <2>9, <2>10, <2>11, <2>13, <3>1 DEF Window, Dispatching
  <2>14. CASE ppc' = "save"
    <3>1. pg.i = pg.n
      BY <1>1, <1>2, <2>14
    <3>2. Among(c, pg.i)
      BY <1>0, <2>2, <3>1 DEF Window, Snapped
    <3> QED BY <1>1, <2>5, <2>7, <2>8, <2>9, <2>10, <2>14, <3>2 DEF Window, Dispatching
  <2> QED BY <1>1, <2>12, <2>13, <2>14
<1> QED BY <1>4, <1>5, <1>6 DEF RouterInv

\* Phase 3 moves on from a consumer that needs no queue.
LEMMA AppliesIdle ==
    ASSUME Dependable, RouterInv, ppc = "apply",
           NEW d \in Conn, d = At(pg.i), NEW q \in Nat, q = pg.seq,
           UNCHANGED <<retryVars, log, consVars, skipped, sinkVars, storeVars, crashes>>,
           Moved(d, q), Goes(d),
           d \in Started /\ d \notin removed => Has(d, q)
    PROVE  RouterInv'
<1>1. SchedulerStep
  BY DEF SchedulerStep, retryVars, RP!vars, RP!stateVars, RP!tickVars, RP!resultVars
<1>2. d \in Started /\ d \notin removed => Has(d, q)'
  BY HasIdle DEF retryVars, sinkVars
<1>3. UNCHANGED <<acked, dlq, dropped, log, consVars, skipped, sinkVars, storeVars, crashes>>
  BY DEF retryVars
<1> QED BY <1>1, <1>2, <1>3, SchedulerIdle, AppliesInv

\* Phase 3 hands the event to the scheduler.
LEMMA AppliesQueued ==
    ASSUME Dependable, RouterInv, ppc = "apply",
           NEW d \in Conn \ Batchers, d = At(pg.i), NEW q \in Nat, q = pg.seq,
           \/ RS!AddBlocked(d, log[pg.seq], RS!FailedRecord(pg.seq))
           \/ RS!AddBlocked(d, log[pg.seq], RS!FollowOnRecord(pg.seq)),
           UNCHANGED <<tpc, due, cur, rel, acked, dlq, dropped, log, consVars, skipped,
                       sinkVars, storeVars, crashes>>,
           Moved(d, q), Goes(d)
    PROVE  RouterInv'
<1>1. q \in 1..Len(log)
  BY EventAtHand DEF InWindow
<1>2. \/ RS!AddBlocked(d, log[q], RS!FailedRecord(q))
      \/ RS!AddBlocked(d, log[q], RS!FollowOnRecord(q))
  OBVIOUS
<1>3. SchedulerStep /\ RP!Inv' /\ OwnTarget' /\ BatchersNeverBlocked' /\ Queued(d, q)'
  BY <1>1, <1>2, QueuesEvent
<1>4. Has(d, q)'
  BY <1>3 DEF Has, Reached
<1> QED BY <1>3, <1>4, AppliesInv

LEMMA ApplyInv ==
    ASSUME Dependable, RouterInv, ApplyDispatchCursors
    PROVE  RouterInv'
<1>0. /\ ppc = "apply" /\ RouterTypes /\ Place /\ pg \in PgType /\ Looping /\ Dispatching /\ InWindow
      /\ UNCHANGED <<tpc, due, cur, rel, acked, dlq, dropped, log, consVars, skipped,
                     streak, sinkVars, storeVars, crashes>>
  BY DEF ApplyDispatchCursors, RouterInv, RouterTypes, Looping, Dispatching, InWindow
<1>1. At(pg.i) \in Conn /\ pg.seq \in 1..Len(log) /\ pg.seq \in Nat
  BY <1>0, AtHand, EventAtHand
<1>2. PICK d \in Conn : d = At(pg.i)
  BY <1>1
<1>3. PICK q \in Nat : q = pg.seq
  BY <1>1
<1>4. \/ ApplyNothing(d)
      \/ /\ pg.snap[d].on /\ d \notin removed
         /\ \/ ApplyFollowOn(d) \/ ApplySkipped(d)
            \/ ApplyFailed(d) \/ ApplyDelivered(d)
  BY <1>2 DEF ApplyDispatchCursors
<1>5. d \in Started /\ d \notin removed => Passed(d) /\ Snapped(d) /\ Tried(d)
  BY <1>0 DEF RouterInv, ConsumerOK, Window
<1>6. d \in Batchers => d \in Started /\ d \notin pg.err
  BY <1>0 DEF Dependable, Place
<1>7. ASSUME NEW v \in Nat, d \notin Batchers, AdvanceCursor(d, pg.seq + 1, v), prov' = prov
      PROVE  Moved(d, q) /\ Goes(d)
  BY <1>3, <1>7 DEF AdvanceCursor, Moved, Goes
<1>8. ASSUME NextApply(pg), cursor' = cursor, prov' = prov
      PROVE  Moved(d, q) /\ Goes(d)
  BY <1>8 DEF Moved, Goes
<1>9. CASE ApplyNothing(d)
  <2>1. /\ \/ ~pg.snap[d].on \/ d \in removed \/ pg.seq < pg.snap[d].cursor
        /\ NextApply(pg) /\ UNCHANGED <<blocked, target, floors, cursor, prov>>
    BY <1>9 DEF ApplyNothing
  <2>2. ASSUME d \in Started, d \notin removed PROVE Has(d, q)
    <3>1. pg.snap[d].on /\ pg.snap[d].cursor <= cursor[d] /\ Passed(d)
      BY <1>5, <2>2 DEF Snapped
    <3>2. pg.snap[d].cursor \in Nat /\ cursor[d] \in Nat
      BY <1>0, PgFields DEF SnapType, RouterTypes
    <3>3. pg.seq < pg.snap[d].cursor
      BY <2>1, <2>2, <3>1, Zenon
    <3>4. q \in 1..(cursor[d] - 1)
      BY <1>1, <1>3, <3>1, <3>2, <3>3
    <3> QED BY <3>1, <3>4 DEF Passed, Has
  <2> QED BY <1>0, <1>2, <1>3, <1>8, <2>1, <2>2, AppliesIdle DEF retryVars
<1>10. CASE d \notin removed /\ ApplyFollowOn(d)
  <2>1. /\ pg.snap[d].blocked
        /\ RS!AddBlocked(d, log[pg.seq], RS!FollowOnRecord(pg.seq))
        /\ AdvanceCursor(d, pg.seq + 1, pg.seq + 1) /\ prov' = prov
    BY <1>10 DEF ApplyFollowOn
  <2>2. d \notin Batchers
    BY <1>5, <1>6, <1>10, <2>1, Zenon DEF Snapped
  <2>3. pg.seq + 1 \in Nat
    BY <1>1
  <2> QED BY <1>0, <1>2, <1>3, <1>7, <2>1, <2>2, <2>3, AppliesQueued
<1>11. CASE d \notin removed /\ ApplySkipped(d)
  <2>1. /\ pg.snap[d].skipped /\ AdvanceCursor(d, pg.seq + 1, AtLeast(cursor[d], pg.seq + 1))
        /\ UNCHANGED <<blocked, target, floors, prov>>
    BY <1>11 DEF ApplySkipped
  <2>2. d \notin Started /\ d \notin Batchers
    BY <1>5, <1>6, <1>11, <2>1, Zenon DEF Snapped
  <2>3. AtLeast(cursor[d], pg.seq + 1) \in Nat
    <3>1. cursor[d] \in Nat /\ pg.seq + 1 \in Nat
      BY <1>0, <1>1 DEF RouterTypes
    <3> QED BY <3>1, AtLeastFacts
  <2>4. Moved(d, q) /\ Goes(d)
    BY <1>7, <2>1, <2>2, <2>3
  <2> QED BY <1>0, <1>2, <1>3, <2>1, <2>2, <2>4, AppliesIdle DEF retryVars
<1>12. CASE ApplyFailed(d)
  <2>1. /\ d \in pg.err /\ RS!AddBlocked(d, log[pg.seq], RS!FailedRecord(pg.seq))
        /\ NextApply(pg) /\ UNCHANGED <<cursor, prov>>
    BY <1>12 DEF ApplyFailed
  <2> QED BY <1>0, <1>2, <1>3, <1>6, <1>8, <2>1, AppliesQueued
<1>13. CASE d \notin removed /\ ApplyDelivered(d)
  <2>1. /\ Wanted(d) /\ d \notin pg.err /\ UNCHANGED <<blocked, target, floors>>
        /\ IF d \in Batchers
           THEN /\ prov' = [prov EXCEPT ![d] = AtLeast(prov[d], pg.seq + 1)]
                /\ NextApply(pg) /\ UNCHANGED cursor
           ELSE AdvanceCursor(d, pg.seq + 1, pg.seq + 1) /\ prov' = prov
    BY <1>13 DEF ApplyDelivered
  <2>2. ASSUME d \in Started PROVE Has(d, q)
    <3>1. Got(d)
      BY <1>5, <1>13, <2>1, <2>2 DEF Tried
    <3> QED BY <1>3, <3>1 DEF Got, Has, Reached, Settled
  <2>3. Moved(d, q) /\ Goes(d)
    <3>1. CASE d \in Batchers
      BY <1>3, <2>1, <3>1 DEF Moved, Goes
    <3>2. CASE d \notin Batchers
      BY <1>1, <1>7, <2>1, <3>2
    <3> QED BY <3>1, <3>2
  <2> QED BY <1>0, <1>2, <1>3, <2>1, <2>2, <2>3, AppliesIdle DEF retryVars
<1> QED BY <1>4, <1>9, <1>10, <1>11, <1>12, <1>13

\* queuePersistCursor, and on to the next consumer or to the saves.
LEMMA QueuePersistInv ==
    ASSUME Dependable, RouterInv, QueuePersistCursor
    PROVE  RouterInv'
<1> DEFINE id == IdOf[At(pg.i)]
           v  == Capped(id, pg.persist)
           p  == [pg EXCEPT !.saves = Append(pg.saves, <<id, v>>)]
<1>0. /\ ppc = "cap" /\ RouterTypes /\ Place /\ pg \in PgType /\ Looping /\ Dispatching /\ InWindow
      /\ NextApply(p)
      /\ UNCHANGED <<retryVars, log, consVars, memVars, sinkVars, storeVars, crashes>>
  BY DEF QueuePersistCursor, RouterInv, RouterTypes, Looping, Dispatching, InWindow
<1>1. /\ id \in ConsumerID /\ pg.i \in Nat \ {0} /\ pg.n \in Nat /\ pg.i <= pg.n
      /\ pg.seq \in 1..Len(log) /\ Len(log) \in Nat
  BY <1>0, AtHand, EventAtHand, Lengths
<1>2. v \in Nat
  <2>1. floors[id][Part] \in Nat /\ pg.persist \in Nat
    BY <1>0, <1>1, PgFields, RouterAssumption DEF RouterInv, RP!Inv, RP!TypeOK
  <2> QED BY <2>1 DEF Capped
<1>3. \A c \in Batchers : id # IdOf[c]
  <2>1. At(pg.i) \in Conn \ Batchers
    BY <1>0, AtHand DEF Place
  <2> QED BY <2>1 DEF Dependable
<1> HIDE DEF id, v
<1>4. /\ pg.saves \in Seq(ConsumerID \X Nat) /\ <<id, v>> \in ConsumerID \X Nat
      /\ Append(pg.saves, <<id, v>>) \in Seq(ConsumerID \X Nat) /\ Len(pg.saves) \in Nat
  BY <1>0, <1>1, <1>2, PgFields, AppendProperties, LenProperties
<1>5. /\ p \in PgType /\ p.seq = pg.seq /\ p.last = pg.last /\ p.n = pg.n /\ p.i = pg.i
      /\ p.snap = pg.snap /\ p.err = pg.err /\ p.saves = Append(pg.saves, <<id, v>>)
  <2> DEFINE q == Append(pg.saves, <<id, v>>)
  <2>1. q \in Seq(ConsumerID \X Nat) /\ p = [pg EXCEPT !.saves = q]
    BY <1>4
  <2> HIDE DEF q
  <2>2. /\ p \in PgType /\ p.seq = pg.seq /\ p.last = pg.last /\ p.n = pg.n /\ p.i = pg.i
        /\ p.snap = pg.snap /\ p.err = pg.err /\ p.saves = q
    BY <1>0, <2>1 DEF PgType
  <2> QED BY <2>2 DEF q
<1> HIDE DEF p
<1>6. /\ pg' \in PgType /\ pg'.seq = pg.seq /\ pg'.last = pg.last /\ pg'.saves = p.saves
      /\ pg'.err \subseteq pg.err
      /\ \/ pg.i < pg.n /\ ppc' = "apply" /\ pg'.i = pg.i + 1 /\ pg'.n = pg.n
            /\ pg'.snap = pg.snap /\ pg'.err = pg.err
         \/ ~(pg.i < pg.n) /\ ppc' = "save"
  BY <1>0, <1>5, NextApplyFacts
<1>7. \A j \in 1..Len(pg'.saves) : \A c \in Batchers : pg'.saves[j][1] # IdOf[c]
  <2> SUFFICES ASSUME NEW j \in 1..Len(p.saves), NEW c \in Batchers
               PROVE  p.saves[j][1] # IdOf[c]
    BY <1>6
  <2>1. /\ Len(p.saves) = Len(pg.saves) + 1
        /\ \A x \in 1..Len(pg.saves) : p.saves[x] = pg.saves[x]
        /\ p.saves[Len(pg.saves) + 1] = <<id, v>>
    BY <1>4, <1>5, AppendProperties
  <2>2. CASE j \in 1..Len(pg.saves)
    BY <1>0, <2>1, <2>2 DEF Place
  <2>3. CASE j = Len(pg.saves) + 1
    BY <1>3, <2>1, <2>3
  <2> QED BY <1>4, <2>1, <2>2, <2>3
<1>8. Place'
  <2>1. UNCHANGED <<log, consumers>> /\ ppc' \in {"apply", "save"}
    BY <1>0, <1>6 DEF consVars
  <2>2. pg'.seq \in 1..Len(log') /\ pg'.last \in 1..Len(log')
    BY <1>0, <1>6, <2>1 DEF Place
  <2>3. Looping' => pg'.i \in 1..pg'.n /\ pg'.n <= Len(consumers')
    <3> SUFFICES ASSUME Looping' PROVE pg'.i \in 1..pg'.n /\ pg'.n <= Len(consumers')
      OBVIOUS
    <3>1. pg.i < pg.n /\ pg'.i = pg.i + 1 /\ pg'.n = pg.n
      BY <1>6 DEF Looping, Dispatching
    <3>2. pg.n <= Len(consumers)
      BY <1>0 DEF Place
    <3> QED BY <1>1, <2>1, <3>1, <3>2
  <2>4. pg'.err \subseteq Flaky \cup Quits
    BY <1>0, <1>6 DEF Place
  <2> QED BY <1>7, <2>1, <2>2, <2>3, <2>4 DEF Place
<1>9. ASSUME NEW c \in Started, c \notin removed PROVE Window(c)'
  <2>1. Window(c) /\ Snapped(c) /\ Tried(c)
    BY <1>0, <1>9 DEF RouterInv, ConsumerOK, Window
  <2>2. \A s \in 1..(pg.seq - 1) : Has(c, s)'
    BY <1>0, <2>1, HasIdle DEF Window, retryVars, sinkVars
  <2>3. Among(c, pg.i) => Has(c, pg.seq)'
    <3> SUFFICES ASSUME Among(c, pg.i) PROVE Has(c, pg.seq)'
      OBVIOUS
    <3>1. PICK s \in 1..Len(log) : s = pg.seq
      BY <1>1
    <3>2. Has(c, s)
      BY <1>0, <2>1, <3>1, HasHere DEF Window
    <3>3. Has(c, s)'
      BY <1>0, <3>2, HasIdle DEF retryVars, sinkVars
    <3> QED BY <1>6, <3>1, <3>3, HasHere
  <2>4. CASE ppc' = "apply"
    <3>1. pg'.i = pg.i + 1 /\ pg'.n = pg.n /\ pg'.snap = pg.snap /\ pg'.err = pg.err
          /\ pg'.seq = pg.seq
      BY <1>6, <2>4
    <3>2. Snapped(c)'
      BY <1>0, <2>1, <3>1 DEF Snapped, Among, consVars, memVars
    <3>3. Tried(c)'
      BY <1>0, <2>1, <3>1 DEF Tried, Wanted, Got, retryVars, sinkVars
    <3>4. (pg'.i) - 1 = pg.i
      BY <1>1, <3>1
    <3>5. Among(c, pg.i - 1)' => Among(c, pg.i)
      BY <1>0, <3>4 DEF Among, consVars
    <3> QED BY <2>2, <2>3, <2>4, <3>1, <3>2, <3>3, <3>5 DEF Window
  <2>5. CASE ppc' = "save"
    <3>1. pg.i = pg.n
      BY <1>1, <1>6, <2>5
    <3>2. Among(c, pg.i)
      BY <2>1, <3>1 DEF Snapped
    <3> QED BY <1>6, <2>2, <2>3, <2>5, <3>2 DEF Window, Dispatching
  <2> QED BY <1>6, <2>4, <2>5
<1>10. ppc # "settle" /\ ppc' \in {"apply", "save"}
  BY <1>0, <1>6
<1> QED BY <1>0, <1>6, <1>8, <1>9, <1>10, OnlyLocals

\* There is always a consumer: a tombstone keeps its slot.
LEMMA SomeConsumer == RouterInv => Len(consumers) \in Nat \ {0}
<1> SUFFICES ASSUME RouterInv PROVE Len(consumers) \in Nat \ {0}
  OBVIOUS
<1>1. Boot[1] \in Started
  <2>1. Boot \in Seq(Conn) /\ Boot # <<>>
    BY RouterAssumption
  <2>2. 1 \in DOMAIN Boot
    BY <2>1, EmptySeq, LenProperties
  <2> QED BY <2>2 DEF Started, Range
<1>2. Len(consumers) \in Nat
  BY Lengths DEF RouterInv
<1> QED BY <1>1, <1>2 DEF RouterInv, ConsumerOK, Among

\* The queued saves, run after the lock is released.
LEMMA SaveCursorsInv ==
    ASSUME RouterInv, SaveCursors
    PROVE  RouterInv'
<1>0. /\ ppc = "save" /\ RouterTypes /\ Place /\ pg \in PgType /\ InWindow
      /\ UNCHANGED <<retryVars, log, consVars, memVars, sinkVars, durable, crashes>>
      /\ pg.saves \in Seq(ConsumerID \X Nat) /\ Len(pg.saves) \in Nat
  BY PgFields, LenProperties DEF SaveCursors, RouterInv, RouterTypes, InWindow
<1>1. pg.seq \in 1..Len(log) /\ pg.last \in 1..Len(log) /\ Len(log) \in Nat
  BY <1>0, Lengths DEF Place
<1>2. ASSUME NEW c \in Started, c \notin removed, NEW s \in 1..pg.seq PROVE Has(c, s)'
  <2>1. Window(c)
    BY <1>2 DEF RouterInv, ConsumerOK
  <2>2. Has(c, s)
    <3>1. CASE s = pg.seq
      BY <1>0, <2>1, <3>1, HasHere DEF Window
    <3>2. CASE s \in 1..(pg.seq - 1)
      BY <1>0, <2>1, <3>2 DEF Window
    <3> QED BY <1>1, <3>1, <3>2
  <2> QED BY <1>0, <2>2, HasIdle DEF retryVars, sinkVars
<1>3. CASE pg.saves # <<>>
  <2> DEFINE h == Head(pg.saves)
             t == Tail(pg.saves)
  <2>1. saved' = [saved EXCEPT ![h[1]] = h[2]] /\ pg' = [pg EXCEPT !.saves = t] /\ ppc' = ppc
    BY <1>3 DEF SaveCursors
  <2>2. /\ h \in ConsumerID \X Nat /\ t \in Seq(ConsumerID \X Nat)
        /\ h = pg.saves[1] /\ Len(t) = Len(pg.saves) - 1 /\ Len(pg.saves) >= 1
        /\ \A j \in 1..Len(t) : t[j] = pg.saves[j + 1]
    BY <1>0, <1>3, HeadTailProperties, EmptySeq
  <2> HIDE DEF h, t
  <2>3. /\ pg' \in PgType /\ pg'.seq = pg.seq /\ pg'.last = pg.last /\ pg'.err = pg.err /\ pg'.saves = t
    BY <1>0, <2>1, <2>2 DEF PgType
  <2>4. h[1] \in ConsumerID /\ h[2] \in Nat /\ \A c \in Batchers : h[1] # IdOf[c]
    BY <1>0, <2>2 DEF Place
  <2>5. saved' \in [ConsumerID -> Nat]
    BY <1>0, <2>1, <2>4 DEF RouterTypes
  <2>6. \A c \in Started : Persisted(c)'
    <3> SUFFICES ASSUME NEW c \in Started, c \in Batchers PROVE Persisted(c)'
      BY DEF Persisted
    <3>1. saved'[IdOf[c]] = saved[IdOf[c]]
      BY <1>0, <2>1, <2>4, StartedAreConn, Constants DEF RouterTypes
    <3>2. Persisted(c)
      BY DEF RouterInv, ConsumerOK
    <3> QED BY <1>0, <3>1, <3>2 DEF Persisted, sinkVars
  <2>7. Place'
    <3>1. \A j \in 1..Len(t) : \A c \in Batchers : t[j][1] # IdOf[c]
      <4> SUFFICES ASSUME NEW j \in 1..Len(t), NEW c \in Batchers PROVE t[j][1] # IdOf[c]
        OBVIOUS
      <4>1. j + 1 \in 1..Len(pg.saves)
        BY <1>0, <2>2
      <4> QED BY <1>0, <2>2, <4>1 DEF Place
    <3> QED BY <1>0, <1>1, <2>1, <2>3, <3>1 DEF Place, InWindow, Looping, Dispatching
  <2>8. ASSUME NEW c \in Started, c \notin removed PROVE Window(c)'
    <3>1. PICK q \in 1..Len(log) : q = pg.seq
      BY <1>1
    <3>2. \A s \in 1..q : Has(c, s)'
      BY <1>2, <2>8, <3>1
    <3>3. Has(c, pg.seq)'
      BY <1>1, <2>3, <3>1, <3>2, HasHere
    <3> QED BY <1>0, <1>1, <2>1, <2>3, <3>1, <3>2, <3>3 DEF Window, Dispatching
  <2>9. ppc # "settle" /\ ppc' = "save"
    BY <1>0, <2>1
  <2> QED BY <1>0, <2>3, <2>5, <2>6, <2>7, <2>8, <2>9, LocalsAndSaves
<1>4. CASE pg.saves = <<>> /\ pg.seq < pg.last
  <2>1. ppc' = "snap" /\ pg' = [pg EXCEPT !.seq = pg.seq + 1] /\ UNCHANGED storeVars
    BY <1>4 DEF SaveCursors, storeVars
  <2>2. pg.seq + 1 \in Nat /\ pg.seq + 1 \in 1..Len(log)
    BY <1>1, <1>4
  <2>3. /\ pg' \in PgType /\ pg'.seq = pg.seq + 1 /\ pg'.last = pg.last /\ pg'.err = pg.err
        /\ pg'.saves = pg.saves
    BY <1>0, <2>1, <2>2 DEF PgType
  <2>4. Place'
    BY <1>0, <1>1, <1>4, <2>1, <2>2, <2>3 DEF Place, InWindow, Looping, Dispatching
  <2>5. ASSUME NEW c \in Started, c \notin removed PROVE Window(c)'
    <3>1. (pg'.seq) - 1 = pg.seq
      BY <1>1, <2>3
    <3>2. \A s \in 1..((pg'.seq) - 1) : Has(c, s)'
      BY <1>2, <2>5, <3>1
    <3> QED BY <2>1, <3>2 DEF Window, Dispatching
  <2>6. ppc # "settle"
    BY <1>0
  <2> QED BY <1>0, <2>1, <2>3, <2>4, <2>5, <2>6, OnlyLocals
<1>5. CASE pg.saves = <<>> /\ ~(pg.seq < pg.last)
  <2> DEFINE n == Len(consumers)
             S == [c \in Conn |-> [NoSnap EXCEPT !.on = Live(c)]]
  <2>1. ppc' = "flush" /\ pg' = [IdlePg EXCEPT !.n = n, !.i = 1, !.snap = S] /\ UNCHANGED storeVars
    BY <1>5 DEF SaveCursors, storeVars
  <2>2. n \in Nat \ {0} /\ n \in Nat
    BY SomeConsumer
  <2>3. S \in [Conn -> SnapType]
    <3> SUFFICES ASSUME NEW c \in Conn PROVE [NoSnap EXCEPT !.on = Live(c)] \in SnapType
      OBVIOUS
    <3>1. Live(c) \in BOOLEAN
      BY DEF Live
    <3> QED BY <3>1, IdleType DEF SnapType
  <2> HIDE DEF n, S
  <2>4. /\ pg' \in PgType /\ pg'.n = n /\ pg'.i = 1
    BY <2>1, <2>2, <2>3, IdleType DEF PgType
  <2>5. pg'.err = {} /\ pg'.saves = <<>>
    BY <2>1 DEF IdlePg
  <2>6. Place'
    BY <1>0, <2>1, <2>2, <2>4, <2>5 DEF Place, InWindow, Looping, Dispatching, consVars, n
  <2>7. \A c \in Started : Window(c)'
    BY <2>1 DEF Window, InWindow, Dispatching
  <2>8. ppc # "settle"
    BY <1>0
  <2> QED BY <1>0, <2>1, <2>4, <2>6, <2>7, <2>8, OnlyLocals
<1> QED BY <1>3, <1>4, <1>5

\* FlushBatch of a batcher, and passing over the others.
LEMMA CallFlushInv ==
    ASSUME Dependable, RouterInv, CallFlushBatch
    PROVE  RouterInv'
<1>0. /\ ppc = "flush" /\ RouterTypes /\ Place /\ pg \in PgType /\ Looping
      /\ pg.i \in Nat \ {0} /\ pg.n \in Nat /\ pg.i <= pg.n
      /\ UNCHANGED <<retryVars, log, consVars, memVars, storeVars, crashes>>
      /\ \A c \in Started : ConsumerOK(c)
  BY AtHand DEF CallFlushBatch, RouterInv, RouterTypes, Looping
<1>1. At(pg.i) \in Conn
  BY <1>0, AtHand
<1>2. CASE NextConsumer("flush", "read", pg) /\ UNCHANGED sinkVars
  <2>1. /\ pg' \in PgType /\ pg'.n = pg.n /\ pg'.err = pg.err /\ pg'.saves = pg.saves
        /\ \/ pg.i < pg.n /\ ppc' = "flush" /\ pg'.i = pg.i + 1
           \/ ~(pg.i < pg.n) /\ ppc' = "read" /\ pg'.i = 1
    BY <1>0, <1>2, NextConsumerFacts
  <2>2. Place'
    BY <1>0, <2>1 DEF Place, InWindow, Looping, Dispatching, consVars
  <2>3. \A c \in Started : Window(c)'
    BY <2>1 DEF Window, InWindow, Dispatching
  <2>4. ppc # "settle" /\ ppc' \in {"flush", "read"}
    BY <1>0, <2>1
  <2> QED BY <1>0, <1>2, <2>1, <2>2, <2>3, <2>4, OnlyLocals
<1>3. CASE At(pg.i) \in Batchers /\ FlushBatch(At(pg.i))
  <2>1. PICK d \in Conn : d = At(pg.i)
    BY <1>1
  <2>2. d \in Batchers /\ FlushBatch(d) /\ d \notin closed /\ Poison = {}
    BY <1>0, <1>3, <2>1 DEF Dependable, RouterTypes
  <2>3. /\ buffered' = [buffered EXCEPT ![d] = {}] /\ ppc' = "settle"
        /\ \/ /\ flushed' = [flushed EXCEPT ![d] = @ \cup buffered[d]]
              /\ pg' = [pg EXCEPT !.out = "ok"]
           \/ /\ \E sent \in SUBSET buffered[d] : flushed' = [flushed EXCEPT ![d] = @ \cup sent]
              /\ pg' = [pg EXCEPT !.out = "transient"]
    BY <2>2 DEF FlushBatch
  <2>4. PICK sent \in SUBSET buffered[d] :
            /\ flushed' = [flushed EXCEPT ![d] = @ \cup sent]
            /\ \/ sent = buffered[d] /\ pg' = [pg EXCEPT !.out = "ok"]
               \/ pg' = [pg EXCEPT !.out = "transient"]
    BY <2>3
  <2>5. /\ pg' \in PgType /\ pg'.n = pg.n /\ pg'.i = pg.i /\ pg'.err = pg.err /\ pg'.saves = pg.saves
        /\ pg'.out = "transient" \/ (sent = buffered[d] /\ pg'.out = "ok")
    BY <1>0, <2>4 DEF PgType
  <2>6. buffered \in [Conn -> SUBSET Nat] /\ flushed \in [Conn -> SUBSET Nat]
    BY <1>0 DEF RouterTypes
  <2>7. /\ buffered' \in [Conn -> SUBSET Nat] /\ flushed' \in [Conn -> SUBSET Nat]
        /\ \A c \in Conn : flushed[c] \subseteq flushed'[c]
        /\ \A c \in Conn \ {d} : buffered'[c] = buffered[c]
        /\ flushed'[d] = flushed[d] \cup sent
    BY <2>3, <2>4, <2>6
  <2>8. RouterTypes'
    BY <1>0, <2>3, <2>5, <2>7 DEF RouterTypes, consVars, memVars, storeVars
  <2>9. At(pg.i)' = d
    BY <1>0, <2>1, <2>5 DEF At, consVars
  <2>10. Place'
    BY <1>0, <2>2, <2>3, <2>5, <2>9 DEF Place, InWindow, Looping, Dispatching, consVars
  <2>11. ASSUME NEW c \in Started PROVE ConsumerOK(c)'
    <3>0. ConsumerOK(c) /\ c \in Conn
      BY <1>0, StartedAreConn
    <3>1. Among(c, Len(consumers))' /\ Persisted(c)'
      BY <1>0, <2>7, <3>0 DEF ConsumerOK, Among, Persisted, consVars, storeVars
    <3> SUFFICES ASSUME c \notin removed PROVE Passed(c)' /\ Provisional(c)' /\ Window(c)'
      BY <1>0, <3>1 DEF ConsumerOK, consVars
    <3>2. Passed(c) /\ Provisional(c)
      BY <3>0 DEF ConsumerOK
    <3>3. Passed(c)'
      <4>1. CASE c \in Batchers
        BY <1>0, <2>7, <3>0, <3>2, <4>1 DEF Passed, memVars
      <4>2. CASE c \notin Batchers
        <5>1. \A s : Reached(c, s)' <=> Reached(c, s)
          BY <1>0, <4>2 DEF Reached, Settled, Queued, retryVars
        <5> QED BY <1>0, <3>2, <4>2, <5>1 DEF Passed, memVars
      <4> QED BY <4>1, <4>2
    <3>4. Provisional(c)'
      <4> SUFFICES ASSUME c \in Batchers, NEW s \in 1..(prov[c] - 1)
                   PROVE  \/ s \in flushed'[c]
                          \/ IF Flushing(c)' THEN pg'.out = "transient" ELSE s \in buffered'[c]
        BY <1>0 DEF Provisional, memVars
      <4>1. s \in flushed[c] \/ s \in buffered[c]
        BY <1>0, <3>2 DEF Provisional, Flushing
      <4>2. Flushing(c)' <=> c = d
        BY <2>3, <2>9 DEF Flushing
      <4> QED BY <2>5, <2>7, <3>0, <4>1, <4>2
    <3>5. Window(c)'
      BY <2>3 DEF Window, InWindow, Dispatching
    <3> QED BY <3>3, <3>4, <3>5
  <2> QED BY <1>0, <2>8, <2>10, <2>11, SchedulerIdle DEF RouterInv
<1> QED BY <1>2, <1>3 DEF CallFlushBatch

\* What the router makes of FlushBatch's result: for consumer d, the memory and
\* the store after a flush that went through (promoteProvisional) or did not.
LEMMA SettleFacts ==
    ASSUME Dependable, RouterInv, SettleFlush, NEW d \in Conn, d = At(pg.i)
    PROVE  /\ skipped' = NoSeqs /\ dlq' = dlq
           /\ \/ /\ d \in removed \/ prov[d] = 0
                 /\ UNCHANGED <<cursor, prov, saved>>
              \/ /\ prov' = [prov EXCEPT ![d] = 0]
                 /\ UNCHANGED <<cursor, saved>>
              \/ /\ pg.out = "ok" /\ d \notin removed
                 /\ cursor' = [cursor EXCEPT ![d] = AtLeast(cursor[d], prov[d])]
                 /\ prov' = [prov EXCEPT ![d] = 0]
                 /\ saved' = [saved EXCEPT ![IdOf[d]] = Capped(IdOf[d], AtLeast(cursor[d], prov[d]))]
<1>1. /\ pg.out # "poison" /\ skipped = NoSeqs
      /\ SettleOK(d) \/ SettleTransient(d) \/ SettlePoison(d)
  BY DEF SettleFlush, RouterInv, Place, RouterTypes
<1>2. CASE SettleOK(d)
  <2>1. Promote(d) /\ pg.out = "ok" /\ dlq' = dlq
    BY <1>2 DEF SettleOK
  <2>2. CASE d \in removed \/ prov[d] = 0
    BY <1>1, <2>1, <2>2 DEF Promote
  <2>3. CASE ~(d \in removed \/ prov[d] = 0)
    <3>1. /\ cursor' = [cursor EXCEPT ![d] = AtLeast(cursor[d], prov[d])]
          /\ prov' = [prov EXCEPT ![d] = 0]
          /\ skipped' = [skipped EXCEPT ![d] = {s \in @ : s > AtLeast(cursor[d], prov[d])}]
          /\ saved' = [saved EXCEPT ![IdOf[d]] = Capped(IdOf[d], AtLeast(cursor[d], prov[d]))]
      BY <2>1, <2>3 DEF Promote
    <3>2. skipped' = NoSeqs
      BY <1>1, <3>1 DEF NoSeqs
    <3> QED BY <2>1, <2>3, <3>1, <3>2
  <2> QED BY <2>2, <2>3
<1>3. CASE SettleTransient(d)
  BY <1>1, <1>3 DEF SettleTransient, DiscardProvisional
<1> QED BY <1>1, <1>2, <1>3 DEF SettlePoison

\* The router acts on FlushBatch's result, under its lock.
LEMMA SettleInv ==
    ASSUME Dependable, RouterInv, SettleFlush
    PROVE  RouterInv'
<1> DEFINE p == [pg EXCEPT !.out = "none", !.poison = 0]
<1>0. /\ ppc = "settle" /\ RouterTypes /\ Place /\ pg \in PgType /\ Looping
      /\ pg.i \in Nat \ {0} /\ pg.n \in Nat /\ pg.i <= pg.n /\ pg.out \in {"ok", "transient"}
      /\ NextConsumer("flush", "read", p)
      /\ UNCHANGED <<blocked, target, floors, tpc, due, cur, rel, acked, dropped,
                     log, consVars, sinkVars, durable, crashes>>
      /\ \A c \in Started : ConsumerOK(c)
  BY AtHand DEF SettleFlush, RouterInv, RouterTypes, Looping, Place
<1>1. PICK d \in Conn : d = At(pg.i)
  BY <1>0, AtHand
<1>2. d \in Batchers /\ d \in Started /\ IdOf[d] \in ConsumerID
  BY <1>0, <1>1, Constants DEF Place, Dependable
<1> DEFINE u == AtLeast(cursor[d], prov[d])
           v == Capped(IdOf[d], u)
<1>3. /\ skipped' = NoSeqs /\ dlq' = dlq
      /\ \/ /\ d \in removed \/ prov[d] = 0
            /\ UNCHANGED <<cursor, prov, saved>>
         \/ /\ prov' = [prov EXCEPT ![d] = 0]
            /\ UNCHANGED <<cursor, saved>>
         \/ /\ pg.out = "ok" /\ d \notin removed
            /\ cursor' = [cursor EXCEPT ![d] = u]
            /\ prov' = [prov EXCEPT ![d] = 0]
            /\ saved' = [saved EXCEPT ![IdOf[d]] = v]
  BY <1>1, SettleFacts
<1>4. /\ cursor \in [Conn -> Nat \ {0}] /\ prov \in [Conn -> Nat] /\ saved \in [ConsumerID -> Nat]
  BY <1>0 DEF RouterTypes
<1>5. u \in Nat \ {0} /\ (u = cursor[d] \/ u = prov[d])
  <2>1. cursor[d] \in Nat /\ cursor[d] >= 1 /\ prov[d] \in Nat
    BY <1>4
  <2>2. u \in Nat /\ u >= cursor[d] /\ (u = cursor[d] \/ u = prov[d])
    BY <2>1, AtLeastFacts
  <2> HIDE DEF u
  <2> QED BY <2>1, <2>2
<1> HIDE DEF u
<1>6. v \in Nat /\ v <= u
  <2>1. floors[IdOf[d]][Part] \in Nat
    BY <1>2, RouterAssumption DEF RouterInv, RP!Inv, RP!TypeOK
  <2> QED BY <1>5, <2>1 DEF Capped
<1> HIDE DEF v
<1>7. /\ p \in PgType /\ p.n = pg.n /\ p.i = pg.i /\ p.err = pg.err /\ p.saves = pg.saves
  BY <1>0 DEF PgType
<1> HIDE DEF p
<1>8. /\ pg' \in PgType /\ pg'.n = pg.n /\ pg'.err = pg.err /\ pg'.saves = pg.saves
      /\ \/ pg.i < pg.n /\ ppc' = "flush" /\ pg'.i = pg.i + 1
         \/ ~(pg.i < pg.n) /\ ppc' = "read" /\ pg'.i = 1
  BY <1>0, <1>7, NextConsumerFacts
<1>9. cursor' \in [Conn -> Nat \ {0}] /\ prov' \in [Conn -> Nat] /\ saved' \in [ConsumerID -> Nat]
  BY <1>2, <1>3, <1>4, <1>5, <1>6
<1>10. RouterTypes'
  BY <1>0, <1>3, <1>8, <1>9 DEF RouterTypes, consVars, sinkVars
<1>11. Place'
  BY <1>0, <1>8 DEF Place, InWindow, Looping, Dispatching, consVars
<1>12. ASSUME NEW c \in Started, c # d PROVE ConsumerOK(c)'
  <2>0. ConsumerOK(c) /\ c \in Conn /\ IdOf[c] \in ConsumerID /\ IdOf[c] # IdOf[d]
    BY <1>0, <1>12, StartedAreConn, Constants DEF Dependable
  <2>1. cursor'[c] = cursor[c] /\ prov'[c] = prov[c] /\ saved'[IdOf[c]] = saved[IdOf[c]]
    BY <1>2, <1>3, <1>4, <1>12, <2>0
  <2>2. Among(c, Len(consumers))' /\ Persisted(c)'
    BY <1>0, <2>0, <2>1 DEF ConsumerOK, Among, Persisted, consVars, sinkVars
  <2>3. Passed(c) => Passed(c)'
    BY <1>0, <1>3, <2>1, HasIdle DEF Passed, sinkVars
  <2>4. Provisional(c) => Provisional(c)'
    <3>1. ~Flushing(c) /\ ~Flushing(c)'
      BY <1>1, <1>8, <1>12 DEF Flushing
    <3> QED BY <1>0, <2>1, <3>1 DEF Provisional, sinkVars
  <2>5. Window(c)'
    BY <1>8 DEF Window, InWindow, Dispatching
  <2> QED BY <1>0, <2>0, <2>2, <2>3, <2>4, <2>5 DEF ConsumerOK, consVars
<1>13. ConsumerOK(d)'
  <2>0. ConsumerOK(d) /\ Among(d, Len(consumers))'
    BY <1>0, <1>2 DEF ConsumerOK, Among, consVars
  <2>1. Window(d)'
    BY <1>8 DEF Window, InWindow, Dispatching
  <2>2. CASE (d \in removed \/ prov[d] = 0) /\ UNCHANGED <<cursor, prov, saved>>
    <3>1. Persisted(d)'
      BY <1>0, <2>0, <2>2 DEF ConsumerOK, Persisted, sinkVars
    <3>2. d \notin removed => Passed(d)' /\ Provisional(d)'
      BY <1>0, <1>2, <2>0, <2>2 DEF ConsumerOK, Passed, Provisional, sinkVars
    <3> QED BY <1>0, <2>0, <2>1, <3>1, <3>2 DEF ConsumerOK, consVars
  <2>3. CASE prov' = [prov EXCEPT ![d] = 0] /\ UNCHANGED <<cursor, saved>>
    <3>1. Persisted(d)'
      BY <1>0, <2>0, <2>3 DEF ConsumerOK, Persisted, sinkVars
    <3>2. d \notin removed => Passed(d)'
      BY <1>0, <1>2, <2>0, <2>3 DEF ConsumerOK, Passed, sinkVars
    <3>3. Provisional(d)'
      BY <1>4, <2>3 DEF Provisional
    <3> QED BY <1>0, <2>0, <2>1, <3>1, <3>2, <3>3 DEF ConsumerOK, consVars
  <2>4. CASE /\ pg.out = "ok" /\ d \notin removed
             /\ cursor' = [cursor EXCEPT ![d] = u]
             /\ prov' = [prov EXCEPT ![d] = 0]
             /\ saved' = [saved EXCEPT ![IdOf[d]] = v]
    <3>1. cursor'[d] = u /\ prov'[d] = 0 /\ saved'[IdOf[d]] = v
      BY <1>2, <1>4, <2>4
    <3>2. \A s \in 1..(cursor[d] - 1) : s \in flushed[d]
      BY <1>2, <2>0, <2>4 DEF ConsumerOK, Passed
    <3>3. \A s \in 1..(prov[d] - 1) : s \in flushed[d]
      BY <1>0, <1>1, <1>2, <2>0, <2>4 DEF ConsumerOK, Provisional, Flushing
    <3>4. \A s \in 1..(u - 1) : s \in flushed'[d]
      BY <1>0, <1>5, <3>2, <3>3 DEF sinkVars
    <3>5. \A s \in 1..(v - 1) : s \in flushed'[d]
      BY <1>5, <1>6, <3>4
    <3>6. Persisted(d)'
      BY <1>0, <2>0, <3>1, <3>5 DEF ConsumerOK, Persisted, sinkVars
    <3>7. Passed(d)' /\ Provisional(d)'
      BY <1>2, <3>1, <3>4 DEF Passed, Provisional
    <3> QED BY <2>0, <2>1, <3>6, <3>7 DEF ConsumerOK
  <2> QED BY <1>3, <2>2, <2>3, <2>4
<1>14. UNCHANGED retryVars
  BY <1>0, <1>3 DEF retryVars
<1> QED BY <1>10, <1>11, <1>12, <1>13, <1>14, SchedulerIdle DEF RouterInv

-----------------------------------------------------------------------------
(* The theorems.                                                           *)

LEMMA NextInv ==
    ASSUME Dependable, RouterInv, [Next]_rvars
    PROVE  RouterInv'
<1>1. CASE PartitionStep
  BY <1>1, ReadPartitionInv, SnapshotInv, DeliverInv, ApplyInv, QueuePersistInv, SaveCursorsInv,
     CallFlushInv, SettleInv DEF PartitionStep
<1>2. CASE RetryStep \/ \E id \in ConsumerID, k \in Key : BackoffElapses(id, k)
  BY <1>2, RetryInv DEF RetrySide
<1>3. CASE \E k \in Key : AppendEvent(k)
  BY <1>3, AppendEventInv
<1>4. CASE \E c \in Conn : Register(c) \/ Close(c)
  BY <1>4, RegisterInv, CloseInv
<1>5. CASE \E id \in ConsumerID : Unregister(id)
  BY <1>5, UnregisterInv
<1>6. CASE FlushCursorStore
  BY <1>6, FlushCursorStoreInv
<1>7. CASE Crash
  BY <1>7, CrashInv
<1>8. CASE UNCHANGED rvars
  <2>1. /\ UNCHANGED retryVars /\ RouterTypes'
        /\ UNCHANGED <<ppc, pg, crashes, flushed, buffered, consumers, removed, log, cursor, prov>>
    BY <1>8 DEF rvars, RouterInv, RouterTypes, consVars, memVars, sinkVars, partVars, storeVars
  <2>2. Prolongs(consumers', consumers) /\ Prolongs(log', log)
    BY <2>1, AppendProlongs DEF RouterInv, RouterTypes
  <2>3. \A c \in Started : Persisted(c)'
    BY <1>8 DEF rvars, RouterInv, ConsumerOK, Persisted, sinkVars, storeVars
  <2> QED BY <2>1, <2>2, <2>3, QuietInv
<1> QED BY <1>1, <1>2, <1>3, <1>4, <1>5, <1>6, <1>7, <1>8 DEF Next

\* In a dependable deployment RouterInv holds throughout, however often the process
\* crashes.
LEMMA RouterInvHolds == Dependable => (Spec => []RouterInv)
<1> SUFFICES ASSUME Dependable PROVE Spec => []RouterInv
  OBVIOUS
<1>1. RouterInv /\ [Next]_rvars => RouterInv'
  BY NextInv
<1> QED BY <1>1, InitInv, PTL DEF Spec

\* A process that is allowed no crash has none.
LEMMA NoCrash == MaxCrashes = 0 => (Spec => [](crashes = 0))
<1> SUFFICES ASSUME MaxCrashes = 0 PROVE Spec => [](crashes = 0)
  OBVIOUS
<1>1. Init => crashes = 0
  BY DEF Init
<1>2. crashes = 0 /\ [Next]_rvars => (crashes = 0)'
  <2> SUFFICES ASSUME crashes = 0, [Next]_rvars PROVE crashes' = crashes
    OBVIOUS
  <2>1. ~Crash
    BY DEF Crash
  <2> QED BY <2>1 DEF Next, rvars, PartitionStep, ReadPartition, SnapshotConsumers, Deliver,
       DeliverAccepted, DeliverRefused, DeliverNotWanted, ApplyDispatchCursors, QueuePersistCursor,
       SaveCursors, CallFlushBatch, SettleFlush, RetryStep, RetryDeliverOK, RetryDeliverFails,
       RetryInternal, HandleFloorRelease, BackoffElapses, AppendEvent, Register, Close, Unregister,
       FlushCursorStore
<1> QED BY <1>1, <1>2, PTL DEF Spec

\* queue-sink-flushbatch-loss in a dependable deployment (without poison and retried
\* or closed batching consumers: with them it is false), for any number of sinks,
\* keys, events, window sizes and crashes: the stored cursor of a batching consumer, volatile or on
\* disk, is never past an event its FlushBatch has not sent, although Deliver
\* returned nil for it, the floor is read before the save, and the retry
\* goroutine and the connections run in between.
LEMMA BatchesFlushedFirst == Dependable => (Spec => []FlushedBeforePersisted)
<1> SUFFICES ASSUME Dependable PROVE Spec => []FlushedBeforePersisted
  OBVIOUS
<1>1. RouterInv => FlushedBeforePersisted
  <2> SUFFICES ASSUME RouterInv, NEW c \in Batchers, NEW s \in DOMAIN log,
                      s < saved[IdOf[c]] \/ s < durable[IdOf[c]]
               PROVE  Settled(c, s)
    BY DEF FlushedBeforePersisted
  <2>1. c \in Started /\ IdOf[c] \in ConsumerID
    BY Constants, StartedAreConn DEF Dependable
  <2>2. saved[IdOf[c]] \in Nat /\ durable[IdOf[c]] \in Nat /\ DOMAIN log = 1..Len(log)
        /\ Len(log) \in Nat
    BY <2>1, LenProperties DEF RouterInv, RouterTypes
  <2>3. s \in 1..(saved[IdOf[c]] - 1) \/ s \in 1..(durable[IdOf[c]] - 1)
    BY <2>2
  <2>4. s \in flushed[c]
    BY <2>1, <2>3 DEF RouterInv, ConsumerOK, Persisted
  <2> QED BY <2>4 DEF Settled
<1> QED BY <1>1, RouterInvHolds, PTL

\* In one life of a process, for any number of consumers, keys, events and any
\* window size: dispatch moves the cursor of a consumer past an event only when
\* the consumer's sink has it, it was given up on explicitly, or the scheduler
\* holds it for a retry.
THEOREM NothingEverSkipped ==
    Dependable /\ MaxCrashes = 0 => (Spec => []NothingSkipped)
<1> SUFFICES ASSUME Dependable, MaxCrashes = 0 PROVE Spec => []NothingSkipped
  OBVIOUS
<1>1. RouterInv /\ crashes = 0 => NothingSkipped
  <2> SUFFICES ASSUME RouterInv, crashes = 0, NEW c \in Started, NEW s \in DOMAIN log,
                      Live(c), s < cursor[c]
               PROVE  Settled(c, s) \/ Queued(c, s)
    BY DEF NothingSkipped, Started
  <2>1. c \in Conn /\ cursor[c] \in Nat /\ DOMAIN log = 1..Len(log) /\ Len(log) \in Nat
    BY StartedAreConn, LenProperties DEF RouterInv, RouterTypes
  <2>2. Passed(c) /\ s \in 1..(cursor[c] - 1)
    BY <2>1 DEF RouterInv, ConsumerOK, Live
  <2> QED BY <2>2 DEF Passed, Reached, Settled
<1> QED BY <1>1, RouterInvHolds, NoCrash, PTL

-----------------------------------------------------------------------------
(* Order: what is queued, delivered and saved, and in which order.         *)

Plains == Conn \ Batchers

\* Every consumer is there from the start.
NobodyJoins == Conn = Started

\* What was accepted, given up on or queued is in the log, under its own key.
Logged ==
    /\ \A e \in acked \cup dlq \cup dropped : e[3] \in 1..Len(log)
    /\ \A id \in ConsumerID, k \in Key : \A i \in 1..Len(blocked[id][k]) :
          blocked[id][k][i].seq \in 1..Len(log) /\ log[blocked[id][k][i].seq] = k

\* Whatever precedes a queued event in its key is settled or queued before it.
QueuedInOrder(c) ==
    \A k \in Key : \A i \in 1..Len(blocked[IdOf[c]][k]) :
        \A t \in 1..(blocked[IdOf[c]][k][i].seq - 1) :
            log[t] = k => \/ Settled(c, t)
                          \/ \E j \in 1..(i - 1) : blocked[IdOf[c]][k][j].seq = t

\* An event that phase 2 may deliver to c is the next of its key, although
\* the snapshot that says so is older.
MayDeliver(c) ==
    ppc = "deliver" /\ pg.snap[c].on =>
        /\ \A t \in 1..(pg.seq - 1) : Reached(c, t)
        /\ pg.snap[c].blocked \/ blocked[IdOf[c]][log[pg.seq]] = <<>>

\* c has settled every event below v.
SafeUpTo(c, v) == v <= Len(log) + 1 /\ \A s \in 1..(v - 1) : Settled(c, s)

\* The save that is being capped, and the saves that wait for the unlock.
CapInHand == ppc = "cap" => At(pg.i) \notin removed /\ pg.persist = pg.seq + 1

SavesSafe ==
    \A i \in 1..Len(pg.saves) : \A c \in Plains :
        IdOf[c] = pg.saves[i][1] => SafeUpTo(c, pg.saves[i][2])

OrderInv ==
    /\ Logged /\ CapInHand /\ SavesSafe
    /\ \A c \in Plains : QueuedInOrder(c) /\ MayDeliver(c)

\* A queue with the same seqs.
SameSeqs(r, q) == Len(r) = Len(q) /\ \A x \in 1..Len(q) : r[x].seq = q[x].seq

\* What has been settled is never taken back, and the log only grows.
Keeping ==
    /\ acked \subseteq acked' /\ dlq \subseteq dlq' /\ dropped \subseteq dropped'
    /\ Prolongs(log', log) /\ Len(log) \in Nat /\ Len(log') \in Nat

LEMMA QueueIsSeq ==
    ASSUME RP!Inv, NEW id \in ConsumerID, NEW k \in Key
    PROVE  /\ blocked[id][k] \in Seq(RP!RetryRecord) /\ Len(blocked[id][k]) \in Nat
           /\ DOMAIN blocked[id][k] = 1..Len(blocked[id][k])
           /\ \A i \in 1..Len(blocked[id][k]) : blocked[id][k][i].seq \in Nat
<1>1. blocked[id][k] \in Seq(RP!RetryRecord)
  BY DEF RP!Inv, RP!TypeOK, RP!QueueMap
<1> DEFINE q == blocked[id][k]
<1>2. q \in Seq(RP!RetryRecord)
  BY <1>1
<1> HIDE DEF q
<1>3. ASSUME NEW i \in 1..Len(q) PROVE q[i].seq \in Nat
  <2>1. q[i] \in RP!RetryRecord
    BY <1>2, ElementOfSeq
  <2> QED BY <2>1 DEF RP!RetryRecord, RP!SeqNo
<1>4. Len(q) \in Nat /\ DOMAIN q = 1..Len(q)
  BY <1>2, LenProperties
<1> QED BY <1>1, <1>3, <1>4 DEF q

\* Settled for good.
LEMMA SettledStays ==
    ASSUME Keeping, NEW c \in Plains, NEW s \in 1..Len(log), Settled(c, s)
    PROVE  Settled(c, s)'
<1>1. log'[s] = log[s]
  BY DEF Keeping, Prolongs
<1> QED BY <1>1 DEF Keeping, Settled, Plains

\* Queues whose seqs stand still.
LEMMA QueuesSame ==
    ASSUME Keeping, RP!Inv, Logged,
           \A id \in ConsumerID, k \in Key : SameSeqs(blocked'[id][k], blocked[id][k]),
           \A e \in acked' \cup dlq' \cup dropped' :
               e \in acked \cup dlq \cup dropped \/ e[3] \in 1..Len(log)
    PROVE  /\ Logged'
           /\ \A c \in Plains : QueuedInOrder(c) => QueuedInOrder(c)'
<1>0. Len(log) \in Nat /\ Len(log') \in Nat /\ Len(log) <= Len(log')
      /\ \A s \in 1..Len(log) : log'[s] = log[s]
  BY DEF Keeping, Prolongs
<1>1. ASSUME NEW id \in ConsumerID, NEW k \in Key, NEW i \in 1..Len(blocked'[id][k])
      PROVE  /\ i \in 1..Len(blocked[id][k]) /\ blocked'[id][k][i].seq = blocked[id][k][i].seq
             /\ blocked[id][k][i].seq \in 1..Len(log) /\ log[blocked[id][k][i].seq] = k
  BY <1>1 DEF SameSeqs, Logged
<1>2. Logged'
  <2>1. \A e \in acked' \cup dlq' \cup dropped' : e[3] \in 1..Len(log')
    <3>1. \A e \in acked' \cup dlq' \cup dropped' : e[3] \in 1..Len(log)
      BY DEF Logged
    <3> QED BY <1>0, <3>1
  <2>2. ASSUME NEW id \in ConsumerID, NEW k \in Key, NEW i \in 1..Len(blocked'[id][k])
        PROVE  blocked'[id][k][i].seq \in 1..Len(log') /\ log'[blocked'[id][k][i].seq] = k
    <3>1. PICK s : s = blocked[id][k][i].seq
      OBVIOUS
    <3>2. s \in 1..Len(log) /\ log[s] = k /\ blocked'[id][k][i].seq = s
      BY <1>1, <3>1
    <3>3. s \in 1..Len(log') /\ log'[s] = k
      BY <1>0, <3>2
    <3> QED BY <3>2, <3>3
  <2> QED BY <2>1, <2>2 DEF Logged
<1>3. ASSUME NEW c \in Plains, QueuedInOrder(c) PROVE QueuedInOrder(c)'
  <2>0. IdOf[c] \in ConsumerID
    BY Constants DEF Plains
  <2> SUFFICES ASSUME NEW k \in Key, NEW i \in 1..Len(blocked'[IdOf[c]][k]),
                      NEW t \in 1..(blocked'[IdOf[c]][k][i].seq - 1), log'[t] = k
               PROVE  \/ Settled(c, t)'
                      \/ \E j \in 1..(i - 1) : blocked'[IdOf[c]][k][j].seq = t
    BY DEF QueuedInOrder
  <2>1. /\ i \in 1..Len(blocked[IdOf[c]][k]) /\ blocked'[IdOf[c]][k][i].seq = blocked[IdOf[c]][k][i].seq
        /\ blocked[IdOf[c]][k][i].seq \in 1..Len(log)
    BY <1>1, <2>0
  <2>2. t \in 1..(blocked[IdOf[c]][k][i].seq - 1)
    BY <2>1
  <2>3. t \in 1..Len(log)
    <3>1. PICK s \in 1..Len(log) : s = blocked[IdOf[c]][k][i].seq
      BY <2>1
    <3>2. t \in 1..(s - 1)
      BY <2>2, <3>1
    <3> QED BY <1>0, <3>2
  <2>4. log[t] = k
    BY <1>0, <2>3
  <2>5. CASE Settled(c, t)
    BY <2>3, <2>5, SettledStays
  <2>6. CASE \E j \in 1..(i - 1) : blocked[IdOf[c]][k][j].seq = t
    <3>1. PICK j \in 1..(i - 1) : blocked[IdOf[c]][k][j].seq = t
      BY <2>6
    <3>2. Len(blocked[IdOf[c]][k]) \in Nat
      BY <2>0, QueueIsSeq
    <3>3. j \in 1..Len(blocked[IdOf[c]][k])
      BY <2>1, <3>2
    <3>4. blocked'[IdOf[c]][k][j].seq = t
      BY <2>0, <3>1, <3>3 DEF SameSeqs
    <3> QED BY <3>4
  <2> QED BY <1>3, <2>1, <2>2, <2>4, <2>5, <2>6 DEF QueuedInOrder
<1> QED BY <1>2, <1>3

\* A head that is popped is settled for the consumer whose queue it is.
LEMMA PoppedIsSettled ==
    ASSUME NobodyJoins, Dependable, RP!Inv, OwnTarget, NEW c \in Plains, NEW k \in Key,
           NEW s, s = Head(blocked[IdOf[c]][k]).seq, log'[s] = k,
           blocked[IdOf[c]][k] # <<>>, RP!HeadSettled(IdOf[c], k)
    PROVE  Settled(c, s)'
<1>1. IdOf[c] \in ConsumerID /\ c \in Started
  BY Constants DEF Plains, NobodyJoins
<1>2. target[IdOf[c]] \in Conn
  BY <1>1 DEF RP!Inv, RP!BlockedHasTarget
<1>3. IdOf[target[IdOf[c]]] = IdOf[c]
  BY <1>1, <1>2 DEF OwnTarget
<1>4. target[IdOf[c]] = c
  BY <1>1, <1>2, <1>3 DEF Dependable
<1> QED BY <1>4 DEF RP!HeadSettled, Settled, Plains

\* Queues of which one has lost its settled head.
LEMMA QueuesPopped ==
    ASSUME NobodyJoins, Dependable, Keeping, RP!Inv, OwnTarget, Logged, RP!PopsSettled, log' = log,
           \A e \in acked' \cup dlq' \cup dropped' :
               e \in acked \cup dlq \cup dropped \/ e[3] \in 1..Len(log)
    PROVE  /\ Logged'
           /\ \A c \in Plains : QueuedInOrder(c) => QueuedInOrder(c)'
<1>1. ASSUME NEW id \in ConsumerID, NEW k \in Key
      PROVE  \/ blocked'[id][k] = blocked[id][k]
             \/ /\ Len(blocked'[id][k]) = Len(blocked[id][k]) - 1
                /\ \A x \in 1..(Len(blocked[id][k]) - 1) :
                      blocked'[id][k][x].seq = blocked[id][k][x + 1].seq
                /\ RP!HeadSettled(id, k)
  BY RP!PoppedQueue, Constants
<1>2. Logged'
  <2>1. \A e \in acked' \cup dlq' \cup dropped' : e[3] \in 1..Len(log)
    BY DEF Logged
  <2>2. ASSUME NEW id \in ConsumerID, NEW k \in Key, NEW i \in 1..Len(blocked'[id][k])
        PROVE  blocked'[id][k][i].seq \in 1..Len(log) /\ log[blocked'[id][k][i].seq] = k
    <3>1. CASE blocked'[id][k] = blocked[id][k]
      BY <3>1 DEF Logged
    <3>2. CASE blocked'[id][k] # blocked[id][k]
      <4>0. Len(blocked[id][k]) \in Nat
        BY QueueIsSeq
      <4>1. i \in 1..(Len(blocked[id][k]) - 1)
        BY <1>1, <3>2
      <4>2. blocked'[id][k][i].seq = blocked[id][k][i + 1].seq
        BY <1>1, <3>2, <4>1
      <4>3. i + 1 \in 1..Len(blocked[id][k])
        BY <4>0, <4>1
      <4> QED BY <4>2, <4>3 DEF Logged
    <3> QED BY <3>1, <3>2
  <2> QED BY <2>1, <2>2 DEF Logged
<1>3. ASSUME NEW c \in Plains, QueuedInOrder(c) PROVE QueuedInOrder(c)'
  <2>0. IdOf[c] \in ConsumerID
    BY Constants DEF Plains
  <2> SUFFICES ASSUME NEW k \in Key, NEW i \in 1..Len(blocked'[IdOf[c]][k]),
                      NEW t \in 1..(blocked'[IdOf[c]][k][i].seq - 1), log[t] = k
               PROVE  \/ Settled(c, t)'
                      \/ \E j \in 1..(i - 1) : blocked'[IdOf[c]][k][j].seq = t
    BY DEF QueuedInOrder
  <2> DEFINE q == blocked[IdOf[c]][k]
             r == blocked'[IdOf[c]][k]
  <2>1. /\ q \in Seq(RP!RetryRecord) /\ Len(q) \in Nat
        /\ \A x \in 1..Len(q) : q[x].seq \in 1..Len(log) /\ log[q[x].seq] = k
    BY <2>0, QueueIsSeq DEF Logged
  <2>2. ASSUME NEW x \in 1..Len(q), NEW u \in 1..(q[x].seq - 1), log[u] = k
        PROVE  u \in 1..Len(log) /\ (Settled(c, u)' \/ \E j \in 1..(x - 1) : q[j].seq = u)
    <3>1. u \in 1..Len(log)
      <4>1. PICK s \in 1..Len(log) : s = q[x].seq
        BY <2>1
      <4>2. u \in 1..(s - 1) /\ Len(log) \in Nat
        BY <4>1 DEF Keeping
      <4> QED BY <4>2
    <3>2. Settled(c, u) \/ \E j \in 1..(x - 1) : q[j].seq = u
      BY <1>3, <2>2 DEF QueuedInOrder
    <3> QED BY <3>1, <3>2, SettledStays
  <2>3. CASE r = q
    BY <2>2, <2>3
  <2>4. CASE r # q
    <3>1. /\ Len(r) = Len(q) - 1 /\ \A x \in 1..(Len(q) - 1) : r[x].seq = q[x + 1].seq
          /\ RP!HeadSettled(IdOf[c], k)
      BY <1>1, <2>0, <2>4
    <3>2. i \in 1..(Len(q) - 1) /\ i + 1 \in 1..Len(q) /\ r[i].seq = q[i + 1].seq
      <4>1. i \in 1..(Len(q) - 1)
        BY <3>1
      <4>2. i + 1 \in 1..Len(q)
        BY <2>1, <4>1
      <4> QED BY <3>1, <4>1, <4>2
    <3>3. t \in 1..(q[i + 1].seq - 1)
      BY <3>2
    <3>4. Settled(c, t)' \/ \E j \in 1..((i + 1) - 1) : q[j].seq = t
      BY <2>2, <3>2, <3>3
    <3> SUFFICES ASSUME NEW j \in 1..((i + 1) - 1), q[j].seq = t
                 PROVE  Settled(c, t)' \/ \E m \in 1..(i - 1) : r[m].seq = t
      BY <3>4
    <3>5. CASE j = 1
      <4>1. q # <<>> /\ Head(q) = q[1]
        BY <2>1, <3>2, EmptySeq
      <4>2. t = Head(blocked[IdOf[c]][k]).seq
        BY <3>5, <4>1
      <4>3. log'[t] = k /\ blocked[IdOf[c]][k] # <<>>
        BY <4>1
      <4>4. RP!HeadSettled(IdOf[c], k)
        BY <3>1
      <4>5. Settled(c, t)'
        BY <4>2, <4>3, <4>4, PoppedIsSettled
      <4> QED BY <4>5
    <3>6. CASE j # 1
      <4>9. PICK n \in Nat : n = Len(q)
        BY <2>1
      <4>0. PICK a \in 1..(n - 1) : a = i
        BY <3>2, <4>9
      <4>1. j - 1 \in 1..(i - 1) /\ j - 1 \in 1..(Len(q) - 1) /\ (j - 1) + 1 = j
        <5>1. j \in 1..((a + 1) - 1)
          BY <4>0
        <5>2. j - 1 \in 1..(a - 1) /\ j - 1 \in 1..(n - 1) /\ (j - 1) + 1 = j
          BY <3>6, <5>1
        <5> QED BY <4>0, <4>9, <5>2
      <4>2. r[j - 1].seq = q[(j - 1) + 1].seq
        BY <3>1, <4>1
      <4>3. r[j - 1].seq = t
        BY <4>1, <4>2
      <4> QED BY <4>1, <4>3
    <3> QED BY <3>5, <3>6
  <2> QED BY <2>3, <2>4
<1> QED BY <1>2, <1>3

\* Phase 3 hands the event to the scheduler.
Added(d, s) ==
    \/ RS!AddBlocked(d, log[s], RS!FailedRecord(s))
    \/ RS!AddBlocked(d, log[s], RS!FollowOnRecord(s))

\* A queue that got an event of which all earlier ones are settled or queued.
LEMMA QueuesAdded ==
    ASSUME NobodyJoins, Dependable, Keeping, RP!Inv, Logged, log' = log, log \in Seq(Key),
           UNCHANGED <<acked, dlq, dropped>>,
           NEW d \in Plains, NEW s \in 1..Len(log), Added(d, s),
           \A t \in 1..(s - 1) : Reached(d, t)
    PROVE  /\ Logged'
           /\ \A c \in Plains : QueuedInOrder(c) => QueuedInOrder(c)'
<1> DEFINE id == IdOf[d]
           k == log[s]
<1>1. id \in ConsumerID /\ k \in Key /\ s \in Nat
  BY Constants, ElementOfSeq DEF Plains
<1>2. RP!AddBlocked(d, k, RP!FailedRecord(s)) \/ RP!AddBlocked(d, k, RP!FollowOnRecord(s))
  BY <1>1, SameScheduler DEF Plains, Added
<1>3. PICK r : RP!AddBlocked(d, k, r) /\ r.seq = s
  <2>1. RP!FailedRecord(s).seq = s /\ RP!FollowOnRecord(s).seq = s
    BY DEF RP!FailedRecord, RP!FollowOnRecord
  <2> QED BY <1>2, <2>1
<1> HIDE DEF id, k
<1>4. blocked \in [ConsumerID -> [Key -> Seq(RP!RetryRecord)]]
  BY DEF RP!Inv, RP!TypeOK, RP!QueueMap
<1>5. blocked' = [blocked EXCEPT ![id][k] = Append(blocked[id][k], r)]
  BY <1>3 DEF RP!AddBlocked, RP!WithQueue, id
<1> DEFINE q == blocked[id][k]
<1>6. /\ blocked'[id][k] = Append(q, r)
      /\ \A i \in ConsumerID, j \in Key : (i # id \/ j # k) => blocked'[i][j] = blocked[i][j]
  BY <1>1, <1>4, <1>5
<1>7. q \in Seq(RP!RetryRecord) /\ Len(q) \in Nat
  BY <1>1, QueueIsSeq
<1> HIDE DEF q
<1>8. /\ Len(Append(q, r)) = Len(q) + 1 /\ Append(q, r)[Len(q) + 1] = r
      /\ \A x \in 1..Len(q) : Append(q, r)[x] = q[x]
  BY <1>7, <1>3, AppendProperties
<1>9. ASSUME NEW x \in 1..Len(blocked'[id][k])
      PROVE  \/ x \in 1..Len(q) /\ blocked'[id][k][x] = q[x]
             \/ x = Len(q) + 1 /\ blocked'[id][k][x].seq = s
  BY <1>3, <1>6, <1>7, <1>8
<1>10. Logged'
  <2>1. \A e \in acked' \cup dlq' \cup dropped' : e[3] \in 1..Len(log)
    BY DEF Logged
  <2>2. ASSUME NEW i \in ConsumerID, NEW j \in Key, NEW x \in 1..Len(blocked'[i][j])
        PROVE  blocked'[i][j][x].seq \in 1..Len(log) /\ log[blocked'[i][j][x].seq] = j
    <3>1. CASE i # id \/ j # k
      BY <1>6, <3>1 DEF Logged
    <3>2. CASE i = id /\ j = k
      <4>1. CASE x \in 1..Len(q) /\ blocked'[id][k][x] = q[x]
        BY <1>1, <3>2, <4>1 DEF Logged, q
      <4>2. CASE x = Len(q) + 1 /\ blocked'[id][k][x].seq = s
        BY <3>2, <4>2 DEF k
      <4> QED BY <1>9, <3>2, <4>1, <4>2
    <3> QED BY <3>1, <3>2
  <2> QED BY <2>1, <2>2 DEF Logged
<1>11. ASSUME NEW c \in Plains, QueuedInOrder(c) PROVE QueuedInOrder(c)'
  <2>0. IdOf[c] \in ConsumerID
    BY Constants DEF Plains
  <2> SUFFICES ASSUME NEW j \in Key, NEW i \in 1..Len(blocked'[IdOf[c]][j]),
                      NEW t \in 1..(blocked'[IdOf[c]][j][i].seq - 1), log'[t] = j
               PROVE  \/ Settled(c, t)'
                      \/ \E m \in 1..(i - 1) : blocked'[IdOf[c]][j][m].seq = t
    BY DEF QueuedInOrder
  <2>1. log[t] = j /\ \A u : Settled(c, u) => Settled(c, u)'
    BY DEF Settled, Plains
  <2>2. CASE IdOf[c] # id \/ j # k
    <3>1. blocked'[IdOf[c]][j] = blocked[IdOf[c]][j]
      BY <1>6, <2>0, <2>2
    <3>2. Settled(c, t) \/ \E m \in 1..(i - 1) : blocked[IdOf[c]][j][m].seq = t
      BY <1>11, <2>1, <3>1 DEF QueuedInOrder
    <3> QED BY <2>1, <3>1, <3>2
  <2>3. CASE IdOf[c] = id /\ j = k
    <3>1. CASE i \in 1..Len(q) /\ blocked'[id][k][i] = q[i]
      <4>1. t \in 1..(q[i].seq - 1)
        BY <2>3, <3>1
      <4>2. Settled(c, t) \/ \E m \in 1..(i - 1) : q[m].seq = t
        <5>1. q = blocked[IdOf[c]][k] /\ log[t] = k
          BY <2>1, <2>3 DEF q
        <5>2. i \in 1..Len(blocked[IdOf[c]][k]) /\ t \in 1..(blocked[IdOf[c]][k][i].seq - 1)
          BY <3>1, <4>1, <5>1
        <5>3. Settled(c, t) \/ \E m \in 1..(i - 1) : blocked[IdOf[c]][k][m].seq = t
          BY <1>1, <1>11, <5>1, <5>2 DEF QueuedInOrder
        <5> QED BY <5>1, <5>3
      <4>3. \A m \in 1..(i - 1) : m \in 1..Len(q) /\ blocked'[id][k][m] = q[m]
        BY <1>6, <1>7, <1>8, <3>1
      <4> QED BY <2>1, <2>3, <4>2, <4>3
    <3>2. CASE i = Len(q) + 1 /\ blocked'[id][k][i].seq = s
      <4>1. t \in 1..(s - 1)
        BY <2>3, <3>2
      <4>2. c = d
        BY <2>3 DEF Dependable, NobodyJoins, Plains, id
      <4>3. Settled(c, t) \/ Queued(c, t)
        BY <4>1, <4>2 DEF Reached
      <4>5. log[t] = k
        BY <2>1, <2>3
      <4>4. ASSUME Queued(c, t) PROVE \E m \in 1..(i - 1) : blocked'[id][k][m].seq = t
        <5>1. DOMAIN q = 1..Len(q)
          BY <1>7, LenProperties
        <5>2. PICK m \in 1..Len(q) : q[m].seq = t
          BY <2>3, <4>4, <4>5, <5>1 DEF Queued, q
        <5>3. m \in 1..(i - 1) /\ blocked'[id][k][m] = q[m]
          BY <1>6, <1>7, <1>8, <3>2
        <5> QED BY <5>2, <5>3
      <4> QED BY <2>1, <2>3, <4>3, <4>4
    <3> QED BY <1>9, <2>3, <3>1, <3>2
  <2> QED BY <2>2, <2>3
<1> QED BY <1>10, <1>11

-----------------------------------------------------------------------------
(* What a step does to the queues and to what is settled.                  *)

\* Nothing is settled and nothing enters or leaves a queue.
Quiet ==
    /\ \A id \in ConsumerID, k \in Key : SameSeqs(blocked'[id][k], blocked[id][k])
    /\ UNCHANGED <<acked, dlq, dropped>>
    /\ log' = log \/ \E k \in Key : log' = Append(log, k)

\* Phase 2: a consumer accepts the event at hand.
Delivers ==
    /\ ppc = "deliver" /\ Wanted(At(pg.i))
    /\ acked' = acked \cup {<<At(pg.i), log[pg.seq], pg.seq>>}
    /\ UNCHANGED <<blocked, dlq, dropped, log>>

\* The triple that a pop adds.
HeadSeq == Head(RP!CurQueue).seq

\* The retry goroutine settles a head and pops it.
Retires ==
    /\ RP!PopsSettled /\ log' = log
    /\ \/ acked' = acked \cup {<<target[cur[1]], cur[2], HeadSeq>>} /\ UNCHANGED <<dlq, dropped>>
       \/ dlq' = dlq \cup {<<cur[1], cur[2], HeadSeq>>} /\ UNCHANGED <<acked, dropped>>
       \/ dropped' = dropped \cup {<<cur[1], cur[2], HeadSeq>>} /\ UNCHANGED <<acked, dlq>>

\* Phase 3: the event at hand is queued.
Enqueues ==
    /\ ppc = "apply" /\ At(pg.i) \in Plains /\ At(pg.i) \notin removed
    /\ Added(At(pg.i), pg.seq)
    /\ UNCHANGED <<acked, dlq, dropped, log>>

\* Queues that stand still keep their seqs.
LEMMA StillQuiet ==
    UNCHANGED <<blocked, acked, dlq, dropped, log>> => Quiet
BY DEF Quiet, SameSeqs

\* A rewritten head keeps its seq and its followers.
LEMMA HeadKeepsSeqs ==
    ASSUME RP!Inv, NEW id \in ConsumerID, NEW k \in Key, blocked[id][k] # <<>>,
           NEW r \in RP!RetryRecord, r.seq = Head(blocked[id][k]).seq,
           blocked' = RP!WithQueue(id, k, RP!WithHead(blocked[id][k], r))
    PROVE  \A i \in ConsumerID, j \in Key : SameSeqs(blocked'[i][j], blocked[i][j])
<1> DEFINE q == RP!WithHead(blocked[id][k], r)
<1>1. blocked \in RP!QueueMap /\ blocked[id][k] \in Seq(RP!RetryRecord)
  BY DEF RP!Inv, RP!TypeOK, RP!QueueMap
<1>2. /\ q \in Seq(RP!RetryRecord) /\ Len(q) = Len(blocked[id][k]) /\ Head(q) = r
      /\ \A i \in 2..Len(blocked[id][k]) : q[i] = blocked[id][k][i]
  BY <1>1, RP!WithHeadFacts, Constants
<1>3. Len(blocked[id][k]) \in Nat /\ q[1] = r /\ blocked[id][k][1] = Head(blocked[id][k])
  BY <1>1, <1>2, LenProperties
<1>4. SameSeqs(q, blocked[id][k])
  <2> SUFFICES ASSUME NEW x \in 1..Len(blocked[id][k]) PROVE q[x].seq = blocked[id][k][x].seq
    BY <1>2 DEF SameSeqs
  <2>1. CASE x = 1
    BY <1>3, <2>1
  <2>2. CASE x # 1
    BY <1>2, <1>3, <2>2
  <2> QED BY <2>1, <2>2
<1> HIDE DEF q
<1>5. blocked' = RP!WithQueue(id, k, q)
  BY DEF q
<1>6. /\ blocked'[id][k] = q
      /\ \A i \in ConsumerID, j \in Key : i # id \/ j # k => blocked'[i][j] = blocked[i][j]
  BY <1>1, <1>2, <1>5, RP!WithQueueFacts, Constants
<1> QED BY <1>4, <1>6 DEF SameSeqs

\* The retry goroutine and the clock.
LEMMA RetryKinds ==
    ASSUME RP!Inv, RetrySide
    PROVE  Quiet \/ Retires
<1>0. log' = log
  BY RetryIsScheduler
<1>1. \/ RP!Tick \/ RP!DrainNext \/ RP!DrainPeek \/ RP!DeliverPermanent \/ RP!Notify
      \/ RP!DeliverOK \/ RP!DeadLetterDrop \/ RP!DeadLetterWrite
      \/ RP!DeliverTransient \/ RP!DeadLetterWriteFails
      \/ \E id \in ConsumerID, k \in Key : RP!BackoffElapses(id, k)
  BY SameScheduler DEF RetrySide, RetryStep, RetryDeliverOK, RetryDeliverFails, RetryInternal,
     HandleFloorRelease, BackoffElapses
<1>2. CASE RP!Tick \/ RP!DrainNext \/ RP!DrainPeek \/ RP!DeliverPermanent \/ RP!Notify
  <2>1. UNCHANGED <<blocked, acked, dlq, dropped>>
    BY <1>2 DEF RP!Tick, RP!DrainNext, RP!DrainPeek, RP!DeliverPermanent, RP!Notify,
       RP!stateVars, RP!resultVars
  <2> QED BY <1>0, <2>1, StillQuiet
<1>3. CASE RP!DeliverOK \/ RP!DeadLetterDrop \/ RP!DeadLetterWrite
  <2>1. tpc \in {"deliver", "deadletter"} /\ RP!PopAndRelease
    BY <1>3 DEF RP!DeliverOK, RP!DeadLetterDrop, RP!DeadLetterWrite
  <2>2. RP!HeadSettled(cur[1], cur[2])
    BY <1>3 DEF RP!DeliverOK, RP!DeadLetterDrop, RP!DeadLetterWrite, RP!HeadSettled,
       RP!CurEvent, RP!CurQueue
  <2>3. RP!PopsSettled
    BY <2>1, <2>2, RP!CurrentHead, Constants DEF RP!PopsSettled, RP!PopAndRelease, RP!CurQueue
  <2>4. \/ acked' = acked \cup {<<target[cur[1]], cur[2], HeadSeq>>} /\ UNCHANGED <<dlq, dropped>>
        \/ dlq' = dlq \cup {<<cur[1], cur[2], HeadSeq>>} /\ UNCHANGED <<acked, dropped>>
        \/ dropped' = dropped \cup {<<cur[1], cur[2], HeadSeq>>} /\ UNCHANGED <<acked, dlq>>
    BY <1>3 DEF RP!DeliverOK, RP!DeadLetterDrop, RP!DeadLetterWrite, RP!CurEvent, HeadSeq
  <2> QED BY <1>0, <2>3, <2>4 DEF Retires
<1>4. CASE RP!DeliverTransient \/ RP!DeadLetterWriteFails
  <2>1. /\ cur[1] \in ConsumerID /\ cur[2] \in Key /\ blocked[cur[1]][cur[2]] # <<>>
        /\ Head(RP!CurQueue) \in RP!RetryRecord
    BY <1>4, RP!CurrentHead, Constants DEF RP!DeliverTransient, RP!DeadLetterWriteFails
  <2>2. PICK r : /\ r \in RP!RetryRecord /\ r.seq = Head(RP!CurQueue).seq
                 /\ blocked' = RP!WithQueue(cur[1], cur[2], RP!WithHead(RP!CurQueue, r))
    <3>1. \A r \in RP!RetryRecord :
             /\ RP!Retried(r) \in RP!RetryRecord /\ RP!Retried(r).seq = r.seq
             /\ RP!Deferred(r) \in RP!RetryRecord /\ RP!Deferred(r).seq = r.seq
      BY RP!RewrittenHeads, Constants
    <3> QED BY <1>4, <2>1, <3>1 DEF RP!DeliverTransient, RP!DeadLetterWriteFails
  <2>3. \A i \in ConsumerID, j \in Key : SameSeqs(blocked'[i][j], blocked[i][j])
    BY <2>1, <2>2, HeadKeepsSeqs DEF RP!CurQueue
  <2>4. UNCHANGED <<acked, dlq, dropped>>
    BY <1>4 DEF RP!DeliverTransient, RP!DeadLetterWriteFails, RP!resultVars
  <2> QED BY <1>0, <2>3, <2>4 DEF Quiet
<1>5. CASE \E id \in ConsumerID, k \in Key : RP!BackoffElapses(id, k)
  <2>1. PICK id \in ConsumerID, k \in Key : RP!BackoffElapses(id, k)
    BY <1>5
  <2>2. blocked[id][k] # <<>> /\ Head(blocked[id][k]) \in RP!RetryRecord
    <3>1. blocked[id][k] # <<>> /\ blocked[id][k] \in Seq(RP!RetryRecord)
      BY <2>1, QueueIsSeq DEF RP!BackoffElapses
    <3> QED BY <3>1, HeadTailProperties
  <2>3. PICK r : /\ r \in RP!RetryRecord /\ r.seq = Head(blocked[id][k]).seq
                 /\ blocked' = RP!WithQueue(id, k, RP!WithHead(blocked[id][k], r))
    <3>1. \A r \in RP!RetryRecord : RP!Due(r) \in RP!RetryRecord /\ RP!Due(r).seq = r.seq
      BY RP!RewrittenHeads, Constants
    <3> QED BY <2>1, <2>2, <3>1 DEF RP!BackoffElapses
  <2>4. \A i \in ConsumerID, j \in Key : SameSeqs(blocked'[i][j], blocked[i][j])
    BY <2>2, <2>3, HeadKeepsSeqs
  <2>5. UNCHANGED <<acked, dlq, dropped>>
    BY <2>1 DEF RP!BackoffElapses, RP!resultVars
  <2> QED BY <1>0, <2>4, <2>5 DEF Quiet
<1> QED BY <1>1, <1>2, <1>3, <1>4, <1>5

\* Phase 3 for one consumer.
LEMMA ApplyKinds ==
    ASSUME Dependable, RouterInv, ApplyDispatchCursors
    PROVE  Quiet \/ Enqueues
<1>0. /\ ppc = "apply" /\ Looping /\ Dispatching /\ InWindow
      /\ UNCHANGED <<acked, dlq, dropped, log>>
  BY DEF ApplyDispatchCursors, Looping, Dispatching, InWindow
<1>1. PICK d \in Conn : d = At(pg.i)
  BY <1>0, AtHand
<1>2. \/ ApplyNothing(d)
      \/ /\ pg.snap[d].on /\ d \notin removed
         /\ \/ ApplyFollowOn(d) \/ ApplySkipped(d)
            \/ ApplyFailed(d) \/ ApplyDelivered(d)
  BY <1>1 DEF ApplyDispatchCursors
<1>3. CASE ApplyNothing(d) \/ ApplySkipped(d) \/ ApplyDelivered(d)
  BY <1>0, <1>3, StillQuiet DEF ApplyNothing, ApplySkipped, ApplyDelivered
<1>4. d \in Batchers => d \in Started /\ d \notin pg.err /\ (d \notin removed => Snapped(d))
  BY <1>0 DEF Dependable, RouterInv, Place, ConsumerOK, Window
<1>5. CASE d \notin removed /\ ApplyFollowOn(d)
  <2>1. pg.snap[d].blocked /\ RS!AddBlocked(d, log[pg.seq], RS!FollowOnRecord(pg.seq))
    BY <1>5 DEF ApplyFollowOn
  <2>2. d \notin Batchers
    BY <1>4, <1>5, <2>1, Zenon DEF Snapped
  <2> QED BY <1>0, <1>1, <1>5, <2>1, <2>2 DEF Enqueues, Added, Plains
<1>6. CASE d \notin removed /\ ApplyFailed(d)
  <2>1. d \in pg.err /\ RS!AddBlocked(d, log[pg.seq], RS!FailedRecord(pg.seq))
    BY <1>6 DEF ApplyFailed
  <2> QED BY <1>0, <1>1, <1>4, <1>6, <2>1 DEF Enqueues, Added, Plains
<1> QED BY <1>2, <1>3, <1>5, <1>6

\* Every step is of one of the four kinds.
LEMMA Kinds ==
    ASSUME Dependable, RouterInv, crashes = 0, crashes' = 0, [Next]_rvars
    PROVE  Quiet \/ Delivers \/ Retires \/ Enqueues
<1>1. CASE Deliver
  <2>1. CASE DeliverAccepted
    BY <2>1 DEF DeliverAccepted, Accept, Delivers
  <2>2. CASE DeliverRefused \/ DeliverNotWanted
    BY <2>2, StillQuiet DEF DeliverRefused, DeliverNotWanted, retryVars
  <2> QED BY <1>1, <2>1, <2>2 DEF Deliver
<1>2. CASE ApplyDispatchCursors
  BY <1>2, ApplyKinds
<1>3. CASE SettleFlush
  <2>1. At(pg.i) \in Conn
    BY <1>3, AtHand DEF SettleFlush, Looping
  <2>2. dlq' = dlq
    BY <1>3, <2>1, SettleFacts
  <2> QED BY <1>3, <2>2, StillQuiet DEF SettleFlush
<1>4. CASE ReadPartition \/ SnapshotConsumers \/ QueuePersistCursor \/ SaveCursors \/ CallFlushBatch
  BY <1>4, StillQuiet DEF ReadPartition, SnapshotConsumers, QueuePersistCursor, SaveCursors,
     CallFlushBatch, retryVars
<1>5. CASE RetrySide
  BY <1>5, RetryKinds DEF RouterInv
<1>6. CASE \E k \in Key : AppendEvent(k)
  <2>1. PICK k \in Key : AppendEvent(k)
    BY <1>6
  <2> QED BY <2>1 DEF AppendEvent, Quiet, SameSeqs, retryVars
<1>7. CASE \E c \in Conn : Register(c) \/ Close(c)
  BY <1>7, StillQuiet DEF Register, Close, retryVars
<1>8. CASE (\E id \in ConsumerID : Unregister(id)) \/ FlushCursorStore
  BY <1>8, StillQuiet DEF Unregister, FlushCursorStore, retryVars
<1>9. CASE Crash
  BY <1>9 DEF Crash
<1>10. CASE UNCHANGED rvars
  BY <1>10, StillQuiet DEF rvars, retryVars
<1> QED BY <1>1, <1>2, <1>3, <1>4, <1>5, <1>6, <1>7, <1>8, <1>9, <1>10
        DEF Next, PartitionStep, RetrySide

\* Nothing settled is ever taken back.
LEMMA KeepsSettled ==
    ASSUME Dependable, RouterInv, crashes = 0, crashes' = 0, [Next]_rvars
    PROVE  Keeping
<1>1. log \in Seq(Key)
  BY DEF RouterInv, RouterTypes
<1>2. log' = log \/ \E k \in Key : log' = Append(log, k)
  BY Kinds DEF Quiet, Delivers, Retires, Enqueues
<1>3. Prolongs(log', log) /\ log' \in Seq(Key)
  BY <1>1, <1>2, AppendProlongs
<1>4. acked \subseteq acked' /\ dlq \subseteq dlq' /\ dropped \subseteq dropped'
  BY Kinds DEF Quiet, Delivers, Retires, Enqueues
<1>5. Len(log) \in Nat /\ Len(log') \in Nat
  BY <1>1, <1>3, LenProperties
<1> QED BY <1>3, <1>4, <1>5 DEF Keeping

\* The queues stay in order.
LEMMA QueuesStay ==
    ASSUME NobodyJoins, Dependable, RouterInv, crashes = 0, crashes' = 0, [Next]_rvars, Logged
    PROVE  /\ Logged'
           /\ \A c \in Plains : QueuedInOrder(c) => QueuedInOrder(c)'
<1>0. Keeping /\ RP!Inv /\ OwnTarget /\ log \in Seq(Key)
  BY KeepsSettled DEF RouterInv, RouterTypes
<1>1. CASE Quiet
  <2>1. \A e \in acked' \cup dlq' \cup dropped' : e \in acked \cup dlq \cup dropped
    BY <1>1 DEF Quiet
  <2>2. \A id \in ConsumerID, k \in Key : SameSeqs(blocked'[id][k], blocked[id][k])
    BY <1>1 DEF Quiet
  <2> QED BY <1>0, <2>1, <2>2, QueuesSame
<1>2. CASE Delivers
  <2>1. pg.seq \in 1..Len(log)
    BY <1>2, EventAtHand DEF Delivers, InWindow
  <2>2. \A e \in acked' \cup dlq' \cup dropped' : e \in acked \cup dlq \cup dropped \/ e[3] \in 1..Len(log)
    BY <1>2, <2>1 DEF Delivers
  <2>3. \A id \in ConsumerID, k \in Key : SameSeqs(blocked'[id][k], blocked[id][k])
    BY <1>2 DEF Delivers, SameSeqs
  <2> QED BY <1>0, <2>2, <2>3, QueuesSame
<1>3. CASE Retires
  <2>1. cur[1] \in ConsumerID /\ cur[2] \in Key /\ RP!CurQueue # <<>>
    BY <1>3 DEF Retires, RP!PopsSettled
  <2>2. RP!CurQueue \in Seq(RP!RetryRecord)
    BY <1>0, <2>1, QueueIsSeq DEF RP!CurQueue
  <2>3. 1 \in 1..Len(RP!CurQueue) /\ Head(RP!CurQueue) = RP!CurQueue[1]
    BY <2>1, <2>2, EmptySeq, LenProperties
  <2>4. HeadSeq \in 1..Len(log)
    BY <2>1, <2>3 DEF Logged, HeadSeq, RP!CurQueue
  <2>5. \A e \in acked' \cup dlq' \cup dropped' : e \in acked \cup dlq \cup dropped \/ e[3] \in 1..Len(log)
    BY <1>3, <2>4 DEF Retires
  <2>6. RP!PopsSettled /\ log' = log
    BY <1>3 DEF Retires
  <2> QED BY <1>0, <2>5, <2>6, QueuesPopped
<1>4. CASE Enqueues
  <2>1. PICK d \in Plains : d = At(pg.i)
    BY <1>4 DEF Enqueues
  <2>2. PICK s \in 1..Len(log) : s = pg.seq
    BY <1>4, EventAtHand DEF Enqueues, InWindow
  <2>3. Added(d, s) /\ log' = log /\ UNCHANGED <<acked, dlq, dropped>>
    BY <1>4, <2>1, <2>2 DEF Enqueues
  <2>4. \A t \in 1..(s - 1) : Reached(d, t)
    <3>1. d \in Started /\ d \notin Batchers /\ d \notin removed
      BY <1>4, <2>1 DEF Enqueues, Plains, NobodyJoins
    <3>2. Window(d) /\ InWindow
      BY <1>4, <3>1 DEF RouterInv, ConsumerOK, Enqueues, InWindow
    <3> QED BY <2>2, <3>1, <3>2 DEF Window, Has
  <2> QED BY <1>0, <2>3, <2>4, QueuesAdded
<1> QED BY <1>1, <1>2, <1>3, <1>4, Kinds

\* Saves that were queued before the step are still safe after it.
LEMMA SavesKept ==
    ASSUME RouterTypes, Keeping, SavesSafe, NEW S, S = pg'.saves,
           \A i \in 1..Len(S) : \E j \in 1..Len(pg.saves) : S[i] = pg.saves[j]
    PROVE  SavesSafe'
<1>1. pg.saves \in Seq(ConsumerID \X Nat)
  BY PgFields DEF RouterTypes
<1> SUFFICES ASSUME NEW i \in 1..Len(S), NEW c \in Plains, IdOf[c] = S[i][1]
             PROVE  SafeUpTo(c, S[i][2])'
  BY DEF SavesSafe
<1>2. PICK j \in 1..Len(pg.saves) : S[i] = pg.saves[j]
  OBVIOUS
<1>3. pg.saves[j][2] \in Nat
  <2>1. pg.saves[j] \in ConsumerID \X Nat
    BY <1>1, ElementOfSeq
  <2> QED BY <2>1
<1>4. PICK v \in Nat : v = pg.saves[j][2] /\ v = S[i][2]
  BY <1>2, <1>3
<1>5. SafeUpTo(c, v)
  BY <1>2, <1>4 DEF SavesSafe
<1>6. Len(log) \in Nat /\ Len(log') \in Nat /\ Len(log) <= Len(log')
  BY DEF Keeping, Prolongs
<1>7. v <= Len(log') + 1
  BY <1>5, <1>6 DEF SafeUpTo
<1>8. \A s \in 1..(v - 1) : Settled(c, s)'
  <2> SUFFICES ASSUME NEW s \in 1..(v - 1) PROVE Settled(c, s)'
    OBVIOUS
  <2>1. s \in 1..Len(log) /\ Settled(c, s)
    BY <1>5, <1>6 DEF SafeUpTo
  <2> QED BY <2>1, SettledStays
<1> QED BY <1>4, <1>7, <1>8 DEF SafeUpTo

\* The floor is at most the head of every queue of the consumer.
LEMMA FloorBelowHeads ==
    ASSUME RP!Inv, NEW id \in ConsumerID, NEW k \in Key, blocked[id][k] # <<>>
    PROVE  /\ floors[id][Part] \in Nat \ {0}
           /\ blocked[id][k][1].seq \in Nat /\ floors[id][Part] <= blocked[id][k][1].seq
           /\ 1 \in 1..Len(blocked[id][k])
<1> DEFINE H == RP!Heads(blocked, id, Part)
<1>1. blocked[id][k] \in Seq(RP!RetryRecord)
  BY QueueIsSeq
<1>2. 1 \in 1..Len(blocked[id][k]) /\ Head(blocked[id][k]) = blocked[id][k][1]
  BY <1>1, EmptySeq, LenProperties
<1>3. Part \in Partition /\ PartOf[k] = Part
  BY RouterAssumption
<1>4. blocked[id][k][1].seq \in H
  BY <1>2, <1>3 DEF RP!Heads
<1>5. H \subseteq RP!SeqNo
  BY <1>3, RP!HeadsType, Constants DEF RP!Inv, RP!TypeOK
<1>6. floors[id][Part] \in H /\ \A h \in H : floors[id][Part] <= h
  BY <1>3, <1>4 DEF RP!Inv, RP!FloorIsLowestHead
<1> HIDE DEF H
<1> QED BY <1>2, <1>4, <1>5, <1>6 DEF RP!SeqNo

\* Below the capped value of a save everything is settled: what is not waits
\* in a queue whose head, and with it the floor, is at most as high.
LEMMA CappedIsSafe ==
    ASSUME NobodyJoins, Dependable, RouterInv, crashes = 0, OrderInv, ppc = "cap",
           NEW d \in Plains, d = At(pg.i)
    PROVE  /\ SafeUpTo(d, Capped(IdOf[d], pg.persist))
           /\ Capped(IdOf[d], pg.persist) \in Nat
<1> DEFINE id == IdOf[d]
           v  == Capped(id, pg.persist)
<1>0. /\ InWindow /\ Looping /\ RP!Inv /\ d \in Conn /\ d \in Started /\ d \notin Batchers
      /\ id \in ConsumerID /\ d \notin removed /\ pg.persist = pg.seq + 1 /\ QueuedInOrder(d)
  BY Constants DEF InWindow, Looping, Dispatching, RouterInv, Plains, NobodyJoins, OrderInv, CapInHand
<1>1. PICK q \in 1..Len(log) : q = pg.seq
  BY <1>0, EventAtHand
<1>2. Len(log) \in Nat /\ log \in Seq(Key) /\ floors[id][Part] \in Nat
  BY <1>0, Lengths, RouterAssumption DEF RouterInv, RouterTypes, RP!Inv, RP!TypeOK
<1>3. v = IF floors[id][Part] # 0 /\ floors[id][Part] < q + 1 THEN floors[id][Part] ELSE q + 1
  BY <1>0, <1>1 DEF Capped
<1>4. v \in Nat /\ v <= q + 1 /\ (floors[id][Part] # 0 => v <= floors[id][Part])
  BY <1>1, <1>2, <1>3
<1> HIDE DEF v, id
<1>5. ASSUME NEW s \in 1..q PROVE Reached(d, s)
  <2>1. Window(d) /\ Among(d, pg.i)
    <3>1. pg.i \in Nat \ {0}
      BY <1>0, AtHand
    <3> QED BY <1>0, <3>1 DEF RouterInv, ConsumerOK, Among, At
  <2>2. CASE s = pg.seq
    BY <1>0, <2>1, <2>2, HasHere DEF Window, Has
  <2>3. CASE s \in 1..(pg.seq - 1)
    BY <1>0, <2>1, <2>3 DEF Window, Has
  <2> QED BY <1>1, <2>2, <2>3
<1>6. ASSUME NEW s \in 1..(v - 1) PROVE Settled(d, s)
  <2>1. s \in 1..q /\ s \in 1..Len(log)
    BY <1>1, <1>2, <1>4
  <2>2. CASE ~Settled(d, s)
    <3>1. PICK k \in Key : k = log[s]
      BY <1>2, <2>1, ElementOfSeq
    <3>2. PICK i \in DOMAIN blocked[id][k] : blocked[id][k][i].seq = s
      BY <1>5, <2>1, <2>2, <3>1 DEF Reached, Queued, id
    <3>3. blocked[id][k] # <<>>
      BY <3>2
    <3>4. /\ floors[id][Part] \in Nat \ {0} /\ 1 \in 1..Len(blocked[id][k])
          /\ blocked[id][k][1].seq \in Nat /\ floors[id][Part] <= blocked[id][k][1].seq
      BY <1>0, <3>3, FloorBelowHeads
    <3>5. s \in 1..(blocked[id][k][1].seq - 1)
      <4>1. PICK f \in Nat \ {0}, h \in Nat : f = floors[id][Part] /\ h = blocked[id][k][1].seq
        BY <3>4
      <4>2. f # 0 /\ v <= f /\ f <= h
        BY <1>4, <3>4, <4>1
      <4>3. s \in 1..(h - 1)
        BY <1>4, <4>2
      <4> QED BY <4>1, <4>3
    <3>6. Settled(d, s) \/ \E j \in 1..(1 - 1) : blocked[id][k][j].seq = s
      BY <1>0, <3>1, <3>4, <3>5 DEF QueuedInOrder, id
    <3> QED BY <2>2, <3>6
  <2> QED BY <2>2
<1>7. v <= Len(log) + 1
  BY <1>1, <1>2, <1>4
<1> QED BY <1>4, <1>6, <1>7 DEF SafeUpTo, v, id

\* Where phase 3 goes, and what it will save.
LEMMA ApplyGoes ==
    ASSUME NobodyJoins, Dependable, RouterInv, ApplyDispatchCursors
    PROVE  /\ pg'.saves = pg.saves /\ ppc' \in {"apply", "cap", "save"}
           /\ ppc' = "cap" => /\ At(pg'.i) = At(pg.i) /\ At(pg.i) \notin removed
                              /\ pg'.persist = pg.seq + 1 /\ pg'.seq = pg.seq
<1>0. /\ ppc = "apply" /\ Looping /\ Dispatching /\ InWindow /\ pg \in PgType /\ pg.seq \in Nat
  BY PgFields DEF ApplyDispatchCursors, Looping, Dispatching, InWindow, RouterInv, RouterTypes
<1>1. PICK d \in Conn : d = At(pg.i)
  BY <1>0, AtHand
<1>2. \/ ApplyNothing(d)
      \/ /\ pg.snap[d].on /\ d \notin removed
         /\ \/ ApplyFollowOn(d) \/ ApplySkipped(d)
            \/ ApplyFailed(d) \/ ApplyDelivered(d)
  BY <1>1 DEF ApplyDispatchCursors
<1>3. CASE NextApply(pg)
  BY <1>0, <1>3, NextApplyFacts
<1>4. CASE d \notin removed /\ AdvanceCursor(d, pg.seq + 1, pg.seq + 1)
  <2>1. ppc' = "cap" /\ pg' = [pg EXCEPT !.persist = pg.seq + 1]
    BY <1>4 DEF AdvanceCursor
  <2>2. pg'.saves = pg.saves /\ pg'.i = pg.i /\ pg'.seq = pg.seq /\ pg'.persist = pg.seq + 1
    BY <1>0, <2>1 DEF PgType
  <2> QED BY <1>1, <1>4, <2>1, <2>2
<1>5. CASE ApplySkipped(d) /\ d \notin removed
  <2>1. pg.snap[d].skipped
    BY <1>5 DEF ApplySkipped
  <2>2. ~pg.snap[d].skipped
    BY <1>0, <1>5 DEF NobodyJoins, RouterInv, ConsumerOK, Window, Snapped
  <2> QED BY <2>1, <2>2
<1> QED BY <1>2, <1>3, <1>4, <1>5 DEF ApplyNothing, ApplyFollowOn, ApplyFailed, ApplyDelivered

\* Everybody but the partition goroutine, and the steps that change nothing.
Others ==
    \/ RetrySide \/ (\E k \in Key : AppendEvent(k)) \/ (\E c \in Conn : Register(c) \/ Close(c))
    \/ (\E id \in ConsumerID : Unregister(id)) \/ FlushCursorStore \/ UNCHANGED rvars

\* The goroutine's locals are its own, and nobody is removed while it holds
\* the lock.
LEMMA OthersLeavePg ==
    ASSUME RouterInv, Others
    PROVE  /\ ppc' = ppc /\ pg' = pg
           /\ ppc = "cap" => removed' = removed
           /\ Prolongs(consumers', consumers)
<1>0. RouterTypes /\ RP!Inv
  BY DEF RouterInv
<1>1. Prolongs(consumers, consumers) /\ \A c \in Conn : Prolongs(Append(consumers, c), consumers)
  BY <1>0, AppendProlongs DEF RouterTypes
<1>2. CASE RetrySide
  BY <1>0, <1>1, <1>2, RetryIsScheduler DEF consVars, partVars
<1>3. CASE \E k \in Key : AppendEvent(k)
  BY <1>1, <1>3 DEF AppendEvent, consVars, partVars
<1>4. CASE \E c \in Conn : Register(c) \/ Close(c)
  BY <1>1, <1>4 DEF Register, Close, partVars
<1>5. CASE \E id \in ConsumerID : Unregister(id)
  BY <1>1, <1>5 DEF Unregister, MuFree, partVars
<1>6. CASE FlushCursorStore \/ UNCHANGED rvars
  BY <1>1, <1>6 DEF FlushCursorStore, rvars, consVars, partVars
<1> QED BY <1>2, <1>3, <1>4, <1>5, <1>6 DEF Others

\* The actors of a step without a crash.
LEMMA Actors ==
    ASSUME [Next]_rvars, crashes = 0, crashes' = 0
    PROVE  \/ ReadPartition \/ SnapshotConsumers \/ Deliver \/ ApplyDispatchCursors
           \/ QueuePersistCursor \/ SaveCursors \/ CallFlushBatch \/ SettleFlush \/ Others
BY DEF Next, PartitionStep, Others, RetrySide, Crash

\* Where the other steps of the goroutine leave it.
LEMMA GoroutineMoves ==
    ASSUME RouterInv
    PROVE  /\ ReadPartition => ppc' = "snap" /\ pg'.saves = <<>>
           /\ SnapshotConsumers => ppc' = "deliver" /\ pg'.saves = pg.saves /\ pg'.seq = pg.seq
           /\ Deliver => /\ ppc' \in {"deliver", "apply"} /\ pg'.saves = pg.saves
                         /\ pg'.seq = pg.seq /\ pg'.snap = pg.snap /\ ppc = "deliver"
           /\ CallFlushBatch => ppc' \in {"flush", "settle", "read"} /\ pg'.saves = pg.saves
           /\ SettleFlush => ppc' \in {"flush", "read"} /\ pg'.saves = pg.saves
<1>0. pg \in PgType
  BY DEF RouterInv, RouterTypes
<1>1. ReadPartition => ppc' = "snap" /\ pg'.saves = <<>>
  BY DEF ReadPartition, IdlePg
<1>2. SnapshotConsumers => ppc' = "deliver" /\ pg'.saves = pg.saves /\ pg'.seq = pg.seq
  BY <1>0 DEF SnapshotConsumers, PgType
<1>3. ASSUME Deliver
      PROVE  /\ ppc' \in {"deliver", "apply"} /\ pg'.saves = pg.saves
             /\ pg'.seq = pg.seq /\ pg'.snap = pg.snap /\ ppc = "deliver"
  <2>1. CASE NextConsumer("deliver", "apply", pg)
    BY <1>0, <1>3, <2>1, NextConsumerFacts
       DEF Deliver, DeliverAccepted, DeliverRefused, DeliverNotWanted
  <2>2. CASE DeliverRefused
    <3> DEFINE d == At(pg.i)
               p == [pg EXCEPT !.err = @ \cup {d}]
    <3>1. d \in Conn
      BY <2>2, AtHand DEF DeliverRefused, Looping, Dispatching
    <3> HIDE DEF d
    <3>2. p \in PgType /\ p.saves = pg.saves /\ p.seq = pg.seq /\ p.snap = pg.snap
      BY <1>0, <3>1 DEF PgType
    <3>3. NextConsumer("deliver", "apply", p) /\ ppc = "deliver"
      BY <2>2 DEF DeliverRefused, d
    <3> HIDE DEF p
    <3> QED BY <3>2, <3>3, NextConsumerFacts
  <2> QED BY <1>3, <2>1, <2>2 DEF Deliver, DeliverAccepted, DeliverNotWanted
<1>4. ASSUME CallFlushBatch
      PROVE  ppc' \in {"flush", "settle", "read"} /\ pg'.saves = pg.saves
  <2>1. CASE NextConsumer("flush", "read", pg)
    BY <1>0, <2>1, NextConsumerFacts
  <2>2. CASE FlushBatch(At(pg.i))
    BY <1>0, <2>2 DEF FlushBatch, PgType
  <2> QED BY <1>4, <2>1, <2>2 DEF CallFlushBatch
<1>5. ASSUME SettleFlush
      PROVE  ppc' \in {"flush", "read"} /\ pg'.saves = pg.saves
  <2> DEFINE p == [pg EXCEPT !.out = "none", !.poison = 0]
  <2>1. p \in PgType /\ p.saves = pg.saves
    BY <1>0 DEF PgType
  <2>2. NextConsumer("flush", "read", p)
    BY <1>5 DEF SettleFlush
  <2> HIDE DEF p
  <2> QED BY <2>1, <2>2, NextConsumerFacts
<1> QED BY <1>1, <1>2, <1>3, <1>4, <1>5

\* Saves taken over, or the first of them done.
LEMMA SavesTaken ==
    ASSUME RouterTypes, Keeping, SavesSafe,
           pg'.saves = pg.saves \/ pg'.saves = <<>> \/ (pg.saves # <<>> /\ pg'.saves = Tail(pg.saves))
    PROVE  SavesSafe'
<1>1. pg.saves \in Seq(ConsumerID \X Nat) /\ Len(pg.saves) \in Nat
  BY PgFields, LenProperties DEF RouterTypes
<1>2. \A i \in 1..Len(pg'.saves) : \E j \in 1..Len(pg.saves) : pg'.saves[i] = pg.saves[j]
  <2>1. CASE pg'.saves = pg.saves
    BY <2>1
  <2>2. CASE pg'.saves = <<>>
    BY <2>2
  <2>3. CASE pg.saves # <<>> /\ pg'.saves = Tail(pg.saves)
    <3>1. /\ Len(Tail(pg.saves)) = Len(pg.saves) - 1
          /\ \A i \in 1..Len(Tail(pg.saves)) : Tail(pg.saves)[i] = pg.saves[i + 1]
      BY <1>1, <2>3, HeadTailProperties
    <3>2. \A i \in 1..Len(Tail(pg.saves)) : i + 1 \in 1..Len(pg.saves)
      BY <1>1, <3>1
    <3> QED BY <2>3, <3>1, <3>2
  <2> QED BY <2>1, <2>2, <2>3
<1> QED BY <1>2, SavesKept

\* What waits to be saved stays safe, and what is added is.
LEMMA SavesStay ==
    ASSUME NobodyJoins, Dependable, RouterInv, crashes = 0, crashes' = 0, [Next]_rvars, OrderInv
    PROVE  CapInHand' /\ SavesSafe'
<1>0. Keeping /\ RouterTypes /\ SavesSafe /\ CapInHand /\ pg \in PgType
  BY KeepsSettled DEF OrderInv, RouterInv, RouterTypes
<1>1. CASE ReadPartition \/ SnapshotConsumers \/ Deliver \/ CallFlushBatch \/ SettleFlush
  <2>1. ppc' # "cap" /\ (pg'.saves = pg.saves \/ pg'.saves = <<>>)
    BY <1>1, GoroutineMoves
  <2> QED BY <1>0, <2>1, SavesTaken DEF CapInHand
<1>2. CASE ApplyDispatchCursors
  <2>1. /\ pg'.saves = pg.saves
        /\ ppc' = "cap" => /\ At(pg'.i) = At(pg.i) /\ At(pg.i) \notin removed
                           /\ pg'.persist = pg.seq + 1 /\ pg'.seq = pg.seq
    BY <1>2, ApplyGoes
  <2>2. UNCHANGED consVars
    BY <1>2 DEF ApplyDispatchCursors
  <2>3. CapInHand'
    BY <2>1, <2>2 DEF CapInHand, At, consVars
  <2> QED BY <1>0, <2>1, <2>3, SavesTaken
<1>3. CASE SaveCursors
  <2>1. ppc' \in {"save", "snap", "flush"}
    BY <1>3 DEF SaveCursors
  <2>2. pg'.saves = pg.saves \/ pg'.saves = <<>> \/ (pg.saves # <<>> /\ pg'.saves = Tail(pg.saves))
    BY <1>0, <1>3 DEF SaveCursors, IdlePg, PgType
  <2> QED BY <1>0, <2>1, <2>2, SavesTaken DEF CapInHand
<1>4. CASE QueuePersistCursor
  <2>1. ppc = "cap" /\ UNCHANGED <<log, acked, dlq, dropped, flushed>>
    BY <1>4 DEF QueuePersistCursor, retryVars, sinkVars
  <2>2. PICK d \in Conn : d = At(pg.i)
    BY <2>1, AtHand DEF Looping, Dispatching
  <2>3. d \in Plains
    BY <2>1, <2>2 DEF RouterInv, Place, Plains
  <2>4. PICK v \in Nat : v = Capped(IdOf[d], pg.persist) /\ SafeUpTo(d, v)
    BY <2>1, <2>2, <2>3, CappedIsSafe
  <2> DEFINE e == <<IdOf[d], v>>
             q == Append(pg.saves, e)
             p == [pg EXCEPT !.saves = q]
  <2>5. pg.saves \in Seq(ConsumerID \X Nat) /\ e \in ConsumerID \X Nat /\ q \in Seq(ConsumerID \X Nat)
        /\ Len(pg.saves) \in Nat
    BY <1>0, PgFields, Constants, AppendProperties, LenProperties
  <2>6. NextApply(p)
    BY <1>4, <2>2, <2>4 DEF QueuePersistCursor
  <2>7. Len(q) = Len(pg.saves) + 1 /\ q[Len(pg.saves) + 1] = e /\ \A i \in 1..Len(pg.saves) : q[i] = pg.saves[i]
    BY <2>5, AppendProperties
  <2>8. e[1] = IdOf[d] /\ e[2] = v
    OBVIOUS
  <2> HIDE DEF e, q
  <2>9. p \in PgType /\ p.saves = q
    BY <1>0, <2>5 DEF PgType
  <2> HIDE DEF p
  <2>10. pg'.saves = q /\ ppc' \in {"apply", "save"}
    BY <2>6, <2>9, NextApplyFacts
  <2>11. SavesSafe'
    <3>0. PICK S : S = pg'.saves /\ S = q
      BY <2>10
    <3> SUFFICES ASSUME NEW i \in 1..Len(S), NEW c \in Plains, IdOf[c] = S[i][1]
                 PROVE  SafeUpTo(c, S[i][2])'
      BY <3>0 DEF SavesSafe
    <3>1. SafeUpTo(c, S[i][2])
      <4>1. CASE i \in 1..Len(pg.saves)
        BY <1>0, <2>7, <3>0, <4>1 DEF SavesSafe
      <4>2. CASE i = Len(pg.saves) + 1
        <5>1. c = d
          BY <2>3, <2>7, <2>8, <3>0, <4>2 DEF Dependable, NobodyJoins, Plains
        <5> QED BY <2>4, <2>7, <2>8, <3>0, <4>2, <5>1
      <4>3. Len(S) = Len(pg.saves) + 1
        BY <2>7, <3>0
      <4>4. i \in 1..Len(pg.saves) \/ i = Len(pg.saves) + 1
        BY <2>5, <4>3
      <4> QED BY <4>1, <4>2, <4>4
    <3> QED BY <2>1, <3>1 DEF SafeUpTo, Settled
  <2> QED BY <2>10, <2>11 DEF CapInHand
<1>5. CASE Others
  <2>1. /\ ppc' = ppc /\ pg' = pg /\ (ppc = "cap" => removed' = removed)
        /\ Prolongs(consumers', consumers)
    BY <1>5, OthersLeavePg
  <2>2. SavesSafe'
    BY <1>0, <2>1, SavesTaken
  <2>3. CapInHand'
    <3> SUFFICES ASSUME ppc = "cap" PROVE At(pg.i)' = At(pg.i)
      BY <1>0, <2>1 DEF CapInHand
    <3>1. pg.i \in 1..pg.n /\ pg.n <= Len(consumers) /\ Len(consumers) \in Nat /\ pg.n \in Nat
      BY <1>0, Lengths, PgFields DEF RouterInv, Place, Looping, Dispatching
    <3>2. pg.i \in 1..Len(consumers)
      BY <3>1
    <3> QED BY <2>1, <3>2 DEF At, Prolongs
  <2> QED BY <2>2, <2>3
<1> QED BY <1>1, <1>2, <1>3, <1>4, <1>5, Actors

\* Nothing that the others do takes an event from a consumer, or blocks a key.
LEMMA OthersKeep ==
    ASSUME NobodyJoins, Dependable, RouterInv, Keeping, Others
    PROVE  /\ \A c \in Plains, s \in 1..Len(log) : Reached(c, s) => Reached(c, s)'
           /\ \A id \in ConsumerID, k \in Key : blocked[id][k] = <<>> => blocked'[id][k] = <<>>
<1>0. RP!Inv /\ OwnTarget /\ log \in Seq(Key) /\ \A c \in Plains : c \in Started \ Batchers
  BY DEF RouterInv, RouterTypes, NobodyJoins, Plains
<1>1. CASE RetrySide
  <2>1. /\ SchedulerStep /\ UNCHANGED <<log, flushed>>
        /\ acked \subseteq acked' /\ dlq \subseteq dlq' /\ dropped \subseteq dropped'
        /\ \A id \in ConsumerID, k \in Key : blocked[id][k] = <<>> => blocked'[id][k] = <<>>
    BY <1>0, <1>1, RetryIsScheduler
  <2>2. ASSUME NEW c \in Plains, NEW s \in 1..Len(log), Reached(c, s) PROVE Reached(c, s)'
    <3>1. c \in Started \ Batchers
      BY <1>0
    <3> QED BY <1>0, <2>1, <2>2, <3>1, ReachedStays
  <2> QED BY <2>1, <2>2
<1>2. CASE ~RetrySide
  <2>1. UNCHANGED <<blocked, flushed>>
    BY <1>2 DEF Others, AppendEvent, Register, Close, Unregister, FlushCursorStore, rvars,
       retryVars, sinkVars
  <2>2. ASSUME NEW c \in Plains, NEW s \in 1..Len(log), Reached(c, s) PROVE Reached(c, s)'
    BY <2>1, <2>2, ReachedIdle DEF Keeping
  <2> QED BY <2>1, <2>2
<1> QED BY <1>1, <1>2

\* The snapshot says that the key of the event at hand is free.
LEMMA MayDeliverTaken ==
    ASSUME NobodyJoins, Dependable, RouterInv, crashes = 0, SnapshotConsumers, NEW c \in Plains
    PROVE  MayDeliver(c)'
<1>0. /\ UNCHANGED <<blocked, acked, dlq, dropped, log, flushed, buffered, crashes>>
      /\ ppc = "snap" /\ ppc' = "deliver" /\ InWindow /\ pg'.seq = pg.seq
      /\ c \in Conn /\ c \in Started /\ c \notin Batchers
  BY GoroutineMoves DEF SnapshotConsumers, retryVars, sinkVars, InWindow, Plains, NobodyJoins
<1>1. /\ pg'.snap[c].on => Live(c)
      /\ Live(c) => pg'.snap[c].blocked = RS!IsBlocked(IdOf[c], log[pg.seq])
  <2> DEFINE S == [d \in Conn |->
                    IF Live(d)
                    THEN [on |-> TRUE, blocked |-> RS!IsBlocked(IdOf[d], log[pg.seq]),
                          cursor |-> cursor[d], skipped |-> pg.seq \in skipped[d]]
                    ELSE NoSnap]
  <2>1. S[c].on => Live(c)
    BY <1>0 DEF NoSnap
  <2>2. Live(c) => S[c].blocked = RS!IsBlocked(IdOf[c], log[pg.seq])
    BY <1>0
  <2>3. pg' = [pg EXCEPT !.snap = S, !.n = Len(consumers), !.i = 1]
    BY DEF SnapshotConsumers
  <2> HIDE DEF S
  <2>4. pg'.snap = S
    BY <2>3 DEF RouterInv, RouterTypes, PgType
  <2> QED BY <2>1, <2>2, <2>4
<1> SUFFICES ASSUME pg'.snap[c].on
             PROVE  /\ \A t \in 1..(pg.seq - 1) : Reached(c, t)'
                    /\ pg'.snap[c].blocked \/ blocked[IdOf[c]][log[pg.seq]] = <<>>
  BY <1>0 DEF MayDeliver
<1>2. Live(c) /\ Window(c)
  BY <1>0, <1>1 DEF Live, RouterInv, ConsumerOK
<1>3. \A t \in 1..(pg.seq - 1) : Reached(c, t)'
  BY <1>0, <1>2, HasIdle DEF Window, Has
<1>4. pg'.snap[c].blocked \/ blocked[IdOf[c]][log[pg.seq]] = <<>>
  BY <1>1, <1>2 DEF RS!IsBlocked
<1> QED BY <1>3, <1>4

\* What phase 2 may deliver, it may still deliver after a step of anybody.
LEMMA MayDeliverStays ==
    ASSUME NobodyJoins, Dependable, RouterInv, crashes = 0, crashes' = 0, [Next]_rvars, OrderInv,
           NEW c \in Plains
    PROVE  MayDeliver(c)'
<1>0. Keeping /\ MayDeliver(c) /\ IdOf[c] \in ConsumerID
  BY KeepsSettled, Constants DEF OrderInv, Plains
<1>1. CASE SnapshotConsumers
  BY <1>1, MayDeliverTaken
<1>2. CASE Deliver \/ Others
  <2>1. /\ pg'.seq = pg.seq /\ pg'.snap = pg.snap /\ (ppc' = "deliver" => ppc = "deliver")
    BY <1>2, GoroutineMoves, OthersLeavePg
  <2>2. /\ \A s \in 1..Len(log) : Reached(c, s) => Reached(c, s)'
        /\ \A id \in ConsumerID, k \in Key : blocked[id][k] = <<>> => blocked'[id][k] = <<>>
    <3>1. CASE Others
      BY <1>0, <3>1, OthersKeep
    <3>2. CASE Deliver
      <4>1. UNCHANGED <<blocked, flushed>>
        BY <3>2 DEF Deliver, DeliverAccepted, DeliverRefused, DeliverNotWanted, retryVars, sinkVars
      <4> QED BY <1>0, <4>1, ReachedIdle DEF Keeping
    <3> QED BY <1>2, <3>1, <3>2
  <2> SUFFICES ASSUME ppc = "deliver", pg.snap[c].on
               PROVE  /\ \A t \in 1..(pg.seq - 1) : Reached(c, t)'
                      /\ pg.snap[c].blocked \/ blocked'[IdOf[c]][log'[pg.seq]] = <<>>
    BY <2>1 DEF MayDeliver
  <2>3. PICK q \in 1..Len(log) : q = pg.seq /\ log[q] \in Key
    BY EventAtHand DEF InWindow
  <2>4. /\ \A t \in 1..(q - 1) : Reached(c, t)
        /\ pg.snap[c].blocked \/ blocked[IdOf[c]][log[q]] = <<>>
    BY <1>0, <2>3 DEF MayDeliver
  <2>5. log'[q] = log[q] /\ Len(log) \in Nat
    BY <1>0, <2>3 DEF Keeping, Prolongs
  <2>6. \A t \in 1..(q - 1) : t \in 1..Len(log)
    BY <2>3, <2>5
  <2>7. \A t \in 1..(q - 1) : Reached(c, t)'
    BY <2>2, <2>4, <2>6
  <2>8. pg.snap[c].blocked \/ blocked'[IdOf[c]][log'[q]] = <<>>
    BY <1>0, <2>2, <2>3, <2>4, <2>5
  <2> QED BY <2>3, <2>7, <2>8
<1>3. CASE ReadPartition \/ CallFlushBatch \/ SettleFlush
  <2>1. ppc' # "deliver"
    BY <1>3, GoroutineMoves
  <2> QED BY <2>1 DEF MayDeliver
<1>4. CASE ApplyDispatchCursors
  <2>1. ppc' # "deliver"
    BY <1>4, ApplyGoes
  <2> QED BY <2>1 DEF MayDeliver
<1>5. CASE SaveCursors \/ QueuePersistCursor
  <2>1. ppc' # "deliver"
    BY <1>5 DEF SaveCursors, QueuePersistCursor, NextApply, NextConsumer
  <2> QED BY <2>1 DEF MayDeliver
<1> QED BY <1>1, <1>2, <1>3, <1>4, <1>5, Actors

\* The order invariant is inductive while the process lives.
LEMMA OrderStays ==
    ASSUME NobodyJoins, Dependable, RouterInv, crashes = 0, crashes' = 0, [Next]_rvars, OrderInv
    PROVE  OrderInv'
<1>1. Logged' /\ \A c \in Plains : QueuedInOrder(c)'
  BY QueuesStay DEF OrderInv
<1>2. CapInHand' /\ SavesSafe'
  BY SavesStay
<1>3. \A c \in Plains : MayDeliver(c)'
  BY MayDeliverStays
<1> QED BY <1>1, <1>2, <1>3 DEF OrderInv

LEMMA OrderInit == Init => OrderInv
<1> SUFFICES ASSUME Init PROVE OrderInv
  OBVIOUS
<1>1. \A id \in ConsumerID, k \in Key : Len(blocked[id][k]) = 0
  BY DEF Init, NoQueues
<1>2. Logged
  BY <1>1 DEF Init, Logged
<1>3. CapInHand /\ SavesSafe
  BY DEF Init, IdlePg, CapInHand, SavesSafe
<1>4. \A c \in Plains : QueuedInOrder(c) /\ MayDeliver(c)
  <2>1. \A c \in Plains : IdOf[c] \in ConsumerID
    BY Constants DEF Plains
  <2> QED BY <1>1, <2>1 DEF Init, QueuedInOrder, MayDeliver
<1> QED BY <1>2, <1>3, <1>4 DEF OrderInv

\* In one life of a process the queues are in order and the saves are safe.
LEMMA OrderHolds ==
    NobodyJoins /\ Dependable /\ MaxCrashes = 0 => (Spec => []OrderInv)
<1> SUFFICES ASSUME NobodyJoins, Dependable, MaxCrashes = 0 PROVE Spec => []OrderInv
  OBVIOUS
<1>1. RouterInv /\ crashes = 0 /\ (crashes = 0)' /\ OrderInv /\ [Next]_rvars => OrderInv'
  BY OrderStays
<1>2. Spec => []RouterInv /\ [](crashes = 0)
  BY RouterInvHolds, NoCrash
<1> QED BY <1>1, <1>2, OrderInit, PTL DEF Spec

-----------------------------------------------------------------------------
(* What dispatch saves.                                                    *)

\* Who saves a cursor, other than the callback of the retry goroutine.
LEMMA WhoSaves ==
    ASSUME [Next]_rvars, tpc' = tpc, crashes = 0, crashes' = 0
    PROVE  \/ saved' = saved
           \/ /\ flushed' = flushed
              /\ SaveCursors \/ SettleFlush \/ \E id \in ConsumerID : Unregister(id)
<1>1. ~HandleFloorRelease
  BY DEF HandleFloorRelease, RS!Notify
<1>2. ~Crash
  BY DEF Crash
<1> QED BY <1>1, <1>2 DEF Next, PartitionStep, ReadPartition, SnapshotConsumers, Deliver,
       DeliverAccepted, DeliverRefused, DeliverNotWanted, ApplyDispatchCursors, QueuePersistCursor,
       SaveCursors, CallFlushBatch, SettleFlush, RetryStep, RetryDeliverOK, RetryDeliverFails,
       RetryInternal, BackoffElapses, AppendEvent, Register, Close, Unregister,
       FlushCursorStore, rvars, storeVars, sinkVars

\* A cursor is saved when everything below it is settled.
LEMMA SavesSettled ==
    ASSUME NobodyJoins, Dependable, RouterInv, RouterInv', OrderInv, crashes = 0, crashes' = 0,
           [Next]_rvars, tpc' = tpc, NEW c \in Conn, NEW s \in 1..Len(log),
           saved'[IdOf[c]] # saved[IdOf[c]], s < saved'[IdOf[c]]
    PROVE  Settled(c, s)
<1>0. /\ IdOf[c] \in ConsumerID /\ c \in Started /\ RouterTypes /\ pg \in PgType /\ Len(log) \in Nat
      /\ saved \in [ConsumerID -> Nat] /\ saved'[IdOf[c]] \in Nat
  BY Constants, Lengths DEF NobodyJoins, RouterInv, RouterTypes
<1>1. /\ flushed' = flushed
      /\ SaveCursors \/ SettleFlush \/ \E id \in ConsumerID : Unregister(id)
  BY WhoSaves
<1>2. CASE c \in Batchers
  <2>1. \A t \in 1..(saved'[IdOf[c]] - 1) : t \in flushed'[c]
    BY <1>0, <1>2 DEF RouterInv, ConsumerOK, Persisted
  <2>2. s \in 1..(saved'[IdOf[c]] - 1)
    BY <1>0
  <2> QED BY <1>1, <1>2, <2>1, <2>2 DEF Settled
<1>3. CASE c \in Plains /\ SaveCursors
  <2> DEFINE h == Head(pg.saves)
  <2>1. pg.saves # <<>> /\ saved' = [saved EXCEPT ![h[1]] = h[2]]
    BY <1>3 DEF SaveCursors
  <2>2. /\ h = pg.saves[1] /\ 1 \in 1..Len(pg.saves) /\ h \in ConsumerID \X Nat
    <3>1. pg.saves \in Seq(ConsumerID \X Nat)
      BY <1>0, PgFields
    <3> QED BY <2>1, <3>1, EmptySeq, LenProperties, ElementOfSeq
  <2> HIDE DEF h
  <2>3. h[1] = IdOf[c] /\ saved'[IdOf[c]] = h[2] /\ h[2] \in Nat
    <3>1. h[1] \in ConsumerID /\ h[2] \in Nat
      BY <2>2
    <3> QED BY <1>0, <2>1, <3>1
  <2>4. SafeUpTo(c, h[2])
    BY <1>3, <2>2, <2>3 DEF OrderInv, SavesSafe
  <2>5. s \in 1..(h[2] - 1)
    BY <1>0, <2>3
  <2> QED BY <2>4, <2>5 DEF SafeUpTo
<1>4. CASE c \in Plains /\ SettleFlush
  <2>1. PICK d \in Conn : d = At(pg.i)
    BY <1>4, AtHand DEF SettleFlush, Looping
  <2>2. d \in Batchers
    BY <1>4, <2>1 DEF SettleFlush, RouterInv, Place
  <2>3. IdOf[d] # IdOf[c]
    BY <1>3, <1>4, <2>2 DEF Dependable, Plains
  <2>4. saved' = saved \/ \E v : saved' = [saved EXCEPT ![IdOf[d]] = v]
    BY <1>4, <2>1, SettleFacts
  <2> QED BY <1>0, <2>3, <2>4
<1>5. CASE \E id \in ConsumerID : Unregister(id)
  <2>1. PICK id \in ConsumerID : saved' = [saved EXCEPT ![id] = 0]
    BY <1>5 DEF Unregister
  <2>2. saved'[IdOf[c]] = 0
    BY <1>0, <2>1
  <2> QED BY <1>0, <2>2
<1> QED BY <1>1, <1>2, <1>3, <1>4, <1>5 DEF Plains

\* For any number of consumers, keys, events and any window size, in one life
\* of a process that all consumers are registered with from the start: a cursor
\* that the partition goroutine saves is never past an event that its consumer
\* has neither accepted nor been explicitly denied.  The floor is read under the
\* lock and the save runs after it, with pops and appends in between.
THEOREM SavesAreSafe ==
    NobodyJoins /\ Dependable /\ MaxCrashes = 0 => (Spec => DispatchSavesAreSafe)
<1> SUFFICES ASSUME NobodyJoins, Dependable, MaxCrashes = 0 PROVE Spec => DispatchSavesAreSafe
  OBVIOUS
<1>1. RouterInv /\ RouterInv' /\ OrderInv /\ crashes = 0 /\ (crashes = 0)' /\ [Next]_rvars
        => [SavedCursorIsSafe]_rvars
  <2> SUFFICES ASSUME RouterInv, RouterInv', OrderInv, crashes = 0, crashes' = 0, [Next]_rvars
               PROVE  SavedCursorIsSafe
    OBVIOUS
  <2>1. DOMAIN log = 1..Len(log)
    BY LenProperties DEF RouterInv, RouterTypes
  <2> QED BY <2>1, SavesSettled DEF SavedCursorIsSafe
<1>2. Spec => []RouterInv /\ []OrderInv /\ [](crashes = 0)
  BY RouterInvHolds, NoCrash, OrderHolds
<1> QED BY <1>1, <1>2, PTL DEF Spec, DispatchSavesAreSafe

-----------------------------------------------------------------------------
(* OrderedDelivery.                                                        *)

\* The events that each consumer has settled.
SettledBy == [c \in Conn |-> {s \in DOMAIN log : Settled(c, s)}]

\* A step that settles one event, whose predecessors of its key are settled, is
\* a step of the abstract specification.
LEMMA SettlesOne ==
    ASSUME log' = log, NEW d \in Conn, NEW s \in DOMAIN log,
           \A c \in Conn, t \in DOMAIN log : Settled(c, t)' <=> (Settled(c, t) \/ (c = d /\ t = s)),
           \A t \in 1..(s - 1) : log[t] = log[s] => t \in SettledBy[d]
    PROVE  OD!Next \/ UNCHANGED OD!vars
<1>1. SettledBy' = [SettledBy EXCEPT ![d] = @ \cup {s}]
  <2>1. \A c \in Conn : SettledBy'[c] = {t \in DOMAIN log : Settled(c, t)'}
    BY DEF SettledBy
  <2>2. \A c \in Conn : SettledBy'[c] = IF c = d THEN SettledBy[c] \cup {s} ELSE SettledBy[c]
    BY <2>1 DEF SettledBy
  <2> QED BY <2>2 DEF SettledBy
<1>2. CASE s \in SettledBy[d]
  <2>1. SettledBy' = SettledBy
    BY <1>1, <1>2 DEF SettledBy
  <2> QED BY <2>1 DEF OD!vars, SettledBy
<1>3. CASE s \notin SettledBy[d]
  <2>1. OD!MayOvertake(d, s)
    BY DEF OD!MayOvertake, SettledBy
  <2>2. OD!Settle(d, s)
    BY <1>1, <1>3, <2>1 DEF OD!Settle, SettledBy
  <2> QED BY <2>2 DEF OD!Next
<1> QED BY <1>2, <1>3

\* A step that settles nothing.
LEMMA SettlesNothing ==
    ASSUME Batchers = {}, Logged, log \in Seq(Key), UNCHANGED <<acked, dlq, dropped>>,
           log' = log \/ \E k \in Key : log' = Append(log, k)
    PROVE  OD!Next \/ UNCHANGED OD!vars
<1>1. CASE log' = log
  <2>1. SettledBy' = SettledBy
    BY <1>1 DEF SettledBy, Settled
  <2> QED BY <1>1, <2>1 DEF OD!vars, SettledBy
<1>2. CASE \E k \in Key : log' = Append(log, k)
  <2>1. PICK k \in Key : log' = Append(log, k)
    BY <1>2
  <2>2. /\ Len(log) \in Nat /\ DOMAIN log = 1..Len(log) /\ DOMAIN log' = 1..(Len(log) + 1)
        /\ \A t \in 1..Len(log) : log'[t] = log[t]
    BY <2>1, AppendProperties, LenProperties
  <2>3. ASSUME NEW c \in Conn, NEW t \in 1..(Len(log) + 1)
        PROVE  Settled(c, t)' <=> t \in 1..Len(log) /\ Settled(c, t)
    <3>1. CASE t \in 1..Len(log)
      BY <2>2, <3>1 DEF Settled
    <3>2. CASE t = Len(log) + 1
      <4>1. t \notin 1..Len(log)
        BY <2>2, <3>2
      <4>2. \A a, b : <<a, b, t>> \notin acked \cup dlq \cup dropped
        BY <4>1 DEF Logged
      <4> QED BY <4>1, <4>2 DEF Settled
    <3> QED BY <2>2, <3>1, <3>2
  <2>4. SettledBy' = SettledBy
    <3>1. \A c \in Conn : {t \in DOMAIN log' : Settled(c, t)'} = {t \in DOMAIN log : Settled(c, t)}
      BY <2>2, <2>3
    <3> QED BY <3>1 DEF SettledBy
  <2>5. OD!AppendEvent(k)
    BY <2>1, <2>4 DEF OD!AppendEvent, SettledBy
  <2> QED BY <2>5 DEF OD!Next
<1> QED BY <1>1, <1>2

\* One new triple settles one event of one consumer.
LEMMA SettledOnce ==
    ASSUME NobodyJoins, Dependable, Batchers = {}, log' = log, NEW d \in Conn, NEW s \in 1..Len(log),
           \/ acked' = acked \cup {<<d, log[s], s>>} /\ UNCHANGED <<dlq, dropped>>
           \/ dlq' = dlq \cup {<<IdOf[d], log[s], s>>} /\ UNCHANGED <<acked, dropped>>
           \/ dropped' = dropped \cup {<<IdOf[d], log[s], s>>} /\ UNCHANGED <<acked, dlq>>,
           NEW c \in Conn, NEW t \in 1..Len(log)
    PROVE  Settled(c, t)' <=> (Settled(c, t) \/ (c = d /\ t = s))
<1>1. IdOf[c] = IdOf[d] => c = d
  BY DEF Dependable, NobodyJoins
<1>2. CASE acked' = acked \cup {<<d, log[s], s>>} /\ UNCHANGED <<dlq, dropped>>
  BY <1>2 DEF Settled
<1>3. CASE dlq' = dlq \cup {<<IdOf[d], log[s], s>>} /\ UNCHANGED <<acked, dropped>>
  BY <1>1, <1>3 DEF Settled
<1>4. CASE dropped' = dropped \cup {<<IdOf[d], log[s], s>>} /\ UNCHANGED <<acked, dlq>>
  BY <1>1, <1>4 DEF Settled
<1> QED BY <1>2, <1>3, <1>4

\* Phase 2 delivers the next event of its key.
LEMMA DeliversInTurn ==
    ASSUME NobodyJoins, Dependable, Batchers = {}, RouterInv, crashes = 0, OrderInv, Delivers
    PROVE  OD!Next \/ UNCHANGED OD!vars
<1>1. PICK d \in Conn : d = At(pg.i)
  BY AtHand DEF Delivers, Looping, Dispatching
<1>2. PICK s : s = pg.seq
  OBVIOUS
<1>3. s \in 1..Len(log) /\ log[s] \in Key /\ DOMAIN log = 1..Len(log) /\ Len(log) \in Nat
  BY <1>2, EventAtHand, LenProperties DEF Delivers, InWindow, RouterInv, RouterTypes
<1>4. /\ \A t \in 1..(s - 1) : Reached(d, t)
      /\ blocked[IdOf[d]][log[s]] = <<>>
  BY <1>1, <1>2 DEF OrderInv, MayDeliver, Delivers, Wanted, Plains
<1>5. ASSUME NEW t \in 1..(s - 1), log[t] = log[s] PROVE t \in SettledBy[d]
  <2>1. t \in DOMAIN log
    BY <1>3
  <2>2. ~ Queued(d, t)
    BY <1>4, <1>5 DEF Queued
  <2> QED BY <1>4, <2>1, <2>2 DEF Reached, SettledBy
<1>6. acked' = acked \cup {<<d, log[s], s>>} /\ UNCHANGED <<dlq, dropped>> /\ log' = log
  BY <1>1, <1>2 DEF Delivers
<1>7. \A c \in Conn, t \in DOMAIN log : Settled(c, t)' <=> (Settled(c, t) \/ (c = d /\ t = s))
  BY <1>3, <1>6, SettledOnce
<1> QED BY <1>3, <1>5, <1>6, <1>7, SettlesOne

\* The retry goroutine settles the first unsettled event of a key.
LEMMA RetiresInTurn ==
    ASSUME NobodyJoins, Dependable, Batchers = {}, RouterInv, OrderInv, Retires
    PROVE  OD!Next \/ UNCHANGED OD!vars
<1>0. RP!Inv /\ OwnTarget /\ Logged /\ log \in Seq(Key)
  BY DEF RouterInv, RouterTypes, OrderInv
<1>1. cur[1] \in ConsumerID /\ cur[2] \in Key /\ blocked[cur[1]][cur[2]] # <<>>
  BY Constants DEF Retires, RP!PopsSettled, RP!CurQueue
<1>2. PICK d \in Conn : d = target[cur[1]] /\ IdOf[d] = cur[1]
  <2>1. target[cur[1]] \in Conn
    BY <1>0, <1>1 DEF RP!Inv, RP!BlockedHasTarget
  <2> QED BY <1>0, <1>1, <2>1 DEF OwnTarget
<1>3. 1 \in 1..Len(blocked[cur[1]][cur[2]]) /\ HeadSeq = blocked[cur[1]][cur[2]][1].seq
  <2>1. blocked[cur[1]][cur[2]] \in Seq(RP!RetryRecord)
    BY <1>0, <1>1, QueueIsSeq
  <2>2. Len(blocked[cur[1]][cur[2]]) \in Nat \ {0}
    BY <1>1, <2>1, EmptySeq, LenProperties
  <2> QED BY <1>1, <2>1, <2>2, HeadTailProperties DEF HeadSeq, RP!CurQueue
<1>4. PICK s : s = HeadSeq
  OBVIOUS
<1>5. s \in 1..Len(log) /\ log[s] = cur[2] /\ DOMAIN log = 1..Len(log) /\ Len(log) \in Nat
  BY <1>0, <1>1, <1>3, <1>4, LenProperties DEF Logged
<1>6. ASSUME NEW t \in 1..(s - 1), log[t] = log[s] PROVE t \in SettledBy[d]
  <2>1. t \in DOMAIN log
    BY <1>5
  <2>2. QueuedInOrder(d)
    BY DEF OrderInv, Plains
  <2>3. Settled(d, t)
    <3>1. log[t] = cur[2] /\ blocked[IdOf[d]][cur[2]][1].seq = s
      BY <1>2, <1>3, <1>4, <1>5, <1>6
    <3>2. 1 \in 1..Len(blocked[IdOf[d]][cur[2]]) /\ t \in 1..(blocked[IdOf[d]][cur[2]][1].seq - 1)
      BY <1>2, <1>3, <3>1
    <3>3. Settled(d, t) \/ \E j \in 1..(1 - 1) : blocked[IdOf[d]][cur[2]][j].seq = t
      BY <1>1, <2>2, <3>1, <3>2 DEF QueuedInOrder
    <3> QED BY <3>3
  <2> QED BY <2>1, <2>3 DEF SettledBy
<1>7. /\ log' = log
      /\ \/ acked' = acked \cup {<<d, log[s], s>>} /\ UNCHANGED <<dlq, dropped>>
         \/ dlq' = dlq \cup {<<IdOf[d], log[s], s>>} /\ UNCHANGED <<acked, dropped>>
         \/ dropped' = dropped \cup {<<IdOf[d], log[s], s>>} /\ UNCHANGED <<acked, dlq>>
  BY <1>2, <1>4, <1>5 DEF Retires
<1>8. \A c \in Conn, t \in DOMAIN log : Settled(c, t)' <=> (Settled(c, t) \/ (c = d /\ t = s))
  BY <1>5, <1>7, SettledOnce
<1> QED BY <1>5, <1>6, <1>7, <1>8, SettlesOne

\* For any number of consumers, keys and events, with every failure of Deliver,
\* any order of the two goroutines and any closing or unregistering: in one
\* life of a process whose consumers are registered from the start and do not
\* batch, the router implements OrderedDelivery: no event of a key is settled
\* before an earlier one of that key, and none is unsettled again.
THEOREM RouterImplements ==
    NobodyJoins /\ Dependable /\ Batchers = {} /\ MaxCrashes = 0
        => (Spec => ImplementsOrderedDelivery)
<1> SUFFICES ASSUME NobodyJoins, Dependable, Batchers = {}, MaxCrashes = 0
             PROVE  Spec => ImplementsOrderedDelivery
  OBVIOUS
<1>1. Init => OD!Init
  <2> SUFFICES ASSUME Init PROVE OD!Init
    OBVIOUS
  <2>1. log = <<>> /\ DOMAIN log = {}
    BY DEF Init
  <2> QED BY <2>1 DEF OD!Init
<1>2. RouterInv /\ OrderInv /\ crashes = 0 /\ (crashes = 0)' /\ [Next]_rvars
        => [OD!Next]_(OD!vars)
  <2> SUFFICES ASSUME RouterInv, OrderInv, crashes = 0, crashes' = 0, [Next]_rvars
               PROVE  OD!Next \/ UNCHANGED OD!vars
    OBVIOUS
  <2>1. CASE Quiet \/ Enqueues
    <3>1. Logged /\ log \in Seq(Key)
      BY DEF OrderInv, RouterInv, RouterTypes
    <3>2. /\ UNCHANGED <<acked, dlq, dropped>>
          /\ log' = log \/ \E k \in Key : log' = Append(log, k)
      BY <2>1 DEF Quiet, Enqueues
    <3> QED BY <3>1, <3>2, SettlesNothing
  <2>2. CASE Delivers
    BY <2>2, DeliversInTurn
  <2>3. CASE Retires
    BY <2>3, RetiresInTurn
  <2> QED BY <2>1, <2>2, <2>3, Kinds
<1>3. Spec => []RouterInv /\ []OrderInv /\ [](crashes = 0)
  BY RouterInvHolds, NoCrash, OrderHolds
<1> QED BY <1>1, <1>2, <1>3, PTL DEF Spec, ImplementsOrderedDelivery, OD!Spec

-----------------------------------------------------------------------------
(* Once: what a healthy consumer is given.                                 *)

Healthy == Conn \ (Flaky \cup Batchers)

\* No two consumers share an id, and none is listed twice at start-up.
OwnIds   == \A c, d \in Conn : IdOf[c] = IdOf[d] => c = d
BootOnce == \A i, j \in 1..Len(Boot) : Boot[i] = Boot[j] => i = j

\* Phase 3 has done with c.
Served(c) == IF ppc = "cap" THEN Among(c, pg.i) ELSE Among(c, pg.i - 1)

\* Phase 2 has delivered the event at hand to c, and phase 3 is still to come.
OnItsWay(c) ==
    /\ Dispatching /\ Wanted(c) /\ c \notin pg.err
    /\ ppc # "deliver" => ~Served(c)

\* What c took is below its cursor, or about to be.
CursorFollows(c) ==
    \A e \in acked : e[1] = c =>
        e[3] < cursor[c] \/ c \in removed \/ (OnItsWay(c) /\ e[3] = pg.seq)

\* Before its turn, c has neither taken nor refused the event at hand.
NotYet(c) ==
    ppc = "deliver" /\ pg.snap[c].on /\ ~Among(c, pg.i - 1) =>
        /\ c \notin pg.err
        /\ pg.seq >= pg.snap[c].cursor => \A e \in acked : e[1] = c => e[3] # pg.seq

\* Only a closed connection has refused anything.
OnlyClosedRefuse(c) ==
    c \notin closed => /\ c \notin pg.err /\ \A k \in Key : blocked[IdOf[c]][k] = <<>>
                       /\ Dispatching => ~pg.snap[c].blocked

\* Nobody but a registered consumer is given anything.
OnlyRegistered(c) ==
    /\ Dispatching /\ pg.snap[c].on => Among(c, pg.n)
    /\ ~Among(c, Len(consumers)) => \A e \in acked : e[1] # c

Distinct == \A i, j \in 1..Len(consumers) : consumers[i] = consumers[j] => i = j

Once(c) == CursorFollows(c) /\ NotYet(c) /\ OnlyClosedRefuse(c) /\ OnlyRegistered(c)

OnceInv ==
    /\ Distinct /\ (ppc \in {"snap", "save"} => pg.err = {})
    /\ \A c \in Healthy : Once(c)

\* Types.
LEMMA OnceTypes ==
    ASSUME RouterInv
    PROVE  /\ \A e \in acked : e[1] \in Conn /\ e[3] \in Nat
           /\ cursor \in [Conn -> Nat] /\ pg \in PgType /\ Len(consumers) \in Nat
           /\ pg.i \in Nat /\ pg.n \in Nat /\ pg.seq \in Nat
           /\ Looping => pg.i \in 1..pg.n /\ pg.n <= Len(consumers)
           /\ RP!Inv /\ OwnTarget
<1>1. \A e \in acked : e[1] \in Conn /\ e[3] \in Nat
  BY DEF RouterInv, RP!Inv, RP!TypeOK, RP!SeqNo
<1>2. cursor \in [Conn -> Nat] /\ pg \in PgType /\ Len(consumers) \in Nat
  BY Lengths DEF RouterInv, RouterTypes
<1> QED BY <1>1, <1>2, PgFields DEF RouterInv, Place

\* The partition goroutine away from dispatch.
LEMMA OnceAway ==
    ASSUME RouterInv, OnceInv, ~Dispatching, ~Dispatching',
           UNCHANGED <<acked, blocked, consumers, removed, closed>>, pg'.err = {} \/ pg'.err = pg.err,
           ppc' \in {"snap", "save"} => pg'.err = {},
           \A c \in Healthy : cursor'[c] = cursor[c]
    PROVE  OnceInv'
<1>1. ASSUME NEW c \in Healthy PROVE Once(c)'
  <2>1. Once(c) /\ cursor'[c] = cursor[c]
    BY DEF OnceInv
  <2>2. CursorFollows(c)'
    BY <2>1 DEF Once, CursorFollows, OnItsWay
  <2>3. NotYet(c)'
    BY DEF NotYet, Dispatching
  <2>4. OnlyClosedRefuse(c)' /\ OnlyRegistered(c)'
    BY <2>1 DEF Once, OnlyClosedRefuse, OnlyRegistered, Among
  <2> QED BY <2>2, <2>3, <2>4 DEF Once
<1> QED BY <1>1 DEF OnceInv, Distinct

\* Phase 1.
LEMMA OnceSnapped ==
    ASSUME RouterInv, OnceInv, SnapshotConsumers
    PROVE  OnceInv'
<1>0. /\ ppc = "snap" /\ ppc' = "deliver" /\ ~Dispatching
      /\ UNCHANGED <<acked, blocked, consumers, removed, closed, cursor>>
  BY DEF SnapshotConsumers, retryVars, consVars, memVars, Dispatching
<1>1. /\ pg'.err = pg.err /\ pg'.n = Len(consumers) /\ pg'.i = 1 /\ pg'.seq = pg.seq
      /\ \A c \in Conn : IF Live(c)
            THEN /\ pg'.snap[c].blocked = RS!IsBlocked(IdOf[c], log[pg.seq])
                 /\ pg'.snap[c].cursor = cursor[c]
            ELSE pg'.snap[c] = NoSnap
  BY OnceTypes DEF SnapshotConsumers, PgType
<1>2. ASSUME NEW c \in Healthy PROVE Once(c)'
  <2>0. Once(c) /\ c \in Conn /\ pg.err = {} /\ log[pg.seq] \in Key
    BY <1>0, EventAtHand DEF OnceInv, Healthy, InWindow
  <2>1. \A e \in acked : e[1] = c => e[3] < cursor[c] \/ c \in removed
    BY <1>0, <2>0 DEF Once, CursorFollows, OnItsWay
  <2>2. CursorFollows(c)'
    BY <1>0, <2>1 DEF CursorFollows
  <2>3. NotYet(c)'
    <3>1. CASE Live(c)
      <4>1. c \notin removed /\ pg'.snap[c].cursor = cursor[c]
        BY <1>1, <2>0, <3>1 DEF Live
      <4>2. \A e \in acked : e[1] = c => e[3] < cursor[c] /\ e[3] \in Nat
        BY <2>1, <4>1, OnceTypes
      <4>3. cursor[c] \in Nat /\ pg.seq \in Nat
        BY <2>0, OnceTypes
      <4>4. pg.seq >= cursor[c] => \A e \in acked : e[1] = c => e[3] # pg.seq
        BY <4>2, <4>3
      <4> QED BY <1>0, <1>1, <2>0, <4>1, <4>4 DEF NotYet
    <3>2. CASE ~Live(c)
      BY <1>0, <1>1, <2>0, <3>2 DEF NotYet, NoSnap
    <3> QED BY <3>1, <3>2
  <2>4. OnlyClosedRefuse(c)'
    <3>1. CASE Live(c)
      BY <1>0, <1>1, <2>0, <3>1 DEF Once, OnlyClosedRefuse, RS!IsBlocked
    <3>2. CASE ~Live(c)
      BY <1>0, <1>1, <2>0, <3>2 DEF Once, OnlyClosedRefuse, NoSnap
    <3> QED BY <3>1, <3>2
  <2>5. OnlyRegistered(c)'
    <3>1. pg'.snap[c].on => Among(c, Len(consumers))
      <4>1. CASE Live(c)
        <5>1. PICK j \in DOMAIN consumers : consumers[j] = c
          BY <4>1 DEF Live, Range
        <5>2. DOMAIN consumers = 1..Len(consumers)
          BY LenProperties DEF RouterInv, RouterTypes
        <5> QED BY <5>1, <5>2 DEF Among
      <4>2. CASE ~Live(c)
        BY <1>1, <2>0, <4>2 DEF NoSnap
      <4> QED BY <4>1, <4>2
    <3> QED BY <1>0, <1>1, <2>0, <3>1 DEF Once, OnlyRegistered, Among
  <2> QED BY <2>2, <2>3, <2>4, <2>5 DEF Once
<1> QED BY <1>0, <1>2 DEF OnceInv, Distinct

\* Where phase 2 goes after the consumer at hand.
Advances(E) ==
    /\ pg'.seq = pg.seq /\ pg'.n = pg.n /\ pg'.snap = pg.snap /\ pg'.err = E
    /\ \/ pg.i < pg.n /\ ppc' = "deliver" /\ pg'.i = pg.i + 1
       \/ ~(pg.i < pg.n) /\ ppc' = "apply" /\ pg'.i = 1

LEMMA DeliverAdvances ==
    ASSUME RouterInv, Deliver
    PROVE  /\ ppc = "deliver" /\ UNCHANGED <<blocked, consumers, removed, closed, cursor>>
           /\ \/ /\ Wanted(At(pg.i)) /\ At(pg.i) \notin closed /\ Advances(pg.err)
                 /\ acked' = acked \cup {<<At(pg.i), log[pg.seq], pg.seq>>}
              \/ /\ At(pg.i) \in Flaky \cup closed /\ acked' = acked
                 /\ Advances(pg.err \cup {At(pg.i)})
              \/ Advances(pg.err) /\ acked' = acked
<1>0. pg \in PgType
  BY OnceTypes
<1>1. ppc = "deliver" /\ UNCHANGED <<blocked, consumers, removed, closed, cursor>>
  BY DEF Deliver, DeliverAccepted, DeliverRefused, DeliverNotWanted, retryVars, consVars, memVars
<1>2. NextConsumer("deliver", "apply", pg) => Advances(pg.err)
  BY <1>0, NextConsumerFacts DEF Advances
<1>3. CASE DeliverAccepted
  BY <1>1, <1>2, <1>3 DEF DeliverAccepted, Accept
<1>4. CASE DeliverRefused
  <2> DEFINE p == [pg EXCEPT !.err = @ \cup {At(pg.i)}]
  <2>1. At(pg.i) \in Conn
    BY <1>1, AtHand DEF Looping, Dispatching
  <2>2. p \in PgType /\ p.seq = pg.seq /\ p.n = pg.n /\ p.snap = pg.snap /\ p.i = pg.i
        /\ p.err = pg.err \cup {At(pg.i)}
    BY <1>0, <2>1 DEF PgType
  <2>3. NextConsumer("deliver", "apply", p) /\ At(pg.i) \in Flaky \cup closed /\ acked' = acked
    BY <1>4 DEF DeliverRefused, retryVars
  <2> HIDE DEF p
  <2> QED BY <1>1, <2>2, <2>3, NextConsumerFacts DEF Advances
<1>5. CASE DeliverNotWanted
  BY <1>1, <1>2, <1>5 DEF DeliverNotWanted, retryVars
<1> QED BY <1>3, <1>4, <1>5 DEF Deliver

\* A consumer's turn comes once.
LEMMA OneTurn ==
    ASSUME RouterInv, Distinct, Dispatching
    PROVE  ~Among(At(pg.i), pg.i - 1)
<1>1. pg.i \in 1..pg.n /\ pg.n <= Len(consumers) /\ pg.n \in Nat /\ Len(consumers) \in Nat
  BY OnceTypes DEF Looping
<1> QED BY <1>1 DEF Distinct, Among, At

\* Phase 2.
LEMMA OnceDelivered ==
    ASSUME RouterInv, OnceInv, Deliver
    PROVE  OnceInv'
<1>0. /\ ppc = "deliver" /\ Dispatching /\ UNCHANGED <<blocked, consumers, removed, closed, cursor>>
      /\ ppc' \in {"deliver", "apply"} /\ Dispatching'
      /\ pg'.seq = pg.seq /\ pg'.n = pg.n /\ pg'.snap = pg.snap
      /\ pg.err \subseteq pg'.err
  BY DeliverAdvances DEF Advances, Dispatching
<1>1. PICK d \in Conn : d = At(pg.i)
  BY <1>0, AtHand DEF Looping
<1>2. PICK q : q = pg.seq
  OBVIOUS
<1>3. /\ pg.i \in Nat \ {0} /\ pg.n \in Nat /\ pg.i <= pg.n /\ pg.n <= Len(consumers)
      /\ Len(consumers) \in Nat
  BY <1>0, OnceTypes DEF Looping
<1>4. \/ Wanted(d) /\ d \notin closed /\ acked' = acked \cup {<<d, log[q], q>>} /\ pg'.err = pg.err
      \/ d \in Flaky \cup closed /\ acked' = acked /\ pg'.err = pg.err \cup {d}
      \/ acked' = acked /\ pg'.err = pg.err
  BY <1>1, <1>2, DeliverAdvances DEF Advances
<1>5. \A c \in Conn : Among(c, pg.n) => Among(c, Len(consumers))
  BY <1>3 DEF Among
<1>6. ASSUME NEW c \in Healthy PROVE Once(c)'
  <2>0. Once(c) /\ c \in Conn /\ c \notin Flaky
    BY DEF OnceInv, Healthy
  <2>1. Wanted(c)' <=> Wanted(c)
    BY <1>0 DEF Wanted
  <2>2. ppc' = "deliver" => pg'.i = pg.i + 1 /\ (Among(c, pg.i - 1)' <=> Among(c, pg.i))
    <3>1. ppc' = "deliver" => pg'.i = pg.i + 1
      BY DeliverAdvances DEF Advances
    <3>2. (pg.i + 1) - 1 = pg.i
      BY <1>3
    <3>3. ppc' = "deliver" => pg'.i - 1 = pg.i
      BY <3>1, <3>2
    <3>4. Among(c, pg.i - 1)' <=> \E j \in 1..(pg'.i - 1) : consumers[j] = c
      BY <1>0 DEF Among
    <3> QED BY <3>1, <3>3, <3>4 DEF Among
  <2>3. Among(c, pg.i - 1) => Among(c, pg.i)
    BY <1>3 DEF Among
  <2>4. c = d => Among(c, pg.i) /\ ~Among(c, pg.i - 1)
    <3>1. ~Among(d, pg.i - 1)
      BY <1>0, <1>1, OneTurn DEF OnceInv
    <3>2. Among(d, pg.i)
      BY <1>1, <1>3 DEF Among, At
    <3> QED BY <3>1, <3>2
  <2>5. ppc' # "deliver" => ~Served(c)'
    <3>1. ppc' # "deliver" => ppc' = "apply" /\ pg'.i = 1
      BY DeliverAdvances DEF Advances
    <3> QED BY <3>1 DEF Served, Among
  <2>6. OnlyClosedRefuse(c)'
    <3>1. c \notin closed => c \notin pg'.err
      BY <1>4, <2>0 DEF Once, OnlyClosedRefuse
    <3> QED BY <1>0, <2>0, <3>1 DEF Once, OnlyClosedRefuse
  <2>7. OnlyRegistered(c)'
    <3>1. c = d => Among(c, Len(consumers))
      BY <1>1, <1>3 DEF Among, At
    <3>2. ~Among(c, Len(consumers)) => \A e \in acked' : e[1] # c
      BY <1>4, <2>0, <3>1 DEF Once, OnlyRegistered
    <3> QED BY <1>0, <2>0, <3>2 DEF Once, OnlyRegistered, Among
  <2>8. NotYet(c)'
    <3> SUFFICES ASSUME ppc' = "deliver", pg.snap[c].on, ~Among(c, pg.i)
                 PROVE  /\ c \notin pg'.err
                        /\ q >= pg.snap[c].cursor => \A e \in acked' : e[1] = c => e[3] # q
      BY <1>0, <1>2, <2>2 DEF NotYet
    <3>1. c # d /\ ~Among(c, pg.i - 1)
      BY <2>3, <2>4
    <3>2. /\ c \notin pg.err
          /\ q >= pg.snap[c].cursor => \A e \in acked : e[1] = c => e[3] # q
      BY <1>0, <1>2, <2>0, <3>1 DEF Once, NotYet
    <3> QED BY <1>4, <3>1, <3>2
  <2>9. CursorFollows(c)'
    <3> SUFFICES ASSUME NEW e \in acked', e[1] = c
                 PROVE  e[3] < cursor[c] \/ c \in removed \/ (OnItsWay(c)' /\ e[3] = q)
      BY <1>0, <1>2 DEF CursorFollows
    <3>1. CASE e \in acked
      <4>1. CASE e[3] < cursor[c] \/ c \in removed
        BY <4>1
      <4>2. CASE OnItsWay(c) /\ e[3] = q
        <5>1. Wanted(c) /\ c \notin pg.err
          BY <4>2 DEF OnItsWay
        <5>2. c # d
          <6>1. ASSUME c = d PROVE FALSE
            <7>1. pg.snap[c].on /\ q >= pg.snap[c].cursor
              BY <1>2, <5>1 DEF Wanted
            <7> QED BY <1>0, <1>2, <2>0, <2>4, <3>1, <4>2, <6>1, <7>1 DEF Once, NotYet
          <6> QED BY <6>1
        <5>3. c \notin pg'.err
          BY <1>4, <5>1, <5>2
        <5> QED BY <1>0, <2>1, <2>5, <4>2, <5>1, <5>3 DEF OnItsWay
      <4> QED BY <1>2, <2>0, <3>1, <4>1, <4>2 DEF Once, CursorFollows
    <3>2. CASE e \notin acked
      <4>1. c = d /\ Wanted(c) /\ e[3] = q /\ pg'.err = pg.err
        BY <1>4, <3>2
      <4>2. c \notin pg.err
        BY <1>0, <2>0, <2>4, <4>1 DEF Once, NotYet, Wanted
      <4> QED BY <1>0, <2>1, <2>5, <4>1, <4>2 DEF OnItsWay
    <3> QED BY <3>1, <3>2
  <2> QED BY <2>6, <2>7, <2>8, <2>9 DEF Once
<1> QED BY <1>0, <1>6 DEF OnceInv, Distinct

\* One step of phase 3.
LEMMA OncePasses ==
    ASSUME RouterInv, OnceInv, ppc \in {"apply", "cap"}, ppc' \in {"apply", "cap", "save"},
           UNCHANGED <<acked, consumers, removed, closed>>, pg'.seq = pg.seq,
           ppc' # "save" => pg'.n = pg.n /\ pg'.snap = pg.snap /\ pg'.err = pg.err,
           ppc' = "save" => pg'.err = {},
           \A c \in Healthy : cursor'[c] \in Nat /\ cursor'[c] >= cursor[c],
           \A c \in Healthy : OnItsWay(c) => \/ pg.seq < cursor'[c] \/ c \in removed
                                             \/ ppc' # "save" /\ ~Served(c)',
           \A c \in Healthy : c \notin closed => \A k \in Key : blocked'[IdOf[c]][k] = <<>>
    PROVE  OnceInv'
<1>0. Dispatching /\ (ppc' # "save" => Dispatching') /\ (ppc' = "save" => ~Dispatching')
  BY DEF Dispatching
<1>1. ASSUME NEW c \in Healthy PROVE Once(c)'
  <2>0. Once(c) /\ c \in Conn /\ cursor[c] \in Nat
    BY OnceTypes DEF OnceInv, Healthy
  <2>1. CursorFollows(c)'
    <3> SUFFICES ASSUME NEW e \in acked, e[1] = c
                 PROVE  e[3] < cursor'[c] \/ c \in removed \/ (OnItsWay(c)' /\ e[3] = pg.seq)
      BY DEF CursorFollows
    <3>1. CASE e[3] < cursor[c]
      <4>1. e[3] \in Nat /\ cursor'[c] \in Nat /\ cursor'[c] >= cursor[c]
        BY OnceTypes
      <4> QED BY <2>0, <3>1, <4>1
    <3>2. CASE OnItsWay(c) /\ e[3] = pg.seq
      <4>1. ppc' # "save" => (Wanted(c)' <=> Wanted(c)) /\ pg'.err = pg.err
        BY DEF Wanted
      <4> QED BY <1>0, <3>2, <4>1 DEF OnItsWay
    <3> QED BY <2>0, <3>1, <3>2 DEF Once, CursorFollows
  <2>2. NotYet(c)'
    BY DEF NotYet
  <2>3. OnlyClosedRefuse(c)'
    BY <1>0, <2>0 DEF Once, OnlyClosedRefuse
  <2>4. OnlyRegistered(c)'
    BY <1>0, <2>0 DEF Once, OnlyRegistered, Among
  <2> QED BY <2>1, <2>2, <2>3, <2>4 DEF Once
<1> QED BY <1>1 DEF OnceInv, Distinct

\* What phase 3 does for the consumer at hand.
LEMMA ApplyTurn ==
    ASSUME Dependable, RouterInv, ApplyDispatchCursors, NEW d \in Conn, d = At(pg.i),
           NEW q \in Nat, q = pg.seq
    PROVE  /\ ppc = "apply" /\ UNCHANGED <<acked, consumers, removed, closed>>
           /\ Goes(d) /\ Moved(d, q)
           /\ \/ blocked' = blocked
              \/ (pg.snap[d].blocked \/ d \in pg.err) /\ Added(d, q) /\ d \notin Batchers
           /\ \/ d \in removed \/ ~Wanted(d) \/ d \in pg.err \/ d \in Batchers
              \/ cursor' = [cursor EXCEPT ![d] = AtLeast(cursor[d], q + 1)]
<1>0. /\ ppc = "apply" /\ Dispatching /\ UNCHANGED <<acked, consumers, removed, closed>>
      /\ cursor \in [Conn -> Nat]
  BY OnceTypes DEF ApplyDispatchCursors, consVars, Dispatching
<1>4. \/ ApplyNothing(d)
      \/ /\ pg.snap[d].on /\ d \notin removed
         /\ \/ ApplyFollowOn(d) \/ ApplySkipped(d)
            \/ ApplyFailed(d) \/ ApplyDelivered(d)
  BY DEF ApplyDispatchCursors
<1>6. d \in Batchers => d \notin pg.err /\ (d \notin removed => Snapped(d))
  BY <1>0 DEF Dependable, RouterInv, Place, ConsumerOK, Window
<1>7. ASSUME NEW v \in Nat, d \notin Batchers, AdvanceCursor(d, pg.seq + 1, v), prov' = prov
      PROVE  /\ Moved(d, q) /\ Goes(d)
             /\ cursor' = [cursor EXCEPT ![d] = AtLeast(cursor[d], q + 1)]
  BY <1>7 DEF AdvanceCursor, Moved, Goes
<1>8. ASSUME NextApply(pg), cursor' = cursor, prov' = prov
      PROVE  Moved(d, q) /\ Goes(d)
  BY <1>8 DEF Moved, Goes
<1>9. CASE ApplyNothing(d)
  <2>1. NextApply(pg) /\ cursor' = cursor /\ prov' = prov /\ blocked' = blocked
    BY <1>9 DEF ApplyNothing
  <2>2. d \in removed \/ ~Wanted(d)
    <3>1. pg.snap[d].cursor \in Nat /\ pg.seq \in Nat
      BY OnceTypes, PgFields DEF SnapType
    <3> QED BY <1>9, <3>1 DEF ApplyNothing, Wanted
  <2> QED BY <1>0, <1>8, <2>1, <2>2
<1>10. CASE d \notin removed /\ ApplyFollowOn(d)
  <2>1. /\ pg.snap[d].blocked /\ Added(d, q) /\ ~Wanted(d)
        /\ AdvanceCursor(d, pg.seq + 1, pg.seq + 1) /\ prov' = prov
    BY <1>10 DEF ApplyFollowOn, Added, Wanted
  <2>2. d \notin Batchers
    BY <1>6, <1>10, <2>1, Zenon DEF Snapped
  <2>3. pg.seq + 1 \in Nat
    OBVIOUS
  <2> QED BY <1>0, <1>7, <2>1, <2>2, <2>3
<1>11. CASE d \notin removed /\ ApplySkipped(d)
  <2>1. /\ pg.snap[d].skipped /\ AdvanceCursor(d, pg.seq + 1, AtLeast(cursor[d], pg.seq + 1))
        /\ blocked' = blocked /\ prov' = prov /\ ~Wanted(d)
    BY <1>11 DEF ApplySkipped, Wanted
  <2>2. d \notin Batchers
    BY <1>6, <1>11, <2>1, Zenon DEF Snapped
  <2>3. AtLeast(cursor[d], pg.seq + 1) \in Nat
    <3>1. cursor[d] \in Nat /\ pg.seq + 1 \in Nat
      BY <1>0
    <3> QED BY <3>1, AtLeastFacts
  <2> QED BY <1>0, <1>7, <2>1, <2>2, <2>3
<1>12. CASE ApplyFailed(d)
  BY <1>0, <1>6, <1>8, <1>12 DEF ApplyFailed, Added
<1>13. CASE d \notin removed /\ ApplyDelivered(d)
  <2>1. /\ blocked' = blocked
        /\ IF d \in Batchers
           THEN /\ prov' = [prov EXCEPT ![d] = AtLeast(prov[d], pg.seq + 1)]
                /\ NextApply(pg) /\ UNCHANGED cursor
           ELSE AdvanceCursor(d, pg.seq + 1, pg.seq + 1) /\ prov' = prov
    BY <1>13 DEF ApplyDelivered
  <2>2. CASE d \in Batchers
    BY <1>0, <2>1, <2>2 DEF Moved, Goes
  <2>3. CASE d \notin Batchers
    <3>1. pg.seq + 1 \in Nat
      OBVIOUS
    <3> QED BY <1>0, <1>7, <2>1, <2>3, <3>1
  <2> QED BY <2>2, <2>3
<1> QED BY <1>4, <1>9, <1>10, <1>11, <1>12, <1>13

\* Phase 3 ends with the last consumer.
LEMMA SaveForgets ==
    ASSUME NEW p \in PgType, NextApply(p), ppc' = "save"
    PROVE  pg'.err = {}
<1>1. pg' = [IdlePg EXCEPT !.seq = p.seq, !.last = p.last, !.saves = p.saves]
  BY DEF NextApply, NextConsumer
<1> QED BY <1>1 DEF IdlePg

\* Phase 3.
LEMMA OnceApplied ==
    ASSUME Dependable, OwnIds, RouterInv, OnceInv, ApplyDispatchCursors
    PROVE  OnceInv'
<1>0. ppc = "apply" /\ Dispatching /\ Looping /\ pg \in PgType /\ cursor \in [Conn -> Nat]
  BY OnceTypes DEF ApplyDispatchCursors, Dispatching, Looping
<1>1. PICK d \in Conn : d = At(pg.i)
  BY <1>0, AtHand
<1>2. PICK q \in Nat : q = pg.seq
  BY OnceTypes
<1>3. /\ UNCHANGED <<acked, consumers, removed, closed>>
      /\ Goes(d) /\ Moved(d, q)
      /\ \/ blocked' = blocked
         \/ (pg.snap[d].blocked \/ d \in pg.err) /\ Added(d, q) /\ d \notin Batchers
      /\ \/ d \in removed \/ ~Wanted(d) \/ d \in pg.err \/ d \in Batchers
         \/ cursor' = [cursor EXCEPT ![d] = AtLeast(cursor[d], q + 1)]
  BY <1>1, <1>2, ApplyTurn
<1>4. /\ pg'.seq = pg.seq
      /\ \/ /\ ppc' = "apply" /\ pg.i < pg.n /\ pg'.i = pg.i + 1
            /\ pg'.n = pg.n /\ pg'.snap = pg.snap /\ pg'.err = pg.err
         \/ ppc' = "save" /\ ~(pg.i < pg.n)
         \/ /\ ppc' = "cap" /\ pg'.i = pg.i
            /\ pg'.n = pg.n /\ pg'.snap = pg.snap /\ pg'.err = pg.err
  BY <1>0, <1>3, GoesFacts
<1>5. ppc' = "save" => pg'.err = {}
  BY <1>0, <1>3, SaveForgets DEF Goes
<1>6. \A c \in Conn : cursor'[c] \in Nat /\ cursor'[c] >= cursor[c]
  BY <1>3, MovedFacts DEF RouterInv
<1>7. ASSUME NEW c \in Healthy, OnItsWay(c)
      PROVE  q < cursor'[c] \/ c \in removed \/ (ppc' # "save" /\ ~Served(c)')
  <2>0. c \in Conn /\ c \notin Batchers /\ Wanted(c) /\ c \notin pg.err /\ ~Among(c, pg.i - 1)
    BY <1>0, <1>7 DEF Healthy, OnItsWay, Served
  <2>1. CASE c = d
    <3>1. c \in removed \/ cursor' = [cursor EXCEPT ![d] = AtLeast(cursor[d], q + 1)]
      BY <1>3, <2>0, <2>1
    <3>2. AtLeast(cursor[d], q + 1) \in Nat /\ AtLeast(cursor[d], q + 1) >= q + 1
      BY <1>0, AtLeastFacts
    <3>3. c \in removed \/ cursor'[c] = AtLeast(cursor[d], q + 1)
      BY <1>0, <2>1, <3>1
    <3> QED BY <3>2, <3>3
  <2>2. CASE c # d
    <3>0. pg.i \in Nat \ {0} /\ pg.n \in Nat /\ pg.i <= pg.n
      BY <1>0, AtHand
    <3>1. ~Among(c, pg.i)
      BY <1>1, <2>0, <2>2, <3>0, AmongNext
    <3>2. Among(c, pg.n)
      BY <1>0, <2>0 DEF OnceInv, Once, OnlyRegistered, Wanted
    <3>3. pg.i < pg.n
      BY <3>0, <3>1, <3>2
    <3>4. ppc' # "save"
      BY <1>4, <3>3
    <3>5. \/ ppc' = "apply" /\ pg'.i - 1 = pg.i
          \/ ppc' = "cap" /\ pg'.i = pg.i
      BY <1>4, <3>0, <3>4
    <3>6. ~Served(c)'
      BY <1>3, <3>1, <3>5 DEF Served, Among
    <3> QED BY <3>4, <3>6
  <2> QED BY <2>1, <2>2
<1>8. ASSUME NEW c \in Healthy, c \notin closed, NEW k \in Key PROVE blocked'[IdOf[c]][k] = <<>>
  <2>0. /\ c \in Conn /\ blocked[IdOf[c]][k] = <<>> /\ c \notin pg.err /\ ~pg.snap[c].blocked
    BY <1>0, <1>8 DEF Healthy, OnceInv, Once, OnlyClosedRefuse
  <2>1. CASE blocked' = blocked
    BY <2>0, <2>1
  <2>2. CASE Added(d, q) /\ (pg.snap[d].blocked \/ d \in pg.err)
    <3>1. c # d
      BY <2>0, <2>2
    <3>2. IdOf[c] # IdOf[d]
      BY <2>0, <3>1 DEF OwnIds
    <3>3. IdOf[c] \in ConsumerID /\ blocked \in RP!QueueMap
      BY <2>0, Constants DEF RouterInv, RP!Inv, RP!TypeOK
    <3>4. \E r : blocked' = [blocked EXCEPT ![IdOf[d]][log[q]] = r]
      BY <2>2 DEF Added, RS!AddBlocked, RS!WithQueue
    <3> QED BY <2>0, <3>2, <3>3, <3>4 DEF RP!QueueMap
  <2> QED BY <1>3, <2>1, <2>2
<1> QED BY <1>0, <1>2, <1>3, <1>4, <1>5, <1>6, <1>7, <1>8, OncePasses DEF Healthy

\* queuePersistCursor.
LEMMA OnceCapped ==
    ASSUME RouterInv, OnceInv, QueuePersistCursor
    PROVE  OnceInv'
<1> DEFINE id == IdOf[At(pg.i)]
           v  == Capped(id, pg.persist)
           p  == [pg EXCEPT !.saves = Append(pg.saves, <<id, v>>)]
<1>0. /\ ppc = "cap" /\ Dispatching /\ Looping /\ pg \in PgType /\ NextApply(p)
      /\ UNCHANGED <<acked, blocked, consumers, removed, closed, cursor>>
  BY OnceTypes DEF QueuePersistCursor, Dispatching, Looping, retryVars, consVars, memVars
<1>1. id \in ConsumerID /\ pg.i \in Nat \ {0} /\ pg.n \in Nat /\ pg.i <= pg.n
  BY <1>0, AtHand
<1>2. v \in Nat
  <2>1. floors[id][Part] \in Nat /\ pg.persist \in Nat
    BY <1>0, <1>1, PgFields, RouterAssumption DEF RouterInv, RP!Inv, RP!TypeOK
  <2> QED BY <2>1 DEF Capped
<1> HIDE DEF id, v
<1>3. Append(pg.saves, <<id, v>>) \in Seq(ConsumerID \X Nat)
  BY <1>0, <1>1, <1>2, PgFields, AppendProperties
<1>4. /\ p \in PgType /\ p.seq = pg.seq /\ p.n = pg.n /\ p.i = pg.i
      /\ p.snap = pg.snap /\ p.err = pg.err
  <2> DEFINE q == Append(pg.saves, <<id, v>>)
  <2>1. q \in Seq(ConsumerID \X Nat) /\ p = [pg EXCEPT !.saves = q]
    BY <1>3
  <2> HIDE DEF q
  <2> QED BY <1>0, <2>1 DEF PgType
<1> HIDE DEF p
<1>5. /\ pg'.seq = pg.seq /\ (ppc' = "save" => pg'.err = {})
      /\ \/ /\ ppc' = "apply" /\ pg.i < pg.n /\ pg'.i = pg.i + 1
            /\ pg'.n = pg.n /\ pg'.snap = pg.snap /\ pg'.err = pg.err
         \/ ppc' = "save" /\ ~(pg.i < pg.n)
  BY <1>0, <1>4, NextApplyFacts, SaveForgets
<1>6. ASSUME NEW c \in Healthy, OnItsWay(c) PROVE ppc' # "save" /\ ~Served(c)'
  <2>1. ~Among(c, pg.i) /\ Wanted(c)
    BY <1>0, <1>6 DEF OnItsWay, Served
  <2>2. Among(c, pg.n)
    BY <1>0, <2>1 DEF OnceInv, Once, OnlyRegistered, Wanted
  <2>3. pg.i < pg.n
    BY <1>1, <2>1, <2>2
  <2>4. ppc' = "apply" /\ pg'.i - 1 = pg.i
    BY <1>1, <1>5, <2>3
  <2> QED BY <1>0, <2>1, <2>4 DEF Served, Among
<1>7. \A c \in Healthy : c \notin closed => \A k \in Key : blocked[IdOf[c]][k] = <<>>
  BY DEF OnceInv, Once, OnlyClosedRefuse
<1>8. \A c \in Healthy : cursor[c] \in Nat /\ cursor[c] >= cursor[c]
  BY OnceTypes DEF Healthy
<1> QED BY <1>0, <1>5, <1>6, <1>7, <1>8, OncePasses

\* The steps of the goroutine outside dispatch.
LEMMA OnceElsewhere ==
    ASSUME Dependable, RouterInv, OnceInv,
           ReadPartition \/ SaveCursors \/ CallFlushBatch \/ SettleFlush
    PROVE  OnceInv'
<1>0. pg \in PgType
  BY OnceTypes
<1>1. CASE ReadPartition
  <2>1. pg'.err = {}
    BY <1>1 DEF ReadPartition, IdlePg
  <2> QED BY <1>1, <2>1, OnceAway DEF ReadPartition, retryVars, consVars, memVars, Dispatching
<1>2. CASE SaveCursors
  <2>1. ppc = "save" /\ ppc' \in {"save", "snap", "flush"} /\ pg.err = {}
    BY <1>2 DEF SaveCursors, OnceInv
  <2>2. pg'.err = {}
    <3>1. CASE pg.saves # <<>>
      BY <1>0, <1>2, <2>1, <3>1 DEF SaveCursors, PgType
    <3>2. CASE pg.saves = <<>>
      BY <1>0, <1>2, <2>1, <3>2 DEF SaveCursors, PgType, IdlePg
    <3> QED BY <3>1, <3>2
  <2> QED BY <1>2, <2>1, <2>2, OnceAway DEF SaveCursors, retryVars, consVars, memVars, Dispatching
<1>3. CASE CallFlushBatch
  <2>1. ppc = "flush" /\ ppc' \in {"flush", "settle", "read"}
    BY <1>3, GoroutineMoves DEF CallFlushBatch
  <2>2. pg'.err = pg.err
    <3>1. CASE NextConsumer("flush", "read", pg)
      BY <1>0, <3>1, NextConsumerFacts
    <3>2. CASE FlushBatch(At(pg.i))
      BY <1>0, <3>2 DEF FlushBatch, PgType
    <3> QED BY <1>3, <3>1, <3>2 DEF CallFlushBatch
  <2> QED BY <1>3, <2>1, <2>2, OnceAway DEF CallFlushBatch, retryVars, consVars, memVars, Dispatching
<1>4. CASE SettleFlush
  <2> DEFINE p == [pg EXCEPT !.out = "none", !.poison = 0]
  <2>1. ppc = "settle" /\ ppc' \in {"flush", "read"} /\ NextConsumer("flush", "read", p)
        /\ UNCHANGED <<acked, blocked, consumers, removed, closed>>
    BY <1>4, GoroutineMoves DEF SettleFlush, consVars
  <2>2. p \in PgType /\ p.err = pg.err
    BY <1>0 DEF PgType
  <2> HIDE DEF p
  <2>3. pg'.err = pg.err
    BY <2>1, <2>2, NextConsumerFacts
  <2>4. PICK d \in Conn : d = At(pg.i)
    BY <2>1, AtHand DEF Looping
  <2>5. d \in Batchers
    BY <2>1, <2>4 DEF RouterInv, Place
  <2>6. ASSUME NEW c \in Healthy PROVE cursor'[c] = cursor[c]
    <3>1. c # d /\ c \in Conn
      BY <2>5 DEF Healthy
    <3>2. cursor' = cursor \/ \E w : cursor' = [cursor EXCEPT ![d] = w]
      BY <1>4, <2>4, SettleFacts
    <3> QED BY <3>1, <3>2, OnceTypes
  <2> QED BY <2>1, <2>3, <2>6, OnceAway DEF Dispatching
<1> QED BY <1>1, <1>2, <1>3, <1>4

\* A retry never delivers to a healthy consumer: its queue is empty until it
\* is closed.
LEMMA RetrySpares ==
    ASSUME RouterInv, OnceInv, RetrySide, NEW e \in acked', e[1] \in Healthy
    PROVE  e \in acked
<1>1. CASE RS!DeliverOK /\ RetryTarget \notin closed
  <2>1. /\ tpc = "deliver"
        /\ acked' = acked \cup {<<target[cur[1]], cur[2], Head(RS!CurQueue).seq>>}
    BY <1>1 DEF RS!DeliverOK, RS!CurQueue
  <2>2. /\ cur[1] \in ConsumerID /\ cur[2] \in Key /\ blocked[cur[1]][cur[2]] # <<>>
        /\ target[cur[1]] \in Conn
    BY <2>1, CurrentQueue DEF RouterInv
  <2>3. IdOf[target[cur[1]]] = cur[1]
    BY <2>2 DEF RouterInv, OwnTarget
  <2>4. target[cur[1]] \notin Healthy
    <3> SUFFICES ASSUME target[cur[1]] \in Healthy PROVE FALSE
      OBVIOUS
    <3>1. target[cur[1]] \notin closed
      BY <1>1 DEF RetryTarget
    <3>2. OnlyClosedRefuse(target[cur[1]])
      BY DEF OnceInv, Once
    <3> QED BY <2>2, <2>3, <3>1, <3>2 DEF OnlyClosedRefuse
  <2> QED BY <2>1, <2>4
<1>2. CASE ~(RS!DeliverOK /\ RetryTarget \notin closed)
  <2>1. acked' = acked
    BY <1>2 DEF RetrySide, RetryStep, RetryDeliverOK, RetryDeliverFails, RetryInternal,
       HandleFloorRelease, BackoffElapses, RS!Tick, RS!DrainNext, RS!DrainPeek, RS!DeliverTransient,
       RS!DeliverPermanent, RS!DeadLetterDrop, RS!DeadLetterWrite, RS!DeadLetterWriteFails,
       RS!Notify, RS!BackoffElapses, RS!resultVars
  <2> QED BY <2>1
<1> QED BY <1>1, <1>2

\* What the others may do to a healthy consumer.
Sparing ==
    /\ removed \subseteq removed' /\ closed \subseteq closed' /\ Distinct'
    /\ \A e \in acked' : e[1] \in Healthy => e \in acked
    /\ \A id \in ConsumerID, k \in Key : blocked[id][k] = <<>> => blocked'[id][k] = <<>>
    /\ \A c \in Conn : cursor'[c] = cursor[c] \/ ~Among(c, Len(consumers))

LEMMA OthersSpare ==
    ASSUME RouterInv, OnceInv, Others
    PROVE  Sparing
<1>0. RP!Inv /\ Distinct /\ cursor \in [Conn -> Nat] /\ consumers \in Seq(Conn)
  BY OnceTypes DEF RouterInv, RouterTypes, OnceInv
<1>1. CASE RetrySide
  <2>1. /\ \A id \in ConsumerID, k \in Key : blocked[id][k] = <<>> => blocked'[id][k] = <<>>
        /\ UNCHANGED <<consumers, removed, closed, cursor>>
    BY <1>0, <1>1, RetryIsScheduler DEF consVars, memVars
  <2> QED BY <1>0, <1>1, <2>1, RetrySpares DEF Sparing, Distinct
<1>2. CASE (\E k \in Key : AppendEvent(k)) \/ FlushCursorStore \/ UNCHANGED rvars
  <2>1. UNCHANGED <<acked, blocked, consumers, removed, closed, cursor>>
    BY <1>2 DEF AppendEvent, FlushCursorStore, rvars, retryVars, consVars, memVars
  <2> QED BY <1>0, <2>1 DEF Sparing, Distinct
<1>3. CASE \E id \in ConsumerID : Unregister(id)
  <2>1. UNCHANGED <<acked, blocked, consumers, closed, cursor>> /\ removed \subseteq removed'
    BY <1>3 DEF Unregister, retryVars
  <2> QED BY <1>0, <2>1 DEF Sparing, Distinct
<1>4. CASE \E c \in Conn : Close(c)
  <2>1. UNCHANGED <<acked, blocked, consumers, removed, cursor>> /\ closed \subseteq closed'
    BY <1>4 DEF Close, retryVars, memVars
  <2> QED BY <1>0, <2>1 DEF Sparing, Distinct
<1>5. CASE \E c \in Conn : Register(c)
  <2>1. PICK d \in Conn : Register(d)
    BY <1>5
  <2>2. /\ consumers' = Append(consumers, d) /\ d \notin Range(consumers)
        /\ cursor' = [cursor EXCEPT ![d] = LoadCursor(IdOf[d])]
        /\ UNCHANGED <<acked, blocked, removed, closed>>
    BY <2>1 DEF Register, retryVars
  <2>3. /\ DOMAIN consumers = 1..Len(consumers) /\ Len(consumers) \in Nat
        /\ Len(consumers') = Len(consumers) + 1 /\ consumers'[Len(consumers) + 1] = d
        /\ \A j \in 1..Len(consumers) : consumers'[j] = consumers[j]
    BY <1>0, <2>2, AppendProperties, LenProperties
  <2>4. \A j \in 1..Len(consumers) : consumers[j] # d
    BY <2>2, <2>3 DEF Range
  <2>5. Distinct'
    <3> SUFFICES ASSUME NEW i \in 1..(Len(consumers) + 1), NEW j \in 1..(Len(consumers) + 1),
                        consumers'[i] = consumers'[j]
                 PROVE  i = j
      BY <2>3 DEF Distinct
    <3>1. \A x \in 1..(Len(consumers) + 1) : x \in 1..Len(consumers) \/ x = Len(consumers) + 1
      BY <2>3
    <3>2. CASE i \in 1..Len(consumers) /\ j \in 1..Len(consumers)
      BY <1>0, <2>3, <3>2 DEF Distinct
    <3>3. CASE i = Len(consumers) + 1 /\ j \in 1..Len(consumers)
      BY <2>3, <2>4, <3>3
    <3>4. CASE j = Len(consumers) + 1 /\ i \in 1..Len(consumers)
      BY <2>3, <2>4, <3>4
    <3> QED BY <3>1, <3>2, <3>3, <3>4
  <2>6. ~Among(d, Len(consumers))
    BY <2>4 DEF Among
  <2>7. \A c \in Conn : cursor'[c] = cursor[c] \/ c = d
    BY <1>0, <2>2
  <2> QED BY <2>2, <2>5, <2>6, <2>7 DEF Sparing
<1> QED BY <1>1, <1>2, <1>3, <1>4, <1>5 DEF Others

\* Everybody else.
LEMMA OnceOthers ==
    ASSUME RouterInv, OnceInv, Others
    PROVE  OnceInv'
<1>0. ppc' = ppc /\ pg' = pg /\ Prolongs(consumers', consumers) /\ Sparing
  BY OthersLeavePg, OthersSpare
<1>1. ASSUME NEW c \in Conn, NEW n \in Nat, n <= Len(consumers)
      PROVE  (\E j \in 1..n : consumers'[j] = c) <=> Among(c, n)
  <2>1. Len(consumers) \in Nat
    BY OnceTypes
  <2>2. \A j \in 1..n : j \in 1..Len(consumers)
    BY <1>1, <2>1
  <2>3. \A j \in 1..n : consumers'[j] = consumers[j]
    BY <1>0, <2>2 DEF Prolongs
  <2> QED BY <2>3 DEF Among
<1>2. /\ Dispatching => /\ pg.i \in 1..pg.n /\ pg.n <= Len(consumers)
      /\ pg.n \in Nat /\ pg.i \in Nat /\ Len(consumers) \in Nat
  BY OnceTypes DEF Looping
<1>3. Dispatching => /\ pg.i - 1 \in Nat /\ pg.i - 1 <= Len(consumers)
                     /\ pg.i <= Len(consumers)
  BY <1>2
<1>4. ASSUME NEW c \in Healthy PROVE Once(c)'
  <2>0. Once(c) /\ c \in Conn /\ IdOf[c] \in ConsumerID
    BY Constants DEF OnceInv, Healthy
  <2>1. Dispatching => (Served(c)' <=> Served(c)) /\ (Among(c, pg.i - 1)' <=> Among(c, pg.i - 1))
                       /\ (Among(c, pg.n)' <=> Among(c, pg.n))
    BY <1>0, <1>1, <1>2, <1>3, <2>0 DEF Served, Among
  <2>2. OnItsWay(c) => OnItsWay(c)'
    BY <1>0, <2>1 DEF OnItsWay, Dispatching, Wanted
  <2>3. \A e \in acked' : e[1] = c => e \in acked
    BY <1>0 DEF Sparing
  <2>4. CursorFollows(c)'
    <3> SUFFICES ASSUME NEW e \in acked', e[1] = c
                 PROVE  e[3] < cursor'[c] \/ c \in removed' \/ (OnItsWay(c)' /\ e[3] = pg.seq)
      BY <1>0 DEF CursorFollows
    <3>1. e \in acked
      BY <2>3
    <3>2. cursor'[c] = cursor[c]
      <4>1. Among(c, Len(consumers))
        BY <2>0, <3>1 DEF Once, OnlyRegistered
      <4> QED BY <1>0, <2>0, <4>1 DEF Sparing
    <3> QED BY <1>0, <2>0, <2>2, <3>1, <3>2 DEF Once, CursorFollows, Sparing
  <2>5. NotYet(c)'
    <3> SUFFICES ASSUME ppc = "deliver", pg.snap[c].on, ~Among(c, pg.i - 1)
                 PROVE  /\ c \notin pg.err
                        /\ pg.seq >= pg.snap[c].cursor => \A e \in acked' : e[1] = c => e[3] # pg.seq
      BY <1>0, <2>1 DEF NotYet, Dispatching
    <3> QED BY <2>0, <2>3 DEF Once, NotYet
  <2>6. OnlyClosedRefuse(c)'
    BY <1>0, <2>0 DEF Once, OnlyClosedRefuse, Sparing, Dispatching
  <2>7. OnlyRegistered(c)'
    <3>1. Among(c, Len(consumers)) => Among(c, Len(consumers))'
      BY <1>0, <1>2 DEF Among, Prolongs
    <3> QED BY <1>0, <2>0, <2>1, <2>3, <3>1 DEF Once, OnlyRegistered, Dispatching
  <2> QED BY <2>4, <2>5, <2>6, <2>7 DEF Once
<1> QED BY <1>0, <1>4 DEF OnceInv, Sparing

LEMMA OnceInit == BootOnce /\ Init => OnceInv
<1> SUFFICES ASSUME BootOnce, Init PROVE OnceInv
  OBVIOUS
<1>1. /\ acked = {} /\ consumers = Boot /\ ppc = "read" /\ pg = IdlePg
      /\ blocked = NoQueues
  BY DEF Init
<1>2. ASSUME NEW c \in Healthy PROVE Once(c)
  <2>1. IdOf[c] \in ConsumerID
    BY Constants DEF Healthy
  <2>2. CursorFollows(c) /\ NotYet(c) /\ OnlyRegistered(c)
    BY <1>1 DEF CursorFollows, NotYet, OnlyRegistered, Dispatching
  <2>3. OnlyClosedRefuse(c)
    BY <1>1, <2>1 DEF OnlyClosedRefuse, Dispatching, NoQueues, IdlePg
  <2> QED BY <2>2, <2>3 DEF Once
<1> QED BY <1>1, <1>2 DEF OnceInv, Distinct, BootOnce

\* Until the first crash.
LEMMA OnceStays ==
    ASSUME Dependable, OwnIds, RouterInv, crashes = 0 => OnceInv, [Next]_rvars
    PROVE  crashes' = 0 => OnceInv' /\ crashes = 0
<1> SUFFICES ASSUME crashes' = 0 PROVE OnceInv' /\ crashes = 0
  OBVIOUS
<1>1. crashes = 0
  <2>1. ~Crash
    BY DEF Crash, RouterInv, RouterTypes
  <2> QED BY <2>1 DEF Next, rvars, PartitionStep, ReadPartition, SnapshotConsumers, Deliver,
       DeliverAccepted, DeliverRefused, DeliverNotWanted, ApplyDispatchCursors, QueuePersistCursor,
       SaveCursors, CallFlushBatch, SettleFlush, RetryStep, RetryDeliverOK, RetryDeliverFails,
       RetryInternal, HandleFloorRelease, BackoffElapses, AppendEvent, Register, Close, Unregister,
       FlushCursorStore
<1> QED BY <1>1, Actors, OnceSnapped, OnceDelivered, OnceApplied, OnceCapped, OnceElsewhere, OnceOthers

LEMMA OnceHolds ==
    Dependable /\ OwnIds /\ BootOnce => (Spec => [](crashes = 0 => OnceInv))
<1> SUFFICES ASSUME Dependable, OwnIds, BootOnce PROVE Spec => [](crashes = 0 => OnceInv)
  OBVIOUS
<1>1. RouterInv /\ (crashes = 0 => OnceInv) /\ [Next]_rvars => (crashes = 0 => OnceInv)'
  BY OnceStays
<1>2. Init => (crashes = 0 => OnceInv)
  BY OnceInit
<1>3. Spec => []RouterInv
  BY RouterInvHolds
<1> QED BY <1>1, <1>2, <1>3, PTL DEF Spec

\* For any number of consumers, keys and events and any window size, with peers
\* that fail, close, join and leave: until the first crash a consumer that never
\* fails is handed no event twice, although the window is re-read from the
\* lowest cursor of all and its own cursor moves only after the delivery.
THEOREM HealthyServedOnce ==
    Dependable /\ OwnIds /\ BootOnce => (Spec => HealthyGetNoDuplicates)
<1> SUFFICES ASSUME Dependable, OwnIds, BootOnce PROVE Spec => HealthyGetNoDuplicates
  OBVIOUS
<1>1. RouterInv /\ (crashes = 0 => OnceInv) /\ [Next]_rvars => [DeliversToHealthyOnce]_rvars
  <2> SUFFICES ASSUME RouterInv, crashes = 0 => OnceInv, [Next]_rvars,
                      NEW c \in Conn \ (Flaky \cup Batchers),
                      ppc = "deliver", c = At(pg.i), Wanted(c), crashes' = 0
               PROVE  <<c, log[pg.seq], pg.seq>> \notin acked
    BY DEF DeliversToHealthyOnce
  <2>1. OnceInv
    BY OnceStays
  <2>2. Distinct /\ NotYet(c)
    BY <2>1 DEF OnceInv, Once, Healthy
  <2>3. ~Among(c, pg.i - 1)
    BY <2>2, OneTurn DEF Dispatching
  <2> QED BY <2>2, <2>3 DEF NotYet, Wanted
<1>2. Spec => []RouterInv /\ [](crashes = 0 => OnceInv)
  BY RouterInvHolds, OnceHolds
<1> QED BY <1>1, <1>2, PTL DEF Spec, HealthyGetNoDuplicates
=============================================================================
