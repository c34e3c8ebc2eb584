-------------------------------- MODULE Sinks --------------------------------
(***************************************************************************)
(* internal/output: the batching sinks (webhook, vector, sqs, kafka, nats, *)
(* rabbitmq, pubsub) between the router's partition goroutine and their    *)
(* remote ends.                                                            *)
(*                                                                         *)
(* Deliver only buffers (rabbitmq and pubsub publish as well); FlushBatch  *)
(* empties the buffer first and answers nil, a transient error or a        *)
(* PermanentFlushError naming one seq.  The router's side is what it does  *)
(* with those answers for one consumer and one partition; Deliver errors,  *)
(* the retry scheduler and other consumers are in module Router.           *)
(***************************************************************************)
EXTENDS Integers, Sequences, FiniteSets, SequencesExt

CONSTANTS
    Kinds,       \* the sinks under test, a subset of AllKinds
    N,           \* bound: entries of the partition
    Key,         \* grouping keys (for vector: ids)
    Texts,       \* texts an upsert may carry (vector)
    Target,      \* request URLs, queues
    None,        \* no text: a delete event; no vector; no cached hash
    Empty,       \* Deliver acks the event without sending it
    Poison,      \* seqs that the webhook or vector end refuses for good
    Window,      \* ReadPartition limit (256 in the code)
    ChunkMax,    \* events per request (batch.max-events, SQS's 10, embedder cap)
    PoisonStreakLimit,
    HasDLQ,      \* the router has a dead-letter store
    MaxFaults    \* bound: lost requests or answers, refusals, process stops

AllKinds == {"webhook", "vector", "sqs", "kafka", "nats", "rabbitmq", "pubsub"}
Serial   == {"webhook", "vector"}            \* one request at a time, stop at an error
Bulk     == {"sqs", "kafka", "nats"}         \* published in FlushBatch
Publisher == {"rabbitmq", "pubsub"}          \* published in Deliver

ASSUME SinksAssumption ==
    /\ Kinds \subseteq AllKinds /\ N \in Nat \ {0} /\ Poison \subseteq 1..N
    /\ Window \in Nat \ {0} /\ ChunkMax \in Nat \ {0}
    /\ PoisonStreakLimit \in Nat /\ HasDLQ \in BOOLEAN /\ None \notin Texts /\ Empty \notin Texts

VARIABLES
    kind, entry,                     \* the sink, and what the log will hold
    tail,                            \* entries appended so far
    cursor, prov, skipped, streak, dlq,       \* the router's state of the sink
    pc, at, last, out,               \* the partition goroutine; FlushBatch's answer
    pending, work, failed,           \* the buffer; requests left; failed messages
    arrived, refused, unchanged,     \* seqs the far end took; refused alone; skipped
    paused, refusing,                \* pubsub ordering keys; far end in outage
    store, lru, db, cache,           \* vectors; hash cache, its rows and health
    faults

routerVars == <<cursor, prov, skipped, streak, dlq>>
farVars    == <<arrived, refused, store>>
cacheVars  == <<lru, db, cache>>
fixed      == <<kind, entry>>
vars == <<fixed, tail, routerVars, pc, at, last, out, pending, work, failed, farVars,
          unchanged, paused, refusing, cacheVars, faults>>

Larger(a, b) == IF a > b THEN a ELSE b
KeyOf(s) == entry[s].key

-----------------------------------------------------------------------------
(* Requests: how FlushBatch cuts the buffer.                                *)

\* Two consecutive events go into one request: the same URL or queue, vector's run
\* of upserts (or of deletes), the whole batch of the others.
Together(a, b) ==
    CASE kind \in {"webhook", "sqs"} -> entry[a].url = entry[b].url
      [] kind = "vector"  -> (entry[a].text = None) = (entry[b].text = None)
      [] OTHER            -> TRUE

\* Event i of the batch b joins the request that begins with event j.  A vector
\* delete run is one call whatever its length, and the asynchronous clients get
\* the batch whole; the others take ChunkMax events a request.
Joins(b, j, i) ==
    /\ Together(b[j], b[i])
    /\ \/ i - j < ChunkMax
       \/ kind \in {"kafka", "nats"}
       \/ kind = "vector" /\ entry[b[i]].text = None

\* The last event of request q of b, when the requests begin at s[1], s[2], ...
Until(b, s, q) == IF q = Len(s) THEN Len(b) ELSE s[q + 1] - 1

\* groupRequests, splitRuns with flushUpsertRun, and SQS's chunks of one queue: a
\* request goes on as long as events join it.
Starts(b) ==
    {s \in SeqOf(DOMAIN b, Len(b)) :
        /\ b # <<>> => s # <<>> /\ s[1] = 1
        /\ \A p, q \in DOMAIN s : p < q => s[p] < s[q]
        /\ \A q \in DOMAIN s :
              /\ \A i \in (s[q] + 1)..Until(b, s, q) : Joins(b, s[q], i)
              /\ Until(b, s, q) < Len(b) => ~Joins(b, s[q], Until(b, s, q) + 1)}

Chunks(b) == {[q \in DOMAIN s |-> SubSeq(b, s[q], Until(b, s, q))] : s \in Starts(b)}

\* SQS groups by queue first, in the order of the buffer, and visits the queues of
\* the map in any order.
ByQueue(batch) ==
    {b \in [DOMAIN batch -> ToSet(batch)] :
        /\ ToSet(b) = ToSet(batch)
        /\ \A i, j \in DOMAIN b : i < j /\ entry[b[i]].url = entry[b[j]].url =>
              b[i] < b[j] /\ \A l \in i..j : entry[b[l]].url = entry[b[i]].url}

Requests(batch) == UNION {Chunks(b) : b \in IF kind = "sqs" THEN ByQueue(batch) ELSE {batch}}

-----------------------------------------------------------------------------
(* The router's loop for this sink (router.go, detailed in module Router).  *)

ReadWindow ==
    /\ pc = "read" /\ cursor <= tail
    /\ at' = cursor
    /\ last' = IF tail < cursor + Window THEN tail ELSE cursor + Window - 1
    /\ pc' = "deliver"
    /\ UNCHANGED <<fixed, tail, routerVars, out, pending, work, failed, farVars, unchanged,
                   paused, refusing, cacheVars, faults>>

\* After entry "at" has been dispatched with buffer p: the next entry, or
\* FlushBatch, which takes the buffer before it sends anything.
Dispatched(p) ==
    IF at < last
    THEN /\ at' = at + 1 /\ pending' = p
         /\ UNCHANGED <<pc, work>>
    ELSE /\ pc' = "flush" /\ pending' = <<>>
         /\ work' \in Requests(p)
         /\ UNCHANGED at

\* A seq in the skip-set is passed over: the cursor moves past it at once, and
\* with it past entries of the window that are only buffered.
PassOver ==
    /\ pc = "deliver" /\ at \in skipped
    /\ cursor' = Larger(cursor, at + 1)
    /\ Dispatched(pending)
    /\ UNCHANGED <<fixed, tail, prov, skipped, streak, dlq, last, out, failed, farVars,
                   unchanged, paused, refusing, cacheVars, faults>>

\* HashCache.Get: the LRU in front of the table; a hit in the table fills it.
Cached(id) == IF cache = "off" THEN None ELSE IF lru[id] # None THEN lru[id] ELSE db[id]

HasPending(id) == \E i \in DOMAIN pending : KeyOf(pending[i]) = id

\* Mutant: the pending check is missing.
UnchangedIgnoringPending(s) ==
    /\ kind = "vector" /\ entry[s].text \notin {None, Empty}
    /\ Cached(KeyOf(s)) = entry[s].text

\* VEC-01: the text is the one last stored, and the buffer holds nothing of the
\* same id that would change it first.
Unchanged(s) ==
    /\ kind = "vector" /\ entry[s].text \notin {None, Empty}
    /\ Cached(KeyOf(s)) = entry[s].text /\ ~HasPending(KeyOf(s))

\* The webhook's transform drops the event or its action's matcher does not
\* match it; the vector sink finds no text in it.
Dropped(s) == entry[s].text = Empty

\* Deliver acks the event without buffering it: the advance is provisional like
\* any other.
DeliverNeedless ==
    /\ pc = "deliver" /\ at \notin skipped
    /\ Dropped(at) \/ Unchanged(at)
    /\ prov' = at + 1
    /\ unchanged' = IF Dropped(at) THEN unchanged ELSE unchanged \cup {at}
    /\ lru' = IF Dropped(at) THEN lru ELSE [lru EXCEPT ![KeyOf(at)] = Cached(KeyOf(at))]
    /\ Dispatched(pending)
    /\ UNCHANGED <<fixed, tail, cursor, skipped, streak, dlq, last, out, failed, farVars,
                   paused, refusing, db, cache, faults>>

DeliverBuffers ==
    /\ pc = "deliver" /\ at \notin skipped
    /\ ~Dropped(at) /\ ~Unchanged(at)
    /\ prov' = at + 1
    /\ Dispatched(Append(pending, at))
    /\ UNCHANGED <<fixed, tail, cursor, skipped, streak, dlq, last, out, failed, farVars,
                   unchanged, paused, refusing, cacheVars, faults>>

\* The message is published at once and its result or deferred confirm buffered.
DeliverPublishes ==
    /\ pc = "deliver" /\ at \notin skipped /\ KeyOf(at) \notin paused
    /\ prov' = at + 1
    /\ arrived' = arrived \cup {at}
    /\ Dispatched(Append(pending, at))
    /\ UNCHANGED <<fixed, tail, cursor, skipped, streak, dlq, last, out, failed, refused, store,
                   unchanged, paused, refusing, cacheVars, faults>>

\* It will be nacked, or its confirm is lost: then it may have been taken.
\* Pub/Sub's client pauses the ordering key.
PublishFails ==
    /\ pc = "deliver" /\ at \notin skipped /\ KeyOf(at) \notin paused /\ faults < MaxFaults
    /\ faults' = faults + 1
    /\ prov' = at + 1
    /\ arrived' \in {arrived, arrived \cup {at}}
    /\ paused' = IF kind = "pubsub" THEN paused \cup {KeyOf(at)} ELSE paused
    /\ failed' = failed \cup {<<at, "error">>}
    /\ Dispatched(Append(pending, at))
    /\ UNCHANGED <<fixed, tail, cursor, skipped, streak, dlq, last, out, refused, store,
                   unchanged, refusing, cacheVars>>

\* Until ResumePublish every later message of a paused ordering key is answered
\* with ErrPublishingPaused.
PublishPaused ==
    /\ pc = "deliver" /\ at \notin skipped /\ KeyOf(at) \in paused
    /\ prov' = at + 1
    /\ failed' = failed \cup {<<at, "paused">>}
    /\ Dispatched(Append(pending, at))
    /\ UNCHANGED <<fixed, tail, cursor, skipped, streak, dlq, last, out, farVars,
                   unchanged, paused, refusing, cacheVars, faults>>

\* Deliver of each sink.
WebhookDeliver  == kind = "webhook" /\ (DeliverNeedless \/ DeliverBuffers)
VectorDeliver   == kind = "vector" /\ (DeliverNeedless \/ DeliverBuffers)
SQSDeliver      == kind = "sqs" /\ DeliverBuffers
KafkaDeliver    == kind = "kafka" /\ DeliverBuffers
NATSDeliver     == kind = "nats" /\ DeliverBuffers
RabbitMQDeliver == kind = "rabbitmq" /\ (DeliverPublishes \/ PublishFails)
PubSubDeliver   == kind = "pubsub" /\ (DeliverPublishes \/ PublishFails \/ PublishPaused)

-----------------------------------------------------------------------------
(* FlushBatch.                                                              *)

Request == Head(work)

\* The far end takes a request only if it takes every event of it.
Accepts(chunk) == ~refusing /\ ToSet(chunk) \cap Poison = {}

\* The texts f after the events of a chunk: each id has that of its last event.
Overwritten(f, chunk) ==
    [k \in Key |->
        LET mine == {i \in DOMAIN chunk : KeyOf(chunk[i]) = k}
        IN  IF mine = {} THEN f[k]
            ELSE entry[chunk[CHOOSE i \in mine : \A j \in mine : j <= i]].text]

\* What a chunk leaves in the vector store.
Applied(chunk) == IF kind = "vector" THEN Overwritten(store, chunk) ELSE store

NoAnswer  == [res |-> "none", seq |-> 0]
Answer(r) == out' = [res |-> r, seq |-> 0] /\ pc' = "settle" /\ work' = <<>> /\ failed' = {}

\* webhook sendGrouped, vector flushUpsertChunk and flushDeleteRun: accepted.
\* The vector sink has the hash cache left to write.
SendAccepted ==
    /\ pc = "flush" /\ kind \in Serial /\ work # <<>> /\ Accepts(Request)
    /\ arrived' = arrived \cup ToSet(Request)
    /\ store' = Applied(Request)
    /\ IF kind = "vector" THEN pc' = "ack" /\ UNCHANGED work
       ELSE work' = Tail(work) /\ UNCHANGED pc
    /\ UNCHANGED <<fixed, tail, routerVars, at, last, out, pending, failed, refused,
                   unchanged, paused, refusing, cacheVars, faults>>

\* Whether the far end took a request that got no good answer is unknown.
TakenOrNot(chunk) ==
    \/ UNCHANGED <<arrived, store>>
    \/ /\ Accepts(chunk)
       /\ arrived' = arrived \cup ToSet(chunk) /\ store' = Applied(chunk)

\* Mutant: a transient error does not end the flush.
SendTransientGoesOn ==
    /\ pc = "flush" /\ kind \in Serial /\ work # <<>> /\ faults < MaxFaults
    /\ faults' = faults + 1
    /\ TakenOrNot(Request)
    /\ failed' = failed \cup {<<Request[1], "error">>} /\ work' = Tail(work)
    /\ UNCHANGED <<fixed, tail, routerVars, pc, at, last, out, pending, refused,
                   unchanged, paused, refusing, cacheVars>>

\* 408, 429, 5xx, a timeout or a lost answer: the rest of the batch is given up.
SendTransient ==
    /\ pc = "flush" /\ kind \in Serial /\ work # <<>> /\ faults < MaxFaults
    /\ faults' = faults + 1
    /\ TakenOrNot(Request)
    /\ Answer("transient")
    /\ UNCHANGED <<fixed, tail, routerVars, at, last, pending, refused,
                   unchanged, paused, refusing, cacheVars>>

\* Any other status: an event refused alone is poison; a request of several is
\* sent again one event at a time (isolatePoisonChunk, isolateUpsert and
\* isolateDelete), in order.
SendRefused ==
    /\ pc = "flush" /\ kind \in Serial /\ work # <<>> /\ ~Accepts(Request)
    /\ IF Len(Request) = 1
       THEN /\ out' = [res |-> "poison", seq |-> Request[1]]
            /\ refused' = refused \cup {Request[1]}
            /\ pc' = "settle" /\ work' = <<>>
       ELSE /\ work' = [i \in DOMAIN Request |-> <<Request[i]>>] \o Tail(work)
            /\ UNCHANGED <<out, refused, pc>>
    /\ UNCHANGED <<fixed, tail, routerVars, at, last, pending, failed, arrived, store,
                   unchanged, paused, refusing, cacheVars, faults>>

\* ackUpserts, ackDeletes: PutBatch or DelBatch, after the store's answer.
Hashed(h) == Overwritten(h, Request)

AckCached ==
    /\ pc = "ack"
    /\ IF cache = "off" THEN UNCHANGED <<lru, db>>
       ELSE lru' = Hashed(lru) /\ db' = Hashed(db)
    /\ work' = Tail(work) /\ pc' = "flush"
    /\ UNCHANGED <<fixed, tail, routerVars, at, last, out, pending, failed, farVars,
                   unchanged, paused, refusing, cache, faults>>

\* The transaction of the cache fails: logged only.  The LRU may have been
\* written before the rollback.
AckCacheFails ==
    /\ pc = "ack" /\ cache # "off" /\ faults < MaxFaults
    /\ faults' = faults + 1
    /\ cache' = "stale"
    /\ lru' \in {lru, Hashed(lru)}
    /\ work' = Tail(work) /\ pc' = "flush"
    /\ UNCHANGED <<fixed, tail, routerVars, at, last, out, pending, failed, farVars,
                   unchanged, paused, refusing, db>>

\* sqs, kafka, nats: every message of the request is confirmed.
BulkConfirmed ==
    /\ pc = "flush" /\ kind \in Bulk /\ work # <<>>
    /\ arrived' = arrived \cup ToSet(Request)
    /\ work' = Tail(work)
    /\ UNCHANGED <<fixed, tail, routerVars, pc, at, last, out, pending, failed, refused,
                   store, unchanged, paused, refusing, cacheVars, faults>>

\* Mutant: the error of a message is forgotten.
BulkFailsSilently ==
    /\ pc = "flush" /\ kind \in Bulk /\ work # <<>> /\ faults < MaxFaults
    /\ faults' = faults + 1
    /\ \E taken \in SUBSET ToSet(Request) : arrived' = arrived \cup taken
    /\ work' = Tail(work)
    /\ UNCHANGED <<fixed, tail, routerVars, pc, at, last, out, pending, failed, refused,
                   store, unchanged, paused, refusing, cacheVars>>

\* Some message fails, or its confirm is lost; any of them may have been taken.
\* SQS goes on with the next request all the same.
BulkFails ==
    /\ pc = "flush" /\ kind \in Bulk /\ work # <<>> /\ faults < MaxFaults
    /\ faults' = faults + 1
    /\ \E taken \in SUBSET ToSet(Request) : arrived' = arrived \cup taken
    /\ failed' = failed \cup {<<Request[1], "error">>}
    /\ work' = Tail(work)
    /\ UNCHANGED <<fixed, tail, routerVars, pc, at, last, out, pending, refused,
                   store, unchanged, paused, refusing, cacheVars>>

\* Mutant: a paused key is never resumed.
ResumedNothing == {}

\* Pub/Sub: keys of the messages answered with ErrPublishingPaused are resumed.
Resumed == {KeyOf(f[1]) : f \in {f \in failed : f[2] = "paused"}}

\* The requests are used up (rabbitmq, pubsub: every result has been collected).
FlushReturns ==
    /\ pc = "flush" /\ (work = <<>> \/ kind \in Publisher)
    /\ Answer(IF failed = {} THEN "ok" ELSE "transient")
    /\ paused' = paused \ Resumed
    /\ UNCHANGED <<fixed, tail, routerVars, at, last, pending, farVars, unchanged,
                   refusing, cacheVars, faults>>

\* FlushBatch of each sink, step by step.
WebhookFlush  == kind = "webhook" /\ (SendAccepted \/ SendTransient \/ SendRefused \/ FlushReturns)
VectorFlush   == /\ kind = "vector"
                 /\ \/ SendAccepted \/ SendTransient \/ SendRefused \/ FlushReturns
                    \/ AckCached \/ AckCacheFails
SQSFlush      == kind = "sqs" /\ (BulkConfirmed \/ BulkFails \/ FlushReturns)
KafkaFlush    == kind = "kafka" /\ (BulkConfirmed \/ BulkFails \/ FlushReturns)
NATSFlush     == kind = "nats" /\ (BulkConfirmed \/ BulkFails \/ FlushReturns)
RabbitMQFlush == kind = "rabbitmq" /\ FlushReturns
PubSubFlush   == kind = "pubsub" /\ FlushReturns

-----------------------------------------------------------------------------
(* flushBatchConsumers with FlushBatch's answer.                            *)

Settled == /\ pc' = "read" /\ out' = NoAnswer /\ prov' = 0 /\ at' = 0 /\ last' = 0
           /\ UNCHANGED <<fixed, tail, pending, work, failed, farVars, unchanged, paused,
                          refusing, cacheVars>>

\* resetPoisonStreak, promoteProvisional
SettleOK ==
    /\ pc = "settle" /\ out.res = "ok"
    /\ cursor' = Larger(cursor, prov)
    /\ skipped' = {s \in skipped : s > cursor'}
    /\ streak' = 0
    /\ Settled /\ UNCHANGED <<dlq, faults>>

\* handlePoisonFlush gets as far as the dead-letter write: the streak guard has not
\* tripped, and the entry is found when the window is read again from a cursor that
\* PassOver may have moved past it.
PoisonSettles == out.res = "poison" /\ streak < PoisonStreakLimit /\ out.seq >= cursor /\ HasDLQ

\* discardProvisional; a poison that cannot be dead-lettered is handled alike and
\* stays where it is.
SettleTransient ==
    /\ pc = "settle" /\ out.res \in {"transient", "poison"} /\ ~PoisonSettles
    /\ Settled /\ UNCHANGED <<cursor, skipped, streak, dlq, faults>>

\* The same when the window's entries cannot be read or the write fails.
SettlePoisonFails ==
    /\ pc = "settle" /\ PoisonSettles /\ faults < MaxFaults
    /\ faults' = faults + 1
    /\ Settled /\ UNCHANGED <<cursor, skipped, streak, dlq>>

\* handlePoisonFlush: the dead-letter write, then the skip-set.
SettlePoison ==
    /\ pc = "settle" /\ PoisonSettles
    /\ dlq' = dlq \cup {out.seq}
    /\ skipped' = skipped \cup {out.seq}
    /\ streak' = streak + 1
    /\ Settled /\ UNCHANGED <<cursor, faults>>

-----------------------------------------------------------------------------
(* The source, the far end and the process.                                 *)

AppendEntry ==
    /\ tail < N
    /\ tail' = tail + 1
    /\ UNCHANGED <<fixed, routerVars, pc, at, last, out, pending, work, failed, farVars,
                   unchanged, paused, refusing, cacheVars, faults>>

\* A revoked credential, a renamed index: every request gets a 4xx for a while.
OutageStarts ==
    /\ kind \in Serial /\ ~refusing /\ faults < MaxFaults
    /\ refusing' = TRUE /\ faults' = faults + 1
    /\ UNCHANGED <<fixed, tail, routerVars, pc, at, last, out, pending, work, failed, farVars,
                   unchanged, paused, cacheVars>>

OutageEnds ==
    /\ refusing /\ refusing' = FALSE
    /\ UNCHANGED <<fixed, tail, routerVars, pc, at, last, out, pending, work, failed, farVars,
                   unchanged, paused, cacheVars, faults>>

\* Memory is lost; the cursor comes back as some value it had, or an earlier
\* one when the store's last writes were not flushed.
Crash ==
    /\ faults < MaxFaults /\ faults' = faults + 1
    /\ cursor' \in 1..cursor
    /\ prov' = 0 /\ skipped' = {} /\ streak' = 0
    /\ pc' = "read" /\ at' = 0 /\ last' = 0 /\ out' = NoAnswer
    /\ pending' = <<>> /\ work' = <<>> /\ failed' = {} /\ paused' = {}
    /\ lru' = [k \in Key |-> None]
    /\ UNCHANGED <<fixed, tail, dlq, farVars, unchanged, refusing, db, cache>>

\* Only the vector sink tells texts apart, and only webhook and SQS targets.
Entries(k) ==
    [1..N -> [key : Key,
              text : CASE k = "vector" -> Texts \cup {None, Empty}
                     [] k = "webhook" -> Texts \cup {Empty}
                     [] OTHER -> Texts,
              url : IF k \in {"webhook", "sqs"} THEN Target ELSE {CHOOSE t \in Target : TRUE}]]

\* NewWebhookSinkConsumer ... NewVectorSinkConsumer; OpenHashCache may come up
\* disabled.
Start ==
    /\ kind \in Kinds /\ cache \in IF kind = "vector" THEN {"on", "off"} ELSE {"off"}
    /\ tail = 0 /\ cursor = 1 /\ prov = 0 /\ skipped = {} /\ streak = 0 /\ dlq = {}
    /\ pc = "read" /\ at = 0 /\ last = 0 /\ out = NoAnswer
    /\ pending = <<>> /\ work = <<>> /\ failed = {}
    /\ arrived = {} /\ refused = {} /\ unchanged = {} /\ paused = {} /\ refusing = FALSE
    /\ store = [k \in Key |-> None] /\ lru = store /\ db = store
    /\ faults = 0

Init == Start /\ entry \in Entries(kind)

Loop ==
    \/ ReadWindow \/ PassOver
    \/ WebhookDeliver \/ VectorDeliver \/ SQSDeliver \/ KafkaDeliver \/ NATSDeliver
    \/ RabbitMQDeliver \/ PubSubDeliver
    \/ WebhookFlush \/ VectorFlush \/ SQSFlush \/ KafkaFlush \/ NATSFlush
    \/ RabbitMQFlush \/ PubSubFlush
    \/ SettleOK \/ SettleTransient \/ SettlePoison \/ SettlePoisonFails

Next == Loop \/ AppendEntry \/ OutageStarts \/ OutageEnds \/ Crash

\* The partition goroutine runs on, and an outage ends.
Spec == Init /\ [][Next]_vars /\ WF_vars(Loop) /\ WF_vars(OutageEnds)

-----------------------------------------------------------------------------
(* Properties.                                                              *)

TypeOK ==
    /\ kind \in AllKinds /\ tail \in 0..N /\ cursor \in 1..(N + 1) /\ prov \in 0..(N + 1)
    /\ skipped \subseteq 1..N /\ streak \in 0..PoisonStreakLimit /\ dlq \subseteq 1..N
    /\ pc \in {"read", "deliver", "flush", "ack", "settle"}
    /\ at \in 0..N /\ last \in 0..N
    /\ out \in [res : {"none", "ok", "transient", "poison"}, seq : 0..N]
    /\ pending \in Seq(1..N) /\ work \in Seq(Seq(1..N))
    /\ failed \subseteq (1..N) \X {"paused", "error"}
    /\ arrived \subseteq 1..N /\ refused \subseteq 1..N /\ unchanged \subseteq 1..N
    /\ paused \subseteq Key /\ refusing \in BOOLEAN
    /\ store \in [Key -> Texts \cup {None}]
    /\ lru \in [Key -> Texts \cup {None}] /\ db \in [Key -> Texts \cup {None}]
    /\ cache \in {"on", "off", "stale"}

\* At-least-once, for all seven sinks: an event below the cursor has reached the
\* far end, was refused in a request of its own (never for the company it was
\* sent in) and is dead-lettered, or needed no sending.  It is not obvious: the
\* buffer is emptied before the I/O, and passing over a skipped seq moves the
\* cursor past buffered events before they are flushed.  What saves them is that
\* webhook and vector report a poison only after everything before it was taken.
NothingLost ==
    \A s \in 1..(cursor - 1) :
        s \in arrived \cup (dlq \cap refused) \cup unchanged \/ Dropped(s)

InKeyOrder(taken) ==
    \A s \in taken, r \in 1..N :
        r < s /\ KeyOf(r) = KeyOf(s) /\ ~Dropped(r)
            => r \in arrived' \cup dlq \cup unchanged

\* Whatever fails, an event first reaches a webhook, a vector store or Pub/Sub
\* after every earlier event of its key (a refused one counts as dealt with once
\* it is dead-lettered).
SerialSinksKeepKeyOrder ==
    [][(kind \in Serial \cup {"pubsub"}) => InKeyOrder(arrived' \ arrived)]_vars

\* README.md's "Per-key ordering", for every sink.
PerKeyOrder == [][InKeyOrder(arrived' \ arrived)]_vars

\* The events of an id that the vector store is to hear of, and the text of the last.
EventsOf(k) == {s \in 1..tail : KeyOf(s) = k /\ ~Dropped(s)}
LastText(k) == entry[CHOOSE s \in EventsOf(k) : \A r \in EventsOf(k) : r <= s].text

\* Failed cache writes are excluded.
CaughtUp == kind = "vector" /\ cache # "stale" /\ cursor > tail /\ pc = "read"

\* When the sink has caught up and no event was dead-lettered, the vector store
\* holds the text of the last event of every id (VEC-01): the hash cache, whose
\* writes lag the store's and outlive a crash, never makes Deliver skip an event
\* that the store still needs.
VectorConverges ==
    CaughtUp /\ dlq = {} =>
        \A k \in Key : EventsOf(k) # {} => store[k] = LastText(k)

\* The documentation's "Deletes remove the stable vector ID" (docs-content.ts:1227),
\* for the ids without an event in the dead-letter store.  It does not hold: passing
\* over a skipped seq moves the cursor past events that are only buffered again, and
\* when their flush fails half-way an old upsert stays without the delete after it.
DeletesRemove ==
    CaughtUp =>
        \A k \in Key :
            /\ EventsOf(k) # {} /\ EventsOf(k) \cap dlq = {}
            /\ LastText(k) = None
            => store[k] = None

\* Every appended event is eventually passed, delivered or dead-lettered, unless
\* the poison-streak guard has tripped: a poison does not stop its partition when
\* there is a dead-letter store, one that fails for a while included, and a paused
\* Pub/Sub key is resumed.
EveryEventPasses ==
    \A s \in 1..N : (s <= tail) ~> (s < cursor \/ streak = PoisonStreakLimit)
=============================================================================
