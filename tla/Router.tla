------------------------------- MODULE Router -------------------------------
(***************************************************************************)
(* internal/router/router.go: delivery of one event log partition to every *)
(* registered consumer, composed with the RetryScheduler.                  *)
(*                                                                         *)
(* Three actors share the state.  The partition goroutine (runPartition)   *)
(* reads a window, dispatches each entry in three phases (snapshot under   *)
(* the read lock, Deliver outside it, cursors under the write lock), saves *)
(* the capped cursors after the lock is released, and flushes the batching *)
(* consumers.  The retry goroutine is RetryScheduler's; its callback is    *)
(* handleFloorRelease.  Connections register, close and unregister at any  *)
(* time.  A crash keeps the log, the durable cursors and the dead letters. *)
(*                                                                         *)
(* One partition is modelled: a grouping key lives on one partition, and   *)
(* the goroutines of two partitions share nothing but the two mutexes.     *)
(***************************************************************************)
EXTENDS Integers, Sequences, FiniteSets, FiniteSetsExt, Functions

CONSTANTS
    Conn, ConsumerID, IdOf, Key, Partition, PartOf, MaxRetries, DLQEnabled, NoConn,
    Part,        \* the partition modelled
    Batchers,    \* consumers that implement BatchFlusher
    Streams,     \* batchers whose FlushBatch returns nil once closed (SSE)
    Flaky,       \* consumers whose Deliver may return an error
    FlushFlaky,  \* batchers whose FlushBatch may return a transient error
    DLQFlaky,    \* whether a dead-letter write may fail
    Poison,      \* seqs for which FlushBatch returns a PermanentFlushError
    Boot,        \* consumers registered at process start, in order
    Late,        \* connections that may register later
    Quits,       \* connections that may close
    Leavers,     \* ids that may be unregistered
    MaxSeq,      \* bound: length of the log
    BatchLimit,  \* ReadPartition limit (256 in the code)
    PoisonStreakLimit,
    MaxCrashes   \* bound: process crashes

ASSUME RouterAssumption ==
    /\ IdOf \in [Conn -> ConsumerID] /\ NoConn \notin Conn
    /\ MaxRetries \in Nat \ {0} /\ DLQEnabled \in BOOLEAN
    /\ Part \in Partition /\ PartOf \in [Key -> {Part}]
    /\ Batchers \subseteq Conn /\ Streams \subseteq Batchers
    /\ Flaky \subseteq Conn /\ FlushFlaky \subseteq Batchers
    /\ DLQFlaky \in BOOLEAN
    /\ Boot \in Seq(Conn) \ {<<>>} /\ Late \subseteq Conn
    /\ Leavers \subseteq ConsumerID
    /\ MaxSeq \in Nat /\ BatchLimit \in Nat \ {0} /\ Poison \subseteq 1..MaxSeq

VARIABLES
    blocked, target, floors, tpc, due, cur, rel, acked, dlq, dropped,
    log,         \* keys of the partition's entries; the index is the seq
    consumers,   \* r.consumers, in registration order (tombstones included)
    removed,     \* soft-unregistered slots
    closed,      \* connections whose handler has exited
    cursor,      \* cursorByPartition: next seq for each consumer
    prov,        \* provisionalByPartition, 0 when absent
    skipped,     \* skippedSeqs
    streak,      \* poisonStreak
    buffered,    \* events a batcher's Deliver accepted and has not flushed
    flushed,     \* events a batcher's FlushBatch got to the sink
    ppc,         \* where the partition goroutine is
    pg,          \* its locals: window, index, snapshot, errors, saves
    saved,       \* cursor store as SaveCursor/LoadCursor see it, 0 = no row
    durable,     \* cursor store rows that survive a crash
    crashes

RS == INSTANCE RetryScheduler

retryVars == <<blocked, target, floors, tpc, due, cur, rel, acked, dlq, dropped>>
consVars  == <<consumers, removed, closed>>
memVars   == <<cursor, prov, skipped, streak>>
sinkVars  == <<buffered, flushed>>
partVars  == <<ppc, pg>>
storeVars == <<saved, durable>>
rvars == <<retryVars, log, consVars, memVars, sinkVars, partVars, storeVars, crashes>>

-----------------------------------------------------------------------------
Live(c) == c \in Range(consumers) /\ c \notin removed

\* LoadCursor: 1 when the store has no row for the consumer.
LoadCursor(id) == IF saved[id] = 0 THEN 1 ELSE saved[id]

\* minCursorForPartition; 1 when there are no consumers.
MinCursor ==
    LET cursors == {cursor[c] : c \in {c \in Conn : Live(c)}}
    IN  IF cursors = {} THEN 1 ELSE Min(cursors)

AtLeast(a, b) == IF a > b THEN a ELSE b

\* Mutant: the floor is not consulted.
CappedAtNothing(id, seq) == seq

\* queuePersistCursor / promoteProvisional: never persist past the floor.
Capped(id, seq) ==
    LET f == floors[id][Part] IN IF f # 0 /\ f < seq THEN f ELSE seq

\* Router.mu is held by the partition goroutine during phase 3.
MuFree == ppc \notin {"apply", "cap"}

NoSnap == [on |-> FALSE, blocked |-> FALSE, cursor |-> 0, skipped |-> FALSE]

\* The goroutine's locals; those that are dead keep these values.
IdlePg == [seq |-> 0, last |-> 0, n |-> 0, i |-> 0, snap |-> [c \in Conn |-> NoSnap],
           err |-> {}, persist |-> 0, saves |-> <<>>, out |-> "none", poison |-> 0]

At(i) == consumers[i]

-----------------------------------------------------------------------------
(* runPartition                                                            *)

\* Read the next window from the lowest cursor of all consumers.
ReadPartition ==
    /\ ppc = "read"
    /\ MinCursor <= Len(log)
    /\ pg' = [IdlePg EXCEPT !.seq = MinCursor,
                            !.last = Min({Len(log), MinCursor + BatchLimit - 1})]
    /\ ppc' = "snap"
    /\ UNCHANGED <<retryVars, log, consVars, memVars, sinkVars, storeVars, crashes>>

\* dispatch, phase 1 (snapshotConsumers, under the read lock).
SnapshotConsumers ==
    /\ ppc = "snap"
    /\ pg' = [pg EXCEPT !.snap = [c \in Conn |->
                 IF Live(c)
                 THEN [on |-> TRUE, blocked |-> RS!IsBlocked(IdOf[c], log[pg.seq]),
                       cursor |-> cursor[c], skipped |-> pg.seq \in skipped[c]]
                 ELSE NoSnap],
              !.n = Len(consumers), !.i = 1]
    /\ ppc' = "deliver"
    /\ UNCHANGED <<retryVars, log, consVars, memVars, sinkVars, storeVars, crashes>>

\* Go on with locals p: the next consumer of this phase, or the next phase.
NextConsumer(phase, after, p) ==
    IF p.i < p.n
    THEN ppc' = phase /\ pg' = [p EXCEPT !.i = @ + 1, !.persist = 0]
    ELSE ppc' = after /\ pg' = [p EXCEPT !.i = 1, !.persist = 0]

\* The next consumer of phase 3, or the saves queued under the lock.
NextApply(p) ==
    IF p.i < p.n THEN NextConsumer("apply", "save", p)
    ELSE /\ ppc' = "save"
         /\ pg' = [IdlePg EXCEPT !.seq = p.seq, !.last = p.last, !.saves = p.saves]

\* Mutants: the blocked check, or the cursor check, is missing in phase 2.
WantedThoughBlocked(c) ==
    LET s == pg.snap[c] IN s.on /\ pg.seq >= s.cursor /\ ~s.skipped

WantedBelowCursor(c) ==
    LET s == pg.snap[c] IN s.on /\ ~s.blocked /\ ~s.skipped

Wanted(c) ==
    LET s == pg.snap[c] IN s.on /\ ~s.blocked /\ pg.seq >= s.cursor /\ ~s.skipped

\* What a nil return of c.Deliver means: a batcher only buffered the event.
Accept(c, seq) ==
    /\ acked' = acked \cup {<<c, log[seq], seq>>}
    /\ buffered' = IF c \in Batchers
                   THEN [buffered EXCEPT ![c] = @ \cup {seq}]
                   ELSE buffered

\* dispatch, phase 2: Deliver to one consumer, outside every lock.
DeliverAccepted ==
    LET c == At(pg.i) IN
    /\ ppc = "deliver" /\ Wanted(c) /\ c \notin closed
    /\ Accept(c, pg.seq)
    /\ NextConsumer("deliver", "apply", pg)
    /\ UNCHANGED <<blocked, target, floors, tpc, due, cur, rel, dlq, dropped,
                   log, consVars, memVars, flushed, storeVars, crashes>>

DeliverRefused ==
    LET c == At(pg.i) IN
    /\ ppc = "deliver" /\ Wanted(c) /\ c \in Flaky \cup closed
    /\ NextConsumer("deliver", "apply", [pg EXCEPT !.err = @ \cup {c}])
    /\ UNCHANGED <<retryVars, log, consVars, memVars, sinkVars, storeVars, crashes>>

DeliverNotWanted ==
    /\ ppc = "deliver" /\ ~Wanted(At(pg.i))
    /\ NextConsumer("deliver", "apply", pg)
    /\ UNCHANGED <<retryVars, log, consVars, memVars, sinkVars, storeVars, crashes>>

Deliver == DeliverAccepted \/ DeliverRefused \/ DeliverNotWanted

\* Phase 3 keeps going under Router.mu with cursor c advanced to at least seq
\* and a save of "persist" to be queued.
AdvanceCursor(c, seq, persist) ==
    /\ cursor' = [cursor EXCEPT ![c] = AtLeast(@, seq)]
    /\ ppc' = "cap"
    /\ pg' = [pg EXCEPT !.persist = persist]

\* Mutant: the follow-on of a blocked group is passed over, not queued.
ApplyFollowOnForgets(c) ==
    /\ pg.snap[c].blocked /\ ~pg.snap[c].skipped /\ pg.seq >= pg.snap[c].cursor
    /\ AdvanceCursor(c, pg.seq + 1, pg.seq + 1)
    /\ UNCHANGED <<blocked, target, floors, prov>>

\* dispatchUpdateCursor, a blocked group: queue the event as a follow-on.
ApplyFollowOn(c) ==
    /\ pg.snap[c].blocked /\ ~pg.snap[c].skipped /\ pg.seq >= pg.snap[c].cursor
    /\ RS!AddBlocked(c, log[pg.seq], RS!FollowOnRecord(pg.seq))
    /\ AdvanceCursor(c, pg.seq + 1, pg.seq + 1)
    /\ UNCHANGED prov

\* applyDispatchCursors, a poisoned seq: advance past it.
ApplySkipped(c) ==
    /\ pg.snap[c].skipped
    /\ AdvanceCursor(c, pg.seq + 1, AtLeast(cursor[c], pg.seq + 1))
    /\ UNCHANGED <<blocked, target, floors, prov>>

\* Mutant: a failed event is passed over, not queued.
ApplyFailedAdvances(c) ==
    /\ Wanted(c) /\ c \in pg.err
    /\ AdvanceCursor(c, pg.seq + 1, pg.seq + 1)
    /\ UNCHANGED <<blocked, target, floors, prov>>

\* dispatchUpdateCursor, Deliver failed: block the group, cursor stays put.
ApplyFailed(c) ==
    /\ Wanted(c) /\ c \in pg.err
    /\ RS!AddBlocked(c, log[pg.seq], RS!FailedRecord(pg.seq))
    /\ NextApply(pg)
    /\ UNCHANGED <<cursor, prov>>

\* Mutant: a batcher's buffered event counts as delivered.
ApplyDeliveredAtOnce(c) ==
    /\ Wanted(c) /\ c \notin pg.err
    /\ AdvanceCursor(c, pg.seq + 1, pg.seq + 1)
    /\ UNCHANGED <<blocked, target, floors, prov>>

\* dispatchUpdateCursor, Deliver succeeded: a batcher's advance is provisional.
ApplyDelivered(c) ==
    /\ Wanted(c) /\ c \notin pg.err
    /\ IF c \in Batchers
       THEN /\ prov' = [prov EXCEPT ![c] = AtLeast(@, pg.seq + 1)]
            /\ NextApply(pg)
            /\ UNCHANGED cursor
       ELSE /\ AdvanceCursor(c, pg.seq + 1, pg.seq + 1)
            /\ UNCHANGED prov
    /\ UNCHANGED <<blocked, target, floors>>

\* Tombstones, and entries below the consumer's own cursor, are left alone.
ApplyNothing(c) ==
    /\ \/ ~pg.snap[c].on \/ c \in removed
       \/ ~pg.snap[c].skipped /\ pg.seq < pg.snap[c].cursor
    /\ NextApply(pg)
    /\ UNCHANGED <<blocked, target, floors, cursor, prov>>

\* dispatch, phase 3 for one consumer (applyDispatchCursors, under Router.mu).
ApplyDispatchCursors ==
    LET c == At(pg.i) IN
    /\ ppc = "apply"
    /\ \/ ApplyNothing(c)
       \/ /\ pg.snap[c].on /\ c \notin removed
          /\ \/ ApplyFollowOn(c) \/ ApplySkipped(c)
             \/ ApplyFailed(c) \/ ApplyDelivered(c)
    /\ UNCHANGED <<tpc, due, cur, rel, acked, dlq, dropped, log, consVars, skipped,
                   streak, sinkVars, storeVars, crashes>>

\* queuePersistCursor: read the floor and queue the capped save.
QueuePersistCursor ==
    LET id == IdOf[At(pg.i)] IN
    /\ ppc = "cap"
    /\ NextApply([pg EXCEPT !.saves = Append(@, <<id, Capped(id, pg.persist)>>)])
    /\ UNCHANGED <<retryVars, log, consVars, memVars, sinkVars, storeVars, crashes>>

\* applyDispatchCursors after the unlock: run the queued saves one by one,
\* then go to the next entry of the window or to the flush.
SaveCursors ==
    /\ ppc = "save"
    /\ IF pg.saves # <<>>
       THEN /\ saved' = [saved EXCEPT ![Head(pg.saves)[1]] = Head(pg.saves)[2]]
            /\ pg' = [pg EXCEPT !.saves = Tail(@)]
            /\ UNCHANGED ppc
       ELSE /\ IF pg.seq < pg.last
               THEN ppc' = "snap" /\ pg' = [pg EXCEPT !.seq = @ + 1]
               ELSE /\ ppc' = "flush"
                    /\ pg' = [IdlePg EXCEPT !.n = Len(consumers), !.i = 1,
                                 !.snap = [c \in Conn |-> [NoSnap EXCEPT !.on = Live(c)]]]
            /\ UNCHANGED saved
    /\ UNCHANGED <<retryVars, log, consVars, memVars, sinkVars, durable, crashes>>

-----------------------------------------------------------------------------
(* flushBatchConsumers, for the flushers listed when it started.           *)

\* FlushBatch, outside every lock.  On nil the whole buffer reached the sink;
\* on an error any part of it may have, and the buffer is gone either way.  A
\* closed stream returns nil without sending what it buffered.
FlushBatch(c) ==
    /\ buffered' = [buffered EXCEPT ![c] = {}]
    /\ ppc' = "settle"
    /\ \/ /\ c \in closed \cap Streams
          /\ pg' = [pg EXCEPT !.out = "ok"]
          /\ UNCHANGED flushed
       \/ /\ c \notin closed \cap Streams /\ buffered[c] \cap Poison = {}
          /\ flushed' = [flushed EXCEPT ![c] = @ \cup buffered[c]]
          /\ pg' = [pg EXCEPT !.out = "ok"]
       \/ /\ c \notin closed \cap Streams /\ c \in FlushFlaky
          /\ \E sent \in SUBSET (buffered[c] \ Poison) :
                flushed' = [flushed EXCEPT ![c] = @ \cup sent]
          /\ pg' = [pg EXCEPT !.out = "transient"]
       \/ /\ c \notin closed \cap Streams
          /\ \E s \in buffered[c] \cap Poison : 
                pg' = [pg EXCEPT !.out = "poison", !.poison = s]
          /\ \E sent \in SUBSET (buffered[c] \ Poison) :
                flushed' = [flushed EXCEPT ![c] = @ \cup sent]

CallFlushBatch ==
    LET c == At(pg.i) IN
    /\ ppc = "flush"
    /\ IF pg.snap[c].on /\ c \in Batchers
       THEN FlushBatch(c)
       ELSE NextConsumer("flush", "read", pg) /\ UNCHANGED sinkVars
    /\ UNCHANGED <<retryVars, log, consVars, memVars, storeVars, crashes>>

\* promoteProvisional: the provisional advance becomes the cursor, skip-set
\* entries up to it are pruned, and the capped cursor is saved under the lock.
Promote(c) ==
    LET new == AtLeast(cursor[c], prov[c]) IN
    IF c \in removed \/ prov[c] = 0
    THEN UNCHANGED <<cursor, prov, skipped, saved>>
    ELSE /\ cursor' = [cursor EXCEPT ![c] = new]
         /\ prov' = [prov EXCEPT ![c] = 0]
         /\ skipped' = [skipped EXCEPT ![c] = {s \in @ : s > new}]
         /\ saved' = [saved EXCEPT ![IdOf[c]] = Capped(IdOf[c], new)]

\* discardProvisional
DiscardProvisional(c) ==
    /\ prov' = [prov EXCEPT ![c] = 0]
    /\ UNCHANGED <<cursor, saved>>

\* handlePoisonFlush dead-letters and skips the poisoned seq, unless the streak
\* is at its limit, the seq is outside the window re-read from the cursor, or
\* no store is configured.
Skippable(c, s) ==
    /\ c \notin removed
    /\ streak[c] < PoisonStreakLimit
    /\ s \in cursor[c]..(cursor[c] + BatchLimit - 1)
    /\ DLQEnabled

SettleOK(c) ==
    /\ pg.out = "ok"
    /\ streak' = [streak EXCEPT ![c] = 0]
    /\ Promote(c)
    /\ UNCHANGED dlq

\* A transient failure, or a poison that could not be dead-lettered.
SettleTransient(c) ==
    /\ \/ pg.out = "transient"
       \/ pg.out = "poison" /\ (~Skippable(c, pg.poison) \/ DLQFlaky)
    /\ DiscardProvisional(c)
    /\ UNCHANGED <<skipped, streak, dlq>>

\* The dead-letter write returned nil: only now does the seq enter the skip-set.
SettlePoison(c) ==
    /\ pg.out = "poison" /\ Skippable(c, pg.poison)
    /\ dlq' = dlq \cup {<<IdOf[c], log[pg.poison], pg.poison>>}
    /\ skipped' = [skipped EXCEPT ![c] = @ \cup {pg.poison}]
    /\ streak' = [streak EXCEPT ![c] = @ + 1]
    /\ DiscardProvisional(c)

\* flushBatchConsumers after FlushBatch returned, under Router.mu.
SettleFlush ==
    LET c == At(pg.i) IN
    /\ ppc = "settle"
    /\ SettleOK(c) \/ SettleTransient(c) \/ SettlePoison(c)
    /\ NextConsumer("flush", "read", [pg EXCEPT !.out = "none", !.poison = 0])
    /\ UNCHANGED <<blocked, target, floors, tpc, due, cur, rel, acked, dropped,
                   log, consVars, sinkVars, durable, crashes>>

-----------------------------------------------------------------------------
(* The retry goroutine, acting on the router's consumers.                  *)

RetryTarget == target[cur[1]]

RetryDeliverOK ==
    /\ RetryTarget \notin closed
    /\ RS!DeliverOK
    /\ buffered' = IF RetryTarget \in Batchers
                   THEN [buffered EXCEPT ![RetryTarget] = @ \cup {Head(RS!CurQueue).seq}]
                   ELSE buffered
    /\ UNCHANGED <<log, consVars, memVars, flushed, partVars, storeVars, crashes>>

RetryDeliverFails ==
    /\ \/ RetryTarget \in Flaky \cup closed /\ RS!DeliverTransient
       \/ RetryTarget \in Flaky \ closed /\ RS!DeliverPermanent
    /\ UNCHANGED <<log, consVars, memVars, sinkVars, partVars, storeVars, crashes>>

RetryInternal ==
    /\ \/ RS!Tick \/ RS!DrainNext \/ RS!DrainPeek
       \/ RS!DeadLetterDrop \/ RS!DeadLetterWrite
       \/ DLQFlaky /\ RS!DeadLetterWriteFails
    /\ UNCHANGED <<log, consVars, memVars, sinkVars, partVars, storeVars, crashes>>

\* handleFloorRelease: persist the first live consumer with this id at the
\* floor captured when the head was popped.
HandleFloorRelease ==
    LET slots == {i \in DOMAIN consumers : Live(At(i)) /\ IdOf[At(i)] = rel.id}
        c     == At(Min(slots))
    IN  /\ MuFree
        /\ RS!Notify
        /\ saved' = IF slots = {} THEN saved
                    ELSE [saved EXCEPT ![rel.id] =
                             IF rel.floor # 0 /\ rel.floor < cursor[c]
                             THEN rel.floor ELSE cursor[c]]
        /\ UNCHANGED <<log, consVars, memVars, sinkVars, partVars, durable, crashes>>

BackoffElapses(id, k) ==
    /\ RS!BackoffElapses(id, k)
    /\ UNCHANGED <<log, consVars, memVars, sinkVars, partVars, storeVars, crashes>>

-----------------------------------------------------------------------------
(* Connections, the cursor store and the process.                          *)

Register(c) ==
    /\ MuFree /\ c \in Late /\ c \notin Range(consumers)
    /\ consumers' = Append(consumers, c)
    /\ cursor' = [cursor EXCEPT ![c] = LoadCursor(IdOf[c])]
    /\ UNCHANGED <<retryVars, log, removed, closed, prov, skipped, streak, sinkVars,
                   partVars, storeVars, crashes>>

\* An SSE or gRPC handler exits: the consumer is closed, never unregistered.
Close(c) ==
    /\ c \in Quits /\ c \in Range(consumers) /\ c \notin closed
    /\ closed' = closed \cup {c}
    /\ UNCHANGED <<retryVars, log, consumers, removed, memVars, sinkVars, partVars,
                   storeVars, crashes>>

\* Unregister (MCP sessions): tombstone the first live slot with this id and
\* delete the id's cursor rows.
Unregister(id) ==
    LET slots == {i \in DOMAIN consumers : Live(At(i)) /\ IdOf[At(i)] = id}
        c     == At(Min(slots))
    IN  /\ MuFree /\ id \in Leavers /\ slots # {}
        /\ removed' = removed \cup {c}
        /\ prov' = [prov EXCEPT ![c] = 0]
        /\ skipped' = [skipped EXCEPT ![c] = {}]
        /\ saved' = [saved EXCEPT ![id] = 0]
        /\ durable' = [durable EXCEPT ![id] = 0]
        /\ UNCHANGED <<retryVars, log, consumers, closed, cursor, streak, sinkVars,
                       partVars, crashes>>

\* The source appends an event of key k to the partition.
AppendEvent(k) ==
    /\ Len(log) < MaxSeq
    /\ log' = Append(log, k)
    /\ UNCHANGED <<retryVars, consVars, memVars, sinkVars, partVars, storeVars, crashes>>

\* The cursor store's periodic flush (module CursorStore has its detail).  Only
\* a crash can tell what it wrote.
FlushCursorStore ==
    /\ durable # saved /\ crashes < MaxCrashes
    /\ durable' = saved
    /\ UNCHANGED <<retryVars, log, consVars, memVars, sinkVars, partVars, saved, crashes>>

\* The state a process starts with: NewRouter, then Register for each consumer
\* of Boot with the cursor the store holds.
NoQueues  == [id \in ConsumerID |-> [k \in Key |-> <<>>]]
NoTargets == [id \in ConsumerID |-> NoConn]
NoFloors  == [id \in ConsumerID |-> [p \in Partition |-> 0]]
NoRelease == [id |-> IdOf[Boot[1]], part |-> Part, floor |-> 0]
AnyGroup  == {IdOf[Boot[1]]} \X Key
Zeroes    == [c \in Conn |-> 0]
NoSeqs    == [c \in Conn |-> {}]
BootCursor(store) ==
    [c \in Conn |-> IF c \in Range(Boot) /\ store[IdOf[c]] # 0 THEN store[IdOf[c]] ELSE 1]

\* The process dies: memory is lost; the log, the durable cursors, the dead
\* letters and what the sinks received survive.
Crash ==
    /\ crashes < MaxCrashes
    /\ crashes' = crashes + 1
    /\ blocked' = NoQueues /\ target' = NoTargets /\ floors' = NoFloors
    /\ tpc' = "idle" /\ due' = {} /\ cur' \in AnyGroup /\ rel' = NoRelease
    /\ consumers' = Boot /\ removed' = {} /\ closed' = {}
    /\ cursor' = BootCursor(durable)
    /\ prov' = Zeroes /\ skipped' = NoSeqs /\ streak' = Zeroes /\ buffered' = NoSeqs
    /\ ppc' = "read" /\ pg' = IdlePg
    /\ saved' = durable
    /\ UNCHANGED <<log, durable, flushed, acked, dlq, dropped>>

Init ==
    /\ blocked = NoQueues /\ target = NoTargets /\ floors = NoFloors
    /\ tpc = "idle" /\ due = {} /\ cur \in AnyGroup /\ rel = NoRelease
    /\ acked = {} /\ dlq = {} /\ dropped = {}
    /\ log = <<>> /\ flushed = NoSeqs /\ crashes = 0
    /\ consumers = Boot /\ removed = {} /\ closed = {}
    /\ saved = [id \in ConsumerID |-> 0] /\ durable = saved
    /\ cursor = BootCursor(saved)
    /\ prov = Zeroes /\ skipped = NoSeqs /\ streak = Zeroes /\ buffered = NoSeqs
    /\ ppc = "read" /\ pg = IdlePg

PartitionStep ==
    \/ ReadPartition \/ SnapshotConsumers \/ Deliver \/ ApplyDispatchCursors
    \/ QueuePersistCursor \/ SaveCursors \/ CallFlushBatch \/ SettleFlush

RetryStep == RetryDeliverOK \/ RetryDeliverFails \/ RetryInternal \/ HandleFloorRelease

Next ==
    \/ PartitionStep \/ RetryStep
    \/ \E id \in ConsumerID, k \in Key : BackoffElapses(id, k)
    \/ \E k \in Key : AppendEvent(k)
    \/ \E c \in Conn : Register(c) \/ Close(c)
    \/ \E id \in ConsumerID : Unregister(id)
    \/ FlushCursorStore
    \/ Crash

Spec == Init /\ [][Next]_rvars

Fairness ==
    /\ WF_rvars(PartitionStep)
    /\ WF_rvars(RetryStep)
    /\ \A id \in ConsumerID, k \in Key : WF_rvars(BackoffElapses(id, k))

-----------------------------------------------------------------------------
(* Properties.                                                             *)

TypeOK ==
    /\ RS!TypeOK
    /\ log \in Seq(Key) /\ Len(log) <= MaxSeq
    /\ consumers \in Seq(Conn) /\ removed \subseteq Conn /\ closed \subseteq Conn
    /\ cursor \in [Conn -> 1..(MaxSeq + 1)]
    /\ prov \in [Conn -> 0..(MaxSeq + 1)]
    /\ skipped \in [Conn -> SUBSET (1..MaxSeq)]
    /\ streak \in [Conn -> 0..PoisonStreakLimit]
    /\ buffered \in [Conn -> SUBSET (1..MaxSeq)]
    /\ flushed \in [Conn -> SUBSET (1..MaxSeq)]
    /\ ppc \in {"read", "snap", "deliver", "apply", "cap", "save", "flush", "settle"}
    /\ saved \in [ConsumerID -> 0..(MaxSeq + 1)]
    /\ durable \in [ConsumerID -> 0..(MaxSeq + 1)]

\* The event reached consumer c's sink, or was given up on explicitly.
Settled(c, s) ==
    LET e == <<IdOf[c], log[s], s>> IN
    \/ IF c \in Batchers THEN s \in flushed[c] ELSE <<c, log[s], s>> \in acked
    \/ e \in dlq \/ e \in dropped

OD == INSTANCE OrderedDelivery
          WITH settled <- [c \in Conn |-> {s \in DOMAIN log : Settled(c, s)}]

\* The event waits in the retry queue of c's id.
Queued(c, s) ==
    \E i \in DOMAIN blocked[IdOf[c]][log[s]] : blocked[IdOf[c]][log[s]][i].seq = s

\* While the process is up, an event below the in-memory cursor of a consumer
\* registered at start-up has been settled or is still queued for retry:
\* dispatch moves the cursor past a failed or blocked event only when the
\* scheduler holds it.
NothingSkipped ==
    \A c \in Range(Boot), s \in DOMAIN log :
        Live(c) /\ s < cursor[c] => Settled(c, s) \/ Queued(c, s)

\* A step of anybody but the retry goroutine that changes the stored cursor of a
\* live consumer leaves it at or below every event that it has not settled.
SavedCursorIsSafe ==
    tpc' = tpc /\ crashes' = crashes =>
        \A c \in Conn, s \in DOMAIN log :
            Live(c) /\ saved'[IdOf[c]] # saved[IdOf[c]] /\ s < saved'[IdOf[c]] => Settled(c, s)

\* Every cursor the partition goroutine saves (dispatch's capped saves and
\* promoteProvisional) is at or below every event the consumer has not settled,
\* although the floor was read before the save and the retry goroutine moves
\* it in between.
DispatchSavesAreSafe == [][SavedCursorIsSafe]_rvars

\* RTR-06 as retry.go states it: the cursor store never holds a cursor past
\* an event of that consumer that is queued and not delivered.
PersistedRespectsFloor ==
    \A c \in Conn, s \in DOMAIN log :
        Live(c) /\ Queued(c, s) /\ ~Settled(c, s) => saved[IdOf[c]] <= s

\* RTR-04 and at-least-once delivery, as a refinement: with every consumer's
\* settled events as the abstract state, each step of the partition and retry
\* goroutines is a step of OrderedDelivery or changes nothing there.  No event
\* overtakes an unsettled event of its key, and none is unsettled again.
ImplementsOrderedDelivery == OD!Spec

\* Phase 2 calls Deliver of a consumer that never fails only with an event that
\* it has not accepted yet.
DeliversToHealthyOnce ==
    \A c \in Conn \ (Flaky \cup Batchers) :
        (ppc = "deliver" /\ pg' # pg /\ c = At(pg.i) /\ Wanted(c) /\ crashes' = 0)
            => <<c, log[pg.seq], pg.seq>> \notin acked

\* A consumer that never fails gets no event twice before the process first
\* crashes, however often a peer's low cursor rewinds the read window.
HealthyGetNoDuplicates == [][DeliversToHealthyOnce]_rvars

\* queue-sink-flushbatch-loss: the stored cursor of a batching consumer is
\* never past an event that its FlushBatch has not sent (or that is not in the
\* dead-letter store), so a crash at any time loses nothing.
FlushedBeforePersisted ==
    \A c \in Batchers, s \in DOMAIN log :
        Live(c) /\ (s < saved[IdOf[c]] \/ s < durable[IdOf[c]]) => Settled(c, s)

\* Every appended event is eventually settled for every consumer: a failed head
\* is retried until it is delivered or given up on, and its followers after it.
EventuallySettled == OD!EverySettled(1..MaxSeq)

\* A client that reconnects under its id resumes: no event is given up on while
\* an open connection of that id, which accepts everything, is registered.
GivenUpOnlyWhenRefused ==
    [][\A e \in (dlq' \ dlq) \cup (dropped' \ dropped) :
          \A c \in Conn : Live(c) /\ IdOf[c] = e[1] => c \in closed \cup Flaky]_rvars
=============================================================================
