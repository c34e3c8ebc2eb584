# Kaptanto: a TLA+ verification project

Kaptanto captures changes from Postgres (logical replication) and MongoDB
(change streams), writes them to a durable, partitioned event log, and delivers
them to consumers: SSE and gRPC clients, brokers, webhooks, a vector store, MCP
sessions. This directory holds TLA+ models of the code under `src/internal`,
the TLC runs that check them on small instances, and TLAPS proofs of the
theorems that hold for every instance. `PROJECT.json` maps every definition to
the lines it models, lists the runs, mutants, theorems, findings and hazards.

## 1. The system

```
 Postgres WAL --> source/postgres --.                    .--> sse / grpc clients
                  backfill ---------+--> eventlog --> router --> kafka, nats, ...
 MongoDB -------> source/mongodb ---'    (Badger)   |  retry --> dlq
                      |                             |
                  checkpoint (LSN, resume token)    checkpoint (consumer cursors)
 cluster / ha: which process runs the source, which partitions a router owns
```

| Component | State | Operations | What makes it correct |
|---|---|---|---|
| Event log (`eventlog`) | per partition: entries by seq, dedup index; observers | Append, AppendBatch (chunked), ReadPartition, RegisterObserver | an event is written once, in order per key; observers see every committed event |
| Postgres source (`source/postgres`, `parser/pgoutput`) | WAL buffer, read position, last saved LSN, parser's LSN and change counter | handleXLogData, flush, checkpoint, standby status, reconnect, slot check | nothing is acknowledged before it is in the log; a lost slot leads to a snapshot |
| Backfill (`backfill`) | snapshot cursor per table, watermark index of live changes | Run, snapshotTable, ResetForSlotLoss, ShouldEmit | a snapshot row never hides a newer live change; every row is emitted; resume after a crash |
| Source checkpoints (`checkpoint/store.go` ...) | LSN or resume token per source | Save, Load | synchronous and durable |
| Router (`router/router.go`) | consumers, cursor and provisional cursor per consumer and partition, skip-set | Register, Unregister, runPartition, dispatch, flushBatchConsumers, handleFloorRelease | per-key order, at-least-once delivery, cursors that are safe to restart from |
| Retry scheduler (`router/retry.go`) | blocked groups (queues), cursor floors | AddBlocked, Tick, drainGroup, deadLetterHead | order within a key, nothing leaves the queue unsettled, every group drains, the floor is the lowest head |
| Dead-letter store (`dlq`) | entries | Write (idempotent), List, replay, purge | an entry exists before the event is given up |
| Consumer cursor store (`checkpoint/cursor_store.go`, `postgres_cursor_store.go`) | dirty map, flush snapshot, rows | SaveCursor, LoadCursor, DeleteCursor, flush | no save is lost short of a crash, rows never go back |
| Outputs (`output/*`) | buffers, open connections | Deliver, FlushBatch, Close | nil means that the event was taken over |
| MongoDB source (`source/mongodb`) | one change stream and resume token per collection | consumeStream, AppendAndQueueBatch, runCollection | no token passes a change that is not in the log; each document's changes in order; no collection stalls |
| Cluster (`cluster`), HA lock (`ha`) | partition owners and epochs, heartbeats, the WAL leader's lease, advisory lock | claim, steal, release, drain, elect, renew, step down | an epoch has one holder; no saved cursor passes an undelivered entry; orphans are adopted; leaders' epochs grow |
| Connections (`output/sse`, `output/grpc`) | buffer or channel, closed flag | Deliver, FlushBatch, send loop, Close | the client sees every admitted event once and in order; a vanished client misses a bounded amount |
| Rules (`output/row_filter.go`, `routing`, `mcp/acl.go`) | none | parse, match, redact | the parser and the globs mean what their grammar says |
| MCP (`mcp`) | sessions, subscriptions, ring buffers, nudge timers, recent-event index, audit files | subscribe, Deliver, nudge, read, unsubscribe, cleanup, get_event_by_id, Record | every event is received or counted as dropped; the last event is announced; nothing outlives its session; keys see only their tables |
| Enrichment (`enrich`) | goroutines of a batch, circuit breaker | AppendBatch, post, checkCircuit | the log gets settled events; a slow enricher is left alone and used again when it recovers |

How they interact. The source appends to the log under `appendMu`, then saves
its checkpoint, then acknowledges. One router goroutine per partition is woken
by the log's notify channel, reads a window of at most 256 entries from the
lowest cursor of all its consumers, and dispatches each entry in three phases:
a snapshot of consumers under the read lock of `Router.mu`, `Deliver` calls
outside every lock, cursor updates under the write lock; the cursor saves it
queued run after the unlock. Failed events go to the scheduler under `rs.mu`;
the scheduler's own goroutine retries them, releasing `rs.mu` around every
`Deliver`, dead-letter write and `OnFloorReleased` callback, which takes
`Router.mu` again. The cursor store has a mutex and a flush goroutine of its
own.

In a cluster the log is a JetStream stream that all nodes share; the node that
holds the lease appends, and each node's router serves the partitions the node
owned when its router started. Batching sinks buffer in `Deliver` and send in `FlushBatch`,
which the router calls after each window. MCP subscriptions and client streams
are consumers of the router like the sinks. Enrichment wraps the log.

What is hard: the router's two locks are never held together, so values read
under one are used under the other (the floor, `IsBlocked`, the consumer list);
delivery to batching sinks has two steps with a crash in between; consumers come
and go in the middle of a window; a snapshot row is compared with live changes
and appended later; requests, acknowledgements and answers are lost after they
took effect; a node goes on after another has taken its partition or its lease;
timers, drains and evictions meet in one ring; every one of several system calls
can fail. `PROJECT.json` "hazards" lists these at their lines.

## 2. The modules

| Module | Models |
|---|---|
| `RetryScheduler` | `router/retry.go` |
| `RetrySchedulerProofs` | theorems about it |
| `OrderedDelivery` | what the router promises, abstractly |
| `Router` | `router/router.go`, composed with `RetryScheduler` (`INSTANCE`), the outputs as the router sees them, and an abstract cursor store |
| `CursorRegister` | what a cursor store promises, abstractly |
| `CursorStore` | `checkpoint/cursor_store.go` and its Postgres twin |
| `CursorStoreProofs` | theorems about it |
| `ChangeLog` | what a source promises, abstractly |
| `PostgresSource` | `source/postgres/connector.go`, slot handling, the parser's state, with the server's WAL and walsender as its environment |
| `EventLog` | `eventlog/badger.go` as its writers use it |
| `Backfill` | `backfill`, composed with `EventLog` and the live stream of the Postgres source |
| `MongoSource` | `source/mongodb/connector.go`, composed with `EventLog` |
| `WalLeader` | `cluster/wal_leader.go` |
| `Cluster` | the rest of `cluster`, the router and the JetStream readers of each node, composed with `WalLeader` |
| `NatsLog` | `eventlog/nats.go`, appending |
| `Sinks` | `output/webhook`, `vector`, `sqs`, `kafka`, `nats`, `rabbitmq`, `pubsub` against the router's use of them |
| `Rules` | `output/row_filter.go`, `output/filter.go`, `output/column_filter.go`, `routing`, `mcp/acl.go` |
| `Streams` | `output/sse`, `output/grpc`, with the filters as a constant |
| `MCP`, `RecentIndex`, `Audit` | `mcp/subscription.go`, `mcp/recent.go`, `mcp/audit.go`, the first two using `Rules` |
| `Enrich` | `enrich` |
| `RouterProofs`, `ClusterProofs`, `RemoteProofs`, `MongoSourceProofs`, `PostgresSourceProofs`, `BackfillProofs` | theorems about `Router`; `Cluster`, `WalLeader` and `NatsLog`; `Sinks` and `Enrich`; `MongoSource` with `EventLog`; `PostgresSource` with `ChangeLog`; `Backfill` with `EventLog` |
| `MC*` | instances and bounds for TLC; `MCDurable`, `MCCluster` and `MCServices` also put modules side by side |

Operators whose comment begins with "Mutant" are not part of the models: each
is a plausible bug, kept next to the definition it corrupts. `PROJECT.json`
"mutants" says which property notices it.

### RetryScheduler

`blocked[id][k]` is `blockedGroups` of the consumer id (an absent entry is the
empty queue), `target[id]` the consumer object the id's state was created with,
`floors[id][p]` the incremental floor (0 when absent). `tpc`, `due`, `cur`,
`rel` are the locals of the one goroutine that runs `Tick`. An action is one
critical section of `rs.mu` or the call between two of them, so `AddBlocked`
(action `Enqueue`, called from the router's goroutines) interleaves with a
`Deliver` or dead-letter write in flight. Time is one bit per record: `wait`
holds until `NextRetryAt`; delays and jitter are not told apart. `acked`, `dlq`
and `dropped` record what happened to each event. Attempts saturate at
`MaxRetries`, beyond which the code makes no distinction.

### Router

One partition: keys live on one partition, and the goroutines of different
partitions share only the two mutexes. `ppc` and `pg` are the program counter
and the locals of `runPartition`: `read` (ReadPartition), `snap`, `deliver`,
`apply`/`cap` (the write lock is held), `save` (queued saves, lock released),
`flush`/`settle` (flushBatchConsumers). `saved` is what the cursor store
answers, `durable` what survives a crash; `CursorStore` has the detail.
`acked`, `flushed`, `dlq` and `dropped` tell what reached a sink. A `Deliver`
to a batching consumer only fills `buffered`. A crash loses everything except
the log, `durable`, `dlq` and what the sinks have received.

Constants choose the environment: which consumers batch, may fail, may close,
register late or unregister, which seqs poison a flush, whether dead-letter
writes may fail.

Simplified: `Unregister`'s tombstone and its `DeleteCursor` are one step;
errors of LoadCursor and SaveCursor, undecodable keys, the flushers' backoff
time and cluster ownership are left out.

### CursorStore

A value is represented by the number of the `SaveCursor` call that wrote it.
`dirty`, `snapshot` and `disk` are the three places a cursor can be in. A flush
takes the dirty map as its snapshot, and commits or fails; a failed commit may
still have been applied. `LoadCursor` and `DeleteCursor` are two steps each,
one under the mutex and one outside. `Deletable` are the ids for which
`DeleteCursor` is called (MCP sessions, never reused); the guarantees are
stated for the others (`Kept`).

### PostgresSource

The connector is one goroutine; `pc` is its place between two effects that
outlive it or that a failure can separate: slot check, reset of the snapshot
cursors, start of replication, then per message `recv`, `flush` (one buffered
event appended at a time, because `AppendBatch` commits chunk by chunk), `save`
(checkpoint) and `ack` (standby status). `st` is `walReceiveState`, `parser` the
parser's stream mode, LSN and change counter. `log` holds events with the two
parts of their idempotency key that can tell two changes of one row apart; an
append of a key that is present is a no-op.

The server is external. `wal` is a sequence of row, commit and abort records,
each `Unit` LSNs long with `Gap` LSNs of other WAL after it. The walsender
decodes record by record: rows wait for their commit, or are streamed while the
transaction is in progress; a transaction whose commit record lies before the
session's start LSN is skipped. `covered` counts the committed changes that a
recorded re-snapshot will include; the snapshot itself belongs to the backfill
engine. Three constants mark what the code does not survive, and are off in the
passing run (see the deviations below): `Gap` small, `Mixed`, `Fragile`.

Simplified: a new slot is created while no transaction is open; relation and
TOAST caches, subtransactions, the cluster fence in `sendStandbyStatus`, and the
query connection are left out.

### EventLog and Backfill

`call[w]` is a writer's `AppendBatch`: the sequence numbers it has taken, the
chunks still to commit, what it has written. `Prepare` takes the numbers, each
commit skips idempotency keys the log knows, the observers are told at the end.
`Locked` is the connector's `appendMu`.

`Backfill` adds one table. The database is the history of its transactions;
`wcur` is how far the live stream has been appended. `run` is the snapshot
goroutine (`waiting`: further ones that wait for its mutex): page query, `ShouldEmit` per row, buffered appends, saved state. `idx`
is the watermark index with its scan (`todo`), its observer and its key limit;
over the limit, `ShouldEmit` scans the log. `untold` is a history variable: what
the stream's calls had committed before a later chunk failed, of which nobody is
told. `st` is the saved `BackfillState`.
Faults: a failing query, append or save, a lost session, a lost slot, a restart.

### MongoSource

One goroutine per collection: `open`, `next` (wait for a change), `drain` (take
what the cursor holds, one change at a time: `ReadNext` adds it to `batch` or, if it cannot be
decoded, drops it and goes on; `Flush` ends the batch), `append`, `save`.
`store` is the saved token, `tok` the one in memory; a token is a position in
the collection's changes `ops`. A change may be undecodable, a token invalid.
The idempotency key is (collection, document, clusterTime); `Transactions` lets
two changes share a clusterTime. `base` is where the first stream began: what
came before is the business of a snapshot the program cannot reach (below);
`gone` are changes the oplog no longer has, `legacy` the token of an older version.
A stream whose next change is gone ends. For the collections in `Reported`, MongoDB
says so with an error that `isInvalidResumeToken` knows (code 260), and the
goroutine ends (`Invalid`); for the others with another, such as
ChangeStreamHistoryLost (286), and the stream is opened again for ever
(`StreamLost`).

### Cluster, WalLeader, NatsLog

`owner` and `epoch` are the rows of `kaptanto_partitions`, `seen` those of
`kaptanto_nodes`, `store` those of `kaptanto_cursors`. `node[n]` holds what lives in a process: state, epochs it
believes it holds, the partitions its router serves, in-memory cursors, dirty
saves. A node that was stolen from is a zombie until it stops; it goes on
delivering and saving. Readers follow the pull consumer of `nats.go`, which is
reused when its next sequence number is the one wanted. `WalLeader` is the KV
lease: create, compare-and-swap renewal, expiry, stepping down.

`NatsLog` is the writers' side of the stream: messages published without
waiting, one future each, a common deadline, duplicates recognised by their id,
messages and acknowledgements that get lost or come after the call has returned.
`acked` is a history variable: the new entries whose acknowledgement a call got
in time. It leaves out an acknowledgement that lost the `select` against the
deadline, or that a refused `PublishMsgAsync` made the call abandon: those the
code drops (known deviations).

### Sinks

One sink (`kind`), one partition, the log fixed from the start. `cursor`,
`prov`, `skipped` and `streak` are the router's; `pending` is the sink's buffer
and `work` what a flush has left to send; `arrived` is what the far end has,
`store` the vector store, `lru`, `db` and `cache` the hash cache. A poison is dead-lettered and
skipped only if the guard has not tripped, its seq is found in the window, there is
a dead-letter store (`HasDLQ`) and the write succeeds; otherwise the provisional
cursor is discarded and the poison met again.
A request is taken, refused, lost, or taken with its answer lost; an outage makes
all fail until it ends. Kinds differ in what a flush does: one request per URL
group and isolation of a refused one (webhook), runs of upserts and deletes
(vector), chunks (sqs), one batch (kafka), futures (nats, rabbitmq, pubsub),
paused keys (pubsub).

### Rules, Streams, MCP, RecentIndex, Audit, Enrich

`Rules` has operators only: the recursive-descent parser evaluates while it
parses, and `MCServices` compares it with a reference that enumerates the
derivations of the documented grammar; globs likewise. It uses `RECURSIVE`, so
no theorem may reach it.

`Streams` is one connection under two goroutines of the router: dispatch, which hands an
event that failed to the scheduler, leaves the cursor behind it and queues what
follows in its key, and the retry goroutine, which delivers the queue and waits for
no flush. A window may end and be read again from the cursor. Around them are the
buffer (SSE) or the channel (gRPC) and the handler, which sends, pings and closes.
Each partition has one key; the scheduler's own interleavings are in the modules
above. `MCP` has the subscription
table, rings, nudge flags and timers; a handler's critical section is one step.
`RecentIndex` has the slots and the map, and what an answer shows: the columns of
the rows, which `ACL.Apply` masks, those of the key, which it leaves alone, and the
AI context. `Audit` has the files; each remove, stat, rename, open and write may
fail, a write also half-way. `Enrich` has several callers of `AppendBatch`, the
goroutines of their batches, limited for each caller, and the one breaker they
share; of time, only whether the cool-down is over.

## 3. The runs

| Run | Bounds | What it shows |
|---|---|---|
| `retry` | one consumer, three groups on two partitions, two seqs, three AddBlocked calls, two attempts | the floor is always the lowest head (`FloorIsLowestHead`), records leave one at a time, from the head, settled (`LeavesOnlySettled`), and every group drains (`EveryGroupDrains`) |
| `router_plain` | a failing consumer, two keys, three events, windows of two | `NothingSkipped`, `DispatchSavesAreSafe`, and the refinement of `OrderedDelivery` |
| `router_batch` | a batching sink whose flushes fail or are poisoned, a consumer that registers and leaves, failing dead-letter writes, a crash (88,415 states) | `FlushedBeforePersisted` (an event below the stored cursor was sent or is dead-lettered), `HealthyGetNoDuplicates` |
| `router_live` | a consumer that closes for good, two keys, no dead-letter store | `EventuallySettled` |
| `router_floor` | two keys of a failing consumer | expected violation, see below |
| `durable` | source: a transaction of two rows that may be streamed and may abort, one of one row, flush threshold two, two lost sessions or restarts, one lost slot; cursor store: two ids, one deletable, four saves, one crash (292,157 states) | `NoLoss` (CHK-01), the refinement of `ChangeLog`, `EventuallyLogged`; the refinement of `CursorRegister` |
| `backfill` | two rows on two partitions, two transactions, pages of two, appends of two rows, chunks of one event, an index of one key, one fault (370,029 states) | the log holds an event once and no entry appears behind a reader (`GrowsAtEnd`); no row is missing behind the snapshot's cursor (`SnapshotComplete`); the watermark index has all that an observer was told (`IndexExact`); the snapshot ends (`SnapshotFinishes`) |
| `mongo` | two collections on one partition, one old and up to three new changes, batches of two, chunks of one, a collection whose lost token is reported as such and one where it is not, one fault (315,386 states) | no saved token passes a change that is not logged (`NoHole`), a document's changes are there once and in order (`DocumentOrder`), `CatchesUp` |
| `cluster` | two nodes; one partition of two entries, a crash and a late heartbeat; three lease revisions; two changes in batches of up to two with two losses (260,299 states) | `EpochsFence` (CLU-01), `NothingSkippedInCluster`, `AdoptedInFocus`; `LeaderEpochsGrow`; the stream holds every confirmed change once and observers know what was acknowledged (`AppendTellsTruth`), `ConfirmedInFocus` |
| `sinks` | each of the seven kinds, three events of two keys and two targets, event 2 may be refused, windows of three, chunks of two, two faults (531,705 states) | `NothingLost`, `VectorConverges`, `SerialSinksKeepKeyOrder`, `EveryEventPasses` |
| `sinks_replay` | a vector sink, three events of which the third may be refused, one fault | expected violation, see below |
| `services` | MCP: two sessions of one key, of which one may end, two subscriptions and partitions, rings of two, a second key with a narrower ACL; index of two slots, five puts; audit with two old files of one line, five records; filters of up to five groups of tokens, globs and names of up to four characters; a stream of two partitions with a channel of one, a buffer of three frames and a window that may be read again; a batch of two events and one of another caller, one request of each at a time, threshold two (307,062 states) | `RingAccounts`, `NudgeIsOnItsWay`, `SubscriptionHygiene`, `ToolsAnswerRight` (`RecentIndexExact`, `ShownOnlyAllowed`), `AuditLosesOnlyOldest`, `RulesAgree` (`FilterAgrees`, `GlobAgrees`), `StreamRight` (`StreamExact`, `LossBounded`), `StreamsDeliver`, `EnrichmentSafe` (`LoggedIsSettled`, `CircuitHolds`), `CircuitRecovers` |

Every module has a `TypeOK` that says what its variables hold; the runs spend
their properties on the rest.

In `durable`, `cluster` and `services` a variable `focus` picks the part that moves in a
behaviour: the parts share no variable, so interleaving them would only multiply
states.

The bounds are the smallest in which the interesting cases happen: two groups on
one partition and one on another make the floor differ from any single head and
let a pop on one partition not disturb the other; three events and a window of
two make a window end inside a blocked group and a second window re-read it; two
keys are needed for one to overtake the other; the healthy consumer next to the
batching one makes a low cursor re-read what another has taken; two saves of one
key around a flush are needed for a restored snapshot to be older; two rows make
a transaction span two stream segments, reach the flush threshold, and be cut in
the middle of an append, and two faults let the resent part be cut again or a
slot be lost after a restart. `MaxRetries`
is 3 in `router_live`: with 2, a record is given up on its first retry and the
retry goroutine's loop never backs off. In `backfill`, chunks of one event let a
batch fail half way, two rows in one
transaction make a live batch span two partitions and overflow the index, and a
suppressed row leaves an append of two rows half filled at the end of a page. In `mongo` a
batch of two in chunks of one can fail half way, and the old change shows what
lies before the first token. In `cluster` a second revision after a loss and a
third after that let an old leader meet two younger ones; two changes and two
losses let a batch fail in its first, its last or both messages and be repeated
by the other node. In `sinks` three events are a good one before and after a
refused one, and two faults allow an answer to be lost and the retry to fail. In
`services` a ring of two is full with two events and evicts with three; of the
batch of two events one waits for the other while the other caller's request opens
the breaker; and a partition of the stream has an event that fails for good before
one that is queued behind it.

Deadlock is not checked: the bounds on events, saves, faults and crashes stop
the models.

`router_floor` shows a disagreement between the code and its comment
(`PROJECT.json` "findings"): `handleFloorRelease` uses a floor captured when the
head was popped. An event of another key that fails between the pop and the
callback is not in it, so the cursor is saved past a queued event (`retry.go:11`
says never). Until the next save, a crash would lose that event.

`sinks_replay` shows another. Skipping a dead-lettered seq moves a batching
consumer's real cursor past it at once (`router.go:1022`), although the entries of
the window before it have only been buffered a second time; CHK-01 is "cursor
advances only after `FlushBatch` succeeds" (`docs-content.ts:355`). Nothing is lost
by that (`NothingLost`, proved): a sink reports a poison only after everything before
it was taken, so those entries are repetitions. But a repetition that is cut off
half-way leaves the far end in the past: in the trace the vector store takes an old
upsert again, and the delete behind it, which was taken before, is not sent again.
The documentation says "Deletes remove the stable vector ID" (`docs-content.ts:1227`).
`VectorConverges` is therefore stated for a sink without dead-lettered events.

### Known deviations without a run of their own

The same models show these when the named constants are changed, or when the
named property, which no run lists, is checked.

Router and sources:

* A retried `Deliver` to a batching consumer only buffers, but the head is popped
  and the cursor released as if it had been sent (`retry.go:464`):
  `Batchers = Flaky = {c1}`, `MaxSeq = 1` breaks `FlushedBeforePersisted`.
* A consumer that registers while a window is being dispatched receives the next
  entry of a window that starts above its own cursor, and its cursor jumps over
  the entries before it (`router.go:318`). `NothingSkipped` is stated for the
  consumers of start-up; over all of `Conn` it fails with `Late = {c2}`,
  `Flaky = {}`, `MaxSeq = 2`, and so do
  `DispatchSavesAreSafe` and `ImplementsOrderedDelivery`.
* The scheduler keeps the consumer object of the first failure (`retry.go:195`);
  after a reconnect with the same id it retries against the closed connection:
  `GivenUpOnlyWhenRefused` fails with `IdOf <- OneId`, `Late = {c2}`,
  `Quits = {c1}`.
* The checkpoint is the commit message's WAL start, the end of the commit record,
  plus the length of the message, and a session resumes one beyond
  (`connector.go:647`). When the next commit record follows at once (`Gap = 0`)
  its transaction is not sent again and a crash between the two commits loses
  it: `NoLoss` fails. The run has `Gap` above `MsgLen`.
* Skipping a poisoned seq advances the real cursor past earlier entries of the
  window that are only buffered (`sinks_replay`, above): `Poison = {2}` in
  `MCRouterBatch.cfg` breaks `FlushedBeforePersisted` and `NothingSkipped` in `Router`,
  where a flush may be refused before anything was sent.
* The poison-streak guard is reset by any successful flush, an empty one
  included (`router.go:599`), so it counts less than the comments at
  `router.go:24` say; once it has tripped, the poison holds its partition.
* `FlushBatch` of a closed SSE stream returns nil without sending
  (`sse/consumer.go:208`): `Streams = Quits = {c1}` in `MCRouterBatch.cfg`
  breaks `FlushedBeforePersisted`; `LossBounded` bounds the loss.
* A save capped at the old floor can run after `handleFloorRelease`'s and leave
  the stored cursor of a quiet partition behind (redelivery after a restart).
* A save queued before `Unregister`, or a cursor flush in flight during
  `DeleteCursor`, writes a deleted row back.
* An event that failed, drained and is read again can be queued behind a later
  event of its key.
* A batching sink whose flushes keep failing pins the read window, and its
  peers do not get past the window's end.
* All transactions share one `walBuf`. With `Mixed = TRUE` in
  `MCDurable.cfg`, a transaction that commits between two segments of a
  streamed one appends the streamed rows before their commit:
  `ImplementsChangeLog` fails.
* `wasEverConnected` and `needsSnapshot` live in memory. With `Fragile = TRUE`
  in `MCDurable.cfg`, a restart after the slot is lost, or a failure
  between the creation of the new slot and `ResetForSlotLoss`, forgets the
  re-snapshot: `NoLoss` fails.
* `LoadCursor` during a flush answers with the row the flush is about to
  replace.

Log, backfill, MongoDB:

* A snapshot row passes `ShouldEmit` and is appended with its batch later; a live
  change appended in between is followed by the older row (`backfill.go:441`,
  `531`; `README.md:29` says the watermark "prevents duplicate or stale rows").
  `NoStaleRow` states it.
* When a later chunk of a batch fails, the observers are not told of the earlier
  ones (`badger.go:279`), and the retry finds duplicates: the watermark index
  misses them. `IndexExact` allows it (`untold`), and no more than it.
* `launchBackfill` only logs an error of `Run`: the snapshot goes on at the next
  session. `SnapshotFinishes` allows a Run that ended with an error.
* MongoDB changes of one document in one transaction share their clusterTime, and
  so their idempotency key: the log drops the second as a duplicate.
  `Transactions = TRUE` breaks `DocumentOrder`.
* No token is saved before a collection's first event; a change made while the
  process is down before that is not seen (`NoHole` begins at `base`).
* A collection whose token is lost stalls for the life of the process, which
  `CatchesUp` allows: with an error other than code 260 the stream is opened again
  for ever (`connector.go:464`), and otherwise its goroutine ends. `README.md:81`
  says that "Kaptanto automatically falls back to a fresh snapshot".
* The snapshot after an invalid token is unreachable: `g.Wait` (`cmd/mongo.go:93`)
  returns only when every goroutine has ended; and its snapshot is built with a
  nil client (`cmd/mongo.go:109`) and saves an empty token through `appendFn`
  (`cmd/mongo.go:76`).

Cluster and JetStream:

* `epoch_cursor_store.go:10` says that a zombie's saves "are silently dropped".
  They are not: the wrapper asks the node's own memory. `ZombieSavesDropped`
  fails. `NothingSkippedInCluster` shows that they lose nothing.
* `Router.Run` reads the owned partitions once: a partition claimed or stolen
  later has an owner but is served only after a restart.
* A node that restarts with its old id does not take up the partitions it still
  owns; a kill between going offline and `ReleaseAll` orphans them as well.
* A node that holds the replication slot without the lease never acknowledges.
* Published without waiting, a message that is sent again (no responders) comes
  after its successors: two changes of one key can be in the stream in the wrong
  order.
* After the deadline of `AppendBatch` the `select` may drop an acknowledgement
  that is there, and a refused `PublishMsgAsync` returns before any is collected
  (`nats.go:337`, `384`): the observers never hear of those entries.
* The HA lock's loss is not noticed by its holder (`ha/leader.go`).

Sinks and services:

* SQS goes on with the next chunk after a failed one (`sqs/consumer.go:421`): an
  event overtakes an earlier one of its key, which `README.md:30` excludes.
  `PerKeyOrder` fails with `Kinds = {"sqs"}`, `ChunkMax = 1`, `MaxFaults = 1`.
* Failed writes of the hash cache are only logged, so the cache can claim a text
  the store no longer has (`cache = "stale"`, excluded from `VectorConverges`).
  A crash after a lost answer, followed by an outage that ends in the dead-letter
  store, also leaves the vector store behind.
* pgvector's errors are all transient, and the brokers know no poison: an event
  that is refused for good is retried for ever.
* gRPC `Acknowledge` saves whatever seq the client names (`grpc/server.go:122`).
* What is in a gRPC channel when the client goes is lost to it; `Deliver` may
  still accept an event after `Close` (`grpc/consumer.go:136`).
* The SSE ping is written without the consumer's mutex (`sse/server.go:119`). One
  that falls between a frame's "data: " and its payload ends the frame: the client
  reads the ping as the event's data and the event is lost to it. `StreamExact`
  excepts those frames (`Torn`). (The two writers also race for `net/http`'s buffer.)
* An SSE event that a retry delivers is only in the response buffer when the record
  is popped and the saved cursor released (`retry.go:464`): it waits for the next
  flush or ping, and is lost if the connection goes first (`LossBounded`).
* An event that fails as the last of its window is read again and queued a second
  time (`router.go:1061`, `1097`), so a client may get it twice, also after its
  successors. `StreamExact` allows that for events that failed in dispatch.
* The comments at `sse/consumer.go:24` and `100` say a write error is permanent;
  `isPermanentError` (`retry.go:83`) does not know it, so a closed connection is
  retried to the limit.
* A failed rotation leaves the auditor without a file: records are lost until a
  restart (`audit.go:159`), although `audit.go:129` says it will "still try to write
  to the current file".
* An audit file whose `Stat` fails passes for a missing one (`audit.go:170`): it is
  not renamed, and the next younger one is renamed over it. `AuditLosesOnlyOldest`
  excepts those files.
* `ACL.Apply` masks Before and After, but not `Key` and `IdempotencyKey`
  (`event.go:65`, `44`): both tools show the values of a redacted primary key, while
  `server.go:7` and `README.md:274` call every result redacted. `ShownOnlyAllowed`
  says so.
* A subscribe still in flight when its session is cleaned up adds a subscription
  that nothing removes.
* Half-open, the breaker lets every goroutine probe (`httpclient.go:143` says one);
  failures other than timeouts do not touch it.
* In row filters NULL has two values of truth, not three, and keywords are
  accepted as column names.

## 4. Fairness

`RetryScheduler!Fairness`: the `Run` goroutine takes steps while it can (Go
schedules a runnable goroutine), backoffs elapse, and the dead-letter store does
not fail for ever (strong fairness of the successful write: the code keeps the
head and retries without limit, so without it no progress is promised).
`Router!Fairness`: the partition goroutine and the retry goroutine take steps
while they can, and backoffs elapse. Nothing is assumed of consumers: a
consumer that never accepts anything is covered by the retry limit.
`PostgresSource!Fairness`: open transactions go on, and `Run` keeps calling
`connectAndStream`, which takes steps while it can; faults are bounded, as the
connector promises nothing while connections keep failing.
`Backfill!Fairness`: the snapshot goroutine gets the mutexes it waits for (Go's
are starvation-free, hence strong fairness), commits and reconnections go on.
`MongoSource`: each collection's goroutine takes steps while it can.
`Cluster!Fairness`: the tickers of heartbeat and partition manager fire,
and a heartbeat that is not renewed goes stale. `MCCluster!LogFairness`: a writer
goes on calling `AppendBatch`, the server stores what reaches it, deadlines pass.
`Sinks`: the partition goroutine goes on and an outage ends. `MCServices`: the
goroutines of a stream and of each caller's batch take steps, the retry goroutine
among them, the client reads, the ticker of the SSE handler fires, the cool-down
ends. Faults are bounded by constants in all of them.

## 5. The proofs

TLAPS checks, for every set of consumers, keys and partitions, every retry limit
and unbounded numbers of events, saves and crashes:

* `RetrySchedulerProofs`
  * `TypeCorrect`: `Spec => []TypeOK`.
  * `FloorCorrect`: `Spec => []FloorIsLowestHead` (RTR-06).
  * `HeadStaysInFlight`: `Spec => []HeadInFlight`.
  * `NothingLeavesUnsettled`: `Spec => LeavesOnlySettled` (DLQ-01).
  * `QueuesStayInOrder`: `Spec => QueueStaysFIFO` (RTR-04).
* `CursorStoreProofs`
  * `CopiesInOrder`: `Spec => []InOrder`.
  * `LoadsNotBelowRow`: `Spec => []LoadNotBelowRow`.
  * `StoreImplementsRegister`: `Spec => ImplementsRegister`, the refinement.
* `RouterProofs`
  * `NothingEverSkipped`: `Dependable /\ MaxCrashes = 0 => (Spec => []NothingSkipped)`.
  * `SavesAreSafe`: `NobodyJoins /\ Dependable /\ MaxCrashes = 0 => (Spec => DispatchSavesAreSafe)`.
  * `RouterImplements`: `NobodyJoins /\ Dependable /\ Batchers = {} /\ MaxCrashes = 0 =>
    (Spec => ImplementsOrderedDelivery)`, the refinement (RTR-04).
  * `HealthyServedOnce`: `Dependable /\ OwnIds /\ BootOnce => (Spec => HealthyGetNoDuplicates)`.
* `ClusterProofs`
  * `EpochsAlwaysFence`: `Spec => []EpochsFence` (CLU-01).
  * `NeverSkippedInCluster`: `Spec => []NothingSkippedInCluster`.
  * `EpochsAreFencingTokens`: `Spec => LeaderEpochsGrow`.
  * `ClusterTypes`: `Spec => []TypeOK`.
  * `AppendAlwaysTellsTruth`: `NatsSpec => []AppendTellsTruth`.
* `MongoSourceProofs`
  * `NoHoleEver`: `Spec => []NoHole` (CHK-01 for MongoDB).
  * `DocumentsInOrder`: `TimesDiffer => (Spec => []DocumentOrder)` (LOG-03 for MongoDB).
* `RemoteProofs`
  * `NothingEverLost`: `Spec => []NothingLost`, for all seven kinds of sink.
  * `KeyOrderKept`: `Spec => SerialSinksKeepKeyOrder`.
  * `SinkInvHolds`: the invariant the two follow from.
  * `EnrichmentAlwaysSafe`: `EnrichSpec => []EnrichmentSafe`.
* `PostgresSourceProofs`
  * `AcknowledgedIsSaved`: `Spec => AcksOnlySaved` (CHK-01 for Postgres).
* `BackfillProofs`
  * `SnapshotAlwaysComplete`: `Spec => []SnapshotComplete` (BKF-03, SRC-06).
  * `LogGrowsAtEnd`: `Locked => (Spec => GrowsAtEnd)` (LOG-03 for the writers that
    share `appendMu`).
  * `IndexAlwaysExact`: `Spec => []IndexExact`.

Some results are kept as lemmas, because their hypotheses exclude what the code
meets in some deployments, and the property is false there (known deviations):
`BatchesFlushedFirst` (`FlushedBeforePersisted`) and `RouterInvHolds` in
`RouterProofs`, under `Dependable`; `NoLossWhenSteady` (`NoLoss`),
`SteadySourceImplements` (`ImplementsChangeLog`) and `SourceInvariant` in
`PostgresSourceProofs`, under `Steady`. For these properties the runs and the
deviations say more than the lemmas do.

**The scheduler.** Its inductive invariant `Inv` is `TypeOK`, `HeadInFlight`,
`FloorIsLowestHead` and `BlockedHasTarget` together. Each alone is not
inductive: a pop needs the queue it pops from (`HeadInFlight`), the delivered
record's object needs a target (`BlockedHasTarget`), and the floor's argument
needs both. The floor is the interesting part: `AddBlocked` lowers it only for a
new head, a pop rescans the heads of one partition; lemmas describe how each
step changes `Heads`, once for the partition touched and once for all others.
The two action properties follow from `Inv` and the form of each step.

**The cursor store.** The invariant is `TypeOK`, `InOrder` and `LoadNotBelowRow`.
`InOrder` is what makes the refinement work: a restored snapshot loses to a
newer save, so `Latest` is unchanged by every flush step, and the rows only grow.

**The router.** `RouterProofs` instantiates `RetrySchedulerProofs`, so each step
of the retry goroutine and each `AddBlocked` of dispatch is a step of the
scheduler the earlier theorems are about (`SameScheduler`, `RetryIsScheduler`,
`QueuesEvent`); that nothing leaves a queue unsettled gives `ReachedStays`.
`RouterInv` says, for each consumer of start-up:

* what lies below the in-memory cursor is settled or queued, for a batching
  consumer flushed (`Passed`); below the provisional cursor it is flushed or in
  the buffer, except between a failed `FlushBatch` and the discard
  (`Provisional`); below the stored and the durable cursor it is flushed
  (`Persisted`);
* how far the window has got (`Window`): every earlier entry has been dealt with
  (`Has`), the snapshot of phase 1 is not ahead of the cursor (`Snapped`), and
  every consumer that phase 2 has passed has the event or is in the error set
  (`Tried`). Without the last two, phase 3, which acts on what phases 1 and 2
  saw, could not be shown to skip nothing;
* where the goroutine is (`Place`), among them that no queued save is for a
  batching consumer's id: those are saved by `promoteProvisional` alone.

`OwnTarget` and `BatchersNeverBlocked` tie the queues to consumers. `Dependable`
is the deployment the theorems are about: each consumer of start-up has its own
id; batching consumers are started with the process, do not refuse in `Deliver`
and do not close, and only their flushes fail; no event is poison. Other
consumers may fail, close, register and leave as they like, and any dead-letter
write may fail. Each condition excludes one of the deviations above, for which
`FlushedBeforePersisted` is false: shared ids after a reconnect, a retried `Deliver` to a
batching consumer, a closed stream's flush, a poisoned seq skipped while earlier
ones are only buffered. (`router_batch` checks `FlushedBeforePersisted` with the
first event of the log poisoned, where nothing precedes it.) `NothingSkipped` is proved for
one life of a process, because a crash forgets the queues and the stored cursor
can be past a queued event (`router_floor`).

*Order.* `OrderInv` is inductive relative to `RouterInv`, within one life of a
process: what is accepted, given up on or queued is in the log under its own key
(`Logged`); what precedes a queued event in its key is settled or queued before
it (`QueuedInOrder`); while phase 2 runs, everything below the event at hand is
settled or queued and, unless the snapshot said blocked, the key's queue is
still empty (`MayDeliver`); and below every save that waits for the unlock all
is settled (`SavesSafe`). `MayDeliver` is why a snapshot may be stale: only
phase 3 of the same goroutine adds to a queue, and the retry goroutine only
takes settled heads out. `SavesSafe` holds from the moment of the capping, when
the floor lies at or below every queued event (`FloorBelowHeads`), and is never
lost, since nothing settled is taken back. `Kinds` reduces the steps to four
(`Quiet`, `Delivers`, `Retires`, `Enqueues`); of these the middle two settle
one event, the next of its key, and the others stutter or append, which is the
refinement. `NobodyJoins` is `Conn = Range(Boot)`: a consumer that registers in
the middle of a window may jump over entries (the deviation above), so both
theorems are false for it. `RouterImplements` leaves batching consumers out because one
`FlushBatch` settles many events in one step, and in no order of keys.
`MCRouterPlain.cfg` satisfies all the hypotheses of both.

*Once.* `OnceInv` says of each consumer outside `Flaky` and `Batchers` that what
it accepted lies below its cursor or is the event at hand, which phase 3 is
about to pass (`CursorFollows`, `OnItsWay`); that it has neither accepted nor
refused the event at hand before its turn (`NotYet`), and its turn comes once
(`Distinct`); and that unless it is closed nothing of it is blocked, failed or
queued (`OnlyClosedRefuse`), so no retry delivers to it. `OwnIds` gives every
connection an id of its own and `BootOnce` lists none twice at start-up; late
joiners and batching peers are covered.

**Cluster.** `FenceInv`: the epochs a node holds or has claimed are at most the
table's, equal only for the owner, and no two nodes hold the same; it is
stronger than `EpochsFence` in speaking of claims not yet taken up and of nodes
that are down. `DeliveredInv` says the same of the stored cursor, the in-memory
cursor and the unsaved one of every node: below each, everything has been
delivered. A save or a takeover copies one of them to another, so the stored
cursor alone would not be inductive. `LeaderEpochsGrow` needs that no node holds
an epoch that the lease has not issued (`EpochsIssued`). Assumed: `None` is no
node.

**JetStream.** `NatsInv` ties, for each publisher, the call's replies to its
messages still on their way and to the stream (`CallOK`, `NetOK`) and the
observers to the acknowledgements collected so far (`AcksOK`).

**MongoDB.** `MongoInv` says for each collection that the readable changes up to
its token, which memory and store agree on, are in the log (`Tokens`), and that
those read since are in the batch, in the items of the call under way or, before
the save, in the log (`Pending`, `Committed`). `MongoAssumption` asks of the old changes what MongoDB gives: they
are of the collection's own documents and their times do not run ahead of their
number.

`DocumentOrder` relates entries that may come from different sessions of a
stream, so `OrderInv` carries it through the failures. The numbers of a call's
items rise along the batch and exceed all of the collection's entries that are
not the call's own (`Rising`, `Behind`). What waits in a batch or a call is in
the order of its cluster times, and an event that is older than an entry of its
collection has its key in the log already (`Line`), so the log drops it instead
of giving it a number behind. That last part survives a stream that starts
again because the changes behind the token are subject to it too (`Reread`:
chunks are committed from the front, so an entry implies all before it), and a
collection without a token because it goes on at the head, behind all its
entries (`Latest`). `TimesDiffer` is `~Transactions` and old changes in the
order of their times: with a shared cluster time the property is false (above).

**The sinks.** `NothingLost` says of the cursor what must be known of every place
that vouches for an event. An event is `Done` when it has arrived, is unchanged or
dropped, or was refused alone and dead-lettered; this is never taken back. `SinkInv`
says where the others of a window are:

* while it is dispatched, each entry passed is done or in the buffer; for rabbitmq
  and pubsub done, or a failure is on record; for pubsub done, or its key is paused
  (`DeliverOK`);
* while it is flushed, each entry is done, in a request that is left, or a failure
  is on record (`FlushOK`). A serial sink has no failures on record, because it
  stops at the first, and its requests are in log order, also after a refused one
  has been cut into single events (`IsolatedShape`). So when an event is refused
  alone, all before it is done;
* therefore an "ok" vouches for everything below the provisional cursor, and a
  poison for everything below its seq (`SettleOKs`). That is why moving the real
  cursor past a skipped seq loses nothing: the skip-set holds only seqs with
  everything up to them done.

`RequestsShape` says of the way `FlushBatch` cuts a buffer (`Starts`, `Chunks`,
`ByQueue`) that no event is left out, and that the requests are in order for every
kind but sqs, which visits its queues in any order. `SerialSinksKeepKeyOrder`
follows: the first request of a serial sink holds the oldest events that are not
done, and Pub/Sub publishes only for a key that is not paused. Nothing is assumed
but the constants' types; `TypeOK` minus the parts the argument does not need is
`SinkTypes`. The invariant was checked by TLC on `MCSinks.cfg` and with
`Poison = {1, 3}`.

**Enrich.** `EnrichInv`: a caller's batch is in the log only when none of its
goroutines runs, and what it was given is what its events carry; while the circuit
cools down, a caller's late timeouts and posts under way together do not exceed its
semaphore. The bound is each caller's own: all callers together can have that many
requests each under way when the circuit opens. Batches are assumed finite.

**The Postgres source.** `AcksOnlySaved` says of every move of the slot within a
session that it goes no further than the saved checkpoint. Nothing is assumed of
`Gap`, `Mixed` or `Fragile`: `Acked` relates the checkpoint, the session's saved
position and the slot (a session starts from the checkpoint, saves before it
acknowledges, and a heartbeat sends what it saved last), `Sending` keeps the sender
within the WAL. That what is saved is also in the log is `NoLoss`, which needs
`Steady`.

`NoLoss` speaks of the LSN a session would resume at
and of the log; what makes it true is spread over the WAL, the sender, the
parser and the buffer, so its invariant `SourceInv` describes them all:

* `WalInv` and `HistoryInv`: after its commit a transaction writes nothing, its
  rows are numbered without holes, and `history` follows the commit records;
* `LogInv`: the key of an event names the commit record of its transaction and
  its place in it. So the log takes an event for a duplicate only if it is one,
  however often a stream was cut and sent again;
* `ResumeInv`: every commit before the resume point is dealt with (`Dealt`: in
  the log, or covered by a snapshot and before the slot); `OrderInv`: of what
  can still be sent, the log has no later change without the earlier ones;
* `SessionInv`, while a session lasts: what the sender has sent (`SenderInv`),
  that all it has passed is dealt with and all that may be acknowledged lies
  before what is still to come (`PassedInv`), and where the connector is within
  the messages of one record (`PhaseInv`): between records (`Quiet`), in a
  transaction sent at its commit (`Plain`) or its last append (`Final`), in a
  segment of a streamed one (`Segmenting`), or at an abort (`Aborting`). Each
  phase says which rows are in the buffer, with which keys, and which are in the
  log. Without it the step that saves the checkpoint could not be justified.

The refinement follows: an append is a stutter if its key is present, and
otherwise the event is the next change of history that no snapshot covers, by
`Receiving` and `OrderInv`. `Steady` is `~Mixed`, `~Fragile` and `Gap > MsgLen`:
each excludes a deviation above for which the two lemmas are false (two
transactions in one buffer, a re-snapshot forgotten, a position past the next
record), and nothing else is asked: connections, the process and the slot may be
lost at any step, any number of times. `MCDurable.cfg` satisfies it.

**The snapshot.** `SnapshotComplete` speaks of saved state and log. What makes it
true is `SnapInv`:

* the stream has brought its last change, or has still to (`LiveOK`: everything
  between the slot's start and `wcur` is in the log). So only rows whose last
  change is older than the slot matter (`Old`);
* an event the snapshot wrote names its row and snapshot ID, and if the ID is the
  current one and the row has not changed since the slot's start, it has the
  row's version (`ReadEv`, `Right`). So an append that the log drops as a
  duplicate loses nothing, even after a resume reads the row again. This fails
  without the new ID of `ResetForSlotLoss`: then the log may know the key with a
  version from before the lost slot;
* the checker skips it only for a live event behind the snapshot's LSN
  (`IndexOK`), and that LSN lies behind the slot's start (`LsnOK`), so the row is
  not `Old`. It is 0, after a failed query, only while the first slot lasts,
  whose start is before every change;
* a page that is read while the database changes covers all it must: every old
  row behind the cursor is on the page or, if the page is full, after its last
  (`PageOK`), and up to the page's cursor rows are in the log or in the buffer
  (`BufOK`). The saved cursor moves with an empty buffer only.

`Steady` (no slot lost and not yet reset) guards all that compares versions:
between `ConnectSlotLost` and `ResetForSlotLoss` the slot's start has moved and
the old state is void, while a `Run` may still be appending. Nothing is assumed
of sizes, and `Locked` is not needed: completeness does not depend on `appendMu`.

`GrowsAtEnd` does. `SeqInv`: only the holder of `appendMu` is in a call, and the
items it has still to commit are numbered upwards (`Rising`) and after all of the
log (`Behind`). `IndexExact` needs neither: `Knows` says of
each partition that has been scanned that the index has the newer events of its
entries, or that they are `Unseen`, which is what the stream's call has written and
not told yet, or what a call that failed had written. A scan of a partition takes
all of its entries; a commit adds to `written` what it adds to the log; and the
observers are told of `written` when a call ends, unless it failed.

Only model-checked: all liveness properties and the runs' fairness (`ENABLED`),
which are outside this prover; the vector store's contents (`VectorConverges`),
which say what a chain of overwritten caches amounts to; `Streams`, `MCP`, `RecentIndex`, `Audit`,
`Rules`. `Rules` is recursive, and `MCP` and `RecentIndex` use it, so no theorem
may reach them; what a fold or `SelectSeq` computes cannot be proved either,
because that is an induction over data. Where an induction over numbers is
needed (a least head, a least missing change, rows in key order) the proofs take
the least element of a set of numbers instead, from the well-foundedness of `<`.

## 6. Plan

1. Done: `RetryScheduler`, `Router`, `CursorStore`, `PostgresSource` with their
   abstract specifications; `EventLog`, `Backfill`, `MongoSource`; `Cluster`,
   `WalLeader`, `NatsLog`; `Sinks`; `Streams`, `MCP`, `RecentIndex`, `Audit`,
   `Rules`, `Enrich`; first proofs.
2. Done: proofs about the scheduler, the cursor store, the router, the cluster,
   JetStream, the MongoDB and Postgres sources, the snapshot, the sinks and
   enrichment. Left: `VectorConverges`, and `MCP` once its use of `Rules` is a constant.
3. Model: subtransactions and the TOAST cache in the source, `Acknowledge` and
   reconnecting clients in `Streams`.

### Not modelled

The HA lock: the exclusion is Postgres's and the code keeps no state. The Mongo
snapshot: no execution of the program reaches it with a client. Decoding of wire
formats, transforms' scripting engines, request templates and signing,
configuration, metrics, logging, OpenAPI, authentication, the stdout writer, SDKs
and the web site: none carries the delivery guarantees. `PROJECT.json`
"components" gives the reason for each, and what is left out of the parts that
are modelled.
