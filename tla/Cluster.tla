------------------------------ MODULE Cluster -------------------------------
(***************************************************************************)
(* internal/cluster: the nodes of a cluster share two Postgres tables, the *)
(* consumer cursors and a NATS event log.  A node claims free partitions,  *)
(* steals those of nodes whose heartbeat is stale, and its Router delivers *)
(* the entries of the partitions it started with and saves the cursor.     *)
(***************************************************************************)
EXTENDS WalLeader

CONSTANTS
    Parts,        \* partitions
    MaxSeq,       \* entries of each partition in the event log
    MaxCrashes,   \* bound: crashes
    MaxLate       \* bound: heartbeats of live nodes that come late, failed calls

ASSUME ClusterAssumption == None \notin Nodes /\ MaxSeq \in Nat

VARIABLES
    owner,        \* kaptanto_partitions: owner_node_id
    epoch,        \* kaptanto_partitions: epoch
    seen,         \* kaptanto_nodes: "absent", "fresh" or "stale"
    store,        \* kaptanto_cursors: next sequence number of the consumer
    node,         \* volatile state of each node
    done,         \* history: delivered sequence numbers of each partition
    crashes, late

tables == <<owner, epoch, seen, store>>
hist == <<done, crashes, late>>
vars == <<tables, node, hist, leaseVars>>

Zero == [p \in Parts |-> 0]

Down == [state |-> "down", owned |-> Zero, listed |-> {}, claims |-> Zero, applied |-> FALSE,
         started |-> FALSE, parts |-> {}, cur |-> Zero, cons |-> Zero, dirty |-> Zero]

Up(n) == node[n].state = "up"
Merged(f, g) == [p \in Parts |-> IF g[p] # 0 THEN g[p] ELSE f[p]]
Keys(f) == {p \in Parts : f[p] # 0}

-----------------------------------------------------------------------------
(* NodeHeartbeater                                                         *)

Heartbeat(n) ==
    /\ Up(n) /\ seen[n] = "stale"
    /\ seen' = [seen EXCEPT ![n] = "fresh"]
    /\ UNCHANGED <<owner, epoch, store, node, hist, leaseVars>>

\* last_seen gets older than three poll intervals.
GoesStale(n) ==
    /\ seen[n] = "fresh"
    /\ IF Up(n) THEN late < MaxLate /\ late' = late + 1 ELSE UNCHANGED late
    /\ seen' = [seen EXCEPT ![n] = "stale"]
    /\ UNCHANGED <<owner, epoch, store, node, done, crashes, leaseVars>>

-----------------------------------------------------------------------------
(* PartitionStore and PartitionManager                                     *)

\* ClaimUnclaimed lists the free partitions, then tries them one by one.
ListUnclaimed(n) ==
    /\ Up(n) /\ node[n].listed = {} /\ Keys(node[n].claims) = {}
    /\ \E p \in Parts : owner[p] = None
    /\ node' = [node EXCEPT ![n].listed = {p \in Parts : owner[p] = None}]
    /\ UNCHANGED <<tables, hist, leaseVars>>

\* Mutant of Claim: the row is taken without the check that it is still free.
ClaimBlind(n, p) ==
    /\ Up(n) /\ p \in node[n].listed
    /\ owner' = [owner EXCEPT ![p] = n]
    /\ epoch' = [epoch EXCEPT ![p] = IF owner[p] = None THEN @ + 1 ELSE @]
    /\ node' = [node EXCEPT ![n].listed = @ \ {p}, ![n].claims[p] = epoch'[p]]
    /\ UNCHANGED <<seen, store, hist, leaseVars>>

\* UPDATE ... WHERE owner_node_id IS NULL: lost races are skipped.
Claim(n, p) ==
    /\ Up(n) /\ p \in node[n].listed
    /\ IF owner[p] = None
       THEN /\ owner' = [owner EXCEPT ![p] = n]
            /\ epoch' = [epoch EXCEPT ![p] = @ + 1]
            /\ node' = [node EXCEPT ![n].listed = @ \ {p}, ![n].claims[p] = epoch'[p]]
       ELSE /\ node' = [node EXCEPT ![n].listed = @ \ {p}]
            /\ UNCHANGED <<owner, epoch>>
    /\ UNCHANGED <<seen, store, hist, leaseVars>>

\* claimAndApply: the claims go to the owned map, the map to the Router.
Applied(r, claims) ==
    [r EXCEPT !.owned = Merged(r.owned, claims), !.claims = Zero, !.applied = TRUE]

ClaimAndApply(n) ==
    /\ Up(n) /\ node[n].listed = {} /\ Keys(node[n].claims) # {}
    /\ node' = [node EXCEPT ![n] = Applied(@, @.claims)]
    /\ UNCHANGED <<tables, hist, leaseVars>>

\* A claim fails: what was claimed before it is in the table only.
ClaimFails(n) ==
    /\ Up(n) /\ node[n].listed # {} /\ late < MaxLate
    /\ node' = [node EXCEPT ![n].listed = {}, ![n].claims = Zero]
    /\ late' = late + 1
    /\ UNCHANGED <<tables, done, crashes, leaseVars>>

Of(m) == {p \in Parts : owner[p] = m}

\* Mutant of Steal: the epoch of a stolen partition stays.
StealKeepsEpoch(n, m) ==
    /\ Up(n) /\ m # n /\ seen[m] = "stale" /\ Of(m) # {}
    /\ owner' = [p \in Parts |-> IF p \in Of(m) THEN n ELSE owner[p]]
    /\ node' = [node EXCEPT ![n] = Applied(@, [p \in Parts |-> IF p \in Of(m) THEN epoch[p] ELSE 0])]
    /\ UNCHANGED <<epoch, seen, store, hist, leaseVars>>

\* Mutant of Steal: the test for the own node ID is inverted.
StealInverted(n, m) ==
    /\ Up(n) /\ m = n /\ seen[m] = "stale" /\ Of(m) # {}
    /\ epoch' = [p \in Parts |-> IF p \in Of(m) THEN epoch[p] + 1 ELSE epoch[p]]
    /\ node' = [node EXCEPT ![n] = Applied(@, [p \in Parts |-> IF p \in Of(m) THEN epoch'[p] ELSE 0])]
    /\ UNCHANGED <<owner, seen, store, hist, leaseVars>>

\* StealStalePartitions: all partitions of a stale node in one statement.
Steal(n, m) ==
    /\ Up(n) /\ m # n /\ seen[m] = "stale" /\ Of(m) # {}
    /\ owner' = [p \in Parts |-> IF p \in Of(m) THEN n ELSE owner[p]]
    /\ epoch' = [p \in Parts |-> IF p \in Of(m) THEN epoch[p] + 1 ELSE epoch[p]]
    /\ node' = [node EXCEPT ![n] = Applied(@, [p \in Parts |-> IF p \in Of(m) THEN epoch'[p] ELSE 0])]
    /\ UNCHANGED <<seen, store, hist, leaseVars>>

-----------------------------------------------------------------------------
(* Router, NatsEventLog readers and epochCursorStore                       *)

\* Router.Run reads the owned set once: all partitions when none was applied.
RouterStarts(n) ==
    /\ Up(n) /\ ~node[n].started
    /\ node' = [node EXCEPT ![n].started = TRUE,
                            ![n].parts = IF node[n].applied THEN Keys(node[n].owned) ELSE Parts]
    /\ UNCHANGED <<tables, hist, leaseVars>>

\* Mutant of PullPosition: an existing pull consumer is always reused.
PullPositionStale(n, p, from) == IF node[n].cons[p] # 0 THEN node[n].cons[p] ELSE from

\* ensurePullConsumer: a consumer that would deliver another sequence number
\* than the one asked for is replaced.
PullPosition(n, p, from) == IF node[n].cons[p] = from THEN node[n].cons[p] ELSE from

NextCursor(s) == s + 1

Reads(n, p) == Up(n) /\ node[n].started /\ p \in node[n].parts

\* runPartition reads from its cursor and delivers; SaveCursor is dropped when
\* the node does not believe to own the partition.
Deliver(n, p) ==
    LET s == PullPosition(n, p, node[n].cur[p])
    IN  /\ Reads(n, p) /\ s <= MaxSeq
        /\ done' = [done EXCEPT ![p] = @ \cup {s}]
        /\ node' = [node EXCEPT ![n].cons[p] = s + 1, ![n].cur[p] = NextCursor(s),
                       ![n].dirty[p] = IF node[n].owned[p] # 0 THEN NextCursor(s) ELSE @]
        /\ UNCHANGED <<tables, crashes, late, leaseVars>>

\* Delivery fails: the cursor stays, the pull consumer has moved on.
DeliverFails(n, p) ==
    LET s == PullPosition(n, p, node[n].cur[p])
    IN  /\ Reads(n, p) /\ s <= MaxSeq /\ late < MaxLate
        /\ node' = [node EXCEPT ![n].cons[p] = s + 1]
        /\ late' = late + 1
        /\ UNCHANGED <<tables, done, crashes, leaseVars>>

\* The watermark checker scans a partition from its start with the same reader.
WatermarkScan(n, p) ==
    /\ Up(n) /\ node[n].cons[p] # MaxSeq + 1
    /\ node' = [node EXCEPT ![n].cons[p] = MaxSeq + 1]
    /\ UNCHANGED <<tables, hist, leaseVars>>

\* PostgresCursorStore.flush writes the dirty cursors: the last writer wins.
FlushCursors(n) ==
    /\ Up(n) /\ Keys(node[n].dirty) # {}
    /\ store' = Merged(store, node[n].dirty)
    /\ node' = [node EXCEPT ![n].dirty = Zero]
    /\ UNCHANGED <<owner, epoch, seen, hist, leaseVars>>

-----------------------------------------------------------------------------
(* Life of a node                                                          *)

\* Register loads the cursors before Run, which sends the first heartbeat.
Start(n) ==
    /\ node[n].state = "down"
    /\ node' = [node EXCEPT ![n] = [Down EXCEPT !.state = "up", !.cur = store]]
    /\ seen' = [seen EXCEPT ![n] = "fresh"]
    /\ UNCHANGED <<owner, epoch, store, hist, leaseVars>>

\* Shutdown: the errgroup drains, the node's row is deleted, the cursors are
\* flushed; only then ReleaseAll frees the partitions.
Drain(n) ==
    /\ Up(n) /\ crashes < MaxCrashes
    /\ crashes' = crashes + 1
    /\ seen' = [seen EXCEPT ![n] = "absent"]
    /\ store' = Merged(store, node[n].dirty)
    /\ node' = [node EXCEPT ![n] = [Down EXCEPT !.state = "drain"]]
    /\ lead' = [lead EXCEPT ![n].isLeader = FALSE]
    /\ UNCHANGED <<owner, epoch, done, late, lease, revs>>

ReleaseAll(n) ==
    /\ node[n].state = "drain"
    /\ owner' = [p \in Parts |-> IF owner[p] = n THEN None ELSE owner[p]]
    /\ node' = [node EXCEPT ![n] = Down]
    /\ UNCHANGED <<epoch, seen, store, hist, leaseVars>>

Crash(n) ==
    /\ Up(n) /\ crashes < MaxCrashes
    /\ crashes' = crashes + 1
    /\ node' = [node EXCEPT ![n] = Down]
    /\ lead' = [lead EXCEPT ![n] = Follower]
    /\ UNCHANGED <<tables, done, late, lease, revs>>

Lease(n) ==
    /\ Up(n)
    /\ AcquireLease(n) \/ RenewLease(n) \/ LoseLease(n)
    /\ UNCHANGED <<tables, node, hist>>

Expire == ExpireLease /\ UNCHANGED <<tables, node, hist>>

StepDown(n) == LoseLease(n) /\ UNCHANGED <<tables, node, hist>>

-----------------------------------------------------------------------------
Init ==
    /\ LeaseInit
    /\ owner = [p \in Parts |-> None] /\ epoch = Zero
    /\ seen = [n \in Nodes |-> "absent"]
    /\ store = [p \in Parts |-> 1]
    /\ node = [n \in Nodes |-> Down]
    /\ done = [p \in Parts |-> {}]
    /\ crashes = 0 /\ late = 0

PartitionStep(n) ==
    \/ Heartbeat(n) \/ GoesStale(n) \/ ListUnclaimed(n) \/ ClaimAndApply(n)
    \/ ClaimFails(n) \/ RouterStarts(n) \/ FlushCursors(n)
    \/ \E m \in Nodes : Steal(n, m)
    \/ \E p \in Parts : \/ Claim(n, p) \/ Deliver(n, p) \/ DeliverFails(n, p)
                        \/ WatermarkScan(n, p)

Life(n) == Start(n) \/ Drain(n) \/ ReleaseAll(n) \/ Crash(n)

Next ==
    \/ \E n \in Nodes : Life(n) \/ PartitionStep(n) \/ Lease(n)
    \/ Expire

\* The tickers of heartbeater and partition manager; time passes.
Fairness ==
    /\ \A n \in Nodes :
          /\ WF_vars(Heartbeat(n)) /\ WF_vars(~Up(n) /\ GoesStale(n))
          /\ WF_vars(ListUnclaimed(n)) /\ WF_vars(ClaimAndApply(n)) /\ WF_vars(ReleaseAll(n))
          /\ \A p \in Parts : WF_vars(Claim(n, p))
          /\ \A m \in Nodes : WF_vars(Steal(n, m))

Spec == Init /\ [][Next]_vars /\ Fairness

-----------------------------------------------------------------------------
PerPart == [Parts -> Nat]

NodeState ==
    [state : {"down", "up", "drain"}, owned : PerPart, listed : SUBSET Parts, claims : PerPart,
     applied : BOOLEAN, started : BOOLEAN, parts : SUBSET Parts,
     cur : PerPart, cons : PerPart, dirty : PerPart]

TypeOK ==
    /\ owner \in [Parts -> Nodes \cup {None}] /\ epoch \in PerPart
    /\ seen \in [Nodes -> {"absent", "fresh", "stale"}]
    /\ store \in PerPart /\ node \in [Nodes -> NodeState]
    /\ done \in [Parts -> SUBSET Nat]
    /\ revs \in Nat /\ lead \in [Nodes -> [isLeader : BOOLEAN, epoch : Nat]]

\* CLU-01: nodes never hold a partition in the same epoch, and who holds it in
\* the table's epoch is its owner or has just released it: a claim that lost
\* its partition is always recognisable by its older epoch.
EpochsFence ==
    \A n \in Nodes, p \in Parts :
        LET e == node[n].owned[p]
        IN  e # 0 => /\ e <= epoch[p]
                     /\ e = epoch[p] => owner[p] = n
                     /\ \A m \in Nodes \ {n} : node[m].owned[p] # e

\* At-least-once over steals, zombies and restarts: whatever node saves the
\* cursor, every entry below it has been delivered.
NothingSkippedInCluster ==
    \A p \in Parts : \A s \in 1..(store[p] - 1) : s \in done[p]

\* While some node stays up, the partitions of nodes that are gone find a new
\* owner.
Adopted ==
    <>[](\E n \in Nodes : Up(n)) =>
        \A p \in Parts : []<>(\E n \in Nodes : owner[p] = n /\ Up(n))

\* DLVR-02, epoch_cursor_store.go: "its SaveCursor calls for stolen partitions
\* are silently dropped".  Only the owner moves a partition's cursor.
ZombieSavesDropped ==
    [][\A n \in Nodes, p \in Parts :
            node'[n].dirty[p] # node[n].dirty[p] /\ node'[n].dirty[p] # 0 => owner[p] = n]_node
=============================================================================
