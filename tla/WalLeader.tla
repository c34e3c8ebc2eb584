----------------------------- MODULE WalLeader ------------------------------
(***************************************************************************)
(* internal/cluster/wal_leader.go: the WAL leader lease in a NATS KV       *)
(* bucket, a key with a TTL that only one node can create and that its     *)
(* holder renews by compare-and-swap on the revision.                      *)
(***************************************************************************)
EXTENDS Integers, FiniteSets

CONSTANTS
    Nodes,     \* node IDs
    None,      \* no node
    MaxRevs    \* bound: revisions of the lease key

VARIABLES
    lease,     \* the KV key: holder and revision (external)
    revs,      \* revisions handed out so far (external)
    lead       \* isLeader and epoch of each node's elector

leaseVars == <<lease, revs, lead>>

Follower == [isLeader |-> FALSE, epoch |-> 0]

LeaseInit ==
    /\ lease = [holder |-> None, rev |-> 0]
    /\ revs = 0
    /\ lead = [n \in Nodes |-> Follower]

\* Mutant of Granted: a new holder starts with the revision of the old one.
GrantedSame(n) ==
    /\ lease' = [holder |-> n, rev |-> lease.rev]
    /\ lead' = [lead EXCEPT ![n] = [isLeader |-> TRUE, epoch |-> lease.rev]]
    /\ revs' = revs + 1

\* The write of n succeeds: the key has a new revision, which is n's epoch.
Granted(n) ==
    /\ revs < MaxRevs
    /\ revs' = revs + 1
    /\ lease' = [holder |-> n, rev |-> revs']
    /\ lead' = [lead EXCEPT ![n] = [isLeader |-> TRUE, epoch |-> revs']]

\* Run: kv.Create succeeds only while the key is absent.  (A standby polls:
\* watchForExpiry returns at the end of the initial values.)
AcquireLease(n) ==
    /\ ~lead[n].isLeader /\ lease.holder = None
    /\ Granted(n)

\* holdLease: kv.Update on the revision this node wrote last.
RenewLease(n) ==
    /\ lead[n].isLeader /\ lease = [holder |-> n, rev |-> lead[n].epoch]
    /\ Granted(n)

\* The renewal fails: another revision, an absent key or an error.
LoseLease(n) ==
    /\ lead[n].isLeader
    /\ lead' = [lead EXCEPT ![n].isLeader = FALSE]
    /\ UNCHANGED <<lease, revs>>

\* The TTL elapses without a renewal (external).
ExpireLease ==
    /\ lease.holder # None
    /\ lease' = [lease EXCEPT !.holder = None]
    /\ UNCHANGED <<revs, lead>>

-----------------------------------------------------------------------------
\* EpochGetter: the epoch is a fencing token.  A node that becomes leader has a
\* greater epoch than every node that ever was, also one that does not know
\* yet that it lost the lease.
LeaderEpochsGrow ==
    [][\A n \in Nodes : ~lead[n].isLeader /\ lead'[n].isLeader =>
            \A m \in Nodes \ {n} : lead'[n].epoch > lead[m].epoch]_lead
=============================================================================
