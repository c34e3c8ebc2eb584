--------------------------- MODULE RetryScheduler ---------------------------
(***************************************************************************)
(* internal/router/retry.go: the RetryScheduler.                           *)
(*                                                                         *)
(* Events whose delivery failed, and the later events of the same key, are *)
(* queued in memory per (consumer id, grouping key).  One goroutine, Run,  *)
(* ticks: it snapshots the groups whose head is due and drains them one at *)
(* a time, head first.  The scheduler mutex rs.mu is released around every *)
(* Deliver, every dead-letter write and every OnFloorReleased callback, so *)
(* the router's AddBlocked interleaves with each of them; an action below  *)
(* is one critical section of rs.mu, or the call made between two of them. *)
(*                                                                         *)
(* Time is abstracted to one bit per record: wait is TRUE while            *)
(* NextRetryAt lies in the future, and BackoffElapses clears it.           *)
(***************************************************************************)
EXTENDS Integers, Sequences, FiniteSets

CONSTANTS
    Conn,        \* consumer objects (a connection, a sink)
    ConsumerID,  \* their stable ids; several objects may share one
    IdOf,        \* Consumer.ID()
    Key,         \* grouping keys
    Partition,   \* event log partitions
    PartOf,      \* the partition a key hashes to
    MaxRetries,  \* failed attempts before a record is dead-lettered
    DLQEnabled,  \* whether SetDLQ was given a store
    NoConn       \* "rs.states has no entry for this id"

ASSUME SchedulerAssumption ==
    /\ IdOf \in [Conn -> ConsumerID]
    /\ PartOf \in [Key -> Partition]
    /\ MaxRetries \in Nat \ {0}
    /\ DLQEnabled \in BOOLEAN
    /\ NoConn \notin Conn

VARIABLES
    blocked,     \* blockedGroups: [ConsumerID -> [Key -> queue of RetryRecord]]
    target,      \* the consumer object each state was created with, or NoConn
    floors,      \* floors: [ConsumerID -> [Partition -> seq]], 0 when absent
    tpc,         \* where the Run goroutine is
    due,         \* groups snapshotted by Tick and not yet drained
    cur,         \* the group drainGroup works on
    rel,         \* arguments captured for the OnFloorReleased callback
    acked,       \* <<object, key, seq>> for which some Deliver returned nil
    dlq,         \* <<id, key, seq>> durably in the dead-letter store
    dropped      \* <<id, key, seq>> logged and dropped (no store configured)

stateVars  == <<blocked, target, floors>>
tickVars   == <<tpc, due, cur, rel>>
resultVars == <<acked, dlq, dropped>>
vars       == <<stateVars, tickVars, resultVars>>

SeqNo == Nat \ {0}       \* seq 0 is the event log's duplicate sentinel

RetryRecord == [seq : SeqNo, attempts : 0..MaxRetries, wait : BOOLEAN]

Group == ConsumerID \X Key

Release == [id : ConsumerID, part : Partition, floor : Nat]

-----------------------------------------------------------------------------
(* The queues and the cursor floor (RTR-06).                               *)

QueueMap == [ConsumerID -> [Key -> Seq(RetryRecord)]]

\* blockedGroups with queue q in the place of group (id, k).
WithQueue(id, k, q) == [blocked EXCEPT ![id][k] = q]

\* A queue whose head record has become r.
WithHead(q, r) == [q EXCEPT ![1] = r]

\* The seqs at the head of id's blocked groups on partition p.
Heads(q, id, p) ==
    {Head(q[id][k]).seq : k \in {k \in Key : PartOf[k] = p /\ q[id][k] # <<>>}}

\* lowerFloorLocked: a brand-new head can only lower the floor.
LowerFloor(id, p, seq) ==
    [floors EXCEPT ![id][p] = IF @ = 0 \/ seq < @ THEN seq ELSE @]

\* Mutant: the pop does not rescan the heads.
RecomputedFloorStale(q, id, p) == floors[id][p]

\* recomputeFloorLocked: scan the heads that are left; 0 when there are none.
RecomputedFloor(q, id, p) ==
    LET H == Heads(q, id, p)
    IN  IF H = {} THEN 0 ELSE CHOOSE m \in H : \A h \in H : m <= h

\* AddBlocked: bind the id's state to this object if it is the first, append,
\* and lower the floor only when the group did not exist.
AddBlocked(c, k, r) ==
    LET id == IdOf[c] IN
    /\ target' = [target EXCEPT ![id] = IF @ = NoConn THEN c ELSE @]
    /\ blocked' = WithQueue(id, k, Append(blocked[id][k], r))
    /\ floors' = IF blocked[id][k] = <<>>
                 THEN LowerFloor(id, PartOf[k], r.seq)
                 ELSE floors

IsBlocked(id, k) == blocked[id][k] # <<>>

\* The two records dispatch builds: a delivery that just failed is due at
\* once, a follow-on of a blocked group waits one base delay.
FailedRecord(s)   == [seq |-> s, attempts |-> 1, wait |-> FALSE]
FollowOnRecord(s) == [seq |-> s, attempts |-> 0, wait |-> TRUE]

\* A record whose time has come, or is pushed back by a whole delay.
Due(r)      == [r EXCEPT !.wait = FALSE]
Deferred(r) == [r EXCEPT !.wait = TRUE]

\* A record after one more failed attempt.  Attempts beyond MaxRetries (only
\* reached when dead-letter writes fail) are not told apart.
Retried(r) ==
    LET n == r.attempts + 1 IN
    [r EXCEPT !.attempts = IF n > MaxRetries THEN MaxRetries ELSE n,
              !.wait = n < MaxRetries]

\* popHeadLocked: the next record, if any, becomes an immediately due head.
PopHead(q) ==
    IF Len(q) = 1 THEN <<>>
    ELSE WithHead(Tail(q), Due(Head(Tail(q))))

-----------------------------------------------------------------------------
(* The Run goroutine: Tick, drainGroup, deadLetterHead.                    *)

CurQueue == blocked[cur[1]][cur[2]]

CurEvent == <<cur[1], cur[2], Head(CurQueue).seq>>

\* Pop the head of the current group, recompute the floor of its partition and
\* capture both for the callback, which runs after rs.mu is released.
PopAndRelease ==
    LET id == cur[1]
        p  == PartOf[cur[2]]
        q  == WithQueue(id, cur[2], PopHead(CurQueue))
        f  == RecomputedFloor(q, id, p)
    IN  /\ blocked' = q
        /\ floors' = [floors EXCEPT ![id][p] = f]
        /\ rel' = [id |-> id, part |-> p, floor |-> f]
        /\ tpc' = "notify"

\* Tick, phase 1: snapshot the groups whose head is due.
Tick ==
    /\ tpc = "idle"
    /\ due' = {g \in Group : /\ blocked[g[1]][g[2]] # <<>>
                             /\ ~Head(blocked[g[1]][g[2]]).wait}
    /\ due' # {}
    /\ tpc' = "next"
    /\ UNCHANGED <<stateVars, cur, rel, resultVars>>

\* Tick, phase 2: drain the snapshotted groups in any order (map iteration).
DrainNext ==
    /\ tpc = "next"
    /\ \/ \E g \in due :
             /\ cur' = g
             /\ due' = due \ {g}
             /\ tpc' = "peek"
       \/ /\ due = {}
          /\ tpc' = "idle"
          /\ UNCHANGED <<due, cur>>
    /\ UNCHANGED <<stateVars, rel, resultVars>>

\* drainGroup, top of the loop: leave unless the head exists and is due.
DrainPeek ==
    /\ tpc = "peek"
    /\ tpc' = IF CurQueue = <<>> \/ Head(CurQueue).wait THEN "next" ELSE "deliver"
    /\ UNCHANGED <<stateVars, due, cur, rel, resultVars>>

\* Deliver returned nil: pop the head and go on draining.
DeliverOK ==
    /\ tpc = "deliver"
    /\ acked' = acked \cup {<<target[cur[1]], cur[2], Head(CurQueue).seq>>}
    /\ PopAndRelease
    /\ UNCHANGED <<target, due, cur, dlq, dropped>>

\* Deliver returned a permanent error: dead-letter without further retries.
DeliverPermanent ==
    /\ tpc = "deliver"
    /\ tpc' = "deadletter"
    /\ UNCHANGED <<stateVars, due, cur, rel, resultVars>>

\* Mutant: the retry limit is never enforced.
DeliverTransientForever ==
    /\ tpc = "deliver"
    /\ blocked' = WithQueue(cur[1], cur[2], WithHead(CurQueue, Retried(Head(CurQueue))))
    /\ tpc' = "next"
    /\ UNCHANGED <<target, floors, due, cur, rel, resultVars>>

\* Deliver returned a transient error: count it, then back off or dead-letter.
DeliverTransient ==
    /\ tpc = "deliver"
    /\ blocked' = WithQueue(cur[1], cur[2], WithHead(CurQueue, Retried(Head(CurQueue))))
    /\ tpc' = IF Head(CurQueue).attempts + 1 >= MaxRetries THEN "deadletter" ELSE "next"
    /\ UNCHANGED <<target, floors, due, cur, rel, resultVars>>

\* deadLetterHead with no store: log, drop and pop.
DeadLetterDrop ==
    /\ tpc = "deadletter" /\ ~DLQEnabled
    /\ dropped' = dropped \cup {CurEvent}
    /\ PopAndRelease
    /\ UNCHANGED <<target, due, cur, acked, dlq>>

\* deadLetterHead, Store.Write succeeded: only now does the head leave.
DeadLetterWrite ==
    /\ tpc = "deadletter" /\ DLQEnabled
    /\ dlq' = dlq \cup {CurEvent}
    /\ PopAndRelease
    /\ UNCHANGED <<target, due, cur, acked, dropped>>

\* Mutant: the head is popped although the dead-letter write failed.
DeadLetterWriteFailsPops ==
    /\ tpc = "deadletter" /\ DLQEnabled
    /\ PopAndRelease
    /\ UNCHANGED <<target, due, cur, acked, dlq, dropped>>

\* deadLetterHead, Store.Write failed: keep the head, push it to the plateau.
DeadLetterWriteFails ==
    /\ tpc = "deadletter" /\ DLQEnabled
    /\ blocked' = WithQueue(cur[1], cur[2], WithHead(CurQueue, Deferred(Head(CurQueue))))
    /\ tpc' = "peek"
    /\ UNCHANGED <<target, floors, due, cur, rel, resultVars>>

\* The OnFloorReleased callback has returned (Router gives it an effect); its
\* arguments are dead.
Notify ==
    /\ tpc = "notify"
    /\ tpc' = "peek"
    /\ rel' = [rel EXCEPT !.floor = 0]
    /\ UNCHANGED <<stateVars, due, cur, resultVars>>

\* NextRetryAt of a head passes.
BackoffElapses(id, k) ==
    /\ blocked[id][k] # <<>> /\ Head(blocked[id][k]).wait
    /\ blocked' = WithQueue(id, k, WithHead(blocked[id][k], Due(Head(blocked[id][k]))))
    /\ UNCHANGED <<target, floors, tickVars, resultVars>>

\* The router hands over an event: a failed delivery or a follow-on.  The seq
\* is unconstrained: a window that is read again can come back below a head.
Enqueue(c, k, s) ==
    /\ \/ AddBlocked(c, k, FailedRecord(s))
       \/ AddBlocked(c, k, FollowOnRecord(s))
    /\ UNCHANGED <<tickVars, resultVars>>

-----------------------------------------------------------------------------
Init ==
    /\ blocked = [id \in ConsumerID |-> [k \in Key |-> <<>>]]
    /\ target = [id \in ConsumerID |-> NoConn]
    /\ floors = [id \in ConsumerID |-> [p \in Partition |-> 0]]
    /\ tpc = "idle" /\ due = {}
    /\ cur \in Group
    /\ rel \in [id : ConsumerID, part : Partition, floor : {0}]
    /\ acked = {} /\ dlq = {} /\ dropped = {}

TickStep ==
    \/ Tick \/ DrainNext \/ DrainPeek
    \/ DeliverOK \/ DeliverPermanent \/ DeliverTransient
    \/ DeadLetterDrop \/ DeadLetterWrite \/ DeadLetterWriteFails
    \/ Notify

Elapse == \E id \in ConsumerID, k \in Key : BackoffElapses(id, k)

Next ==
    \/ TickStep
    \/ Elapse
    \/ \E c \in Conn, k \in Key, s \in SeqNo : Enqueue(c, k, s)

Spec == Init /\ [][Next]_vars

-----------------------------------------------------------------------------
(* Properties.                                                             *)

TypeOK ==
    /\ blocked \in QueueMap
    /\ target \in [ConsumerID -> Conn \cup {NoConn}]
    /\ floors \in [ConsumerID -> [Partition -> Nat]]
    /\ tpc \in {"idle", "next", "peek", "deliver", "deadletter", "notify"}
    /\ due \subseteq Group
    /\ cur \in Group
    /\ rel \in Release
    /\ acked \subseteq Conn \X Key \X SeqNo
    /\ dlq \subseteq ConsumerID \X Key \X SeqNo
    /\ dropped \subseteq ConsumerID \X Key \X SeqNo

\* RTR-06, what Floor() must answer: the floor of (id, p) is the lowest head
\* among id's blocked groups on p, and absent exactly when none is blocked.
\* AddBlocked maintains it incrementally and a pop by a rescan.
FloorIsLowestHead ==
    \A id \in ConsumerID, p \in Partition :
        LET H == Heads(blocked, id, p) IN
        IF H = {} THEN floors[id][p] = 0
                  ELSE /\ floors[id][p] \in H
                       /\ \A h \in H : floors[id][p] <= h

\* drainGroup re-reads the queue after Deliver relying on "appends never touch
\* the head": while a head is being delivered or dead-lettered off the lock,
\* the queue is not empty.  (A pop of an empty queue would panic.)
HeadInFlight == tpc \in {"deliver", "deadletter"} => CurQueue # <<>>

\* A group with records was created by some consumer object to retry against.
BlockedHasTarget ==
    \A id \in ConsumerID, k \in Key : blocked[id][k] # <<>> => target[id] \in Conn

\* The head of group (id, k) is accounted for after the step.
HeadSettled(id, k) ==
    LET s == Head(blocked[id][k]).seq IN
    \/ <<target[id], k, s>> \in acked'
    \/ <<id, k, s>> \in dlq'
    \/ ~DLQEnabled /\ <<id, k, s>> \in dropped'

ShrinksSettled ==
    \A id \in ConsumerID, k \in Key :
        Len(blocked'[id][k]) < Len(blocked[id][k]) =>
            /\ Len(blocked'[id][k]) = Len(blocked[id][k]) - 1
            /\ HeadSettled(id, k)

\* DLQ-01: a record leaves its queue only from the head, and only after its
\* event was accepted by Deliver or is durably in the dead-letter store; it is
\* dropped only when no store is configured.
LeavesOnlySettled == [][ShrinksSettled]_vars

KeepsOrder ==
    \A id \in ConsumerID, k \in Key :
        LET q == blocked[id][k]
            r == blocked'[id][k]
            d == IF Len(r) < Len(q) THEN 1 ELSE 0
        IN  \A i \in 1..(Len(q) - d) : r[i].seq = q[i + d].seq

\* RTR-04 within a group: a step appends at the tail or pops the head and
\* never reorders what stays queued.
QueueStaysFIFO == [][KeepsOrder]_vars

\* A blocked group never blocks its key forever: with the ticker running, time
\* passing and the dead-letter store not failing for ever, it drains.
EveryGroupDrains ==
    \A id \in ConsumerID, k \in Key :
        blocked[id][k] # <<>> ~> blocked[id][k] = <<>>

Fairness ==
    /\ WF_vars(TickStep)
    /\ \A id \in ConsumerID, k \in Key : WF_vars(BackoffElapses(id, k))
    /\ SF_vars(DeadLetterWrite)
=============================================================================
