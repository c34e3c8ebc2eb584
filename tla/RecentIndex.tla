----------------------------- MODULE RecentIndex -----------------------------
(***************************************************************************)
(* internal/mcp/recent.go: the bounded FIFO index of events by id, fed by  *)
(* all partition goroutines (idx.mu makes put one step), and               *)
(* get_event_by_id.                                                        *)
(***************************************************************************)
EXTENDS Rules

CONSTANTS IndexEvent,        \* IndexEvent[id]: the event, with the columns of its primary key
          IndexAcl,          \* the ACL of each key that calls get_event_by_id
          RecentIndexSize,
          MaxPuts            \* bound: deliveries to the index

VARIABLES index, indexed, puts, lookup
indexVars == <<index, indexed, puts, lookup>>

EmptyIndex == [slots |-> [i \in 0..(RecentIndexSize - 1) |-> ""], start |-> 0, length |-> 0,
               byID |-> {}]

NotFound == [event |-> "", shows |-> {}]

\* What put does to an index that does not hold id.
IndexAdd(x, id) ==
    LET full  == x.length = RecentIndexSize
        start == IF full THEN (x.start + 1) % RecentIndexSize ELSE x.start
        len   == IF full THEN x.length - 1 ELSE x.length
    IN  [slots  |-> [x.slots EXCEPT ![(start + len) % RecentIndexSize] = id],
         start  |-> start, length |-> len + 1,
         byID   |-> (IF full THEN x.byID \ {x.slots[x.start]} ELSE x.byID) \cup {id}]

\* Mutant: the id is not looked up first.
IndexPutBlind(x, id) == IndexAdd(x, id)

\* recentIndex.put: a known id keeps its place.
IndexPut(x, id) == IF id \in x.byID THEN x ELSE IndexAdd(x, id)

\* recentConsumer.Deliver; the router may deliver an id again.
IndexDelivers(id) ==
    /\ puts < MaxPuts /\ puts' = puts + 1
    /\ index' = IndexPut(index, id)
    /\ indexed' = IF id \in index.byID THEN indexed ELSE Append(indexed, id)
    /\ lookup' = [k \in DOMAIN IndexAcl |-> NotFound]

\* getEventByID's answer: a miss and an event of a denied table look alike.
SightByID(k, id) ==
    IF id \in index.byID /\ AllowTable(IndexAcl[k], IndexEvent[id].table)
    THEN [event |-> id, shows |-> Shown(IndexAcl[k], IndexEvent[id])]
    ELSE NotFound

GetEventByID(k, id) ==
    /\ lookup' = [lookup EXCEPT ![k] = SightByID(k, id)]
    /\ UNCHANGED <<index, indexed, puts>>

\* stopRecentIndexLocked, SetRouter(nil)
IndexCleared ==
    /\ index' = EmptyIndex /\ indexed' = <<>>
    /\ UNCHANGED <<puts, lookup>>

IndexInit ==
    /\ index = EmptyIndex /\ indexed = <<>> /\ puts = 0
    /\ lookup = [k \in DOMAIN IndexAcl |-> NotFound]

IndexNext ==
    \/ \E id \in DOMAIN IndexEvent :
        IndexDelivers(id) \/ \E k \in DOMAIN IndexAcl : GetEventByID(k, id)
    \/ IndexCleared

\* The index answers for exactly the RecentIndexSize events indexed last, even
\* when the router delivers some again: slots and map agree.
RecentIndexExact ==
    LET n == Len(indexed)
        k == IF n < RecentIndexSize THEN n ELSE RecentIndexSize
    IN  /\ index.length = k
        /\ index.byID = ToSet(SubSeq(indexed, n - k + 1, n))
        /\ index.byID = {index.slots[(index.start + i) % RecentIndexSize] : i \in 0..(k - 1)}
=============================================================================
