--------------------------- MODULE ClusterProofs ---------------------------
(***************************************************************************)
(* Proofs about what several nodes share: Cluster and WalLeader, for any   *)
(* nodes, partitions, crashes, late heartbeats and lease revisions; and    *)
(* NatsLog, for any publishers, batches, lost messages and restarts.       *)
(***************************************************************************)
EXTENDS Cluster, NatsLog, SequenceTheorems, TLAPS

-----------------------------------------------------------------------------
(* Types.                                                                   *)

LEMMA MergedType ==
    ASSUME NEW f \in PerPart, NEW g \in PerPart
    PROVE  Merged(f, g) \in PerPart
BY DEF Merged, PerPart

LEMMA SetPart ==
    ASSUME NEW f \in PerPart, NEW p, NEW v \in Nat
    PROVE  [f EXCEPT ![p] = v] \in PerPart
BY DEF PerPart

LEMMA DownType == Zero \in PerPart /\ Down \in NodeState
BY DEF Zero, Down, PerPart, NodeState

LEMMA AppliedType ==
    ASSUME NEW r \in NodeState, NEW c \in PerPart
    PROVE  Applied(r, c) \in NodeState
<1>1. Merged(r.owned, c) \in PerPart
  BY MergedType DEF NodeState
<1> QED BY <1>1, DownType DEF Applied, NodeState

\* A node's record keeps its type when the fields an action writes do.
LEMMA SetClaims ==
    ASSUME NEW r \in NodeState, NEW l \in SUBSET Parts, NEW c \in PerPart
    PROVE  [r EXCEPT !.listed = l, !.claims = c] \in NodeState
BY DEF NodeState

LEMMA SetListed ==
    ASSUME NEW r \in NodeState, NEW l \in SUBSET Parts
    PROVE  [r EXCEPT !.listed = l] \in NodeState
BY DEF NodeState

LEMMA SetStarted ==
    ASSUME NEW r \in NodeState, NEW ps \in SUBSET Parts
    PROVE  [r EXCEPT !.started = TRUE, !.parts = ps] \in NodeState
BY DEF NodeState

LEMMA SetCursors ==
    ASSUME NEW r \in NodeState, NEW a \in PerPart, NEW b \in PerPart, NEW c \in PerPart
    PROVE  [r EXCEPT !.cons = a, !.cur = b, !.dirty = c] \in NodeState
BY DEF NodeState

LEMMA SetCons ==
    ASSUME NEW r \in NodeState, NEW a \in PerPart
    PROVE  [r EXCEPT !.cons = a] \in NodeState
BY DEF NodeState

LEMMA SetDirty ==
    ASSUME NEW r \in NodeState, NEW a \in PerPart
    PROVE  [r EXCEPT !.dirty = a] \in NodeState
BY DEF NodeState

LEMMA FieldTypes ==
    ASSUME NEW r \in NodeState
    PROVE  /\ r.owned \in PerPart /\ r.claims \in PerPart /\ r.listed \in SUBSET Parts
           /\ r.cur \in PerPart /\ r.cons \in PerPart /\ r.dirty \in PerPart
BY DEF NodeState

LEMMA AppliedFields ==
    ASSUME NEW r \in NodeState, NEW c
    PROVE  /\ Applied(r, c).owned = Merged(r.owned, c) /\ Applied(r, c).claims = Zero
           /\ Applied(r, c).cur = r.cur /\ Applied(r, c).dirty = r.dirty
           /\ Applied(r, c).state = r.state
BY DEF Applied, NodeState

LEMMA PullIsExact == \A n, p, at : PullPosition(n, p, at) = at
BY DEF PullPosition

LEMMA AtEachPart ==
    /\ \A p \in Parts : Zero[p] = 0
    /\ \A f, g : \A p \in Parts : Merged(f, g)[p] = IF g[p] # 0 THEN g[p] ELSE f[p]
BY DEF Zero, Merged

\* The records that a node starts and drains with.
LEMMA LifeRecords ==
    ASSUME TypeOK
    PROVE  LET up == [Down EXCEPT !.state = "up", !.cur = store]
               drain == [Down EXCEPT !.state = "drain"]
           IN  /\ up \in NodeState /\ drain \in NodeState
               /\ up.owned = Zero /\ up.claims = Zero /\ up.cur = store /\ up.dirty = Zero
               /\ drain.owned = Zero /\ drain.claims = Zero
               /\ drain.cur = Zero /\ drain.dirty = Zero
               /\ Down.owned = Zero /\ Down.claims = Zero
               /\ Down.cur = Zero /\ Down.dirty = Zero
BY DownType DEF TypeOK, Down, NodeState

LEMMA InitType == Init => TypeOK
BY DownType DEF Init, LeaseInit, TypeOK, Follower, PerPart, Zero

\* The lease's own steps.
LEMMA LeaseType ==
    ASSUME TypeOK, NEW n \in Nodes,
           AcquireLease(n) \/ RenewLease(n) \/ LoseLease(n)
    PROVE  revs' \in Nat /\ lead' \in [Nodes -> [isLeader : BOOLEAN, epoch : Nat]]
<1>1. CASE Granted(n)
  <2>1. revs' \in Nat /\ lead' = [lead EXCEPT ![n] = [isLeader |-> TRUE, epoch |-> revs']]
    BY <1>1 DEF TypeOK, Granted
  <2> QED BY <2>1 DEF TypeOK
<1>2. CASE LoseLease(n)
  BY <1>2 DEF TypeOK, LoseLease
<1> QED BY <1>1, <1>2 DEF AcquireLease, RenewLease

\* A step changes at most one node's record.
LEMMA OneNode ==
    ASSUME TypeOK, NEW n \in Nodes, NEW r \in NodeState,
           node' = [node EXCEPT ![n] = r]
    PROVE  node' \in [Nodes -> NodeState]
BY DEF TypeOK

LEMMA NextType == TypeOK /\ [Next]_vars => TypeOK'
<1> SUFFICES ASSUME TypeOK, [Next]_vars PROVE TypeOK'
  OBVIOUS
<1> USE DEF TypeOK
<1>1. CASE UNCHANGED vars
  BY <1>1 DEF vars, tables, hist, leaseVars
<1>2. CASE Expire
  BY <1>2 DEF Expire, ExpireLease, tables, hist
<1>3. ASSUME NEW n \in Nodes, Lease(n) PROVE TypeOK'
  BY <1>3, LeaseType DEF Lease, tables, hist
<1>4. ASSUME NEW n \in Nodes, Life(n) PROVE TypeOK'
  <2>1. CASE Start(n)
    BY <2>1, DownType DEF Start, hist, leaseVars, NodeState
  <2>2. CASE Drain(n)
    BY <2>2, DownType, MergedType DEF Drain, NodeState
  <2>3. CASE ReleaseAll(n)
    BY <2>3, DownType DEF ReleaseAll, hist, leaseVars
  <2>4. CASE Crash(n)
    BY <2>4, DownType DEF Crash, Follower, tables
  <2> QED BY <1>4, <2>1, <2>2, <2>3, <2>4 DEF Life
<1>5. ASSUME NEW n \in Nodes, PartitionStep(n) PROVE TypeOK'
  <2> USE DEF hist, leaseVars, tables
  <2>1. CASE Heartbeat(n) \/ GoesStale(n)
    BY <2>1 DEF Heartbeat, GoesStale
  <2>2. CASE ListUnclaimed(n) \/ ClaimFails(n) \/ RouterStarts(n)
    <3>1. CASE ListUnclaimed(n)
      <4>1. node' = [node EXCEPT ![n] = [node[n] EXCEPT !.listed = {p \in Parts : owner[p] = None}]]
        BY <3>1 DEF ListUnclaimed
      <4>2. node' \in [Nodes -> NodeState]
        BY <4>1, OneNode, SetListed
      <4> QED BY <3>1, <4>2 DEF ListUnclaimed
    <3>2. CASE ClaimFails(n)
      <4>1. node' = [node EXCEPT ![n] = [node[n] EXCEPT !.listed = {}, !.claims = Zero]]
        BY <3>2 DEF ClaimFails
      <4>2. node' \in [Nodes -> NodeState]
        BY <4>1, OneNode, SetClaims, DownType
      <4> QED BY <3>2, <4>2 DEF ClaimFails
    <3>3. CASE RouterStarts(n)
      <4> DEFINE ps == IF node[n].applied THEN Keys(node[n].owned) ELSE Parts
      <4>1. node' = [node EXCEPT ![n] = [node[n] EXCEPT !.started = TRUE, !.parts = ps]]
        BY <3>3 DEF RouterStarts
      <4>2. ps \in SUBSET Parts
        BY DEF Keys
      <4>3. node' \in [Nodes -> NodeState]
        <5> HIDE DEF ps
        <5> QED BY <4>1, <4>2, OneNode, SetStarted
      <4> QED BY <3>3, <4>3 DEF RouterStarts
    <3> QED BY <2>2, <3>1, <3>2, <3>3
  <2>3. CASE ClaimAndApply(n)
    BY <2>3, AppliedType DEF ClaimAndApply, NodeState
  <2>4. CASE FlushCursors(n)
    BY <2>4, DownType, MergedType DEF FlushCursors, NodeState
  <2>5. ASSUME NEW m \in Nodes, Steal(n, m) PROVE TypeOK'
    <3>1. epoch' \in PerPart
      BY <2>5 DEF Steal, PerPart
    <3>2. [p \in Parts |-> IF p \in Of(m) THEN epoch'[p] ELSE 0] \in PerPart
      BY <3>1 DEF PerPart
    <3>3. node' \in [Nodes -> NodeState]
      BY <2>5, <3>2, AppliedType DEF Steal
    <3> QED BY <2>5, <3>1, <3>3 DEF Steal
  <2>6. ASSUME NEW p \in Parts, Claim(n, p) PROVE TypeOK'
    <3>1. CASE owner[p] = None
      <4> DEFINE c == [node[n].claims EXCEPT ![p] = epoch'[p]]
      <4>1. epoch' \in PerPart
        BY <2>6, <3>1 DEF Claim, PerPart
      <4>2. c \in PerPart
        BY <4>1, FieldTypes, SetPart DEF PerPart
      <4>3. node' = [node EXCEPT ![n] = [node[n] EXCEPT !.listed = @ \ {p}, !.claims = c]]
        <5>1. node' = [node EXCEPT ![n].listed = @ \ {p}, ![n].claims[p] = epoch'[p]]
          BY <2>6, <3>1 DEF Claim
        <5> QED BY <5>1
      <4>4. node' \in [Nodes -> NodeState]
        <5> HIDE DEF c
        <5> QED BY <4>2, <4>3, OneNode, SetClaims, FieldTypes
      <4> QED BY <2>6, <3>1, <4>1, <4>4 DEF Claim
    <3>2. CASE owner[p] # None
      <4>1. node' = [node EXCEPT ![n] = [node[n] EXCEPT !.listed = @ \ {p}]]
        BY <2>6, <3>2 DEF Claim
      <4>2. node' \in [Nodes -> NodeState]
        BY <4>1, OneNode, SetListed, FieldTypes
      <4> QED BY <2>6, <3>2, <4>2 DEF Claim
    <3> QED BY <3>1, <3>2
  <2>7. ASSUME NEW p \in Parts, Deliver(n, p) PROVE TypeOK'
    <3> DEFINE s == node[n].cur[p]
               d == IF node[n].owned[p] # 0 THEN s + 1 ELSE node[n].dirty[p]
               a == [node[n].cons EXCEPT ![p] = s + 1]
               b == [node[n].cur EXCEPT ![p] = s + 1]
               c == [node[n].dirty EXCEPT ![p] = d]
    <3>1. s \in Nat /\ d \in Nat
      BY FieldTypes DEF PerPart
    <3>2. node' = [node EXCEPT ![n] = [node[n] EXCEPT !.cons = a, !.cur = b, !.dirty = c]]
      <4>1. node' = [node EXCEPT ![n].cons[p] = s + 1, ![n].cur[p] = s + 1, ![n].dirty[p] = d]
        BY <2>7, PullIsExact DEF Deliver, NextCursor
      <4> QED BY <4>1
    <3>3. done' \in [Parts -> SUBSET Nat]
      BY <2>7, <3>1, PullIsExact DEF Deliver
    <3>4. a \in PerPart /\ b \in PerPart /\ c \in PerPart
      <4>1. s + 1 \in Nat
        BY <3>1
      <4> HIDE DEF s, d
      <4> QED BY <3>1, <4>1, FieldTypes, SetPart
    <3>5. node' \in [Nodes -> NodeState]
      <4> HIDE DEF a, b, c
      <4> QED BY <3>2, <3>4, OneNode, SetCursors
    <3> QED BY <2>7, <3>3, <3>5 DEF Deliver
  <2>8. ASSUME NEW p \in Parts, DeliverFails(n, p) \/ WatermarkScan(n, p) PROVE TypeOK'
    <3>1. node[n].cur[p] + 1 \in Nat /\ MaxSeq + 1 \in Nat
      BY ClusterAssumption, FieldTypes DEF PerPart
    <3>2. PICK v \in Nat : node' = [node EXCEPT ![n].cons[p] = v]
      BY <2>8, <3>1, PullIsExact DEF DeliverFails, WatermarkScan
    <3>3. node' = [node EXCEPT ![n] = [node[n] EXCEPT !.cons = [node[n].cons EXCEPT ![p] = v]]]
      BY <3>2
    <3>4. node' \in [Nodes -> NodeState]
      BY <3>3, OneNode, SetCons, SetPart, FieldTypes
    <3> QED BY <2>8, <3>4 DEF DeliverFails, WatermarkScan
  <2> QED BY <1>5, <2>1, <2>2, <2>3, <2>4, <2>5, <2>6, <2>7, <2>8 DEF PartitionStep
<1> QED BY <1>1, <1>2, <1>3, <1>4, <1>5 DEF Next

\* What a step does to the node's fields, from the record that it writes.
LEMMA NodeIs ==
    ASSUME TypeOK, NEW n \in Nodes, NEW r, node' = [node EXCEPT ![n] = r]
    PROVE  node'[n] = r /\ \A m \in Nodes \ {n} : node'[m] = node[m]
BY DEF TypeOK

LEMMA AppliedStep ==
    ASSUME TypeOK, NEW n \in Nodes, NEW c, node' = [node EXCEPT ![n] = Applied(node[n], c)]
    PROVE  /\ node'[n].owned = Merged(node[n].owned, c) /\ node'[n].claims = Zero
           /\ node'[n].cur = node[n].cur /\ node'[n].dirty = node[n].dirty
           /\ node'[n].state = node[n].state
           /\ \A m \in Nodes \ {n} : node'[m] = node[m]
<1>1. node'[n] = Applied(node[n], c) /\ \A m \in Nodes \ {n} : node'[m] = node[m]
  BY NodeIs
<1>2. node[n] \in NodeState
  BY DEF TypeOK
<1> QED BY <1>1, <1>2, AppliedFields

\* Claim, ClaimAndApply and Steal touch no cursor; the reading side touches no
\* claim.
LEMMA QuietFields ==
    ASSUME TypeOK, NEW n \in Nodes, NEW p \in Parts,
           \/ ListUnclaimed(n) \/ RouterStarts(n) \/ Claim(n, p) \/ ClaimFails(n)
           \/ ClaimAndApply(n) \/ \E m \in Nodes : Steal(n, m)
    PROVE  /\ UNCHANGED <<store, done>>
           /\ \A m \in Nodes : node'[m].cur = node[m].cur /\ node'[m].dirty = node[m].dirty
<1> USE DEF TypeOK, tables, hist
<1>1. CASE ListUnclaimed(n)
  BY <1>1 DEF ListUnclaimed, NodeState
<1>2. CASE RouterStarts(n)
  BY <1>2 DEF RouterStarts, NodeState
<1>3. CASE Claim(n, p)
  <2>1. CASE owner[p] = None
    <3>1. node' = [node EXCEPT ![n].listed = @ \ {p}, ![n].claims[p] = epoch'[p]]
      BY <1>3, <2>1 DEF Claim
    <3> QED BY <1>3, <3>1 DEF Claim, NodeState
  <2>2. CASE owner[p] # None
    BY <1>3, <2>2 DEF Claim, NodeState
  <2> QED BY <2>1, <2>2
<1>4. CASE ClaimFails(n)
  BY <1>4 DEF ClaimFails, NodeState
<1>5. CASE ClaimAndApply(n)
  BY <1>5, AppliedStep DEF ClaimAndApply
<1>6. ASSUME NEW m \in Nodes, Steal(n, m)
      PROVE  /\ UNCHANGED <<store, done>>
             /\ \A k \in Nodes : node'[k].cur = node[k].cur /\ node'[k].dirty = node[k].dirty
  BY <1>6, AppliedStep DEF Steal
<1> QED BY <1>1, <1>2, <1>3, <1>4, <1>5, <1>6

LEMMA ReaderFields ==
    ASSUME TypeOK, NEW n \in Nodes, NEW p \in Parts,
           \/ ListUnclaimed(n) \/ RouterStarts(n) \/ Deliver(n, p) \/ DeliverFails(n, p)
           \/ WatermarkScan(n, p) \/ FlushCursors(n)
    PROVE  /\ UNCHANGED <<owner, epoch>>
           /\ \A m \in Nodes : /\ node'[m].owned = node[m].owned
                               /\ node'[m].claims = node[m].claims
                               /\ node'[m].state = node[m].state
<1> USE DEF TypeOK, tables, hist
<1>1. CASE ListUnclaimed(n)
  BY <1>1 DEF ListUnclaimed, NodeState
<1>2. CASE RouterStarts(n)
  BY <1>2 DEF RouterStarts, NodeState
<1>3. CASE Deliver(n, p)
  BY <1>3 DEF Deliver, NodeState
<1>4. CASE DeliverFails(n, p)
  BY <1>4 DEF DeliverFails, NodeState
<1>5. CASE WatermarkScan(n, p)
  BY <1>5 DEF WatermarkScan, NodeState
<1>6. CASE FlushCursors(n)
  BY <1>6 DEF FlushCursors, NodeState
<1> QED BY <1>1, <1>2, <1>3, <1>4, <1>5, <1>6

-----------------------------------------------------------------------------
(* Epochs fence.  A node may hold an epoch in its owned map or as a claim   *)
(* that is not applied yet, and the claim is what the epoch of the owned    *)
(* map will be: the invariant speaks of both.  A node that is not up holds  *)
(* nothing, which is why ReleaseAll may free what the table says it owns.   *)

Holds(n, p) == {node[n].owned[p], node[n].claims[p]} \ {0}

FenceInv ==
    \A n \in Nodes, p \in Parts :
        /\ Up(n) \/ Holds(n, p) = {}
        /\ \A e \in Holds(n, p) :
              /\ e <= epoch[p]
              /\ e = epoch[p] => owner[p] = n
              /\ \A m \in Nodes \ {n} : e \notin Holds(m, p)

LEMMA HoldsNat ==
    ASSUME TypeOK
    PROVE  \A n \in Nodes, p \in Parts : epoch[p] \in Nat /\ Holds(n, p) \subseteq Nat
BY FieldTypes DEF TypeOK, Holds, PerPart

\* Node n takes the partitions of S in new epochs, the other rows stay.
LEMMA FenceStep ==
    ASSUME TypeOK, TypeOK', FenceInv, NEW n \in Nodes, NEW S \in SUBSET Parts,
           \A p \in S : epoch'[p] = epoch[p] + 1 /\ owner'[p] = n,
           \A p \in Parts \ S : epoch'[p] = epoch[p] /\ owner'[p] = owner[p],
           Up(n)', \A m \in Nodes \ {n} : Up(m)' <=> Up(m),
           \A m \in Nodes \ {n}, p \in Parts : Holds(m, p)' \subseteq Holds(m, p),
           \A p \in S : Holds(n, p)' \subseteq Holds(n, p) \cup {epoch'[p]},
           \A p \in Parts \ S : Holds(n, p)' \subseteq Holds(n, p)
    PROVE  FenceInv'
<1> SUFFICES ASSUME NEW k \in Nodes, NEW p \in Parts
             PROVE  /\ Up(k)' \/ Holds(k, p)' = {}
                    /\ \A e \in Holds(k, p)' :
                          /\ e <= epoch'[p]
                          /\ e = epoch'[p] => owner'[p] = k
                          /\ \A m \in Nodes \ {k} : e \notin Holds(m, p)'
  BY DEF FenceInv
<1>1. Up(k)' \/ Holds(k, p)' = {}
  BY DEF FenceInv
<1>2. ASSUME NEW e \in Holds(k, p)'
      PROVE  /\ e <= epoch'[p]
             /\ e = epoch'[p] => owner'[p] = k
             /\ \A m \in Nodes \ {k} : e \notin Holds(m, p)'
  <2>1. CASE p \in S
    <3>1. epoch[p] \in Nat /\ epoch'[p] = epoch[p] + 1 /\ owner'[p] = n
      BY <2>1, HoldsNat
    <3>2. \A m \in Nodes : \A f \in Holds(m, p) : f \in Nat /\ f <= epoch[p] /\ f < epoch'[p]
      BY <3>1, HoldsNat DEF FenceInv
    <3>3. CASE e \in Holds(k, p)
      BY <2>1, <3>1, <3>2, <3>3 DEF FenceInv
    <3>4. CASE e \notin Holds(k, p)
      BY <1>2, <2>1, <3>1, <3>2, <3>4
    <3> QED BY <3>3, <3>4
  <2>2. CASE p \notin S
    BY <1>2, <2>2 DEF FenceInv
  <2> QED BY <2>1, <2>2
<1> QED BY <1>1, <1>2

\* A node loses what it held, or keeps it: nobody takes anything.
LEMMA FenceKeeps ==
    ASSUME TypeOK, TypeOK', FenceInv, UNCHANGED <<owner, epoch>>,
           \A m \in Nodes, p \in Parts : /\ Holds(m, p)' \subseteq Holds(m, p)
                                         /\ Up(m)' \/ Holds(m, p)' = {}
    PROVE  FenceInv'
BY DEF FenceInv

LEMMA InitFence == Init => FenceInv
BY DEF Init, FenceInv, Holds, Down, Zero

LEMMA NextFence == TypeOK /\ TypeOK' /\ FenceInv /\ [Next]_vars => FenceInv'
<1> SUFFICES ASSUME TypeOK, TypeOK', FenceInv, [Next]_vars PROVE FenceInv'
  OBVIOUS
<1>0. ASSUME UNCHANGED <<owner, epoch>>,
             \A m \in Nodes : /\ node'[m].owned = node[m].owned
                              /\ node'[m].claims = node[m].claims
                              /\ node'[m].state = node[m].state
      PROVE  FenceInv'
  <2>1. \A m \in Nodes, p \in Parts : Holds(m, p)' = Holds(m, p) /\ (Up(m)' <=> Up(m))
    BY <1>0 DEF Holds, Up
  <2> QED BY <1>0, <2>1, FenceKeeps DEF FenceInv
<1>1. CASE UNCHANGED vars
  BY <1>0, <1>1 DEF vars, tables
<1>2. CASE Expire
  BY <1>0, <1>2 DEF Expire, tables
<1>3. ASSUME NEW n \in Nodes, Lease(n) PROVE FenceInv'
  BY <1>0, <1>3 DEF Lease, tables
<1>4. ASSUME NEW n \in Nodes, Life(n) PROVE FenceInv'
  <2>0. node[n] \in NodeState
    BY DEF TypeOK
  <2>1. PICK r \in NodeState : /\ node' = [node EXCEPT ![n] = r]
                               /\ r.owned = Zero /\ r.claims = Zero
    BY <1>4, LifeRecords, DownType DEF Life, Start, Drain, ReleaseAll, Crash
  <2>2. /\ \A p \in Parts : Holds(n, p)' = {}
        /\ \A m \in Nodes \ {n}, p \in Parts : Holds(m, p)' = Holds(m, p) /\ (Up(m)' <=> Up(m))
    <3>1. /\ node'[n].owned = Zero /\ node'[n].claims = Zero
          /\ \A m \in Nodes \ {n} : node'[m] = node[m]
      BY <2>1, NodeIs
    <3> QED BY <3>1, AtEachPart DEF Holds, Up
  <2>3. CASE UNCHANGED <<owner, epoch>>
    BY <2>2, <2>3, FenceKeeps DEF FenceInv
  <2>4. CASE ReleaseAll(n)
    <3>1. /\ epoch' = epoch /\ ~Up(n)
          /\ \A p \in Parts : owner'[p] = IF owner[p] = n THEN None ELSE owner[p]
      BY <2>4 DEF ReleaseAll, Up
    <3>2. \A p \in Parts, m \in Nodes \ {n} : owner[p] = m => owner'[p] = m
      BY <3>1
    <3> QED BY <2>2, <3>1, <3>2 DEF FenceInv
  <2> QED BY <1>4, <2>3, <2>4 DEF Life, Start, Drain, Crash, tables
<1>5. ASSUME NEW n \in Nodes, PartitionStep(n) PROVE FenceInv'
  <2>0. node[n] \in NodeState
    BY DEF TypeOK
  <2>1. CASE Heartbeat(n) \/ GoesStale(n)
    BY <1>0, <2>1 DEF Heartbeat, GoesStale
  <2>2. CASE ListUnclaimed(n) \/ RouterStarts(n) \/ FlushCursors(n)
    <3>1. CASE Parts = {}
      BY <3>1 DEF FenceInv
    <3>2. CASE Parts # {}
      <4>1. PICK p \in Parts : TRUE
        BY <3>2
      <4> QED BY <1>0, <2>2, <4>1, ReaderFields
    <3> QED BY <3>1, <3>2
  <2>3. ASSUME NEW p \in Parts, Deliver(n, p) \/ DeliverFails(n, p) \/ WatermarkScan(n, p)
        PROVE  FenceInv'
    BY <1>0, <2>3, ReaderFields
  <2>4. CASE ClaimFails(n)
    <3>1. /\ node' = [node EXCEPT ![n] = [node[n] EXCEPT !.listed = {}, !.claims = Zero]]
          /\ UNCHANGED <<owner, epoch>>
      BY <2>4 DEF ClaimFails, tables
    <3> DEFINE r == [node[n] EXCEPT !.listed = {}, !.claims = Zero]
    <3>2. r.owned = node[n].owned /\ r.claims = Zero /\ r.state = node[n].state
      BY <2>0 DEF NodeState
    <3>3. node'[n] = r /\ \A m \in Nodes \ {n} : node'[m] = node[m]
      BY <3>1, NodeIs
    <3> HIDE DEF r
    <3>4. \A m \in Nodes, p \in Parts : Holds(m, p)' \subseteq Holds(m, p) /\ (Up(m)' <=> Up(m))
      BY <3>2, <3>3, AtEachPart DEF Holds, Up
    <3> QED BY <3>1, <3>4, FenceKeeps DEF FenceInv
  <2>5. CASE ClaimAndApply(n)
    <3>1. node' = [node EXCEPT ![n] = Applied(node[n], node[n].claims)] /\ UNCHANGED <<owner, epoch>>
      BY <2>5 DEF ClaimAndApply, tables
    <3>2. /\ node'[n].owned = Merged(node[n].owned, node[n].claims) /\ node'[n].claims = Zero
          /\ node'[n].state = node[n].state
          /\ \A m \in Nodes \ {n} : node'[m] = node[m]
      BY <3>1, AppliedStep
    <3>3. \A m \in Nodes, p \in Parts : Holds(m, p)' \subseteq Holds(m, p) /\ (Up(m)' <=> Up(m))
      BY <3>2, AtEachPart DEF Holds, Up
    <3> QED BY <3>1, <3>3, FenceKeeps DEF FenceInv
  <2>6. ASSUME NEW m \in Nodes, Steal(n, m) PROVE FenceInv'
    <3> DEFINE c == [p \in Parts |-> IF p \in Of(m) THEN epoch'[p] ELSE 0]
    <3>1. node' = [node EXCEPT ![n] = Applied(node[n], c)] /\ Up(n)
      BY <2>6 DEF Steal
    <3>2. /\ node'[n].owned = Merged(node[n].owned, c) /\ node'[n].claims = Zero
          /\ node'[n].state = node[n].state
          /\ \A k \in Nodes \ {n} : node'[k] = node[k]
      BY <3>1, AppliedStep
    <3>c. \A p \in Parts : c[p] = IF p \in Of(m) THEN epoch'[p] ELSE 0
      OBVIOUS
    <3> HIDE DEF c
    <3>3. /\ \A k \in Nodes \ {n}, p \in Parts : Holds(k, p)' = Holds(k, p)
          /\ \A k \in Nodes \ {n} : Up(k)' <=> Up(k)
          /\ \A p \in Of(m) : Holds(n, p)' \subseteq Holds(n, p) \cup {epoch'[p]}
          /\ \A p \in Parts \ Of(m) : Holds(n, p)' \subseteq Holds(n, p)
          /\ Up(n)'
      BY <3>1, <3>2, <3>c, AtEachPart DEF Holds, Up, Of
    <3>4. /\ \A p \in Of(m) : epoch'[p] = epoch[p] + 1 /\ owner'[p] = n
          /\ \A p \in Parts \ Of(m) : epoch'[p] = epoch[p] /\ owner'[p] = owner[p]
          /\ Of(m) \in SUBSET Parts
      BY <2>6 DEF Steal, Of
    <3> QED BY <3>3, <3>4, FenceStep
  <2>7. ASSUME NEW p \in Parts, Claim(n, p) PROVE FenceInv'
    <3>1. CASE owner[p] = None
      <4>1. /\ node' = [node EXCEPT ![n].listed = @ \ {p}, ![n].claims[p] = epoch'[p]]
            /\ Up(n)
        BY <2>7, <3>1 DEF Claim
      <4>2. /\ node'[n].owned = node[n].owned /\ node'[n].state = node[n].state
            /\ node'[n].claims = [node[n].claims EXCEPT ![p] = epoch'[p]]
            /\ \A m \in Nodes \ {n} : node'[m] = node[m]
        BY <4>1 DEF TypeOK, NodeState
      <4>3. /\ \A m \in Nodes \ {n}, q \in Parts : Holds(m, q)' = Holds(m, q)
            /\ \A m \in Nodes \ {n} : Up(m)' <=> Up(m)
            /\ Holds(n, p)' \subseteq Holds(n, p) \cup {epoch'[p]}
            /\ \A q \in Parts \ {p} : Holds(n, q)' \subseteq Holds(n, q)
            /\ Up(n)'
        <5>1. \A q \in Parts : node'[n].claims[q] = IF q = p THEN epoch'[p] ELSE node[n].claims[q]
          BY <4>2, <2>0, FieldTypes DEF PerPart
        <5> QED BY <4>1, <4>2, <5>1 DEF Holds, Up
      <4>4. /\ epoch'[p] = epoch[p] + 1 /\ owner'[p] = n
            /\ \A q \in Parts \ {p} : epoch'[q] = epoch[q] /\ owner'[q] = owner[q]
        BY <2>7, <3>1 DEF Claim, TypeOK, PerPart
      <4> DEFINE S == {p}
      <4>5. /\ \A q \in S : epoch'[q] = epoch[q] + 1 /\ owner'[q] = n
            /\ \A q \in Parts \ S : epoch'[q] = epoch[q] /\ owner'[q] = owner[q]
            /\ \A q \in S : Holds(n, q)' \subseteq Holds(n, q) \cup {epoch'[q]}
            /\ \A q \in Parts \ S : Holds(n, q)' \subseteq Holds(n, q)
            /\ S \in SUBSET Parts
        BY <4>3, <4>4
      <4> HIDE DEF S
      <4> QED BY <4>3, <4>5, FenceStep
    <3>2. CASE owner[p] # None
      <4>1. node' = [node EXCEPT ![n].listed = @ \ {p}] /\ UNCHANGED <<owner, epoch>>
        BY <2>7, <3>2 DEF Claim
      <4>2. \A m \in Nodes : /\ node'[m].owned = node[m].owned
                             /\ node'[m].claims = node[m].claims
                             /\ node'[m].state = node[m].state
        BY <4>1 DEF TypeOK, NodeState
      <4> QED BY <1>0, <4>1, <4>2
    <3> QED BY <3>1, <3>2
  <2> QED BY <1>5, <2>1, <2>2, <2>3, <2>4, <2>5, <2>6, <2>7 DEF PartitionStep
<1> QED BY <1>1, <1>2, <1>3, <1>4, <1>5 DEF Next

\* CLU-01, partition_store.go and partition_manager.go: for any nodes and any
\* interleaving of claims, steals, crashes and restarts, no two nodes hold a
\* partition in the same epoch, and the holder of the table's epoch is the owner.
THEOREM EpochsAlwaysFence == Spec => []EpochsFence
<1>1. Init => TypeOK /\ FenceInv
  BY InitType, InitFence
<1>2. TypeOK /\ FenceInv /\ [Next]_vars => TypeOK' /\ FenceInv'
  BY NextType, NextFence
<1>3. TypeOK /\ FenceInv => EpochsFence
  BY HoldsNat DEF FenceInv, EpochsFence, Holds
<1> QED BY <1>1, <1>2, <1>3, PTL DEF Spec

-----------------------------------------------------------------------------
(* At least once.  Not only the stored cursor: every cursor that may still  *)
(* be stored, in a node's memory or among its unflushed ones, has all       *)
(* entries below it delivered.                                              *)

AllBelow(D, c) == \A s \in 1..(c - 1) : s \in D

DeliveredInv ==
    \A p \in Parts : /\ AllBelow(done[p], store[p])
                     /\ \A n \in Nodes : /\ AllBelow(done[p], node[n].cur[p])
                                         /\ AllBelow(done[p], node[n].dirty[p])

LEMMA BelowGrows ==
    ASSUME NEW D, NEW E, D \subseteq E, NEW c, AllBelow(D, c)
    PROVE  AllBelow(E, c)
BY DEF AllBelow

LEMMA BelowZero == \A D : AllBelow(D, 0)
BY DEF AllBelow

LEMMA InitDelivered == Init => DeliveredInv
BY AtEachPart, LifeRecords, InitType DEF Init, DeliveredInv, AllBelow

\* A cursor after the step is one from before it, or the zero of an unset one.
LEMMA DeliveredKeeps ==
    ASSUME DeliveredInv, \A p \in Parts : done[p] \subseteq done'[p],
           \A p \in Parts : \/ store'[p] = store[p]
                            \/ \E n \in Nodes : store'[p] = node[n].dirty[p],
           \A n \in Nodes, p \in Parts :
               /\ node'[n].cur[p] \in {0, store[p], node[n].cur[p]}
               /\ node'[n].dirty[p] \in {0, node[n].dirty[p]}
    PROVE  DeliveredInv'
<1> SUFFICES ASSUME NEW p \in Parts
             PROVE  /\ AllBelow(done'[p], store'[p])
                    /\ \A n \in Nodes : /\ AllBelow(done'[p], node'[n].cur[p])
                                        /\ AllBelow(done'[p], node'[n].dirty[p])
  BY DEF DeliveredInv
<1>1. \A c : AllBelow(done[p], c) => AllBelow(done'[p], c)
  BY BelowGrows
<1> QED BY <1>1, BelowZero DEF DeliveredInv

LEMMA NextDelivered == TypeOK /\ DeliveredInv /\ [Next]_vars => DeliveredInv'
<1> SUFFICES ASSUME TypeOK, DeliveredInv, [Next]_vars PROVE DeliveredInv'
  OBVIOUS
<1>0. ASSUME UNCHANGED <<store, done>>,
             \A m \in Nodes : node'[m].cur = node[m].cur /\ node'[m].dirty = node[m].dirty
      PROVE  DeliveredInv'
  BY <1>0, DeliveredKeeps
<1>1. CASE UNCHANGED vars
  BY <1>0, <1>1 DEF vars, tables, hist
<1>2. CASE Expire
  BY <1>0, <1>2 DEF Expire, tables, hist
<1>3. ASSUME NEW n \in Nodes, Lease(n) PROVE DeliveredInv'
  BY <1>0, <1>3 DEF Lease, tables, hist
<1>4. ASSUME NEW n \in Nodes, Life(n) PROVE DeliveredInv'
  <2>1. PICK r : /\ node' = [node EXCEPT ![n] = r]
                 /\ r.cur \in {Zero, store} /\ r.dirty = Zero
    BY <1>4, LifeRecords DEF Life, Start, Drain, ReleaseAll, Crash
  <2>2. /\ node'[n].cur \in {Zero, store} /\ node'[n].dirty = Zero
        /\ \A m \in Nodes \ {n} : node'[m] = node[m]
    BY <2>1, NodeIs
  <2>3. \A m \in Nodes, p \in Parts : /\ node'[m].cur[p] \in {0, store[p], node[m].cur[p]}
                                      /\ node'[m].dirty[p] \in {0, node[m].dirty[p]}
    BY <2>2, AtEachPart
  <2>4. done' = done /\ store' \in {store, Merged(store, node[n].dirty)}
    BY <1>4 DEF Life, Start, Drain, ReleaseAll, Crash, tables, hist
  <2>5. \A p \in Parts : store'[p] = store[p] \/ store'[p] = node[n].dirty[p]
    BY <2>4, AtEachPart
  <2> QED BY <2>3, <2>4, <2>5, DeliveredKeeps
<1>5. ASSUME NEW n \in Nodes, PartitionStep(n) PROVE DeliveredInv'
  <2>0. node[n] \in NodeState
    BY DEF TypeOK
  <2>1. CASE Heartbeat(n) \/ GoesStale(n)
    BY <1>0, <2>1 DEF Heartbeat, GoesStale, hist
  <2>2. CASE Parts = {}
    BY <2>2 DEF DeliveredInv
  <2>3. ASSUME NEW p \in Parts,
               \/ ListUnclaimed(n) \/ RouterStarts(n) \/ Claim(n, p) \/ ClaimFails(n)
               \/ ClaimAndApply(n) \/ \E m \in Nodes : Steal(n, m)
        PROVE  DeliveredInv'
    BY <1>0, <2>3, QuietFields
  <2>4. ASSUME NEW p \in Parts, DeliverFails(n, p) \/ WatermarkScan(n, p) PROVE DeliveredInv'
    <3>1. PICK v : node' = [node EXCEPT ![n].cons[p] = v]
      BY <2>4 DEF DeliverFails, WatermarkScan
    <3>2. \A m \in Nodes : node'[m].cur = node[m].cur /\ node'[m].dirty = node[m].dirty
      BY <3>1 DEF TypeOK, NodeState
    <3> QED BY <1>0, <2>4, <3>2 DEF DeliverFails, WatermarkScan, tables, hist
  <2>5. CASE FlushCursors(n)
    <3>1. /\ store' = Merged(store, node[n].dirty) /\ done' = done
          /\ node' = [node EXCEPT ![n].dirty = Zero]
      BY <2>5 DEF FlushCursors, hist
    <3>2. /\ node'[n].dirty = Zero /\ node'[n].cur = node[n].cur
          /\ \A m \in Nodes \ {n} : node'[m] = node[m]
      BY <3>1 DEF TypeOK, NodeState
    <3>3. \A p \in Parts : store'[p] = store[p] \/ store'[p] = node[n].dirty[p]
      BY <3>1, AtEachPart
    <3>4. \A m \in Nodes, p \in Parts : /\ node'[m].cur[p] \in {0, store[p], node[m].cur[p]}
                                        /\ node'[m].dirty[p] \in {0, node[m].dirty[p]}
      BY <3>2, AtEachPart
    <3> QED BY <3>1, <3>3, <3>4, DeliveredKeeps
  <2>6. ASSUME NEW p \in Parts, Deliver(n, p) PROVE DeliveredInv'
    <3> DEFINE s == node[n].cur[p]
               d == IF node[n].owned[p] # 0 THEN s + 1 ELSE node[n].dirty[p]
    <3>1. /\ node' = [node EXCEPT ![n].cons[p] = s + 1, ![n].cur[p] = s + 1, ![n].dirty[p] = d]
          /\ store' = store /\ done' = [done EXCEPT ![p] = @ \cup {s}]
      BY <2>6, PullIsExact DEF Deliver, NextCursor, tables
    <3>2. s \in Nat /\ d \in {s + 1, node[n].dirty[p]}
      BY <2>0, FieldTypes DEF PerPart
    <3>3. /\ \A m \in Nodes \ {n} : node'[m] = node[m]
          /\ node'[n].cur = [node[n].cur EXCEPT ![p] = s + 1]
          /\ node'[n].dirty = [node[n].dirty EXCEPT ![p] = d]
      <4> HIDE DEF s, d
      <4> QED BY <3>1 DEF TypeOK, NodeState
    <3>4. /\ done'[p] = done[p] \cup {s}
          /\ \A q \in Parts \ {p} : done'[q] = done[q]
      <4> HIDE DEF s, d
      <4> QED BY <3>1 DEF TypeOK
    <3>5. AllBelow(done'[p], s + 1)
      <4>1. AllBelow(done[p], s)
        BY DEF DeliveredInv
      <4> HIDE DEF s
      <4> QED BY <3>2, <3>4, <4>1 DEF AllBelow
    <3>6. \A q \in Parts : \A c : AllBelow(done[q], c) => AllBelow(done'[q], c)
      <4> HIDE DEF s, d
      <4> QED BY <3>4, BelowGrows
    <3>7. \A q \in Parts : /\ node'[n].cur[q] = IF q = p THEN s + 1 ELSE node[n].cur[q]
                           /\ node'[n].dirty[q] = IF q = p THEN d ELSE node[n].dirty[q]
      <4> HIDE DEF s, d
      <4> QED BY <2>0, <3>3, FieldTypes DEF PerPart
    <3> HIDE DEF s, d
    <3>8. \A q \in Parts, m \in Nodes : /\ AllBelow(done'[q], node'[m].cur[q])
                                        /\ AllBelow(done'[q], node'[m].dirty[q])
      <4>1. \A q \in Parts, m \in Nodes : /\ AllBelow(done'[q], node[m].cur[q])
                                          /\ AllBelow(done'[q], node[m].dirty[q])
        BY <3>6 DEF DeliveredInv
      <4>2. \A q \in Parts : /\ AllBelow(done'[q], node'[n].cur[q])
                             /\ AllBelow(done'[q], node'[n].dirty[q])
        BY <3>2, <3>5, <3>7, <4>1
      <4> QED BY <3>3, <4>1, <4>2
    <3> QED BY <3>1, <3>6, <3>8 DEF DeliveredInv
  <2> QED BY <1>5, <2>1, <2>2, <2>3, <2>4, <2>5, <2>6 DEF PartitionStep
<1> QED BY <1>1, <1>2, <1>3, <1>4, <1>5 DEF Next

\* runPartition, epoch_cursor_store.go, cursor_store.go: at-least-once over
\* steals, zombies, crashes and drains, for any number of nodes and entries:
\* every entry below the stored cursor of a partition has been delivered.
THEOREM NeverSkippedInCluster == Spec => []NothingSkippedInCluster
<1>1. Init => TypeOK /\ DeliveredInv
  BY InitType, InitDelivered
<1>2. TypeOK /\ DeliveredInv /\ [Next]_vars => TypeOK' /\ DeliveredInv'
  BY NextType, NextDelivered
<1>3. DeliveredInv => NothingSkippedInCluster
  BY DEF DeliveredInv, NothingSkippedInCluster, AllBelow
<1> QED BY <1>1, <1>2, <1>3, PTL DEF Spec

\* The types of the tables, the nodes' records and the lease.
THEOREM ClusterTypes == Spec => []TypeOK
BY InitType, NextType, PTL DEF Spec

-----------------------------------------------------------------------------
(* The lease.                                                               *)

EpochsIssued == \A n \in Nodes : lead[n].epoch <= revs

LEMMA NextIssued ==
    ASSUME TypeOK, EpochsIssued, [Next]_vars
    PROVE  EpochsIssued' /\ [\A n \in Nodes : ~lead[n].isLeader /\ lead'[n].isLeader =>
                \A m \in Nodes \ {n} : lead'[n].epoch > lead[m].epoch]_lead
<1> USE DEF TypeOK, EpochsIssued
<1>0. CASE UNCHANGED <<revs, lead>>
  BY <1>0
<1>1. ASSUME NEW n \in Nodes, Granted(n)
      PROVE  EpochsIssued' /\ \A k \in Nodes : ~lead[k].isLeader /\ lead'[k].isLeader =>
                \A m \in Nodes \ {k} : lead'[k].epoch > lead[m].epoch
  BY <1>1 DEF Granted
<1>2. ASSUME NEW n \in Nodes, revs' = revs,
             \/ lead' = [lead EXCEPT ![n].isLeader = FALSE]
             \/ lead' = [lead EXCEPT ![n] = Follower]
      PROVE  EpochsIssued' /\ \A k \in Nodes : ~lead[k].isLeader => ~lead'[k].isLeader
  BY <1>2 DEF Follower
<1>3. CASE \E n \in Nodes : Lease(n)
  BY <1>1, <1>2, <1>3 DEF Lease, AcquireLease, RenewLease, LoseLease
<1>4. CASE \E n \in Nodes : Drain(n) \/ Crash(n)
  BY <1>2, <1>4 DEF Drain, Crash
<1>5. CASE UNCHANGED leaseVars
  BY <1>0, <1>5 DEF leaseVars
<1>6. CASE Expire
  BY <1>0, <1>6 DEF Expire, ExpireLease
<1>7. ASSUME NEW n \in Nodes, PartitionStep(n) \/ Start(n) \/ ReleaseAll(n)
      PROVE  UNCHANGED leaseVars
  BY <1>7 DEF PartitionStep, Heartbeat, GoesStale, ListUnclaimed, ClaimAndApply, ClaimFails,
              RouterStarts, FlushCursors, Steal, Claim, Deliver, DeliverFails, WatermarkScan,
              Start, ReleaseAll
<1> QED BY <1>3, <1>4, <1>5, <1>6, <1>7 DEF Next, Life, vars

\* wal_leader.go: the epoch a node gets with the lease is greater than that of
\* every other node, also of one that has lost the lease and does not know yet.
THEOREM EpochsAreFencingTokens == Spec => LeaderEpochsGrow
<1>1. Init => TypeOK /\ EpochsIssued
  BY InitType DEF Init, LeaseInit, EpochsIssued, Follower
<1>2. TypeOK /\ EpochsIssued /\ [Next]_vars => TypeOK' /\ EpochsIssued'
  BY NextType, NextIssued
<1>3. TypeOK /\ EpochsIssued /\ [Next]_vars =>
        [\A n \in Nodes : ~lead[n].isLeader /\ lead'[n].isLeader =>
                \A m \in Nodes \ {n} : lead'[n].epoch > lead[m].epoch]_lead
  BY NextIssued
<1> QED BY <1>1, <1>2, <1>3, PTL DEF Spec, LeaderEpochsGrow

-----------------------------------------------------------------------------
(* The log in JetStream: AppendBatch tells the truth.                       *)

Msg == [id : Nat, slot : Nat]
Reply == {"none", "ok", "duplicate", "error"}
Call == [batch : Seq(Nat), sent : Nat, reply : Seq(Reply), got : Nat, written : SUBSET Nat,
         failed : BOOLEAN, late : BOOLEAN]

NatsTypeOK ==
    /\ stream \in Seq(Nat) /\ publ \in [Publishers -> Call]
    /\ net \in [Publishers -> Seq(Msg)] /\ from \in [Publishers -> Nat] /\ confirmed \in Nat
    /\ observed \in [Publishers -> SUBSET Nat] /\ acked \in [Publishers -> SUBSET Nat]

-----------------------------------------------------------------------------
(* The inductive invariant, as predicates on one publisher's call c, its    *)
(* messages q, its position f and the set S of stored changes.              *)

Stored == {stream[i] : i \in DOMAIN stream}

\* A call's messages carry the changes that follow the publisher's position.
\* A good reply means that the change is stored, and what has been collected
\* is stored unless the call has failed.
CallOK(c, f, S) ==
    /\ Len(c.reply) = Len(c.batch) /\ c.sent <= Len(c.batch) /\ c.got <= Len(c.batch)
    /\ \A i \in DOMAIN c.batch : c.batch[i] = f + i
    /\ \A i \in DOMAIN c.batch : c.reply[i] \in {"ok", "duplicate"} => c.batch[i] \in S
    /\ \A i \in DOMAIN c.batch : i > c.sent => c.reply[i] = "none"
    /\ \A i \in 1..c.got : c.failed \/ c.batch[i] \in S
    /\ \A i \in 1..c.got : c.late \/ c.reply[i] # "none"
    /\ \A e \in c.written : \E i \in DOMAIN c.batch : c.batch[i] = e

\* A message under way belongs to a slot that has no reply yet, and no two to
\* the same slot; slot 0 is nobody's.
NetOK(q, c) ==
    /\ \A i \in DOMAIN q : q[i].slot # 0 =>
          /\ q[i].slot \in 1..c.sent /\ q[i].id = c.batch[q[i].slot]
          /\ c.reply[q[i].slot] = "none"
    /\ \A i, j \in DOMAIN q : q[i].slot = q[j].slot /\ q[i].slot # 0 => i = j

\* Replies that collectBatchPubAcks has yet to take.
Awaited(c) == {c.batch[i] : i \in {j \in DOMAIN c.batch : j > c.got /\ c.reply[j] = "ok"}}

AcksOK(c, ob, ac) == ac \subseteq ob \cup c.written \cup Awaited(c)

Sound(n) ==
    /\ from[n] <= confirmed /\ CallOK(publ[n], from[n], Stored) /\ NetOK(net[n], publ[n])
    /\ AcksOK(publ[n], observed[n], acked[n])

NatsInv == NatsTypeOK /\ StreamHoldsConfirmed /\ \A n \in Publishers : Sound(n)

-----------------------------------------------------------------------------
(* The calls.                                                               *)

LEMMA CallFields ==
    ASSUME NEW c \in Call
    PROVE  /\ c.batch \in Seq(Nat) /\ c.sent \in Nat /\ c.reply \in Seq(Reply) /\ c.got \in Nat
           /\ c.written \in SUBSET Nat /\ c.failed \in BOOLEAN /\ c.late \in BOOLEAN
BY DEF Call

LEMMA NoAppendOK ==
    /\ NoAppend \in Call
    /\ \A f, S : CallOK(NoAppend, f, S)
    /\ \A ob, ac : AcksOK(NoAppend, ob, ac) <=> ac \subseteq ob
<1>1. NoAppend \in Call
  BY DEF NoAppend, Call, Reply
<1>2. NoAppend.batch = <<>> /\ NoAppend.reply = <<>> /\ NoAppend.sent = 0 /\ NoAppend.got = 0
      /\ NoAppend.written = {}
  BY DEF NoAppend
<1>3. \A f, S : CallOK(NoAppend, f, S)
  BY <1>2 DEF CallOK
<1>4. Awaited(NoAppend) = {}
  BY <1>2 DEF Awaited
<1> QED BY <1>1, <1>2, <1>3, <1>4 DEF AcksOK

LEMMA CallGrows ==
    ASSUME NEW c, NEW f, NEW S, NEW T, S \subseteq T, CallOK(c, f, S)
    PROVE  CallOK(c, f, T)
BY DEF CallOK

LEMMA OrphanedOK ==
    ASSUME NEW q \in Seq(Msg), NEW c
    PROVE  Orphaned(q) \in Seq(Msg) /\ NetOK(Orphaned(q), c)
<1>1. \A i \in 1..Len(q) : [q[i] EXCEPT !.slot = 0] \in Msg /\ [q[i] EXCEPT !.slot = 0].slot = 0
  <2>1. \A m \in Msg : [m EXCEPT !.slot = 0] \in Msg /\ [m EXCEPT !.slot = 0].slot = 0
    BY DEF Msg
  <2>2. \A i \in 1..Len(q) : q[i] \in Msg
    OBVIOUS
  <2> QED BY <2>1, <2>2
<1>2. Orphaned(q) \in [1..Len(q) -> Msg] /\ \A i \in 1..Len(q) : Orphaned(q)[i].slot = 0
  BY <1>1 DEF Orphaned
<1>3. Orphaned(q) \in Seq(Msg) /\ DOMAIN Orphaned(q) = 1..Len(q)
  <2>1. Len(q) \in Nat
    OBVIOUS
  <2>2. Orphaned(q) \in UNION {[1..n -> Msg] : n \in Nat}
    BY <1>2, <2>1
  <2> QED BY <1>2, <2>2, SeqDef
<1> QED BY <1>2, <1>3 DEF NetOK

\* Queues: what is left when the head goes, alone or to the end.
LEMMA TailOK ==
    ASSUME NEW q \in Seq(Msg), q # <<>>
    PROVE  /\ Tail(q) \in Seq(Msg) /\ Head(q) \in Msg /\ Head(q) = q[1] /\ 1 \in DOMAIN q
           /\ \A i \in DOMAIN Tail(q) : i + 1 \in DOMAIN q /\ i + 1 # 1 /\ Tail(q)[i] = q[i + 1]
           /\ \A i, j \in DOMAIN Tail(q) : i + 1 = j + 1 => i = j
OBVIOUS

LEMMA NetTail ==
    ASSUME NEW q \in Seq(Msg), q # <<>>, NEW c, NetOK(q, c)
    PROVE  NetOK(Tail(q), c)
BY TailOK DEF NetOK

LEMMA NetRotates ==
    ASSUME NEW q \in Seq(Msg), q # <<>>, NEW c, NetOK(q, c)
    PROVE  Append(Tail(q), Head(q)) \in Seq(Msg) /\ NetOK(Append(Tail(q), Head(q)), c)
<1> DEFINE t == Append(Tail(q), Head(q))
           Old(i) == IF i = Len(q) THEN 1 ELSE i + 1
<1>1. t \in Seq(Msg) /\ DOMAIN t = 1..Len(q) /\ DOMAIN q = 1..Len(q)
  OBVIOUS
<1>2. \A i \in 1..Len(q) : Old(i) \in 1..Len(q) /\ t[i] = q[Old(i)]
  OBVIOUS
<1>3. \A i, j \in 1..Len(q) : Old(i) = Old(j) => i = j
  OBVIOUS
<1> HIDE DEF t, Old
<1>4. NetOK(t, c)
  BY <1>1, <1>2, <1>3 DEF NetOK
<1> QED BY <1>1, <1>4 DEF t

\* What a step sets in a call, field by field.
LEMMA SetSent ==
    ASSUME NEW c \in Call, NEW k \in Nat
    PROVE  LET d == [c EXCEPT !.sent = k]
           IN  /\ d \in Call /\ d.sent = k /\ d.batch = c.batch /\ d.reply = c.reply /\ d.got = c.got
               /\ d.written = c.written /\ d.failed = c.failed /\ d.late = c.late
BY DEF Call

LEMMA SetLate ==
    ASSUME NEW c \in Call
    PROVE  LET d == [c EXCEPT !.late = TRUE]
           IN  /\ d \in Call /\ d.sent = c.sent /\ d.batch = c.batch /\ d.reply = c.reply
               /\ d.got = c.got /\ d.written = c.written /\ d.failed = c.failed /\ d.late = TRUE
BY DEF Call

\* The future of slot k resolves with r.
Replied(c, k, r) == [c EXCEPT !.reply = [c.reply EXCEPT ![k] = r]]

LEMMA ReplySeq ==
    ASSUME NEW s \in Seq(Reply), NEW k, NEW r \in Reply
    PROVE  [s EXCEPT ![k] = r] \in Seq(Reply)
<1> DEFINE t == [s EXCEPT ![k] = r]
<1>1. s \in [1..Len(s) -> Reply] /\ Len(s) \in Nat
  OBVIOUS
<1>2. t \in [1..Len(s) -> Reply]
  BY <1>1
<1> HIDE DEF t
<1>3. t \in UNION {[1..n -> Reply] : n \in Nat}
  BY <1>1, <1>2
<1> QED BY <1>3, SeqDef DEF t

LEMMA SetReply ==
    ASSUME NEW c \in Call, NEW s \in Seq(Reply)
    PROVE  LET d == [c EXCEPT !.reply = s]
           IN  /\ d \in Call /\ d.sent = c.sent /\ d.batch = c.batch /\ d.reply = s /\ d.got = c.got
               /\ d.written = c.written /\ d.failed = c.failed /\ d.late = c.late
BY DEF Call

LEMMA SetTaken ==
    ASSUME NEW c \in Call, NEW r, c.got + 1 \in DOMAIN c.batch
    PROVE  LET d == Taken(c, r)
           IN  /\ d \in Call /\ d.sent = c.sent /\ d.batch = c.batch /\ d.reply = c.reply
               /\ d.got = c.got + 1 /\ d.late = c.late /\ d.failed = (c.failed \/ r = "error")
               /\ d.written = IF r = "ok" THEN c.written \cup {c.batch[c.got + 1]} ELSE c.written
<1> DEFINE g == c.got + 1
           w == IF r = "ok" THEN c.written \cup {c.batch[c.got + 1]} ELSE c.written
           x == c.failed \/ r = "error"
<1>1. g \in Nat /\ w \in SUBSET Nat /\ x \in BOOLEAN
  <2>1. c.batch[c.got + 1] \in Nat
    BY CallFields
  <2> QED BY <2>1, CallFields
<1>2. Taken(c, r) = [c EXCEPT !.got = g, !.written = w, !.failed = x]
  BY DEF Taken, Call
<1> HIDE DEF g, w, x
<1>3. LET d == [c EXCEPT !.got = g, !.written = w, !.failed = x]
      IN  /\ d \in Call /\ d.sent = c.sent /\ d.batch = c.batch /\ d.reply = c.reply
          /\ d.got = g /\ d.late = c.late /\ d.failed = x /\ d.written = w
  BY <1>1 DEF Call
<1> QED BY <1>2, <1>3 DEF g, w, x

\* PublishMsgAsync
LEMMA Publishes ==
    ASSUME NEW c \in Call, NEW d \in Call, NEW f, NEW S, NEW q \in Seq(Msg), NEW m \in Msg,
           CallOK(c, f, S), NetOK(q, c), c.sent + 1 <= Len(c.batch),
           m.id = c.batch[c.sent + 1], m.slot = c.sent + 1,
           d.sent = c.sent + 1, d.batch = c.batch, d.reply = c.reply, d.got = c.got,
           d.written = c.written, d.failed = c.failed, d.late = c.late
    PROVE  CallOK(d, f, S) /\ NetOK(Append(q, m), d)
<1>1. CallOK(d, f, S)
  BY CallFields DEF CallOK
<1> DEFINE t == Append(q, m)
<1>2. /\ DOMAIN t = 1..(Len(q) + 1) /\ DOMAIN q = 1..Len(q) /\ t[Len(q) + 1] = m
      /\ \A i \in 1..Len(q) : t[i] = q[i]
  OBVIOUS
<1>3. c.reply[c.sent + 1] = "none" /\ c.sent + 1 \in 1..d.sent
  BY CallFields DEF CallOK
<1>4. \A i \in 1..Len(q) : t[i].slot # 0 => t[i].slot \in 1..c.sent /\ t[i].slot # m.slot
  <2>1. \A i \in 1..Len(q) : t[i].slot # 0 => t[i].slot \in 1..c.sent
    BY <1>2 DEF NetOK
  <2> QED BY <2>1, CallFields
<1> HIDE DEF t
<1>5. NetOK(t, d)
  <2>1. \A i \in DOMAIN t : t[i].slot # 0 =>
          /\ t[i].slot \in 1..d.sent /\ t[i].id = d.batch[t[i].slot] /\ d.reply[t[i].slot] = "none"
    <3>1. ASSUME NEW i \in 1..Len(q), t[i].slot # 0
          PROVE  /\ t[i].slot \in 1..c.sent /\ t[i].id = d.batch[t[i].slot]
                 /\ d.reply[t[i].slot] = "none"
      BY <1>2, <3>1 DEF NetOK
    <3>2. 1..c.sent \subseteq 1..d.sent
      BY CallFields
    <3>3. m.slot \in 1..d.sent /\ m.id = d.batch[m.slot] /\ d.reply[m.slot] = "none"
      BY <1>3
    <3>4. \A i \in DOMAIN t : i \in 1..Len(q) \/ t[i] = m
      BY <1>2
    <3> QED BY <3>1, <3>2, <3>3, <3>4
  <2>2. \A i, j \in DOMAIN t : t[i].slot = t[j].slot /\ t[i].slot # 0 => i = j
    BY <1>2, <1>4 DEF NetOK
  <2> QED BY <2>1, <2>2 DEF NetOK
<1> QED BY <1>1, <1>5 DEF t

\* The future of slot k resolves with r, the message at the head of the queue.
LEMMA Resolves ==
    ASSUME NEW c \in Call, NEW f, NEW S, NEW q \in Seq(Msg), q # <<>>,
           NEW r \in Reply, q[1].slot # 0, CallOK(c, f, S), NetOK(q, c),
           r \in {"ok", "duplicate"} => q[1].id \in S, r # "none"
    PROVE  LET d == Replied(c, q[1].slot, r)
           IN  /\ d \in Call /\ CallOK(d, f, S) /\ NetOK(Tail(q), d)
               /\ d.written = c.written /\ Awaited(c) \subseteq Awaited(d)
               /\ ~c.late /\ r = "ok" => c.batch[q[1].slot] \in Awaited(d) \cap Nat
<1> DEFINE k == q[1].slot
           d == Replied(c, k, r)
<1>0. /\ d \in Call /\ d.sent = c.sent /\ d.batch = c.batch
      /\ d.reply = [c.reply EXCEPT ![k] = r] /\ d.got = c.got
      /\ d.written = c.written /\ d.failed = c.failed /\ d.late = c.late /\ k # 0
  <2>1. k # 0
    OBVIOUS
  <2> DEFINE s == [c.reply EXCEPT ![k] = r]
  <2>2. s \in Seq(Reply)
    BY CallFields, ReplySeq
  <2>3. d = [c EXCEPT !.reply = s]
    BY DEF Replied
  <2> HIDE DEF s, k, d
  <2>4. /\ d \in Call /\ d.sent = c.sent /\ d.batch = c.batch /\ d.reply = s /\ d.got = c.got
        /\ d.written = c.written /\ d.failed = c.failed /\ d.late = c.late
    BY <2>2, <2>3, SetReply
  <2> QED BY <2>1, <2>4 DEF s
<1> HIDE DEF d
<1>1. 1 \in DOMAIN q
  BY TailOK
<1>2. k \in 1..c.sent /\ q[1].id = c.batch[k] /\ c.reply[k] = "none"
  BY <1>0, <1>1 DEF NetOK
<1>3. /\ DOMAIN c.batch = 1..Len(c.batch) /\ DOMAIN c.reply = 1..Len(c.batch)
      /\ k \in 1..Len(c.batch) /\ c.sent \in Nat /\ Len(c.batch) \in Nat /\ c.got \in Nat
  BY <1>2, CallFields DEF CallOK
<1>4. \A i \in DOMAIN c.batch : d.reply[i] = IF i = k THEN r ELSE c.reply[i]
  <2> HIDE DEF k
  <2>1. d.reply = [c.reply EXCEPT ![k] = r] /\ DOMAIN c.batch = DOMAIN c.reply
    BY <1>0, <1>3
  <2> QED BY <2>1
<1>5. Len(d.reply) = Len(c.batch)
  BY <1>0, CallFields DEF CallOK
<1>6. CallOK(d, f, S)
  <2>1. \A i \in DOMAIN c.batch : d.reply[i] \in {"ok", "duplicate"} => c.batch[i] \in S
    BY <1>2, <1>4 DEF CallOK
  <2>2. \A i \in DOMAIN c.batch : i > c.sent => d.reply[i] = "none"
    BY <1>2, <1>3, <1>4 DEF CallOK
  <2>3. \A i \in 1..c.got : c.late \/ d.reply[i] # "none"
    BY <1>3, <1>4 DEF CallOK
  <2> QED BY <1>0, <1>5, <2>1, <2>2, <2>3 DEF CallOK
<1>7. NetOK(Tail(q), d)
  <2>1. \A i \in DOMAIN Tail(q) : Tail(q)[i].slot # k
    BY <1>0, <1>1, TailOK DEF NetOK
  <2>2. NetOK(Tail(q), c)
    BY NetTail
  <2>3. 1..c.sent \subseteq DOMAIN c.batch
    BY <1>3 DEF CallOK
  <2>4. \A i \in DOMAIN Tail(q) : Tail(q)[i].slot # 0 => d.reply[Tail(q)[i].slot] = "none"
    BY <1>4, <2>1, <2>2, <2>3 DEF NetOK
  <2> QED BY <1>0, <2>2, <2>4 DEF NetOK
<1>8. k > c.got \/ c.late
  BY <1>2, <1>3 DEF CallOK
<1>9. Awaited(c) \subseteq Awaited(d)
  BY <1>0, <1>2, <1>4 DEF Awaited
<1>10. ~c.late /\ r = "ok" => c.batch[k] \in Awaited(d) \cap Nat
  <2>1. c.batch[k] \in Nat
    BY <1>3, CallFields
  <2> QED BY <1>0, <1>3, <1>4, <1>8, <2>1 DEF Awaited
<1> QED BY <1>0, <1>6, <1>7, <1>9, <1>10 DEF d

\* collectBatchPubAcks takes reply r of slot k: the one that is there, or the
\* error of the deadline.
LEMMA Collects ==
    ASSUME NEW c \in Call, NEW f, NEW S, NEW q, NEW r,
           c.got + 1 \in DOMAIN c.batch, CallOK(c, f, S), NetOK(q, c),
           \/ r = c.reply[c.got + 1] /\ r # "none"
           \/ r = "error" /\ c.late
    PROVE  LET d == Taken(c, r)
               k == c.got + 1
           IN  /\ d \in Call /\ CallOK(d, f, S) /\ NetOK(q, d)
               /\ Awaited(c) \subseteq Awaited(d) \cup {c.batch[k]}
               /\ r = c.reply[k] => Awaited(c) \cup c.written \subseteq Awaited(d) \cup d.written
               /\ c.written \subseteq d.written
<1> DEFINE k == c.got + 1
           d == Taken(c, r)
<1>0. /\ d \in Call /\ d.got = k
      /\ d.written = IF r = "ok" THEN c.written \cup {c.batch[k]} ELSE c.written
      /\ d.failed = (c.failed \/ r = "error") /\ d.late = c.late
      /\ d.batch = c.batch /\ d.reply = c.reply /\ d.sent = c.sent
  BY SetTaken
<1> HIDE DEF d
<1>1. c.got \in Nat /\ k \in 1..Len(c.batch) /\ Len(c.batch) \in Nat /\ c.reply[k] \in Reply
  BY CallFields DEF CallOK
<1>2. 1..k = 1..c.got \cup {k}
  BY <1>1
<1>3. r \notin {"ok", "duplicate"} => r = "error"
  BY <1>1 DEF Reply
<1>4. CallOK(d, f, S)
  <2>1. \A i \in 1..k : d.failed \/ c.batch[i] \in S
    BY <1>0, <1>2, <1>3 DEF CallOK
  <2>2. \A i \in 1..k : c.late \/ c.reply[i] # "none"
    BY <1>2 DEF CallOK
  <2>3. \A e \in d.written : \E i \in DOMAIN c.batch : c.batch[i] = e
    BY <1>0 DEF CallOK
  <2> QED BY <1>0, <1>1, <2>1, <2>2, <2>3 DEF CallOK
<1>5. NetOK(q, d)
  BY <1>0 DEF NetOK
<1>6. Awaited(c) \subseteq Awaited(d) \cup {c.batch[k]}
  BY <1>0, <1>1 DEF Awaited
<1>7. r = c.reply[k] => Awaited(c) \cup c.written \subseteq Awaited(d) \cup d.written
  <2>1. CASE r = "ok"
    BY <1>0, <1>6, <2>1
  <2>2. CASE r = c.reply[k] /\ r # "ok"
    BY <1>0, <1>1, <2>2 DEF Awaited
  <2> QED BY <2>1, <2>2
<1> QED BY <1>0, <1>4, <1>5, <1>6, <1>7 DEF d

-----------------------------------------------------------------------------
(* The steps.                                                               *)

LEMMA StreamAppends ==
    ASSUME NatsTypeOK, StreamHoldsConfirmed, NEW e \in Nat, ~Contains(stream, e),
           stream' = Append(stream, e), confirmed' = confirmed
    PROVE  /\ stream' \in Seq(Nat) /\ Stored' = Stored \cup {e} /\ StreamHoldsConfirmed'
<1>1. /\ stream \in Seq(Nat) /\ DOMAIN stream = 1..Len(stream) /\ Len(stream) \in Nat
      /\ stream' \in Seq(Nat) /\ DOMAIN stream' = 1..(Len(stream) + 1)
      /\ \A i \in 1..Len(stream) : stream'[i] = stream[i] /\ stream[i] # e
      /\ stream'[Len(stream) + 1] = e
  BY DEF NatsTypeOK, Contains
<1>2. 1..(Len(stream) + 1) = 1..Len(stream) \cup {Len(stream) + 1}
  BY <1>1
<1>3. Stored' = Stored \cup {e}
  BY <1>1, <1>2 DEF Stored
<1>4. \A x \in 1..confirmed' : \E i \in DOMAIN stream' : stream'[i] = x
  BY <1>1, <1>2 DEF StreamHoldsConfirmed
<1>5. \A i, j \in DOMAIN stream' : stream'[i] = stream'[j] => i = j
  BY <1>1, <1>2 DEF StreamHoldsConfirmed
<1> QED BY <1>1, <1>3, <1>4, <1>5 DEF StreamHoldsConfirmed

LEMMA StreamStays ==
    ASSUME NatsTypeOK, StreamHoldsConfirmed, stream' = stream, confirmed' = confirmed
    PROVE  stream' \in Seq(Nat) /\ Stored' = Stored /\ StreamHoldsConfirmed'
BY DEF NatsTypeOK, Stored, StreamHoldsConfirmed

\* A step of publisher n leaves the invariant in place for the others.
LEMMA OneMoves ==
    ASSUME NatsInv, NEW n \in Publishers, NEW c \in Call, NEW q \in Seq(Msg), NEW f \in Nat,
           NEW ob \in SUBSET Nat, NEW ac \in SUBSET Nat,
           publ' = [publ EXCEPT ![n] = c], net' = [net EXCEPT ![n] = q],
           from' = [from EXCEPT ![n] = f], observed' = [observed EXCEPT ![n] = ob],
           acked' = [acked EXCEPT ![n] = ac],
           stream' \in Seq(Nat), confirmed' \in Nat, confirmed <= confirmed',
           Stored \subseteq Stored', StreamHoldsConfirmed',
           f <= confirmed', CallOK(c, f, Stored'), NetOK(q, c), AcksOK(c, ob, ac)
    PROVE  NatsInv'
<1>1. NatsTypeOK'
  BY DEF NatsInv, NatsTypeOK
<1>2. /\ publ'[n] = c /\ net'[n] = q /\ from'[n] = f /\ observed'[n] = ob /\ acked'[n] = ac
      /\ \A m \in Publishers \ {n} : /\ publ'[m] = publ[m] /\ net'[m] = net[m] /\ from'[m] = from[m]
                                     /\ observed'[m] = observed[m] /\ acked'[m] = acked[m]
  BY DEF NatsInv, NatsTypeOK
<1>3. ASSUME NEW m \in Publishers PROVE Sound(m)'
  <2>1. CASE m = n
    BY <1>2, <2>1 DEF Sound
  <2>2. CASE m # n
    <3>1. Sound(m) /\ from[m] \in Nat /\ confirmed \in Nat
      BY DEF NatsInv, NatsTypeOK
    <3>2. from[m] <= confirmed' /\ CallOK(publ[m], from[m], Stored')
      BY <3>1, CallGrows DEF Sound
    <3> QED BY <1>2, <2>2, <3>1, <3>2 DEF Sound
  <2> QED BY <2>1, <2>2
<1> QED BY <1>1, <1>3 DEF NatsInv

\* A variable that stays, written as the others are.
LEMMA Kept ==
    ASSUME NatsTypeOK, NEW n \in Publishers
    PROVE  /\ publ = [publ EXCEPT ![n] = publ[n]] /\ net = [net EXCEPT ![n] = net[n]]
           /\ from = [from EXCEPT ![n] = from[n]] /\ observed = [observed EXCEPT ![n] = observed[n]]
           /\ acked = [acked EXCEPT ![n] = acked[n]]
           /\ publ[n] \in Call /\ net[n] \in Seq(Msg) /\ from[n] \in Nat
           /\ observed[n] \in SUBSET Nat /\ acked[n] \in SUBSET Nat /\ confirmed \in Nat
BY DEF NatsTypeOK

\* A step of n's call, as the server or the client makes it.
LEMMA CallMoves ==
    ASSUME NatsInv, NEW n \in Publishers, NEW c \in Call, NEW q \in Seq(Msg), NEW ac \in SUBSET Nat,
           publ' = [publ EXCEPT ![n] = c], net' = [net EXCEPT ![n] = q],
           acked' = [acked EXCEPT ![n] = ac], UNCHANGED <<from, confirmed, observed>>,
           stream' \in Seq(Nat), Stored \subseteq Stored', StreamHoldsConfirmed',
           CallOK(c, from[n], Stored'), NetOK(q, c), AcksOK(c, observed[n], ac)
    PROVE  NatsInv'
<1>1. NatsTypeOK /\ Sound(n)
  BY DEF NatsInv
<1>2. /\ from[n] \in Nat /\ observed[n] \in SUBSET Nat /\ confirmed \in Nat
      /\ from' = [from EXCEPT ![n] = from[n]] /\ observed' = [observed EXCEPT ![n] = observed[n]]
  BY <1>1, Kept
<1>3. confirmed' \in Nat /\ confirmed <= confirmed' /\ from[n] <= confirmed'
  BY <1>1, <1>2 DEF Sound
<1> QED BY <1>2, <1>3, OneMoves

\* A step that ends n's call: its messages are nobody's.
LEMMA CallEnds ==
    ASSUME NatsInv, NEW n \in Publishers, NEW f \in Nat, NEW ob \in SUBSET Nat, NEW ac \in SUBSET Nat,
           publ' = [publ EXCEPT ![n] = NoAppend], net' = [net EXCEPT ![n] = Orphaned(net[n])],
           from' = [from EXCEPT ![n] = f], observed' = [observed EXCEPT ![n] = ob],
           acked' = [acked EXCEPT ![n] = ac], stream' = stream, confirmed' \in Nat,
           confirmed <= confirmed', f <= confirmed', StreamHoldsConfirmed', ac \subseteq ob
    PROVE  NatsInv'
<1>1. NatsTypeOK /\ net[n] \in Seq(Msg)
  BY Kept DEF NatsInv
<1>2. NoAppend \in Call /\ CallOK(NoAppend, f, Stored') /\ AcksOK(NoAppend, ob, ac)
  BY NoAppendOK
<1>3. Orphaned(net[n]) \in Seq(Msg) /\ NetOK(Orphaned(net[n]), NoAppend)
  BY <1>1, OrphanedOK
<1>4. stream' \in Seq(Nat) /\ Stored \subseteq Stored'
  BY <1>1 DEF NatsTypeOK, Stored
<1> QED BY <1>2, <1>3, <1>4, OneMoves

LEMMA InitInv == NatsInit => NatsInv
<1> SUFFICES ASSUME NatsInit PROVE NatsInv
  OBVIOUS
<1>1. NatsTypeOK
  BY NoAppendOK DEF NatsInit, NatsTypeOK
<1>2. StreamHoldsConfirmed
  BY DEF NatsInit, StreamHoldsConfirmed
<1>3. ASSUME NEW n \in Publishers PROVE Sound(n)
  <2>1. publ[n] = NoAppend /\ net[n] = <<>> /\ from[n] = 0 /\ confirmed = 0 /\ acked[n] = {}
    BY DEF NatsInit
  <2>2. NetOK(<<>>, NoAppend)
    BY DEF NetOK
  <2> QED BY <2>1, <2>2, NoAppendOK DEF Sound
<1> QED BY <1>1, <1>2, <1>3 DEF NatsInv

\* Between calls nothing is written and no message has a slot.
LEMMA NoCallNothing ==
    ASSUME NEW c \in Call, NEW f, NEW S, NEW q, NEW ob, NEW ac,
           c.batch = <<>>, CallOK(c, f, S), NetOK(q, c), AcksOK(c, ob, ac)
    PROVE  ac \subseteq ob /\ \A d : NetOK(q, d)
<1>1. c.written = {} /\ Awaited(c) = {} /\ c.sent = 0
  BY CallFields DEF CallOK, Awaited
<1>2. \A i \in DOMAIN q : q[i].slot = 0
  BY <1>1 DEF NetOK
<1> QED BY <1>1, <1>2 DEF AcksOK, NetOK

\* AppendBatch builds its messages.
LEMMA NewCall ==
    ASSUME NEW f \in Nat, NEW k \in Nat, NEW S
    PROVE  LET c == [NoAppend EXCEPT !.batch = [i \in 1..k |-> f + i],
                                     !.reply = [i \in 1..k |-> "none"]]
           IN  /\ c \in Call /\ CallOK(c, f, S)
               /\ \A ob, ac : ac \subseteq ob => AcksOK(c, ob, ac)
<1> DEFINE b == [i \in 1..k |-> f + i]
           r == [i \in 1..k |-> "none"]
           c == [NoAppend EXCEPT !.batch = b, !.reply = r]
<1>1. b \in [1..k -> Nat] /\ r \in [1..k -> Reply]
  BY DEF Reply
<1>2. /\ b \in Seq(Nat) /\ r \in Seq(Reply) /\ Len(b) = k /\ Len(r) = k
  <2>1. b \in UNION {[1..n -> Nat] : n \in Nat} /\ r \in UNION {[1..n -> Reply] : n \in Nat}
    BY <1>1
  <2>2. b \in Seq(Nat) /\ r \in Seq(Reply)
    BY <2>1, SeqDef
  <2> QED BY <1>1, <2>2
<1>3. (\A i \in 1..k : b[i] = f + i /\ r[i] = "none") /\ DOMAIN b = 1..k
  OBVIOUS
<1> HIDE DEF b, r
<1>4. /\ c \in Call /\ c.batch = b /\ c.reply = r /\ c.sent = 0 /\ c.got = 0
      /\ c.written = {} /\ c.failed = FALSE /\ c.late = FALSE
  BY <1>2 DEF Call, NoAppend
<1> HIDE DEF c
<1>5. CallOK(c, f, S)
  BY <1>2, <1>3, <1>4 DEF CallOK
<1>6. \A ob, ac : ac \subseteq ob => AcksOK(c, ob, ac)
  BY DEF AcksOK
<1> QED BY <1>4, <1>5, <1>6 DEF c, b, r

LEMMA AppendBatchInv ==
    ASSUME NatsInv, NEW n \in Publishers, AppendBatch(n)
    PROVE  NatsInv'
<1> DEFINE C(k) == [NoAppend EXCEPT !.batch = [i \in 1..k |-> from[n] + i],
                                    !.reply = [i \in 1..k |-> "none"]]
<1>1. NatsTypeOK /\ StreamHoldsConfirmed /\ Sound(n)
  BY DEF NatsInv
<1>2. PICK k \in 1..MaxBatch : publ' = [publ EXCEPT ![n] = C(k)]
  BY DEF AppendBatch
<1>3. /\ UNCHANGED <<stream, net, from, confirmed, observed, acked>> /\ publ[n].batch = <<>>
  BY DEF AppendBatch, Appending
<1>4. k \in Nat
  BY NatsAssumption
<1>5. /\ C(k) \in Call /\ CallOK(C(k), from[n], Stored)
      /\ \A ob, ac : ac \subseteq ob => AcksOK(C(k), ob, ac)
  BY <1>1, <1>4, Kept, NewCall
<1> HIDE DEF C
<1>6. acked[n] \subseteq observed[n] /\ NetOK(net[n], C(k))
  BY <1>1, <1>3, Kept, NoCallNothing DEF Sound
<1>7. stream' \in Seq(Nat) /\ Stored' = Stored /\ StreamHoldsConfirmed'
  BY <1>1, <1>3, StreamStays
<1>8. /\ net[n] \in Seq(Msg) /\ acked[n] \in SUBSET Nat /\ net' = [net EXCEPT ![n] = net[n]]
      /\ acked' = [acked EXCEPT ![n] = acked[n]]
  BY <1>1, <1>3, Kept
<1> QED BY <1>2, <1>3, <1>5, <1>6, <1>7, <1>8, CallMoves

LEMMA PublishInv ==
    ASSUME NatsInv, NEW n \in Publishers, PublishMsgAsync(n)
    PROVE  NatsInv'
<1>1. NatsTypeOK /\ StreamHoldsConfirmed /\ Sound(n)
  BY DEF NatsInv
<1> DEFINE c == publ[n]
           d == [c EXCEPT !.sent = c.sent + 1]
           m == [id |-> c.batch[c.sent + 1], slot |-> c.sent + 1]
<1>2. /\ c.sent + 1 <= Len(c.batch) /\ net' = [net EXCEPT ![n] = Append(net[n], m)]
      /\ publ' = [publ EXCEPT ![n] = d]
      /\ UNCHANGED <<stream, from, confirmed, observed, acked>>
  BY DEF PublishMsgAsync, MsgId
<1>3. c \in Call /\ net[n] \in Seq(Msg) /\ c.sent + 1 \in Nat
  BY <1>1, Kept, CallFields
<1>4. /\ d \in Call /\ d.sent = c.sent + 1 /\ d.batch = c.batch /\ d.reply = c.reply /\ d.got = c.got
      /\ d.written = c.written /\ d.failed = c.failed /\ d.late = c.late
  BY <1>3, SetSent
<1>5. m \in Msg /\ m.id = c.batch[c.sent + 1] /\ m.slot = c.sent + 1
  <2>1. c.batch \in Seq(Nat) /\ c.sent + 1 \in 1..Len(c.batch)
    BY <1>2, <1>3, CallFields
  <2>2. c.batch[c.sent + 1] \in Nat /\ c.sent + 1 \in Nat
    BY <2>1
  <2> QED BY <2>2 DEF Msg
<1>6. CallOK(c, from[n], Stored) /\ NetOK(net[n], c) /\ AcksOK(c, observed[n], acked[n])
  BY <1>1 DEF Sound
<1> HIDE DEF d, m, c
<1>7. CallOK(d, from[n], Stored) /\ NetOK(Append(net[n], m), d)
  BY <1>2, <1>3, <1>4, <1>5, <1>6, Publishes
<1>8. AcksOK(d, observed[n], acked[n])
  BY <1>4, <1>6 DEF AcksOK, Awaited
<1>9. stream' \in Seq(Nat) /\ Stored' = Stored /\ StreamHoldsConfirmed'
  BY <1>1, <1>2, StreamStays
<1>10. /\ Append(net[n], m) \in Seq(Msg) /\ acked[n] \in SUBSET Nat
       /\ acked' = [acked EXCEPT ![n] = acked[n]]
  BY <1>1, <1>2, <1>3, <1>5, Kept
<1> QED BY <1>2, <1>4, <1>7, <1>8, <1>9, <1>10, CallMoves

\* A message leaves the queue unanswered: lost, or stored without an answer.
LEMMA LosesInv ==
    ASSUME NatsInv, NEW n \in Publishers, Loses(n)
    PROVE  NatsInv'
<1>1. NatsTypeOK /\ StreamHoldsConfirmed /\ Sound(n)
  BY DEF NatsInv
<1>2. /\ net[n] # <<>> /\ net' = [net EXCEPT ![n] = Tail(net[n])]
      /\ UNCHANGED <<publ, from, confirmed, observed, acked>>
      /\ \/ stream' = stream
         \/ ~Contains(stream, Head(net[n]).id) /\ stream' = Append(stream, Head(net[n]).id)
  BY DEF Loses
<1>3. Head(net[n]).id \in Nat /\ Tail(net[n]) \in Seq(Msg)
  BY <1>1, <1>2, Kept, TailOK DEF Msg
<1>4. stream' \in Seq(Nat) /\ Stored \subseteq Stored' /\ StreamHoldsConfirmed'
  BY <1>1, <1>2, <1>3, StreamStays, StreamAppends
<1>5. NetOK(Tail(net[n]), publ[n]) /\ CallOK(publ[n], from[n], Stored')
  BY <1>1, <1>2, <1>4, Kept, NetTail, CallGrows DEF Sound
<1>6. /\ publ[n] \in Call /\ acked[n] \in SUBSET Nat /\ AcksOK(publ[n], observed[n], acked[n])
      /\ publ' = [publ EXCEPT ![n] = publ[n]] /\ acked' = [acked EXCEPT ![n] = acked[n]]
  BY <1>1, <1>2, Kept DEF Sound
<1> QED BY <1>2, <1>3, <1>4, <1>5, <1>6, CallMoves

\* Resolving the future of the message at the head, if a call waits for it.
LEMMA ResolvedOK ==
    ASSUME NatsTypeOK, NEW n \in Publishers, Sound(n), net[n] # <<>>, NEW r \in Reply, r # "none",
           NEW T, Stored \subseteq T, r \in {"ok", "duplicate"} => Head(net[n]).id \in T,
           publ' = Resolved(n, Head(net[n]), r)
    PROVE  \E d \in Call :
              /\ publ' = [publ EXCEPT ![n] = d]
              /\ CallOK(d, from[n], T) /\ NetOK(Tail(net[n]), d)
              /\ d.written = publ[n].written /\ Awaited(publ[n]) \subseteq Awaited(d)
              /\ Head(net[n]).slot # 0 /\ ~publ[n].late /\ r = "ok" =>
                    publ[n].batch[Head(net[n]).slot] \in Awaited(d) \cap Nat
<1> DEFINE c == publ[n]
           q == net[n]
           d == Replied(c, q[1].slot, r)
<1>1. /\ c \in Call /\ q \in Seq(Msg) /\ Head(q) = q[1] /\ publ = [publ EXCEPT ![n] = c]
  BY Kept, TailOK
<1>2. CallOK(c, from[n], T) /\ NetOK(q, c)
  BY CallGrows DEF Sound
<1>3. CASE q[1].slot = 0
  <2>1. publ' = [publ EXCEPT ![n] = c]
    BY <1>1, <1>3 DEF Resolved
  <2>2. NetOK(Tail(q), c)
    BY <1>1, <1>2, NetTail
  <2> QED BY <1>1, <1>2, <1>3, <2>1, <2>2
<1>4. CASE q[1].slot # 0
  <2>1. publ' = [publ EXCEPT ![n] = d]
    BY <1>1, <1>4 DEF Resolved, Replied
  <2>2. (r \in {"ok", "duplicate"} => q[1].id \in T) /\ q # <<>>
    BY <1>1
  <2> HIDE DEF c, q
  <2>3. /\ d \in Call /\ CallOK(d, from[n], T) /\ NetOK(Tail(q), d)
        /\ d.written = c.written /\ Awaited(c) \subseteq Awaited(d)
        /\ ~c.late /\ r = "ok" => c.batch[q[1].slot] \in Awaited(d) \cap Nat
    BY <1>1, <1>2, <1>4, <2>2, Resolves
  <2> HIDE DEF d
  <2> QED BY <1>1, <2>1, <2>3 DEF c, q
<1> QED BY <1>3, <1>4

LEMMA StoresInv ==
    ASSUME NatsInv, NEW n \in Publishers, Stores(n)
    PROVE  NatsInv'
<1> DEFINE m == Head(net[n])
           new == ~Contains(stream, m.id)
           r == IF new THEN "ok" ELSE "duplicate"
           ac == IF new /\ m.slot # 0 /\ ~publ[n].late
                 THEN acked[n] \cup {publ[n].batch[m.slot]} ELSE acked[n]
<1>1. NatsTypeOK /\ StreamHoldsConfirmed /\ Sound(n)
  BY DEF NatsInv
<1>2. /\ net[n] # <<>> /\ net' = [net EXCEPT ![n] = Tail(net[n])]
      /\ UNCHANGED <<from, confirmed, observed>> /\ publ' = Resolved(n, m, r)
      /\ stream' = IF new THEN Append(stream, m.id) ELSE stream
  BY DEF Stores
<1>3. acked' = [acked EXCEPT ![n] = ac]
  BY <1>1, Kept DEF Stores
<1>4. m.id \in Nat /\ Tail(net[n]) \in Seq(Msg) /\ m \in Msg
  BY <1>1, <1>2, Kept, TailOK DEF Msg
<1>5. stream' \in Seq(Nat) /\ Stored \subseteq Stored' /\ StreamHoldsConfirmed' /\ m.id \in Stored'
  <2>1. CASE new
    BY <1>1, <1>2, <1>4, <2>1, StreamAppends
  <2>2. CASE ~new
    <3>1. m.id \in Stored
      BY <1>1, <2>2 DEF Contains, Stored, NatsTypeOK
    <3> QED BY <1>1, <1>2, <2>2, <3>1, StreamStays
  <2> QED BY <2>1, <2>2
<1>6. r \in Reply /\ r # "none"
  BY DEF Reply
<1>7. PICK d \in Call :
              /\ publ' = [publ EXCEPT ![n] = d]
              /\ CallOK(d, from[n], Stored') /\ NetOK(Tail(net[n]), d)
              /\ d.written = publ[n].written /\ Awaited(publ[n]) \subseteq Awaited(d)
              /\ m.slot # 0 /\ ~publ[n].late /\ r = "ok" =>
                    publ[n].batch[m.slot] \in Awaited(d) \cap Nat
  <2> HIDE DEF r
  <2> QED BY <1>1, <1>2, <1>5, <1>6, ResolvedOK
<1>8. ac \in SUBSET Nat /\ AcksOK(d, observed[n], ac)
  <2>1. AcksOK(publ[n], observed[n], acked[n]) /\ acked[n] \in SUBSET Nat
    BY <1>1, Kept DEF Sound
  <2> QED BY <1>7, <2>1 DEF AcksOK
<1> HIDE DEF ac
<1> QED BY <1>2, <1>3, <1>4, <1>5, <1>7, <1>8, CallMoves

LEMMA NoRespondersInv ==
    ASSUME NatsInv, NEW n \in Publishers, NoResponders(n)
    PROVE  NatsInv'
<1>1. NatsTypeOK /\ StreamHoldsConfirmed /\ Sound(n)
  BY DEF NatsInv
<1>2. /\ net[n] # <<>> /\ UNCHANGED <<stream, from, confirmed, observed, acked>>
      /\ \/ publ' = Resolved(n, Head(net[n]), "error") /\ net' = [net EXCEPT ![n] = Tail(net[n])]
         \/ net' = [net EXCEPT ![n] = Append(Tail(net[n]), Head(net[n]))] /\ publ' = publ
  BY DEF NoResponders
<1>3. stream' \in Seq(Nat) /\ Stored' = Stored /\ StreamHoldsConfirmed'
  BY <1>1, <1>2, StreamStays
<1>4. /\ acked[n] \in SUBSET Nat /\ acked' = [acked EXCEPT ![n] = acked[n]]
      /\ publ = [publ EXCEPT ![n] = publ[n]] /\ publ[n] \in Call /\ net[n] \in Seq(Msg)
  BY <1>1, <1>2, Kept
<1>5. /\ CallOK(publ[n], from[n], Stored) /\ NetOK(net[n], publ[n])
      /\ AcksOK(publ[n], observed[n], acked[n])
  BY <1>1 DEF Sound
<1>6. CASE publ' = Resolved(n, Head(net[n]), "error") /\ net' = [net EXCEPT ![n] = Tail(net[n])]
  <2>1. "error" \in Reply /\ Tail(net[n]) \in Seq(Msg)
    BY <1>2, <1>4, TailOK DEF Reply
  <2>2. PICK d \in Call :
              /\ publ' = [publ EXCEPT ![n] = d]
              /\ CallOK(d, from[n], Stored) /\ NetOK(Tail(net[n]), d)
              /\ d.written = publ[n].written /\ Awaited(publ[n]) \subseteq Awaited(d)
    BY <1>1, <1>2, <1>6, <2>1, ResolvedOK
  <2>3. AcksOK(d, observed[n], acked[n])
    BY <1>5, <2>2 DEF AcksOK
  <2> QED BY <1>2, <1>3, <1>4, <1>6, <2>1, <2>2, <2>3, CallMoves
<1>7. CASE net' = [net EXCEPT ![n] = Append(Tail(net[n]), Head(net[n]))] /\ publ' = publ
  <2> DEFINE t == Append(Tail(net[n]), Head(net[n]))
  <2>1. t \in Seq(Msg) /\ NetOK(t, publ[n]) /\ net' = [net EXCEPT ![n] = t]
    BY <1>2, <1>4, <1>5, <1>7, NetRotates
  <2>2. publ' = [publ EXCEPT ![n] = publ[n]]
    BY <1>4, <1>7
  <2> HIDE DEF t
  <2> QED BY <1>2, <1>3, <1>4, <1>5, <2>1, <2>2, CallMoves
<1> QED BY <1>2, <1>6, <1>7

LEMMA DeadlineInv ==
    ASSUME NatsInv, NEW n \in Publishers, Deadline(n)
    PROVE  NatsInv'
<1> DEFINE c == publ[n]
           d == [c EXCEPT !.late = TRUE]
<1>1. NatsTypeOK /\ StreamHoldsConfirmed /\ Sound(n)
  BY DEF NatsInv
<1>2. publ' = [publ EXCEPT ![n] = d] /\ UNCHANGED <<stream, net, from, confirmed, observed, acked>>
  BY DEF Deadline
<1>3. /\ c \in Call /\ net[n] \in Seq(Msg) /\ acked[n] \in SUBSET Nat
      /\ net' = [net EXCEPT ![n] = net[n]] /\ acked' = [acked EXCEPT ![n] = acked[n]]
  BY <1>1, <1>2, Kept
<1>4. CallOK(c, from[n], Stored) /\ NetOK(net[n], c) /\ AcksOK(c, observed[n], acked[n])
  BY <1>1 DEF Sound
<1>5. /\ d \in Call /\ d.sent = c.sent /\ d.batch = c.batch /\ d.reply = c.reply
      /\ d.got = c.got /\ d.written = c.written /\ d.failed = c.failed /\ d.late = TRUE
  BY <1>3, SetLate
<1> HIDE DEF c, d
<1>6. CallOK(d, from[n], Stored) /\ NetOK(net[n], d) /\ AcksOK(d, observed[n], acked[n])
  BY <1>4, <1>5 DEF CallOK, NetOK, AcksOK, Awaited
<1>7. stream' \in Seq(Nat) /\ Stored' = Stored /\ StreamHoldsConfirmed'
  BY <1>1, <1>2, StreamStays
<1> QED BY <1>2, <1>3, <1>5, <1>6, <1>7, CallMoves

\* collectBatchPubAcks, one future: its reply, or the deadline.
LEMMA CollectInv ==
    ASSUME NatsInv, NEW n \in Publishers, CollectReply(n) \/ CollectTimesOut(n)
    PROVE  NatsInv'
<1> DEFINE c == publ[n]
           k == c.got + 1
           D(r) == Taken(c, r)
<1>1. NatsTypeOK /\ StreamHoldsConfirmed /\ Sound(n)
  BY DEF NatsInv
<1>2. UNCHANGED <<stream, net, from, confirmed, observed>> /\ c.got < Len(c.batch)
  BY DEF CollectReply, CollectTimesOut, Collecting
<1>3. PICK r : /\ publ' = [publ EXCEPT ![n] = D(r)]
               /\ \/ r = c.reply[k] /\ r # "none" /\ acked' = acked
                  \/ r = "error" /\ c.late /\ acked' = [acked EXCEPT ![n] = acked[n] \ {c.batch[k]}]
  BY DEF CollectReply, CollectTimesOut, Collect
<1>4. /\ c \in Call /\ net[n] \in Seq(Msg) /\ acked[n] \in SUBSET Nat
      /\ net' = [net EXCEPT ![n] = net[n]] /\ acked = [acked EXCEPT ![n] = acked[n]]
  BY <1>1, <1>2, Kept
<1>5. CallOK(c, from[n], Stored) /\ NetOK(net[n], c) /\ AcksOK(c, observed[n], acked[n])
  BY <1>1 DEF Sound
<1>6. k \in DOMAIN c.batch
  BY <1>2, <1>4, CallFields
<1> DEFINE d == D(r)
<1>7. publ' = [publ EXCEPT ![n] = d]
  BY <1>3
<1> HIDE DEF c
<1>8. /\ d \in Call /\ CallOK(d, from[n], Stored) /\ NetOK(net[n], d)
      /\ Awaited(c) \subseteq Awaited(d) \cup {c.batch[k]}
      /\ r = c.reply[k] => Awaited(c) \cup c.written \subseteq Awaited(d) \cup d.written
      /\ c.written \subseteq d.written
  <2>1. \/ r = c.reply[k] /\ r # "none"
        \/ r = "error" /\ c.late
    BY <1>3
  <2> QED BY <1>4, <1>5, <1>6, <2>1, Collects
<1> HIDE DEF d, D, k
<1>9. stream' \in Seq(Nat) /\ Stored' = Stored /\ StreamHoldsConfirmed'
  BY <1>1, <1>2, StreamStays
<1>10. PICK ac \in SUBSET Nat : acked' = [acked EXCEPT ![n] = ac] /\ AcksOK(d, observed[n], ac)
  <2>1. CASE r = c.reply[k] /\ acked' = acked
    <3>1. AcksOK(d, observed[n], acked[n])
      BY <1>5, <1>8, <2>1 DEF AcksOK
    <3> QED BY <1>4, <2>1, <3>1
  <2>2. CASE acked' = [acked EXCEPT ![n] = acked[n] \ {c.batch[k]}]
    <3>1. AcksOK(d, observed[n], acked[n] \ {c.batch[k]})
      BY <1>5, <1>8 DEF AcksOK
    <3>2. acked[n] \ {c.batch[k]} \in SUBSET Nat
      BY <1>4
    <3> QED BY <2>2, <3>1, <3>2
  <2> QED BY <1>3, <2>1, <2>2
<1> QED BY <1>2, <1>4, <1>7, <1>8, <1>9, <1>10, CallMoves

\* A call that ends without a good result: the connector starts again at the
\* confirmed position, and what was acknowledged of the batch is forgotten.
LEMMA PublishFailsInv ==
    ASSUME NatsInv, NEW n \in Publishers, PublishFails(n)
    PROVE  NatsInv'
<1> DEFINE c == publ[n]
           ac == acked[n] \ ToSet(c.batch)
<1>1. NatsTypeOK /\ StreamHoldsConfirmed /\ Sound(n)
  BY DEF NatsInv
<1>2. /\ publ' = [publ EXCEPT ![n] = NoAppend] /\ net' = [net EXCEPT ![n] = Orphaned(net[n])]
      /\ from' = [from EXCEPT ![n] = confirmed] /\ acked' = [acked EXCEPT ![n] = ac]
      /\ UNCHANGED <<stream, confirmed, observed>>
  BY DEF PublishFails
<1>3. /\ c \in Call /\ acked[n] \in SUBSET Nat /\ observed[n] \in SUBSET Nat /\ confirmed \in Nat
      /\ observed' = [observed EXCEPT ![n] = observed[n]]
  BY <1>1, <1>2, Kept
<1>4. c.written \subseteq ToSet(c.batch) /\ Awaited(c) \subseteq ToSet(c.batch)
  BY <1>1 DEF Sound, CallOK, Awaited, ToSet
<1>5. ac \subseteq observed[n] /\ ac \in SUBSET Nat
  BY <1>1, <1>3, <1>4 DEF Sound, AcksOK
<1>6. StreamHoldsConfirmed'
  BY <1>1, <1>2, StreamStays
<1>7. confirmed' \in Nat /\ confirmed <= confirmed'
  BY <1>2, <1>3
<1> HIDE DEF ac
<1> QED BY <1>2, <1>3, <1>5, <1>6, <1>7, CallEnds

LEMMA NodeRestartsInv ==
    ASSUME NatsInv, NEW n \in Publishers, NodeRestarts(n)
    PROVE  NatsInv'
<1>1. NatsTypeOK /\ StreamHoldsConfirmed
  BY DEF NatsInv
<1>2. /\ publ' = [publ EXCEPT ![n] = NoAppend] /\ net' = [net EXCEPT ![n] = Orphaned(net[n])]
      /\ from' = [from EXCEPT ![n] = confirmed] /\ acked' = [acked EXCEPT ![n] = {}]
      /\ observed' = [observed EXCEPT ![n] = {}] /\ stream' = stream /\ confirmed' = confirmed
  BY DEF NodeRestarts
<1>3. StreamHoldsConfirmed' /\ confirmed \in Nat
  BY <1>1, <1>2, StreamStays, Kept
<1>4. confirmed' \in Nat /\ confirmed <= confirmed' /\ {} \in SUBSET Nat
  BY <1>2, <1>3
<1> QED BY <1>2, <1>3, <1>4, CallEnds

\* AppendBatch returns.  Without a failure every change of the batch is stored,
\* so the position may move to its last one.
LEMMA AppendReturnsInv ==
    ASSUME NatsInv, NEW n \in Publishers, AppendReturns(n)
    PROVE  NatsInv'
<1> DEFINE c == publ[n]
           b == c.batch
           ob == observed[n] \cup c.written
           f == IF c.failed THEN confirmed ELSE Last(b)
<1>1. NatsTypeOK /\ StreamHoldsConfirmed /\ Sound(n)
  BY DEF NatsInv
<1>2. /\ b # <<>> /\ c.got = Len(b)
      /\ publ' = [publ EXCEPT ![n] = NoAppend] /\ net' = [net EXCEPT ![n] = Orphaned(net[n])]
      /\ from' = [from EXCEPT ![n] = f] /\ observed' = [observed EXCEPT ![n] = ob]
      /\ confirmed' = IF ~c.failed /\ Last(b) > confirmed THEN Last(b) ELSE confirmed
      /\ UNCHANGED <<stream, acked>>
  BY DEF AppendReturns, Appending
<1>3. /\ c \in Call /\ acked[n] \in SUBSET Nat /\ observed[n] \in SUBSET Nat /\ confirmed \in Nat
      /\ acked' = [acked EXCEPT ![n] = acked[n]] /\ from[n] \in Nat /\ b \in Seq(Nat)
      /\ c.written \in SUBSET Nat
  BY <1>1, <1>2, Kept, CallFields
<1>4. CallOK(c, from[n], Stored) /\ AcksOK(c, observed[n], acked[n]) /\ from[n] <= confirmed
  BY <1>1 DEF Sound
<1>5. Awaited(c) = {}
  BY <1>2, <1>3 DEF Awaited
<1>6. ob \in SUBSET Nat /\ acked[n] \subseteq ob
  BY <1>3, <1>4, <1>5 DEF AcksOK
<1>7. /\ DOMAIN b = 1..Len(b) /\ Len(b) \in Nat /\ Len(b) > 0 /\ Len(b) \in DOMAIN b
      /\ Last(b) = b[Len(b)]
  BY <1>2, <1>3, EmptySeq DEF Last
<1>8. Last(b) = from[n] + Len(b) /\ Last(b) \in Nat
  BY <1>3, <1>4, <1>7 DEF CallOK
<1>9. f \in Nat /\ confirmed' \in Nat /\ confirmed <= confirmed' /\ f <= confirmed'
  BY <1>2, <1>3, <1>8
<1>10. StreamHoldsConfirmed'
  <2>1. ASSUME NEW e \in 1..confirmed', e > confirmed
        PROVE  \E i \in DOMAIN stream : stream[i] = e
    <3>1. ~c.failed /\ confirmed' = Last(b)
      BY <1>2, <1>3, <1>8, <2>1
    <3> DEFINE i == e - from[n]
    <3>2. i \in 1..Len(b) /\ from[n] + i = e
      BY <1>3, <1>4, <1>7, <1>8, <2>1, <3>1
    <3>3. b[i] = e /\ b[i] \in Stored
      BY <1>2, <1>4, <1>7, <3>1, <3>2 DEF CallOK
    <3> QED BY <3>3 DEF Stored
  <2>2. \A e \in 1..confirmed : \E i \in DOMAIN stream : stream[i] = e
    BY <1>1 DEF StreamHoldsConfirmed
  <2>3. \A e \in 1..confirmed' : e \in 1..confirmed \/ e > confirmed
    BY <1>3, <1>9
  <2>4. \A e \in 1..confirmed' : \E i \in DOMAIN stream : stream[i] = e
    BY <2>1, <2>2, <2>3
  <2> QED BY <1>1, <1>2, <2>4 DEF StreamHoldsConfirmed
<1> HIDE DEF f, ob
<1>11. stream' = stream
  BY <1>2
<1> QED BY <1>2, <1>3, <1>6, <1>9, <1>10, <1>11, CallEnds

LEMMA NextInv == NatsInv /\ [NatsNext]_natsVars => NatsInv'
<1> SUFFICES ASSUME NatsInv, [NatsNext]_natsVars PROVE NatsInv'
  OBVIOUS
<1>1. CASE UNCHANGED natsVars
  <2>1. UNCHANGED <<stream, publ, net, from, confirmed, observed, acked>> /\ Stored' = Stored
    BY <1>1 DEF natsVars, Stored
  <2>2. NatsTypeOK' /\ StreamHoldsConfirmed'
    BY <2>1 DEF NatsInv, NatsTypeOK, StreamHoldsConfirmed
  <2>3. \A n \in Publishers : Sound(n)'
    BY <2>1 DEF NatsInv, Sound
  <2> QED BY <2>2, <2>3 DEF NatsInv
<1>2. CASE NatsNext
  <2>1. PICK n \in Publishers :
          NatsStep(n) \/ Loses(n) \/ NoResponders(n) \/ PublishFails(n) \/ NodeRestarts(n)
    BY <1>2 DEF NatsNext
  <2>2. CASE NatsStep(n)
    BY <2>2, AppendBatchInv, PublishInv, StoresInv, DeadlineInv, CollectInv, AppendReturnsInv
    DEF NatsStep
  <2> QED BY <2>1, <2>2, LosesInv, NoRespondersInv, PublishFailsInv, NodeRestartsInv
<1> QED BY <1>1, <1>2

\* What AppendBatch (internal/eventlog/nats.go) tells its caller and its observers
\* is true of the stream, for any number of publishers and changes, any batches and
\* any losses, late acks, duplicates and restarts: every confirmed change is in the
\* stream, each change at most once, and between calls the observers have heard of
\* every new entry whose PubAck came in time.
THEOREM AppendAlwaysTellsTruth == NatsSpec => []AppendTellsTruth
<1>1. NatsInv => AppendTellsTruth
  <2> SUFFICES ASSUME NatsInv PROVE AppendTellsTruth
    OBVIOUS
  <2>1. ASSUME NEW n \in Publishers, ~Appending(n) PROVE acked[n] \subseteq observed[n]
    <3>1. NatsTypeOK /\ Sound(n) /\ publ[n].batch = <<>>
      BY <2>1 DEF NatsInv, Appending
    <3> QED BY <3>1, Kept, NoCallNothing DEF Sound
  <2> QED BY <2>1 DEF NatsInv, AppendTellsTruth, AckedIsObserved
<1> QED BY <1>1, InitInv, NextInv, PTL DEF NatsSpec
=============================================================================
