------------------------ MODULE RetrySchedulerProofs ------------------------
(***************************************************************************)
(* Proofs about RetryScheduler, for any consumers, keys, partitions and    *)
(* retry limit.                                                            *)
(***************************************************************************)
EXTENDS RetryScheduler, SequenceTheorems, WellFoundedInduction, TLAPS

-----------------------------------------------------------------------------
(* Queues.                                                                 *)

\* A non-empty set of naturals has a least element (the scan of
\* recomputeFloorLocked finds one).
LEMMA MinExists ==
    ASSUME NEW H, H \subseteq Nat, H # {}
    PROVE  \E m \in H : \A h \in H : m <= h
<1> DEFINE R == {ss \in Nat \X Nat : ss[1] < ss[2]}
<1>1. IsWellFoundedOn(R, Nat)
  BY NatLessThanWellFounded DEF OpToRel
<1> HIDE DEF R
<1>2. PICK x \in H : \A y \in H : ~ (<<y, x>> \in R)
  BY <1>1, WFMin
<1>3. ASSUME NEW y \in H PROVE x <= y
  <2>1. x \in Nat /\ y \in Nat
    OBVIOUS
  <2>2. y < x => <<y, x>> \in R
    BY <2>1 DEF R
  <2> QED BY <1>2, <2>1, <2>2
<1> QED BY <1>3

\* Replacing the head record keeps a queue well formed and as long as it was.
LEMMA WithHeadFacts ==
    ASSUME NEW q \in Seq(RetryRecord), q # <<>>, NEW r \in RetryRecord
    PROVE  /\ WithHead(q, r) \in Seq(RetryRecord)
           /\ WithHead(q, r) # <<>>
           /\ Len(WithHead(q, r)) = Len(q)
           /\ Head(WithHead(q, r)) = r
           /\ \A i \in 2..Len(q) : WithHead(q, r)[i] = q[i]
<1>1. Len(q) \in Nat /\ Len(q) >= 1 /\ 1 \in 1..Len(q)
  BY EmptySeq, LenProperties
<1>2. /\ WithHead(q, r) \in Seq(RetryRecord)
      /\ Len(WithHead(q, r)) = Len(q)
      /\ \A j \in 1..Len(q) : WithHead(q, r)[j] = IF j = 1 THEN r ELSE q[j]
  BY <1>1, ExceptSeq DEF WithHead
<1> QED BY <1>1, <1>2

\* popHeadLocked removes exactly the head.
LEMMA PopHeadFacts ==
    ASSUME NEW q \in Seq(RetryRecord), q # <<>>
    PROVE  /\ PopHead(q) \in Seq(RetryRecord)
           /\ Len(PopHead(q)) = Len(q) - 1
           /\ \A i \in 1..(Len(q) - 1) : PopHead(q)[i].seq = q[i + 1].seq
<1>1. Len(q) \in Nat /\ Len(q) >= 1
  BY EmptySeq, LenProperties
<1>2. CASE Len(q) = 1
  BY <1>2 DEF PopHead
<1>3. CASE Len(q) # 1
  <2> DEFINE t == Tail(q)
             r == Due(Head(t))
  <2>1. /\ t \in Seq(RetryRecord) /\ Len(t) = Len(q) - 1
        /\ \A i \in 1..Len(t) : t[i] = q[i + 1]
    BY HeadTailProperties
  <2>2. t # <<>>
    BY <2>1, <1>1, <1>3, EmptySeq
  <2>3. Head(t) = t[1] /\ Head(t) \in RetryRecord
    BY <2>1, <2>2, HeadTailProperties
  <2>4. r \in RetryRecord /\ r.seq = t[1].seq
    BY <2>3 DEF RetryRecord, Due
  <2>5. PopHead(q) = WithHead(t, r)
    BY <1>3 DEF PopHead
  <2> HIDE DEF t, r
  <2>6. /\ WithHead(t, r) \in Seq(RetryRecord) /\ Len(WithHead(t, r)) = Len(t)
        /\ Head(WithHead(t, r)) = r
        /\ \A i \in 2..Len(t) : WithHead(t, r)[i] = t[i]
    BY <2>1, <2>2, <2>4, WithHeadFacts
  <2>7. WithHead(t, r)[1] = r
    BY <2>6
  <2> QED BY <1>1, <1>3, <2>1, <2>4, <2>5, <2>6, <2>7
<1> QED BY <1>2, <1>3

\* Replacing one queue leaves every other group alone.
LEMMA WithQueueFacts ==
    ASSUME blocked \in QueueMap,
           NEW id \in ConsumerID, NEW k \in Key, NEW q \in Seq(RetryRecord)
    PROVE  /\ WithQueue(id, k, q) \in QueueMap
           /\ WithQueue(id, k, q)[id][k] = q
           /\ \A i \in ConsumerID, j \in Key :
                 i # id \/ j # k => WithQueue(id, k, q)[i][j] = blocked[i][j]
BY DEF WithQueue, QueueMap

-----------------------------------------------------------------------------
(* The floor.                                                              *)

\* f is the floor that the queues q give partition p of consumer id.
IsFloor(q, id, p, f) ==
    LET H == Heads(q, id, p) IN
    IF H = {} THEN f = 0 ELSE f \in H /\ \A h \in H : f <= h

\* The heads of well-formed queues are seqs.
LEMMA HeadsType ==
    ASSUME NEW q \in QueueMap, NEW id \in ConsumerID, NEW p \in Partition
    PROVE  Heads(q, id, p) \subseteq SeqNo
<1> SUFFICES ASSUME NEW k \in Key, q[id][k] # <<>>
             PROVE  Head(q[id][k]).seq \in SeqNo
  BY DEF Heads
<1>1. q[id][k] \in Seq(RetryRecord)
  BY DEF QueueMap
<1>2. Head(q[id][k]) \in RetryRecord
  BY <1>1, HeadTailProperties
<1> QED BY <1>2 DEF RetryRecord

\* recomputeFloorLocked computes the floor.
LEMMA RecomputedIsFloor ==
    ASSUME NEW q \in QueueMap, NEW id \in ConsumerID, NEW p \in Partition
    PROVE  /\ IsFloor(q, id, p, RecomputedFloor(q, id, p))
           /\ RecomputedFloor(q, id, p) \in Nat
<1> DEFINE H == Heads(q, id, p)
<1>1. H \subseteq Nat
  BY HeadsType DEF SeqNo
<1>2. CASE H = {}
  BY <1>2 DEF RecomputedFloor, IsFloor
<1>3. CASE H # {}
  <2>1. \E m \in H : \A h \in H : m <= h
    BY <1>1, <1>3, MinExists
  <2>2. /\ RecomputedFloor(q, id, p) \in H
        /\ \A h \in H : RecomputedFloor(q, id, p) <= h
    BY <2>1, <1>3 DEF RecomputedFloor
  <2> QED BY <2>2, <1>1, <1>3 DEF IsFloor
<1> QED BY <1>2, <1>3

\* Heads only depends on which groups of the partition are blocked and on the
\* seqs of their heads.
LEMMA SameHeads ==
    ASSUME NEW q, NEW r, NEW id, NEW p,
           \A k \in Key : PartOf[k] = p =>
               /\ q[id][k] = <<>> <=> r[id][k] = <<>>
               /\ q[id][k] # <<>> => Head(q[id][k]).seq = Head(r[id][k]).seq
    PROVE  Heads(q, id, p) = Heads(r, id, p)
BY DEF Heads

\* FloorIsLowestHead, said with IsFloor.
LEMMA FloorIffIsFloor ==
    FloorIsLowestHead <=>
        \A id \in ConsumerID, p \in Partition : IsFloor(blocked, id, p, floors[id][p])
BY DEF FloorIsLowestHead, IsFloor

\* A step that keeps the head's seq (an append behind it, a new attempt count,
\* a new retry time) keeps every floor.
LEMMA FloorKept ==
    ASSUME TypeOK, FloorIsLowestHead,
           NEW id \in ConsumerID, NEW k \in Key, NEW q \in Seq(RetryRecord),
           q # <<>>, blocked[id][k] # <<>>, Head(q).seq = Head(blocked[id][k]).seq
    PROVE  \A i \in ConsumerID, p \in Partition :
               IsFloor(WithQueue(id, k, q), i, p, floors[i][p])
<1> DEFINE m == WithQueue(id, k, q)
<1>1. /\ m[id][k] = q
      /\ \A i \in ConsumerID, j \in Key : i # id \/ j # k => m[i][j] = blocked[i][j]
  BY WithQueueFacts DEF TypeOK
<1> HIDE DEF m
<1> SUFFICES ASSUME NEW i \in ConsumerID, NEW p \in Partition
             PROVE  IsFloor(m, i, p, floors[i][p])
  BY DEF m
<1>2. \A j \in Key : /\ m[i][j] = <<>> <=> blocked[i][j] = <<>>
                     /\ m[i][j] # <<>> => Head(m[i][j]).seq = Head(blocked[i][j]).seq
  BY <1>1
<1>3. Heads(m, i, p) = Heads(blocked, i, p)
  BY <1>2, SameHeads
<1> QED BY <1>3, FloorIffIsFloor DEF IsFloor

\* AddBlocked on a group that was not blocked: the new head can only lower the
\* floor of its own partition.
LEMMA FloorLowered ==
    ASSUME TypeOK, FloorIsLowestHead,
           NEW id \in ConsumerID, NEW k \in Key, NEW r \in RetryRecord,
           blocked[id][k] = <<>>
    PROVE  \A i \in ConsumerID, p \in Partition :
               IsFloor(WithQueue(id, k, <<r>>), i, p, LowerFloor(id, PartOf[k], r.seq)[i][p])
<1> DEFINE m == WithQueue(id, k, <<r>>)
           f == LowerFloor(id, PartOf[k], r.seq)
<1>1. /\ m[id][k] = <<r>>
      /\ \A i \in ConsumerID, j \in Key : i # id \/ j # k => m[i][j] = blocked[i][j]
  <2> DEFINE q == <<r>>
  <2>1. q \in Seq(RetryRecord) /\ blocked \in QueueMap
    BY DEF TypeOK
  <2> HIDE DEF q
  <2>2. /\ WithQueue(id, k, q)[id][k] = q
        /\ \A i \in ConsumerID, j \in Key :
              i # id \/ j # k => WithQueue(id, k, q)[i][j] = blocked[i][j]
    BY <2>1, WithQueueFacts
  <2> QED BY <2>2 DEF q
<1>2. PartOf[k] \in Partition
  BY SchedulerAssumption
<1>3. /\ f[id][PartOf[k]] = IF floors[id][PartOf[k]] = 0 \/ r.seq < floors[id][PartOf[k]]
                            THEN r.seq ELSE floors[id][PartOf[k]]
      /\ \A i \in ConsumerID, p \in Partition :
            i # id \/ p # PartOf[k] => f[i][p] = floors[i][p]
  BY <1>2 DEF LowerFloor, TypeOK
<1> HIDE DEF m, f
<1> SUFFICES ASSUME NEW i \in ConsumerID, NEW p \in Partition
             PROVE  IsFloor(m, i, p, f[i][p])
  BY DEF m, f
<1>4. IsFloor(blocked, i, p, floors[i][p])
  BY FloorIffIsFloor
<1>5. CASE i # id \/ p # PartOf[k]
  <2>1. \A j \in Key : PartOf[j] = p => m[i][j] = blocked[i][j]
    BY <1>1, <1>5
  <2>2. Heads(m, i, p) = Heads(blocked, i, p)
    BY <2>1, SameHeads
  <2> QED BY <1>3, <1>4, <1>5, <2>2 DEF IsFloor
<1>6. CASE i = id /\ p = PartOf[k]
  <2>1. Heads(m, i, p) = Heads(blocked, i, p) \cup {r.seq}
    <3>1. <<r>> # <<>> /\ Head(<<r>>) = r
      OBVIOUS
    <3> QED BY <1>1, <1>6, <3>1 DEF Heads
  <2>2. Heads(blocked, i, p) \subseteq Nat /\ 0 \notin Heads(blocked, i, p)
    BY HeadsType DEF TypeOK, SeqNo
  <2>3. r.seq \in Nat /\ floors[i][p] \in Nat
    BY DEF RetryRecord, SeqNo, TypeOK
  <2>4. CASE Heads(blocked, i, p) = {}
    <3>1. floors[i][p] = 0
      BY <1>4, <2>4 DEF IsFloor
    <3>2. f[i][p] = r.seq
      BY <1>3, <1>6, <3>1
    <3>3. Heads(m, i, p) = {r.seq}
      BY <2>1, <2>4
    <3>4. r.seq <= r.seq
      BY <2>3
    <3> QED BY <3>2, <3>3, <3>4 DEF IsFloor
  <2>5. CASE Heads(blocked, i, p) # {}
    <3>1. /\ floors[i][p] \in Heads(blocked, i, p)
          /\ \A h \in Heads(blocked, i, p) : floors[i][p] <= h
      BY <1>4, <2>5 DEF IsFloor
    <3>2. floors[i][p] # 0
      BY <2>2, <3>1
    <3>3. /\ f[i][p] \in Heads(m, i, p)
          /\ f[i][p] <= r.seq /\ f[i][p] <= floors[i][p] /\ f[i][p] \in Nat
      BY <1>3, <1>6, <2>1, <2>3, <3>1, <3>2
    <3>4. \A h \in Heads(m, i, p) : f[i][p] <= h
      BY <2>1, <2>2, <2>3, <3>1, <3>3
    <3> QED BY <3>3, <3>4 DEF IsFloor
  <2> QED BY <2>4, <2>5
<1> QED BY <1>5, <1>6

\* A pop followed by recomputeFloorLocked: the group's own partition is
\* rescanned, and no other floor depends on the group.
LEMMA FloorRecomputed ==
    ASSUME TypeOK, FloorIsLowestHead,
           NEW id \in ConsumerID, NEW k \in Key, NEW q \in Seq(RetryRecord)
    PROVE  LET m == WithQueue(id, k, q)
               f == [floors EXCEPT ![id][PartOf[k]] = RecomputedFloor(m, id, PartOf[k])]
           IN  \A i \in ConsumerID, p \in Partition : IsFloor(m, i, p, f[i][p])
<1> DEFINE m == WithQueue(id, k, q)
           g == RecomputedFloor(m, id, PartOf[k])
           f == [floors EXCEPT ![id][PartOf[k]] = g]
<1>1. /\ m \in QueueMap
      /\ \A i \in ConsumerID, j \in Key : i # id \/ j # k => m[i][j] = blocked[i][j]
  BY WithQueueFacts DEF TypeOK
<1>2. PartOf[k] \in Partition
  BY SchedulerAssumption
<1> HIDE DEF m
<1>3. IsFloor(m, id, PartOf[k], g)
  BY <1>1, <1>2, RecomputedIsFloor
<1> HIDE DEF g
<1>4. /\ f[id][PartOf[k]] = g
      /\ \A i \in ConsumerID, p \in Partition :
            i # id \/ p # PartOf[k] => f[i][p] = floors[i][p]
  BY <1>2 DEF TypeOK
<1> HIDE DEF f
<1> SUFFICES ASSUME NEW i \in ConsumerID, NEW p \in Partition
             PROVE  IsFloor(m, i, p, f[i][p])
  BY DEF m, f, g
<1>5. CASE i # id \/ p # PartOf[k]
  <2>1. \A j \in Key : PartOf[j] = p => m[i][j] = blocked[i][j]
    BY <1>1, <1>5
  <2>2. Heads(m, i, p) = Heads(blocked, i, p)
    BY <2>1, SameHeads
  <2> QED BY <1>4, <1>5, <2>2, FloorIffIsFloor DEF IsFloor
<1>6. CASE i = id /\ p = PartOf[k]
  BY <1>3, <1>4, <1>6
<1> QED BY <1>5, <1>6

-----------------------------------------------------------------------------
(* The inductive invariant.  HeadInFlight and BlockedHasTarget are what a  *)
(* step needs: popHeadLocked is only called on a queue with a head, and    *)
(* Deliver only on a consumer that exists.                                 *)

Inv ==
    /\ TypeOK
    /\ FloorIsLowestHead
    /\ HeadInFlight
    /\ BlockedHasTarget

\* What a step must establish of the queues and the floors.
QueuesOK ==
    /\ blocked \in QueueMap
    /\ floors \in [ConsumerID -> [Partition -> Nat]]
    /\ FloorIsLowestHead
    /\ BlockedHasTarget

\* A new process has no queues and no floors.
LEMMA InitInv == Init => Inv
<1> SUFFICES ASSUME Init PROVE Inv
  OBVIOUS
<1>1. TypeOK
  BY DEF Init, TypeOK, QueueMap, Release
<1>2. \A id \in ConsumerID, p \in Partition : Heads(blocked, id, p) = {}
  BY DEF Init, Heads
<1>3. FloorIsLowestHead
  BY <1>2 DEF Init, FloorIsLowestHead
<1>4. HeadInFlight /\ BlockedHasTarget
  BY DEF Init, HeadInFlight, BlockedHasTarget
<1> QED BY <1>1, <1>3, <1>4 DEF Inv

\* Writing back a changed head record (attempts, retry time) keeps the queues
\* in order, and every group as blocked as it was.
LEMMA HeadRewritten ==
    ASSUME Inv, NEW id \in ConsumerID, NEW k \in Key, NEW r \in RetryRecord,
           blocked[id][k] # <<>>, r.seq = Head(blocked[id][k]).seq,
           blocked' = WithQueue(id, k, WithHead(blocked[id][k], r)),
           UNCHANGED <<target, floors>>
    PROVE  /\ QueuesOK'
           /\ \A i \in ConsumerID, j \in Key : blocked'[i][j] = <<>> <=> blocked[i][j] = <<>>
<1> DEFINE q == WithHead(blocked[id][k], r)
<1>1. blocked \in QueueMap /\ blocked[id][k] \in Seq(RetryRecord)
  BY DEF Inv, TypeOK, QueueMap
<1>2. q \in Seq(RetryRecord) /\ q # <<>> /\ Head(q) = r
  BY <1>1, WithHeadFacts
<1> HIDE DEF q
<1>3. blocked' = WithQueue(id, k, q)
  BY DEF q
<1>4. /\ blocked' \in QueueMap
      /\ blocked'[id][k] = q
      /\ \A i \in ConsumerID, j \in Key : i # id \/ j # k => blocked'[i][j] = blocked[i][j]
  BY <1>1, <1>2, <1>3, WithQueueFacts
<1>5. \A i \in ConsumerID, j \in Key : blocked'[i][j] = <<>> <=> blocked[i][j] = <<>>
  BY <1>2, <1>4
<1>6. FloorIsLowestHead'
  <2>1. \A i \in ConsumerID, p \in Partition : IsFloor(blocked', i, p, floors[i][p])
    BY <1>2, <1>3, FloorKept DEF Inv
  <2> QED BY <2>1 DEF IsFloor, FloorIsLowestHead
<1>7. BlockedHasTarget'
  BY <1>5 DEF Inv, BlockedHasTarget
<1> QED BY <1>4, <1>5, <1>6, <1>7 DEF QueuesOK, Inv, TypeOK

\* Popping the current head, with the rescan of its partition's floor.
LEMMA HeadPopped ==
    ASSUME Inv, tpc \in {"deliver", "deadletter"}, PopAndRelease, UNCHANGED target
    PROVE  /\ QueuesOK'
           /\ rel' \in Release
           /\ tpc' = "notify"
<1> DEFINE id == cur[1]
           k  == cur[2]
           q  == PopHead(CurQueue)
           m  == WithQueue(id, k, q)
           p0 == PartOf[k]
<1>1. id \in ConsumerID /\ k \in Key /\ blocked \in QueueMap
  BY DEF Inv, TypeOK, Group
<1>2. CurQueue \in Seq(RetryRecord) /\ CurQueue # <<>>
  BY <1>1 DEF Inv, HeadInFlight, CurQueue, QueueMap
<1>3. q \in Seq(RetryRecord)
  BY <1>2, PopHeadFacts
<1>4. p0 \in Partition
  BY <1>1, SchedulerAssumption
<1>5. /\ blocked' = m
      /\ floors' = [floors EXCEPT ![id][p0] = RecomputedFloor(m, id, p0)]
      /\ rel' = [id |-> id, part |-> p0, floor |-> RecomputedFloor(m, id, p0)]
      /\ tpc' = "notify"
  BY DEF PopAndRelease
<1> HIDE DEF id, k, q
<1>6. /\ m \in QueueMap
      /\ m[id][k] = q
      /\ \A i \in ConsumerID, j \in Key : i # id \/ j # k => m[i][j] = blocked[i][j]
  BY <1>1, <1>3, WithQueueFacts
<1>7. RecomputedFloor(m, id, p0) \in Nat
  BY <1>1, <1>4, <1>6, RecomputedIsFloor
<1>8. FloorIsLowestHead'
  <2>1. \A i \in ConsumerID, p \in Partition : IsFloor(blocked', i, p, floors'[i][p])
    BY <1>1, <1>3, <1>5, FloorRecomputed DEF Inv
  <2> QED BY <2>1 DEF IsFloor, FloorIsLowestHead
<1>9. BlockedHasTarget'
  <2>1. target[id] \in Conn
    BY <1>1, <1>2 DEF Inv, BlockedHasTarget, CurQueue, id, k
  <2> QED BY <1>5, <1>6, <2>1 DEF Inv, BlockedHasTarget
<1>10. floors' \in [ConsumerID -> [Partition -> Nat]]
  BY <1>1, <1>4, <1>5, <1>7 DEF Inv, TypeOK
<1>11. rel' \in Release
  BY <1>1, <1>4, <1>5, <1>7 DEF Release
<1> QED BY <1>5, <1>6, <1>8, <1>9, <1>10, <1>11 DEF QueuesOK

\* AddBlocked, on a new group or behind the head of a blocked one.
LEMMA RecordAdded ==
    ASSUME Inv, NEW c \in Conn, NEW k \in Key, NEW r \in RetryRecord,
           AddBlocked(c, k, r)
    PROVE  /\ QueuesOK'
           /\ target' \in [ConsumerID -> Conn \cup {NoConn}]
           /\ \A i \in ConsumerID, j \in Key : blocked[i][j] # <<>> => blocked'[i][j] # <<>>
<1> DEFINE id == IdOf[c]
           q  == Append(blocked[id][k], r)
<1>1. id \in ConsumerID /\ blocked \in QueueMap /\ blocked[id][k] \in Seq(RetryRecord)
  BY SchedulerAssumption DEF Inv, TypeOK, QueueMap
<1>2. q \in Seq(RetryRecord) /\ q # <<>>
  BY <1>1, AppendProperties, EmptySeq
<1>3. /\ blocked' = WithQueue(id, k, q)
      /\ floors' = IF blocked[id][k] = <<>> THEN LowerFloor(id, PartOf[k], r.seq) ELSE floors
      /\ target' = [target EXCEPT ![id] = IF @ = NoConn THEN c ELSE @]
  BY DEF AddBlocked
<1>4. blocked[id][k] = <<>> => q = <<r>>
  OBVIOUS
<1>5. blocked[id][k] # <<>> => Head(q) = Head(blocked[id][k])
  BY <1>1
<1> HIDE DEF id, q
<1>6. /\ blocked' \in QueueMap
      /\ blocked'[id][k] = q
      /\ \A i \in ConsumerID, j \in Key : i # id \/ j # k => blocked'[i][j] = blocked[i][j]
  BY <1>1, <1>2, <1>3, WithQueueFacts
<1>7. /\ target' \in [ConsumerID -> Conn \cup {NoConn}]
      /\ target'[id] \in Conn
      /\ \A i \in ConsumerID : target[i] \in Conn => target'[i] \in Conn
  BY <1>1, <1>3, SchedulerAssumption DEF Inv, TypeOK
<1>8. BlockedHasTarget'
  BY <1>6, <1>7 DEF Inv, BlockedHasTarget
<1>9. floors' \in [ConsumerID -> [Partition -> Nat]]
  BY <1>1, <1>3, SchedulerAssumption DEF Inv, TypeOK, LowerFloor, RetryRecord, SeqNo
<1>10. \A i \in ConsumerID, p \in Partition : IsFloor(blocked', i, p, floors'[i][p])
  <2>1. CASE blocked[id][k] = <<>>
    BY <1>1, <1>3, <1>4, <2>1, FloorLowered DEF Inv
  <2>2. CASE blocked[id][k] # <<>>
    BY <1>1, <1>2, <1>3, <1>5, <2>2, FloorKept DEF Inv
  <2> QED BY <2>1, <2>2
<1>11. FloorIsLowestHead'
  BY <1>10 DEF IsFloor, FloorIsLowestHead
<1>12. \A i \in ConsumerID, j \in Key : blocked[i][j] # <<>> => blocked'[i][j] # <<>>
  BY <1>2, <1>6
<1> QED BY <1>6, <1>7, <1>8, <1>9, <1>11, <1>12 DEF QueuesOK

\* The head of the current group, while it is being delivered or dead-lettered.
LEMMA CurrentHead ==
    ASSUME Inv, tpc \in {"deliver", "deadletter"}
    PROVE  /\ cur[1] \in ConsumerID /\ cur[2] \in Key
           /\ blocked[cur[1]][cur[2]] # <<>>
           /\ Head(CurQueue) \in RetryRecord
           /\ CurEvent \in ConsumerID \X Key \X SeqNo
           /\ target[cur[1]] \in Conn
<1>1. cur[1] \in ConsumerID /\ cur[2] \in Key
  BY DEF Inv, TypeOK, Group
<1>2. CurQueue \in Seq(RetryRecord) /\ CurQueue # <<>>
  BY <1>1 DEF Inv, TypeOK, HeadInFlight, CurQueue, QueueMap
<1>3. Head(CurQueue) \in RetryRecord
  BY <1>2, HeadTailProperties
<1>4. Head(CurQueue).seq \in SeqNo
  BY <1>3 DEF RetryRecord
<1>5. target[cur[1]] \in Conn
  BY <1>1, <1>2 DEF Inv, BlockedHasTarget, CurQueue
<1>6. blocked[cur[1]][cur[2]] # <<>>
  BY <1>2 DEF CurQueue
<1> QED BY <1>1, <1>3, <1>4, <1>5, <1>6 DEF CurEvent

\* The three rewrites of a head record keep its seq.
LEMMA RewrittenHeads ==
    ASSUME NEW r \in RetryRecord
    PROVE  /\ Retried(r) \in RetryRecord /\ Retried(r).seq = r.seq
           /\ Deferred(r) \in RetryRecord /\ Deferred(r).seq = r.seq
           /\ Due(r) \in RetryRecord /\ Due(r).seq = r.seq
<1> DEFINE n == r.attempts + 1
<1>1. n \in Nat /\ (IF n > MaxRetries THEN MaxRetries ELSE n) \in 0..MaxRetries
  BY SchedulerAssumption DEF RetryRecord
<1>2. (n < MaxRetries) \in BOOLEAN
  OBVIOUS
<1>3. Retried(r) = [r EXCEPT !.attempts = IF n > MaxRetries THEN MaxRetries ELSE n,
                             !.wait = n < MaxRetries]
  BY DEF Retried
<1> HIDE DEF n
<1>4. Retried(r) \in RetryRecord /\ Retried(r).seq = r.seq
  BY <1>1, <1>2, <1>3 DEF RetryRecord
<1>5. /\ Deferred(r) \in RetryRecord /\ Deferred(r).seq = r.seq
      /\ Due(r) \in RetryRecord /\ Due(r).seq = r.seq
  BY DEF Deferred, Due, RetryRecord
<1> QED BY <1>4, <1>5

\* Inv is inductive.
LEMMA NextInv == Inv /\ [Next]_vars => Inv'
<1> SUFFICES ASSUME Inv, [Next]_vars PROVE Inv'
  OBVIOUS
<1>1. CASE UNCHANGED vars
  BY <1>1 DEF Inv, vars, stateVars, tickVars, resultVars, TypeOK, FloorIsLowestHead,
     HeadInFlight, BlockedHasTarget, CurQueue
<1>2. CASE Tick \/ DrainNext \/ DrainPeek \/ DeliverPermanent \/ Notify
  <2>1. UNCHANGED stateVars /\ UNCHANGED resultVars
    BY <1>2 DEF Tick, DrainNext, DrainPeek, DeliverPermanent, Notify
  <2>2. FloorIsLowestHead' /\ BlockedHasTarget'
    BY <2>1 DEF Inv, stateVars, FloorIsLowestHead, BlockedHasTarget
  <2>3. /\ due' \subseteq Group /\ cur' \in Group /\ rel' \in Release
        /\ tpc' \in {"idle", "next", "peek", "deliver", "deadletter", "notify"}
    <3>1. due' \subseteq Group /\ cur' \in Group
      BY <1>2 DEF Inv, TypeOK, Tick, DrainNext, DrainPeek, DeliverPermanent, Notify
    <3>2. tpc' \in {"idle", "next", "peek", "deliver", "deadletter", "notify"}
      BY <1>2 DEF Tick, DrainNext, DrainPeek, DeliverPermanent, Notify
    <3>3. rel' = rel \/ rel' = [rel EXCEPT !.floor = 0]
      BY <1>2 DEF Tick, DrainNext, DrainPeek, DeliverPermanent, Notify
    <3>4. rel' \in Release
      BY <3>3 DEF Inv, TypeOK, Release
    <3> QED BY <3>1, <3>2, <3>4
  <2>4. HeadInFlight'
    BY <1>2, <2>1 DEF Inv, HeadInFlight, CurQueue, stateVars,
       Tick, DrainNext, DrainPeek, DeliverPermanent, Notify
  <2> QED BY <2>1, <2>2, <2>3, <2>4 DEF Inv, TypeOK, stateVars, resultVars
<1>3. CASE DeliverOK
  <2>1. /\ QueuesOK' /\ rel' \in Release /\ tpc' = "notify"
    BY <1>3, HeadPopped DEF DeliverOK
  <2>2. acked' \subseteq Conn \X Key \X SeqNo
    BY <1>3, CurrentHead DEF DeliverOK, Inv, TypeOK, RetryRecord
  <2> QED BY <1>3, <2>1, <2>2 DEF DeliverOK, Inv, TypeOK, QueuesOK, HeadInFlight
<1>4. CASE DeadLetterDrop \/ DeadLetterWrite
  <2>1. /\ QueuesOK' /\ rel' \in Release /\ tpc' = "notify"
    BY <1>4, HeadPopped DEF DeadLetterDrop, DeadLetterWrite
  <2>2. /\ dlq' \subseteq ConsumerID \X Key \X SeqNo
        /\ dropped' \subseteq ConsumerID \X Key \X SeqNo
    BY <1>4, CurrentHead DEF DeadLetterDrop, DeadLetterWrite, Inv, TypeOK
  <2> QED BY <1>4, <2>1, <2>2 DEF DeadLetterDrop, DeadLetterWrite, Inv, TypeOK, QueuesOK,
          HeadInFlight
<1>5. CASE DeliverTransient
  <2>1. Head(CurQueue) \in RetryRecord
    BY <1>5, CurrentHead DEF DeliverTransient
  <2>2. /\ blocked' = WithQueue(cur[1], cur[2], WithHead(CurQueue, Retried(Head(CurQueue))))
        /\ tpc' \in {"deadletter", "next"}
        /\ UNCHANGED <<target, floors, due, cur, rel, resultVars>>
    BY <1>5 DEF DeliverTransient
  <2>3. /\ QueuesOK'
        /\ blocked'[cur[1]][cur[2]] # <<>>
    BY <1>5, <2>1, <2>2, RewrittenHeads, CurrentHead, HeadRewritten DEF DeliverTransient, CurQueue
  <2> QED BY <2>2, <2>3 DEF Inv, TypeOK, QueuesOK, HeadInFlight, CurQueue, resultVars
<1>6. CASE DeadLetterWriteFails
  <2>1. Head(CurQueue) \in RetryRecord
    BY <1>6, CurrentHead DEF DeadLetterWriteFails
  <2>2. /\ blocked' = WithQueue(cur[1], cur[2], WithHead(CurQueue, Deferred(Head(CurQueue))))
        /\ tpc' = "peek"
        /\ UNCHANGED <<target, floors, due, cur, rel, resultVars>>
    BY <1>6 DEF DeadLetterWriteFails
  <2>3. QueuesOK'
    BY <1>6, <2>1, <2>2, RewrittenHeads, CurrentHead, HeadRewritten
    DEF DeadLetterWriteFails, CurQueue
  <2> QED BY <2>2, <2>3 DEF Inv, TypeOK, QueuesOK, HeadInFlight, resultVars
<1>7. CASE Elapse
  <2>1. PICK id \in ConsumerID, k \in Key : BackoffElapses(id, k)
    BY <1>7 DEF Elapse
  <2>2. Head(blocked[id][k]) \in RetryRecord
    <3>1. blocked[id][k] \in Seq(RetryRecord) /\ blocked[id][k] # <<>>
      BY <2>1 DEF Inv, TypeOK, QueueMap, BackoffElapses
    <3> QED BY <3>1, HeadTailProperties
  <2>3. /\ blocked[id][k] # <<>>
        /\ blocked' = WithQueue(id, k, WithHead(blocked[id][k], Due(Head(blocked[id][k]))))
        /\ UNCHANGED <<target, floors, tickVars, resultVars>>
    BY <2>1 DEF BackoffElapses
  <2>4. /\ QueuesOK'
        /\ \A i \in ConsumerID, j \in Key : blocked'[i][j] = <<>> <=> blocked[i][j] = <<>>
    BY <2>2, <2>3, RewrittenHeads, HeadRewritten
  <2>5. cur[1] \in ConsumerID /\ cur[2] \in Key
    BY DEF Inv, TypeOK, Group
  <2> QED BY <2>3, <2>4, <2>5 DEF Inv, TypeOK, QueuesOK, HeadInFlight, CurQueue, tickVars,
          resultVars
<1>8. CASE \E c \in Conn, k \in Key, s \in SeqNo : Enqueue(c, k, s)
  <2>1. PICK c \in Conn, k \in Key, s \in SeqNo : Enqueue(c, k, s)
    BY <1>8
  <2>2. FailedRecord(s) \in RetryRecord /\ FollowOnRecord(s) \in RetryRecord
    BY SchedulerAssumption DEF FailedRecord, FollowOnRecord, RetryRecord
  <2>3. PICK r \in RetryRecord : AddBlocked(c, k, r)
    BY <2>1, <2>2 DEF Enqueue
  <2>4. /\ QueuesOK'
        /\ target' \in [ConsumerID -> Conn \cup {NoConn}]
        /\ \A i \in ConsumerID, j \in Key : blocked[i][j] # <<>> => blocked'[i][j] # <<>>
    BY <2>3, RecordAdded
  <2>5. cur[1] \in ConsumerID /\ cur[2] \in Key
    BY DEF Inv, TypeOK, Group
  <2> QED BY <2>1, <2>4, <2>5 DEF Enqueue, Inv, TypeOK, QueuesOK, HeadInFlight, CurQueue,
          tickVars, resultVars
<1> QED BY <1>1, <1>2, <1>3, <1>4, <1>5, <1>6, <1>7, <1>8 DEF Next, TickStep

-----------------------------------------------------------------------------
(* The theorems.                                                           *)

\* The inductive invariant holds in every reachable state.
THEOREM InvHolds == Spec => []Inv
BY InitInv, NextInv, PTL DEF Spec

\* The queues, floors and the retry goroutine's locals keep their types.
THEOREM TypeCorrect == Spec => []TypeOK
BY InvHolds, PTL DEF Inv

\* RTR-06, for any number of consumers, keys and partitions: the floor that
\* AddBlocked lowers and a pop recomputes is always the lowest queued head.
THEOREM FloorCorrect == Spec => []FloorIsLowestHead
BY InvHolds, PTL DEF Inv

\* drainGroup never pops or dead-letters from an empty queue, although the
\* lock was released while the head was in flight.
THEOREM HeadStaysInFlight == Spec => []HeadInFlight
BY InvHolds, PTL DEF Inv

-----------------------------------------------------------------------------
(* What a step does to one queue.                                          *)

\* r holds q's records, in q's order, perhaps with more behind them.
Extends(r, q) == Len(r) >= Len(q) /\ \A x \in 1..Len(q) : r[x].seq = q[x].seq

\* A queue that did not change extends itself.
LEMMA ExtendsItself ==
    ASSUME NEW q \in Seq(RetryRecord) PROVE Extends(q, q)
<1>1. Len(q) \in Nat
  BY LenProperties
<1> QED BY <1>1 DEF Extends

\* Replacing one queue by an extension of it extends every queue.
LEMMA OneQueueExtended ==
    ASSUME Inv, NEW id \in ConsumerID, NEW k \in Key, NEW q \in Seq(RetryRecord),
           Extends(q, blocked[id][k]), blocked' = WithQueue(id, k, q)
    PROVE  \A i \in ConsumerID, j \in Key : Extends(blocked'[i][j], blocked[i][j])
<1> SUFFICES ASSUME NEW i \in ConsumerID, NEW j \in Key
             PROVE  Extends(blocked'[i][j], blocked[i][j])
  OBVIOUS
<1>1. blocked \in QueueMap /\ blocked[i][j] \in Seq(RetryRecord)
  BY DEF Inv, TypeOK, QueueMap
<1>2. /\ blocked'[id][k] = q
      /\ i # id \/ j # k => blocked'[i][j] = blocked[i][j]
  BY <1>1, WithQueueFacts
<1> QED BY <1>1, <1>2, ExtendsItself

\* Rewriting the head with the same seq extends the queue.
LEMMA HeadRewriteExtends ==
    ASSUME NEW q \in Seq(RetryRecord), q # <<>>, NEW r \in RetryRecord, r.seq = Head(q).seq
    PROVE  WithHead(q, r) \in Seq(RetryRecord) /\ Extends(WithHead(q, r), q)
<1>1. /\ WithHead(q, r) \in Seq(RetryRecord)
      /\ Len(WithHead(q, r)) = Len(q)
      /\ Head(WithHead(q, r)) = r
      /\ \A i \in 2..Len(q) : WithHead(q, r)[i] = q[i]
  BY WithHeadFacts
<1>2. Len(q) \in Nat /\ WithHead(q, r)[1] = r /\ q[1] = Head(q)
  BY <1>1, LenProperties
<1>3. \A x \in 1..Len(q) : WithHead(q, r)[x].seq = q[x].seq
  BY <1>1, <1>2
<1> QED BY <1>1, <1>2, <1>3 DEF Extends

\* The retry goroutine popped the current head, with its event settled.
PopsSettled ==
    /\ cur[1] \in ConsumerID /\ cur[2] \in Key
    /\ CurQueue # <<>>
    /\ blocked' = WithQueue(cur[1], cur[2], PopHead(CurQueue))
    /\ HeadSettled(cur[1], cur[2])

\* Every step either extends every queue or pops one settled head.
LEMMA QueueSteps ==
    ASSUME Inv, [Next]_vars
    PROVE  \/ \A i \in ConsumerID, j \in Key : Extends(blocked'[i][j], blocked[i][j])
           \/ PopsSettled
<1>1. \A i \in ConsumerID, j \in Key : blocked[i][j] \in Seq(RetryRecord)
  BY DEF Inv, TypeOK, QueueMap
<1>2. CASE UNCHANGED blocked
  BY <1>1, <1>2, ExtendsItself
<1>3. CASE DeliverOK \/ DeadLetterDrop \/ DeadLetterWrite
  <2>1. tpc \in {"deliver", "deadletter"} /\ PopAndRelease
    BY <1>3 DEF DeliverOK, DeadLetterDrop, DeadLetterWrite
  <2>2. HeadSettled(cur[1], cur[2])
    BY <1>3 DEF DeliverOK, DeadLetterDrop, DeadLetterWrite, HeadSettled, CurEvent, CurQueue
  <2> QED BY <2>1, <2>2, CurrentHead DEF PopsSettled, PopAndRelease, CurQueue
<1>4. CASE DeliverTransient \/ DeadLetterWriteFails
  <2>1. /\ cur[1] \in ConsumerID /\ cur[2] \in Key
        /\ CurQueue # <<>> /\ Head(CurQueue) \in RetryRecord
    BY <1>4, CurrentHead DEF DeliverTransient, DeadLetterWriteFails, CurQueue
  <2>2. PICK r : /\ r \in RetryRecord /\ r.seq = Head(CurQueue).seq
                 /\ blocked' = WithQueue(cur[1], cur[2], WithHead(CurQueue, r))
    BY <1>4, <2>1, RewrittenHeads DEF DeliverTransient, DeadLetterWriteFails, Retried, Deferred
  <2> QED BY <1>1, <2>1, <2>2, HeadRewriteExtends, OneQueueExtended DEF CurQueue
<1>5. CASE Elapse
  <2>1. PICK id \in ConsumerID, k \in Key : BackoffElapses(id, k)
    BY <1>5 DEF Elapse
  <2>2. blocked[id][k] # <<>> /\ Head(blocked[id][k]) \in RetryRecord
    BY <1>1, <2>1, HeadTailProperties DEF BackoffElapses
  <2>3. PICK r : /\ r \in RetryRecord /\ r.seq = Head(blocked[id][k]).seq
                 /\ blocked' = WithQueue(id, k, WithHead(blocked[id][k], r))
    BY <2>1, <2>2, RewrittenHeads DEF BackoffElapses, Due
  <2> QED BY <1>1, <2>2, <2>3, HeadRewriteExtends, OneQueueExtended
<1>6. CASE \E c \in Conn, k \in Key, s \in SeqNo : Enqueue(c, k, s)
  <2>1. PICK c \in Conn, k \in Key, s \in SeqNo : Enqueue(c, k, s)
    BY <1>6
  <2>2. FailedRecord(s) \in RetryRecord /\ FollowOnRecord(s) \in RetryRecord
    BY SchedulerAssumption DEF FailedRecord, FollowOnRecord, RetryRecord
  <2>3. PICK r \in RetryRecord : AddBlocked(c, k, r)
    BY <2>1, <2>2 DEF Enqueue
  <2> DEFINE q == Append(blocked[IdOf[c]][k], r)
  <2>4. IdOf[c] \in ConsumerID
    BY SchedulerAssumption
  <2>5. q \in Seq(RetryRecord) /\ Extends(q, blocked[IdOf[c]][k])
    BY <1>1, <2>4, AppendProperties, LenProperties DEF Extends
  <2>6. blocked' = WithQueue(IdOf[c], k, q)
    BY <2>3 DEF AddBlocked
  <2> QED BY <2>4, <2>5, <2>6, OneQueueExtended
<1>7. Tick \/ DrainNext \/ DrainPeek \/ DeliverPermanent \/ Notify => UNCHANGED blocked
  BY DEF Tick, DrainNext, DrainPeek, DeliverPermanent, Notify, stateVars
<1>8. UNCHANGED vars => UNCHANGED blocked
  BY DEF vars, stateVars
<1> QED BY <1>2, <1>3, <1>4, <1>5, <1>6, <1>7, <1>8 DEF Next, TickStep

\* A pop shortens the current queue by its head and leaves the others alone.
LEMMA PoppedQueue ==
    ASSUME Inv, PopsSettled, NEW i \in ConsumerID, NEW j \in Key
    PROVE  \/ blocked'[i][j] = blocked[i][j]
           \/ /\ Len(blocked'[i][j]) = Len(blocked[i][j]) - 1
              /\ \A x \in 1..(Len(blocked[i][j]) - 1) :
                    blocked'[i][j][x].seq = blocked[i][j][x + 1].seq
              /\ HeadSettled(i, j)
<1>1. blocked \in QueueMap /\ CurQueue \in Seq(RetryRecord)
  BY DEF Inv, TypeOK, QueueMap, PopsSettled, CurQueue
<1>2. /\ PopHead(CurQueue) \in Seq(RetryRecord)
      /\ Len(PopHead(CurQueue)) = Len(CurQueue) - 1
      /\ \A x \in 1..(Len(CurQueue) - 1) : PopHead(CurQueue)[x].seq = CurQueue[x + 1].seq
  BY <1>1, PopHeadFacts DEF PopsSettled
<1>3. /\ blocked'[cur[1]][cur[2]] = PopHead(CurQueue)
      /\ i # cur[1] \/ j # cur[2] => blocked'[i][j] = blocked[i][j]
  BY <1>1, <1>2, WithQueueFacts DEF PopsSettled
<1> QED BY <1>2, <1>3 DEF PopsSettled, CurQueue

\* DLQ-01: no record leaves its queue unsettled.
THEOREM NothingLeavesUnsettled == Spec => LeavesOnlySettled
<1>1. ASSUME Inv, [Next]_vars PROVE ShrinksSettled
  <2> SUFFICES ASSUME NEW i \in ConsumerID, NEW j \in Key,
                      Len(blocked'[i][j]) < Len(blocked[i][j])
               PROVE  /\ Len(blocked'[i][j]) = Len(blocked[i][j]) - 1
                      /\ HeadSettled(i, j)
    BY DEF ShrinksSettled
  <2>1. Inv'
    BY <1>1, NextInv
  <2>2. Len(blocked[i][j]) \in Nat /\ Len(blocked'[i][j]) \in Nat
    BY <1>1, <2>1, LenProperties DEF Inv, TypeOK, QueueMap
  <2>3. ~ Extends(blocked'[i][j], blocked[i][j])
    BY <2>2 DEF Extends
  <2>4. PopsSettled
    BY <1>1, <2>3, QueueSteps
  <2> QED BY <1>1, <2>2, <2>4, PoppedQueue
<1>2. Inv /\ [Next]_vars => [ShrinksSettled]_vars
  BY <1>1
<1> QED BY <1>2, InvHolds, PTL DEF Spec, LeavesOnlySettled

\* RTR-04 within a group: every step keeps the order of what stays queued.
THEOREM QueuesStayInOrder == Spec => QueueStaysFIFO
<1>1. ASSUME Inv, [Next]_vars PROVE KeepsOrder
  <2> SUFFICES ASSUME NEW i \in ConsumerID, NEW j \in Key,
                      NEW d, d = (IF Len(blocked'[i][j]) < Len(blocked[i][j]) THEN 1 ELSE 0),
                      NEW x \in 1..(Len(blocked[i][j]) - d)
               PROVE  blocked'[i][j][x].seq = blocked[i][j][x + d].seq
    BY DEF KeepsOrder
  <2>1. Inv'
    BY <1>1, NextInv
  <2>2. Len(blocked[i][j]) \in Nat /\ Len(blocked'[i][j]) \in Nat
    BY <1>1, <2>1, LenProperties DEF Inv, TypeOK, QueueMap
  <2>3. CASE Extends(blocked'[i][j], blocked[i][j])
    <3>1. ~ (Len(blocked'[i][j]) < Len(blocked[i][j]))
      BY <2>2, <2>3 DEF Extends
    <3>2. d = 0
      BY <3>1
    <3>3. x \in 1..Len(blocked[i][j]) /\ x + d = x
      BY <2>2, <3>2
    <3> QED BY <2>3, <3>3 DEF Extends
  <2>4. CASE blocked'[i][j] = blocked[i][j]
    <3>1. d = 0 /\ x + d = x
      BY <2>2, <2>4
    <3> QED BY <2>4, <3>1
  <2>5. CASE PopsSettled /\ blocked'[i][j] # blocked[i][j]
    BY <1>1, <2>2, <2>5, PoppedQueue
  <2> QED BY <1>1, <2>3, <2>4, <2>5, QueueSteps
<1>2. Inv /\ [Next]_vars => [KeepsOrder]_vars
  BY <1>1
<1> QED BY <1>2, InvHolds, PTL DEF Spec, QueueStaysFIFO
=============================================================================
