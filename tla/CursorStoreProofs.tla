------------------------- MODULE CursorStoreProofs -------------------------
(***************************************************************************)
(* Proofs about CursorStore, for any consumers, partitions and number of   *)
(* saves: the age order of the three copies of a cursor, and that the      *)
(* store implements CursorRegister.                                        *)
(***************************************************************************)
EXTENDS CursorStore, TLAPS

\* A LoadCursor waiting for its row has a floor the row is not below.
LoadFloor == ld.pc = "sql" /\ ld.key \in Kept => ld.floor <= disk[ld.key]

Inv ==
    /\ StoreTypeOK
    /\ InOrder
    /\ del \in Deletable \cup {NoDelete}
    /\ LoadFloor
    /\ LoadNotBelowRow

\* A new store is empty.
LEMMA InitInv == StoreInit => Inv
<1> SUFFICES ASSUME StoreInit PROVE Inv
  OBVIOUS
<1>1. \E k \in CursorKey : TRUE
  <2>1. PICK c \in ConsumerID, p \in Partition : TRUE
    BY StoreAssumption
  <2>2. <<c, p>> \in CursorKey
    BY <2>1 DEF CursorKey
  <2> QED BY <2>2
<1>2. NoLoad.key \in CursorKey
  BY <1>1 DEF NoLoad
<1>3. StoreTypeOK
  BY <1>2 DEF StoreInit, StoreTypeOK, Store, Empty, NoLoad
<1>4. InOrder
  BY DEF StoreInit, InOrder, Kept, Empty
<1>5. LoadFloor /\ LoadNotBelowRow
  BY DEF StoreInit, LoadFloor, LoadNotBelowRow, NoLoad
<1> QED BY <1>3, <1>4, <1>5 DEF Inv, StoreInit

\* A step that touches neither the saves nor the maps keeps their order.
LEMMA SameMaps ==
    ASSUME Inv, UNCHANGED <<dirty, snapshot, fpc, disk, saves>>
    PROVE  InOrder'
BY DEF Inv, InOrder

\* A step that leaves the call in progress alone, and lowers no kept row,
\* keeps what the call relies on.
LEMMA SameLoad ==
    ASSUME Inv, UNCHANGED ld, disk' \in Store, \A k \in Kept : disk[k] <= disk'[k]
    PROVE  LoadFloor' /\ LoadNotBelowRow'
<1>1. ld.floor \in Nat /\ disk \in Store
  BY DEF Inv, StoreTypeOK
<1>2. Kept \subseteq CursorKey
  BY DEF Kept
<1> QED BY <1>1, <1>2 DEF Inv, LoadFloor, LoadNotBelowRow, Store

\* Inv is inductive.
LEMMA NextInv == Inv /\ [StoreNext]_storeVars => Inv'
<1> SUFFICES ASSUME Inv, [StoreNext]_storeVars PROVE Inv'
  OBVIOUS
<1> USE DEF Store
<1>1. CASE UNCHANGED storeVars
  BY <1>1 DEF Inv, storeVars, StoreTypeOK, InOrder, LoadFloor, LoadNotBelowRow
<1>2. ASSUME NEW k \in CursorKey, SaveCursor(k) PROVE Inv'
  <2>1. StoreTypeOK'
    BY <1>2 DEF Inv, StoreTypeOK, SaveCursor
  <2>2. InOrder'
    BY <1>2 DEF Inv, StoreTypeOK, SaveCursor, InOrder, Kept
  <2>3. LoadFloor' /\ LoadNotBelowRow'
    BY <1>2 DEF SaveCursor, Inv, LoadFloor, LoadNotBelowRow
  <2> QED BY <1>2, <2>1, <2>2, <2>3 DEF Inv, SaveCursor
<1>3. ASSUME NEW k \in CursorKey, LoadDirty(k) PROVE Inv'
  <2>1. StoreTypeOK'
    BY <1>3 DEF Inv, StoreTypeOK, LoadDirty, Latest
  <2>2. InOrder'
    BY <1>3, SameMaps DEF LoadDirty
  <2>3. LoadFloor' /\ LoadNotBelowRow'
    BY <1>3 DEF Inv, StoreTypeOK, InOrder, LoadDirty, LoadFloor, LoadNotBelowRow, Kept
  <2> QED BY <1>3, <2>1, <2>2, <2>3 DEF Inv, LoadDirty
<1>4. CASE LoadRow
  <2>1. StoreTypeOK'
    BY <1>4 DEF Inv, StoreTypeOK, LoadRow
  <2>2. InOrder'
    BY <1>4, SameMaps DEF LoadRow
  <2>3. LoadFloor' /\ LoadNotBelowRow'
    BY <1>4 DEF Inv, StoreTypeOK, LoadRow, LoadFloor, LoadNotBelowRow, Kept
  <2> QED BY <1>4, <2>1, <2>2, <2>3 DEF Inv, LoadRow
<1>5. CASE LoadReturns
  <2>1. StoreTypeOK'
    <3>1. ld.key \in CursorKey
      BY DEF Inv, StoreTypeOK
    <3>2. NoLoad.key \in CursorKey
      BY <3>1 DEF NoLoad
    <3> QED BY <1>5, <3>2 DEF Inv, StoreTypeOK, LoadReturns, NoLoad
  <2>2. InOrder'
    BY <1>5, SameMaps DEF LoadReturns
  <2>3. LoadFloor' /\ LoadNotBelowRow'
    BY <1>5 DEF LoadReturns, LoadFloor, LoadNotBelowRow, NoLoad
  <2> QED BY <1>5, <2>1, <2>2, <2>3 DEF Inv, LoadReturns
<1>6. ASSUME NEW id \in Deletable, DeletePending(id) PROVE Inv'
  <2>1. StoreTypeOK'
    BY <1>6, StoreAssumption DEF Inv, StoreTypeOK, DeletePending
  <2>2. InOrder'
    BY <1>6 DEF Inv, StoreTypeOK, DeletePending, InOrder, Kept
  <2>3. LoadFloor' /\ LoadNotBelowRow'
    BY <1>6 DEF DeletePending, Inv, LoadFloor, LoadNotBelowRow
  <2> QED BY <1>6, <2>1, <2>2, <2>3 DEF Inv, DeletePending
<1>7. CASE DeleteRows
  <2>1. del \in Deletable
    BY <1>7 DEF Inv, DeleteRows
  <2>2. StoreTypeOK'
    BY <1>7 DEF Inv, StoreTypeOK, DeleteRows
  <2>3. \A k \in Kept : disk'[k] = disk[k]
    BY <1>7, <2>1 DEF DeleteRows, Kept
  <2>4. InOrder'
    BY <1>7, <2>3 DEF Inv, DeleteRows, InOrder
  <2>5. \A k \in Kept : disk[k] <= disk'[k]
    BY <2>3 DEF Inv, StoreTypeOK, Kept
  <2>6. LoadFloor' /\ LoadNotBelowRow'
    BY <1>7, <2>2, <2>5, SameLoad DEF DeleteRows, StoreTypeOK
  <2> QED BY <1>7, <2>2, <2>4, <2>6 DEF Inv, DeleteRows
<1>8. CASE FlushSnapshot
  <2>1. StoreTypeOK'
    BY <1>8 DEF Inv, StoreTypeOK, FlushSnapshot, Empty
  <2>2. InOrder'
    BY <1>8 DEF Inv, StoreTypeOK, FlushSnapshot, Empty, InOrder, Kept
  <2>3. LoadFloor' /\ LoadNotBelowRow'
    BY <1>8 DEF FlushSnapshot, Inv, LoadFloor, LoadNotBelowRow
  <2> QED BY <1>8, <2>1, <2>2, <2>3 DEF Inv, FlushSnapshot
<1>9. CASE FlushCommit \/ FlushFails
  <2>1. Upserted \in Store /\ Restored \in Store /\ Empty \in Store
    BY DEF Inv, StoreTypeOK, Upserted, Restored, Empty
  <2>2. StoreTypeOK'
    BY <1>9, <2>1 DEF Inv, StoreTypeOK, FlushCommit, FlushFails
  <2>3. \A k \in Kept : disk[k] <= disk'[k]
    BY <1>9 DEF Inv, StoreTypeOK, InOrder, FlushCommit, FlushFails, Upserted, Kept
  <2>4. InOrder'
    <3> SUFFICES ASSUME NEW k \in Kept
                 PROVE  /\ snapshot'[k] = 0
                        /\ dirty'[k] # 0 => disk'[k] <= dirty'[k]
                        /\ dirty'[k] <= saves' /\ disk'[k] <= saves'
      BY <2>2 DEF InOrder, StoreTypeOK, Kept
    <3>1. k \in CursorKey
      BY DEF Kept
    <3> QED BY <1>9, <3>1 DEF Inv, StoreTypeOK, InOrder, FlushCommit, FlushFails, Upserted,
            Restored, Empty
  <2>5. LoadFloor' /\ LoadNotBelowRow'
    BY <1>9, <2>2, <2>3, SameLoad DEF FlushCommit, FlushFails, StoreTypeOK
  <2> QED BY <1>9, <2>2, <2>4, <2>5 DEF Inv, FlushCommit, FlushFails
<1>10. CASE Crash
  <2>1. StoreTypeOK'
    <3>1. ld.key \in CursorKey
      BY DEF Inv, StoreTypeOK
    <3>2. NoLoad.key \in CursorKey
      BY <3>1 DEF NoLoad
    <3> QED BY <1>10, <3>2 DEF Inv, StoreTypeOK, Crash, NoLoad, Empty
  <2>2. InOrder'
    BY <1>10 DEF Inv, StoreTypeOK, InOrder, Crash, Empty, Kept
  <2>3. LoadFloor' /\ LoadNotBelowRow'
    BY <1>10 DEF Crash, LoadFloor, LoadNotBelowRow, NoLoad
  <2> QED BY <1>10, <2>1, <2>2, <2>3 DEF Inv, Crash
<1> QED BY <1>1, <1>2, <1>3, <1>4, <1>5, <1>6, <1>7, <1>8, <1>9, <1>10 DEF StoreNext, Flush

\* The inductive invariant holds in every reachable state.
THEOREM InvHolds == StoreSpec => []Inv
BY InitInv, NextInv, PTL DEF StoreSpec

\* Dirty map, snapshot in flight and row of a kept cursor are ordered by age.
THEOREM CopiesInOrder == StoreSpec => []InOrder
BY InvHolds, PTL DEF Inv

\* LoadCursor never answers below the row that was durable when it began.
THEOREM LoadsNotBelowRow == StoreSpec => []LoadNotBelowRow
BY InvHolds, PTL DEF Inv

-----------------------------------------------------------------------------
(* The refinement of CursorRegister.                                       *)

Current == [k \in Kept |-> Latest(k)]
Durable == [k \in Kept |-> disk[k]]

\* SaveCursor of a kept key is a Save, and of another key a stutter.
LEMMA SaveRefines ==
    ASSUME Inv, NEW k \in CursorKey, SaveCursor(k)
    PROVE  (CR!Save(k) /\ k \in Kept) \/ UNCHANGED <<Current, Durable, crashes>>
<1>1. Durable' = Durable
  BY DEF SaveCursor, Durable
<1>2. \A j \in Kept : j # k => Latest(j)' = Latest(j)
  BY DEF SaveCursor, Latest, Inv, StoreTypeOK, Store, Kept
<1>3. CASE k \notin Kept
  BY <1>1, <1>2, <1>3 DEF Current, SaveCursor
<1>4. CASE k \in Kept
  <2>1. Latest(k)' = saves + 1 /\ saves \in Nat
    BY DEF SaveCursor, Latest, Inv, StoreTypeOK, Store
  <2>2. Latest(k) \in Nat /\ Latest(k) <= saves
    BY <1>4 DEF Latest, Inv, InOrder, StoreTypeOK, Store
  <2>3. Current' = [Current EXCEPT ![k] = saves + 1]
    BY <1>2, <1>4, <2>1 DEF Current
  <2>4. Current'[k] = saves + 1 /\ Current[k] = Latest(k)
    BY <1>4, <2>1 DEF Current
  <2>5. Current'[k] \in Nat /\ Current'[k] > Current[k]
    BY <2>1, <2>2, <2>4
  <2>6. Current' = [Current EXCEPT ![k] = Current'[k]]
    BY <2>3, <2>4, Zenon
  <2> QED BY <1>1, <1>4, <2>5, <2>6 DEF CR!Save, Current, Durable, SaveCursor
<1> QED BY <1>3, <1>4

\* Flushing leaves what the store holds alone, and only renews rows.
LEMMA FlushRefines ==
    ASSUME Inv, Flush
    PROVE  CR!Persist
<1>1. \A k \in Kept : /\ Latest(k)' = Latest(k)
                      /\ disk'[k] \in Nat
                      /\ disk[k] <= disk'[k] /\ disk'[k] <= Latest(k)
  <2> SUFFICES ASSUME NEW k \in Kept
               PROVE  /\ Latest(k)' = Latest(k)
                      /\ disk'[k] \in Nat
                      /\ disk[k] <= disk'[k] /\ disk'[k] <= Latest(k)
    OBVIOUS
  <2>1. k \in CursorKey /\ dirty[k] \in Nat /\ snapshot[k] \in Nat /\ disk[k] \in Nat
    BY DEF Kept, Inv, StoreTypeOK, Store
  <2>2. /\ fpc = "idle" => snapshot[k] = 0
        /\ snapshot[k] # 0 => disk[k] <= snapshot[k]
        /\ dirty[k] # 0 => disk[k] <= dirty[k] /\ snapshot[k] <= dirty[k]
    BY DEF Inv, InOrder
  <2>3. CASE FlushSnapshot
    BY <2>1, <2>2, <2>3 DEF FlushSnapshot, Latest, Empty
  <2>4. CASE FlushCommit
    BY <2>1, <2>2, <2>4 DEF FlushCommit, Latest, Empty, Upserted
  <2>5. CASE FlushFails
    BY <2>1, <2>2, <2>5 DEF FlushFails, Latest, Empty, Upserted, Restored
  <2> QED BY <2>3, <2>4, <2>5 DEF Flush
<1>2. Current' = Current
  BY <1>1 DEF Current
<1>3. /\ Durable' \in [Kept -> Nat]
      /\ \A k \in Kept : Durable[k] <= Durable'[k] /\ Durable'[k] <= Current[k]
  BY <1>1 DEF Durable, Current
<1>4. crashes' = crashes
  BY DEF Flush, FlushSnapshot, FlushCommit, FlushFails
<1> QED BY <1>2, <1>3, <1>4 DEF CR!Persist, Current, Durable

\* A crash leaves the rows.
LEMMA CrashRefines ==
    ASSUME Inv, Crash
    PROVE  CR!Crash
<1>1. \A k \in Kept : Latest(k)' = disk[k] /\ disk'[k] = disk[k]
  BY DEF Crash, Latest, Empty, Kept
<1> QED BY <1>1 DEF CR!Crash, Current, Durable, Crash

\* Loads and deletes do not touch the cursors of kept keys.
LEMMA OthersStutter ==
    ASSUME Inv,
           \/ \E k \in CursorKey : LoadDirty(k)
           \/ LoadRow \/ LoadReturns \/ DeleteRows
           \/ \E id \in Deletable : DeletePending(id)
    PROVE  UNCHANGED <<Current, Durable, crashes>>
<1>1. \A k \in Kept : dirty'[k] = dirty[k] /\ snapshot'[k] = snapshot[k] /\ disk'[k] = disk[k]
  BY DEF Inv, Kept, LoadDirty, LoadRow, LoadReturns, DeleteRows, DeletePending
<1>2. \A k \in Kept : Latest(k)' = Latest(k)
  BY <1>1 DEF Latest
<1>3. crashes' = crashes
  BY DEF LoadDirty, LoadRow, LoadReturns, DeleteRows, DeletePending
<1> QED BY <1>1, <1>2, <1>3 DEF Current, Durable

\* The store implements the register, for every set of keys and every
\* interleaving of saves, loads, deletes, failing flushes and crashes.
THEOREM StoreImplementsRegister == StoreSpec => ImplementsRegister
<1>1. StoreInit => CR!Init
  <2> SUFFICES ASSUME StoreInit PROVE CR!Init
    OBVIOUS
  <2>1. \A k \in Kept : Latest(k) = 0 /\ disk[k] = 0
    BY DEF StoreInit, Empty, Latest, Kept
  <2> QED BY <2>1 DEF CR!Init, StoreInit
<1>2. ASSUME Inv, [StoreNext]_storeVars PROVE [CR!Next]_(CR!vars)
  <2>1. CASE UNCHANGED storeVars
    BY <2>1 DEF storeVars, CR!vars, Latest, Kept
  <2>2. ASSUME NEW k \in CursorKey, SaveCursor(k) PROVE [CR!Next]_(CR!vars)
    BY <1>2, <2>2, SaveRefines DEF CR!Next, CR!vars, Current, Durable
  <2>3. CASE Flush
    BY <1>2, <2>3, FlushRefines DEF CR!Next
  <2>4. CASE Crash
    BY <1>2, <2>4, CrashRefines DEF CR!Next
  <2>5. CASE \/ \E k \in CursorKey : LoadDirty(k)
             \/ LoadRow \/ LoadReturns \/ DeleteRows
             \/ \E id \in Deletable : DeletePending(id)
    BY <1>2, <2>5, OthersStutter DEF CR!vars, Current, Durable
  <2> QED BY <1>2, <2>1, <2>2, <2>3, <2>4, <2>5 DEF StoreNext
<1> QED BY <1>1, <1>2, InvHolds, PTL DEF StoreSpec, ImplementsRegister, CR!Spec
=============================================================================
