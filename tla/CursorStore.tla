---------------------------- MODULE CursorStore ----------------------------
(***************************************************************************)
(* internal/checkpoint/cursor_store.go (and its Postgres twin): consumer   *)
(* cursors with batched durability.                                        *)
(*                                                                         *)
(* SaveCursor only writes the dirty map.  The flush goroutine takes the    *)
(* whole dirty map as a snapshot under the mutex, releases it, writes the  *)
(* snapshot in one transaction, and puts it back when that fails.  Saves,  *)
(* loads and deletes interleave with the transaction.                      *)
(*                                                                         *)
(* A cursor value is represented by the number of the SaveCursor call that *)
(* wrote it: which call a value comes from is all that can go wrong here.  *)
(***************************************************************************)
EXTENDS Integers

CONSTANTS
    ConsumerID,  \* consumer ids
    Partition,   \* partitions
    Deletable    \* ids that DeleteCursor may be called for (MCP sessions)

ASSUME StoreAssumption ==
    /\ ConsumerID # {} /\ Partition # {}
    /\ Deletable \subseteq ConsumerID

VARIABLES
    dirty,       \* dirty: [CursorKey -> save], 0 when absent
    snapshot,    \* flush's local snapshot, 0 when absent
    fpc,         \* the flush goroutine: "idle" or "tx"
    disk,        \* the rows of consumer_cursors, 0 when absent
    saves,       \* SaveCursor calls so far
    del,         \* the id whose rows a DeleteCursor still has to delete
    crashes,     \* crashes of the process so far
    ld           \* a LoadCursor call: where it is, its key and its result

CursorKey == ConsumerID \X Partition

storeVars == <<dirty, snapshot, fpc, disk, saves, del, crashes, ld>>

NoDelete == "none"

Empty == [k \in CursorKey |-> 0]

\* What the store holds for k, newest first: the value the last SaveCursor
\* left, wherever a flush has moved it.
Latest(k) ==
    IF dirty[k] # 0 THEN dirty[k] ELSE IF snapshot[k] # 0 THEN snapshot[k] ELSE disk[k]

NoLoad == [pc |-> "idle", key |-> CHOOSE k \in CursorKey : TRUE, res |-> 0,
           floor |-> 0]

StoreInit ==
    /\ dirty = Empty /\ snapshot = Empty /\ disk = Empty
    /\ fpc = "idle" /\ saves = 0 /\ del = NoDelete /\ crashes = 0
    /\ ld = NoLoad

-----------------------------------------------------------------------------
SaveCursor(k) ==
    /\ saves' = saves + 1
    /\ dirty' = [dirty EXCEPT ![k] = saves + 1]
    /\ UNCHANGED <<crashes, snapshot, fpc, disk, del, ld>>

\* LoadCursor, under the mutex: answer from the dirty map if it has the key.
LoadDirty(k) ==
    /\ ld.pc = "idle"
    /\ ld' = [pc |-> IF dirty[k] # 0 THEN "done" ELSE "sql", key |-> k,
              res |-> dirty[k], floor |-> disk[k]]
    /\ UNCHANGED <<crashes, dirty, snapshot, fpc, disk, saves, del>>

\* LoadCursor, without the mutex: read the row.
LoadRow ==
    /\ ld.pc = "sql"
    /\ ld' = [ld EXCEPT !.pc = "done", !.res = disk[ld.key]]
    /\ UNCHANGED <<crashes, dirty, snapshot, fpc, disk, saves, del>>

LoadReturns ==
    /\ ld.pc = "done"
    /\ ld' = NoLoad
    /\ UNCHANGED <<crashes, dirty, snapshot, fpc, disk, saves, del>>

\* DeleteCursor, under the mutex: drop the pending entries of the id.
DeletePending(id) ==
    /\ del = NoDelete
    /\ del' = id
    /\ dirty' = [k \in CursorKey |-> IF k[1] = id THEN 0 ELSE dirty[k]]
    /\ UNCHANGED <<crashes, snapshot, fpc, disk, saves, ld>>

\* DeleteCursor, without the mutex: delete the rows of the id.
DeleteRows ==
    /\ del # NoDelete
    /\ del' = NoDelete
    /\ disk' = [k \in CursorKey |-> IF k[1] = del THEN 0 ELSE disk[k]]
    /\ UNCHANGED <<crashes, dirty, snapshot, fpc, saves, ld>>

\* flush: take the dirty map and release the mutex.
FlushSnapshot ==
    /\ fpc = "idle" /\ dirty # Empty
    /\ snapshot' = dirty
    /\ dirty' = Empty
    /\ fpc' = "tx"
    /\ UNCHANGED <<crashes, disk, saves, del, ld>>

\* The rows after the snapshot's upserts.
Upserted == [k \in CursorKey |-> IF snapshot[k] # 0 THEN snapshot[k] ELSE disk[k]]

FlushCommit ==
    /\ fpc = "tx"
    /\ disk' = Upserted
    /\ snapshot' = Empty
    /\ fpc' = "idle"
    /\ UNCHANGED <<crashes, dirty, saves, del, ld>>

\* Mutant: the snapshot is put back over newer saves.
RestoredOver == [k \in CursorKey |-> IF snapshot[k] # 0 THEN snapshot[k] ELSE dirty[k]]

\* restoreSnapshot: put back what was not saved again in the meantime.
Restored == [k \in CursorKey |-> IF dirty[k] # 0 THEN dirty[k] ELSE snapshot[k]]

\* Begin, an upsert or Commit failed.  A failed Commit may have been applied.
FlushFails ==
    /\ fpc = "tx"
    /\ disk' \in {disk, Upserted}
    /\ dirty' = Restored
    /\ snapshot' = Empty
    /\ fpc' = "idle"
    /\ UNCHANGED <<crashes, saves, del, ld>>

\* The process dies and comes back with the rows.
Crash ==
    /\ dirty' = Empty /\ snapshot' = Empty
    /\ fpc' = "idle" /\ del' = NoDelete /\ ld' = NoLoad
    /\ crashes' = crashes + 1
    /\ UNCHANGED <<disk, saves>>

Flush == FlushSnapshot \/ FlushCommit \/ FlushFails

StoreNext ==
    \/ \E k \in CursorKey : SaveCursor(k) \/ LoadDirty(k)
    \/ LoadRow \/ LoadReturns
    \/ \E id \in Deletable : DeletePending(id)
    \/ DeleteRows
    \/ Flush
    \/ Crash

StoreSpec == StoreInit /\ [][StoreNext]_storeVars

-----------------------------------------------------------------------------
(* Properties.                                                             *)

Store == [CursorKey -> Nat]

StoreTypeOK ==
    /\ dirty \in Store /\ snapshot \in Store /\ disk \in Store
    /\ fpc \in {"idle", "tx"}
    /\ saves \in Nat /\ crashes \in Nat
    /\ del \in ConsumerID \cup {NoDelete}
    /\ ld \in [pc : {"idle", "sql", "done"}, key : CursorKey, res : Nat, floor : Nat]

\* The keys no DeleteCursor touches.
Kept == {k \in CursorKey : k[1] \notin Deletable}

\* The three places a kept cursor can be in are ordered by age: the dirty map
\* is newer than a snapshot in flight, and that is newer than the row.  So a
\* restored snapshot never overwrites a newer save and a commit never turns a
\* row back.
InOrder ==
    \A k \in Kept :
        /\ fpc = "idle" => snapshot[k] = 0
        /\ snapshot[k] # 0 => disk[k] <= snapshot[k]
        /\ dirty[k] # 0 => disk[k] <= dirty[k] /\ snapshot[k] <= dirty[k]
        /\ dirty[k] <= saves /\ snapshot[k] <= saves /\ disk[k] <= saves

CR == INSTANCE CursorRegister
          WITH Cell <- Kept, current <- [k \in Kept |-> Latest(k)],
               durable <- [k \in Kept |-> disk[k]]

\* The store implements a register per kept key: no save is lost short of a
\* crash, whatever flushes fail, and the rows never go back to an older save.
ImplementsRegister == CR!Spec

\* A client that reconnects during a flush never resumes from before the row
\* that was durable when its LoadCursor began.
LoadNotBelowRow ==
    ld.pc = "done" /\ ld.key \in Kept => ld.res >= ld.floor
=============================================================================
