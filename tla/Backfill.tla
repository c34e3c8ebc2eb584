------------------------------ MODULE Backfill ------------------------------
(***************************************************************************)
(* The snapshot of one table (internal/backfill) beside the live stream of *)
(* internal/source/postgres, both appending to one EventLog.               *)
(*                                                                         *)
(* The database is the history of its transactions: wal[i] changes a set   *)
(* of rows and has LSN i + 1, so the version of a row is the transaction   *)
(* that wrote it last (0: an initial row).                                 *)
(***************************************************************************)
EXTENDS EventLog

CONSTANTS
    Keys,              \* primary keys, a set of positive integers
    Txs,               \* the transactions of the database: the rows they put or delete
    PageSizes,         \* page sizes the BatchOptimizer may choose
    BackfillBatchSize, \* backfillBatchSize
    MaxIndexKeys,      \* SetMaxIndexKeys
    MaxTx,             \* bound: transactions
    MaxFaults          \* bound: restarts, lost sessions, failed calls and queries

ASSUME BackfillAssumption ==
    /\ Keys \subseteq Nat \ {0} /\ IsFiniteSet(Keys) /\ DOMAIN PartitionOf = Keys \cup {0}
    /\ Writers = {"wal", "backfill"}
    /\ Txs \subseteq [keys : SUBSET Keys \ {{}}, op : {"put", "del"}]
    /\ PageSizes \subseteq Nat \ {0} /\ BackfillBatchSize \in Nat \ {0}

VARIABLES
    wal,        \* the transactions of the database
    slotStart,  \* consistent point of the slot: it streams wal from here on
    wcur,       \* transactions the live stream has appended
    conn,       \* connectAndStream: "down", "reset" (slot lost) or "up"
    untold,     \* history: what the stream's failed calls committed since StartTable
    st,         \* the row of backfill_states (persisted)
    run,        \* locals of the Run that holds BackfillEngineImpl.mu
    waiting,    \* launched Run goroutines that wait for mu
    idx,        \* WatermarkChecker.tables[table]
    snapIDs,    \* snapshot IDs handed out by newSnapshotID
    faults      \* restarts, lost sessions and failures so far

vars == <<wal, slotStart, wcur, conn, untold, st, run, waiting, idx, snapIDs,
          faults, log, nextSeq, call, appendMu>>

dbVars == <<wal, slotStart>>
liveVars == <<wcur, conn, untold>>
runVars == <<st, run, waiting, idx, snapIDs>>

\* The last transaction up to position n that changed row k.
Version(k, n) ==
    LET W == {i \in 1..n : k \in wal[i].keys}
    IN  IF W = {} THEN 0 ELSE CHOOSE i \in W : \A j \in W : j <= i

Present(k, n) == Version(k, n) = 0 \/ wal[Version(k, n)].op = "put"

\* The keys of S in the table's order.
InKeyOrder(S) ==
    CHOOSE s \in [1..Cardinality(S) -> S] : \A i, j \in DOMAIN s : i < j => s[i] < s[j]

LSN(i) == i + 1
FlushLSN == LSN(Len(wal))

\* A database transaction (external).
Commit ==
    /\ Len(wal) < MaxTx
    /\ \E t \in Txs : wal' = Append(wal, t)
    /\ UNCHANGED <<slotStart, liveVars, runVars, faults, logVars>>

-----------------------------------------------------------------------------
(* WatermarkChecker                                                        *)

NoIndex == [on |-> FALSE, lsn |-> 0, keys |-> {}, over |-> FALSE, todo |-> {}]

\* mergeEventLocked for a set of events.
Merge(ix, evs) ==
    LET ks == ix.keys \cup {e.key : e \in {x \in evs : x.lsn > ix.lsn}}
    IN  IF Cardinality(ks) > MaxIndexKeys
        THEN [ix EXCEPT !.over = TRUE, !.keys = {}]
        ELSE [ix EXCEPT !.keys = ks]

\* Mutant of Observed: events are not merged while the index is being built.
ObservedLate(ix, evs) ==
    IF ix.on /\ ~ix.over /\ ix.todo = {} THEN Merge(ix, evs) ELSE ix

\* ObserveAppend
Observed(ix, evs) == IF ix.on /\ ~ix.over THEN Merge(ix, evs) ELSE ix

\* ShouldEmit: the index, or the scan of the key's partition.
Indexed == idx.on /\ ~idx.over /\ idx.lsn = run.lsn

Superseded(k) ==
    IF Indexed THEN k \in idx.keys
    ELSE \E it \in log[PartitionOf[k]] : it.ev.key = k /\ it.ev.lsn > run.lsn

-----------------------------------------------------------------------------
(* BackfillEngineImpl                                                      *)

FirstState == [status |-> "pending", cursor |-> 0, lsn |-> 0, snap |-> 0]

NoRun == [pc |-> "idle", status |-> "none", cursor |-> 0, lsn |-> 0, snap |-> 0,
          buf |-> <<>>, bufLast |-> 0, page |-> <<>>, limit |-> 0, rows |-> 0,
          last |-> 0, err |-> FALSE]

\* What SaveState writes for the running snapshot.
Saved == [status |-> run.status, cursor |-> run.cursor, lsn |-> run.lsn, snap |-> run.snap]

At(pc) == run.pc = pc
Goto(pc) == run' = [run EXCEPT !.pc = pc]

\* launchBackfill: a goroutine that calls Run, when HasPendingBackfills or the
\* slot was lost.
Launched(state, needsSnapshot) ==
    IF needsSnapshot \/ state.status \in {"none", "pending", "running"}
    THEN waiting + 1 ELSE waiting

\* Run takes mu; runOne loads the state, a completed table is left alone;
\* snapshotTable fixes the snapshot ID and saves status running.
RunStarts ==
    /\ At("idle") /\ waiting > 0
    /\ waiting' = waiting - 1
    /\ IF st.status = "completed"
       THEN UNCHANGED <<st, run, snapIDs>>
       ELSE LET s == IF st.status = "none" THEN FirstState ELSE st
                id == IF s.snap = 0 THEN snapIDs + 1 ELSE s.snap
            IN  /\ run' = [NoRun EXCEPT !.pc = "lsn", !.status = "running", !.snap = id,
                                        !.cursor = s.cursor, !.lsn = s.lsn]
                /\ st' = [s EXCEPT !.status = "running", !.snap = id]
                /\ snapIDs' = IF s.snap = 0 THEN id ELSE snapIDs
    /\ UNCHANGED <<dbVars, liveVars, idx, faults, logVars>>

\* BKF-02: the first start reads pg_current_wal_flush_lsn, in memory only.
AssignLSN ==
    /\ At("lsn")
    /\ run' = [run EXCEPT !.pc = "register",
                          !.lsn = IF run.lsn = 0 THEN FlushLSN ELSE run.lsn]
    /\ UNCHANGED <<dbVars, liveVars, st, waiting, idx, snapIDs, faults, logVars>>

\* The query fails: SnapshotLSN stays 0.
AssignLSNFails ==
    /\ At("lsn") /\ run.lsn = 0 /\ faults < MaxFaults
    /\ Goto("register")
    /\ faults' = faults + 1
    /\ UNCHANGED <<dbVars, liveVars, st, waiting, idx, snapIDs, logVars>>

\* StartTable registers an empty index, then merges partition after partition.
RegisterIndex ==
    /\ At("register")
    /\ idx' = [NoIndex EXCEPT !.on = TRUE, !.lsn = run.lsn, !.todo = Partitions]
    /\ untold' = {}
    /\ Goto("scan")
    /\ UNCHANGED <<dbVars, wcur, conn, st, waiting, snapIDs, faults, logVars>>

ScanPartition ==
    /\ At("scan")
    /\ \E p \in idx.todo :
          idx' = [Observed(idx, {it.ev : it \in log[p]}) EXCEPT !.todo = @ \ {p}]
    /\ Goto(IF idx'.todo = {} \/ idx'.over THEN "query" ELSE "scan")
    /\ UNCHANGED <<dbVars, liveVars, st, waiting, snapIDs, faults, logVars>>

\* A failed scan removes the index: ShouldEmit falls back to scanning.
ScanFails ==
    /\ At("scan") /\ faults < MaxFaults
    /\ idx' = NoIndex
    /\ Goto("query")
    /\ faults' = faults + 1
    /\ UNCHANGED <<dbVars, liveVars, st, waiting, snapIDs, logVars>>

\* BuildFirstQuery, BuildNextQuery: the rows behind the cursor, in key order.
RowsBehind(cursor) ==
    InKeyOrder({k \in Keys : k > cursor /\ Present(k, Len(wal))})

Prefix(s, n) == IF Len(s) <= n THEN s ELSE SubSeq(s, 1, n)

QueryPage ==
    /\ At("query")
    /\ \E n \in PageSizes :
          LET ks == Prefix(RowsBehind(run.cursor), n)
          IN  run' = [run EXCEPT !.pc = "row", !.limit = n, !.rows = 0, !.last = 0,
                        !.page = [i \in DOMAIN ks |->
                                     [key |-> ks[i], ver |-> Version(ks[i], Len(wal))]]]
    /\ UNCHANGED <<dbVars, liveVars, st, waiting, idx, snapIDs, faults, logVars>>

\* MakeReadEvent: no LSN in the metadata, an ID that is stable over resumes.
ReadEvent(row) ==
    [id |-> <<"read", row.key, run.snap>>, key |-> row.key, ver |-> row.ver, lsn |-> 0]

\* One row of the page is skipped, or buffered and the full buffer flushed.
ScanRow(emit) ==
    LET row == Head(run.page)
        buf == Append(run.buf, ReadEvent(row))
    IN  run' = [run EXCEPT !.page = Tail(@), !.rows = @ + 1, !.last = row.key,
                  !.buf = IF emit THEN buf ELSE @,
                  !.bufLast = IF emit THEN row.key ELSE @,
                  !.pc = IF emit /\ Len(buf) >= BackfillBatchSize THEN "flush" ELSE "row"]

CheckRow ==
    /\ At("row") /\ run.page # <<>>
    /\ ScanRow(~Superseded(Head(run.page).key))
    /\ UNCHANGED <<dbVars, liveVars, st, waiting, idx, snapIDs, faults, logVars>>

\* shouldEmitScan fails: the row is emitted.
CheckRowFails ==
    /\ At("row") /\ run.page # <<>> /\ ~Indexed /\ faults < MaxFaults
    /\ ScanRow(TRUE)
    /\ faults' = faults + 1
    /\ UNCHANGED <<dbVars, liveVars, st, waiting, idx, snapIDs, logVars>>

\* The rest of the page's events are flushed too.
FlushRest ==
    /\ At("row") /\ run.page = <<>> /\ run.buf # <<>>
    /\ Goto("flush")
    /\ UNCHANGED <<dbVars, liveVars, st, waiting, idx, snapIDs, faults, logVars>>

\* flushEventBuf calls AppendBatch, the control event Append.
Flush ==
    /\ At("flush")
    /\ Prepare("backfill", run.buf)
    /\ Goto("flushing")
    /\ UNCHANGED <<dbVars, liveVars, st, waiting, idx, snapIDs, faults>>

ControlEvent == [id |-> <<"control", 0, run.snap>>, key |-> 0, ver |-> 0, lsn |-> 0]

EmitControl ==
    /\ At("control")
    /\ Prepare("backfill", <<ControlEvent>>)
    /\ Goto("controlling")
    /\ UNCHANGED <<dbVars, liveVars, st, waiting, idx, snapIDs, faults>>

\* The append returns: the in-memory cursor moves to the last buffered row;
\* after the control event the table is saved as completed and Run returns.
BackfillReturns ==
    /\ AppendReturns("backfill")
    /\ IF At("flushing")
       THEN /\ run' = [run EXCEPT !.pc = "row", !.cursor = run.bufLast,
                                  !.buf = <<>>, !.bufLast = 0]
            /\ UNCHANGED st
       ELSE /\ st' = [Saved EXCEPT !.status = "completed"]
            /\ run' = NoRun
    /\ UNCHANGED <<dbVars, liveVars, waiting, idx, snapIDs, faults>>

\* Mutant of PageCursor: the cursor is the last emitted row, not the last scanned.
PageCursorEmitted == run.cursor

PageCursor == IF run.last # 0 THEN run.last ELSE run.cursor

\* End of page: the cursor moves behind skipped rows too and is saved; a page
\* that is not full is the last one, and FinishTable drops the index.
EndPage ==
    /\ At("row") /\ run.page = <<>> /\ run.buf = <<>>
    /\ LET full == run.rows >= run.limit
       IN  /\ run' = [run EXCEPT !.cursor = PageCursor, !.limit = 0, !.rows = 0, !.last = 0,
                                 !.pc = IF full THEN "query" ELSE "control"]
           /\ idx' = IF full THEN idx ELSE NoIndex
    /\ st' = [Saved EXCEPT !.cursor = PageCursor]
    /\ UNCHANGED <<dbVars, liveVars, waiting, snapIDs, faults, logVars>>

\* A query, a SaveState or an append fails: Run returns the error and nobody
\* calls it again before the next session.
RunFails ==
    /\ ~At("idle") /\ faults < MaxFaults
    /\ \/ ~call["backfill"].busy /\ UNCHANGED logVars
       \/ AppendFails("backfill")
    /\ run' = [NoRun EXCEPT !.err = TRUE]
    /\ idx' = NoIndex
    /\ faults' = faults + 1
    /\ UNCHANGED <<dbVars, liveVars, st, waiting, snapIDs>>

-----------------------------------------------------------------------------
(* PostgresConnector                                                       *)

\* A session on the existing slot.
Connect ==
    /\ conn = "down"
    /\ conn' = "up"
    /\ waiting' = Launched(st, FALSE)
    /\ UNCHANGED <<dbVars, wcur, untold, st, run, idx, snapIDs, faults, logVars>>

\* The slot is gone: a new one starts at the end of the WAL.
ConnectSlotLost ==
    /\ conn = "down"
    /\ conn' = "reset"
    /\ slotStart' = Len(wal)
    /\ wcur' = Len(wal)
    /\ UNCHANGED <<wal, untold, runVars, faults, logVars>>

\* Mutant of ResetState: the snapshot keeps its ID.
ResetStateKeepsID ==
    [FirstState EXCEPT !.lsn = LSN(slotStart), !.snap = IF st.snap = 0 THEN snapIDs + 1 ELSE st.snap]

\* What ResetForSlotLoss saves: no cursor, the consistent point, a new ID.
ResetState == [FirstState EXCEPT !.lsn = LSN(slotStart), !.snap = snapIDs + 1]

\* ResetForSlotLoss waits for mu, then the session starts and launches Run.
ResetForSlotLoss ==
    /\ conn = "reset" /\ At("idle")
    /\ st' = ResetState
    /\ snapIDs' = snapIDs + 1
    /\ run' = NoRun
    /\ conn' = "up"
    /\ waiting' = Launched(ResetState, TRUE)
    /\ UNCHANGED <<dbVars, wcur, untold, idx, faults, logVars>>

\* The live events of transaction i, in key order.
LiveEvents(i) ==
    LET ks == InKeyOrder(wal[i].keys)
    IN  [j \in DOMAIN ks |->
            [id |-> <<"wal", ks[j], i>>, key |-> ks[j], ver |-> i, lsn |-> LSN(i)]]

\* AppendAndQueueBatch of the next transaction takes appendMu.
LiveAppend ==
    /\ conn = "up" /\ wcur < Len(wal)
    /\ Prepare("wal", LiveEvents(wcur + 1))
    /\ UNCHANGED <<dbVars, liveVars, runVars, faults>>

LiveReturns ==
    /\ AppendReturns("wal")
    /\ idx' = Observed(idx, call["wal"].written)
    /\ wcur' = wcur + 1
    /\ UNCHANGED <<dbVars, conn, untold, st, run, waiting, snapIDs, faults>>

\* Where a new session resumes: the checkpoint is saved after the append, so
\* the last transaction may be sent again (PostgresSource has the details).
Resumed == IF wcur > slotStart THEN {wcur, wcur - 1} ELSE {wcur}

\* The session ends, also because an append failed.
Disconnect ==
    /\ conn = "up" /\ faults < MaxFaults
    /\ \/ ~call["wal"].busy /\ UNCHANGED <<untold, logVars>>
       \/ AppendFails("wal") /\ untold' = untold \cup call["wal"].written
    /\ conn' = "down"
    /\ wcur' \in Resumed
    /\ faults' = faults + 1
    /\ UNCHANGED <<dbVars, runVars>>

\* The process restarts.  (A restart between slot loss and reset is in
\* PostgresSource.)
Crash ==
    /\ conn # "reset" /\ faults < MaxFaults
    /\ Reopen
    /\ conn' = "down"
    /\ run' = NoRun /\ waiting' = 0 /\ idx' = NoIndex
    /\ wcur' \in Resumed /\ untold' = {}
    /\ faults' = faults + 1
    /\ UNCHANGED <<dbVars, st, snapIDs>>

CommitChunks ==
    /\ \E w \in Writers : CommitChunk(w)
    /\ UNCHANGED <<dbVars, liveVars, runVars, faults>>

-----------------------------------------------------------------------------
Init ==
    /\ LogInit
    /\ wal = <<>> /\ slotStart = 0 /\ wcur = 0
    /\ conn = "down" /\ untold = {}
    /\ st = [FirstState EXCEPT !.status = "none"]
    /\ run = NoRun /\ waiting = 0 /\ idx = NoIndex /\ snapIDs = 0
    /\ faults = 0

RunStep ==
    \/ RunStarts \/ AssignLSN \/ RegisterIndex \/ ScanPartition \/ QueryPage
    \/ CheckRow \/ FlushRest \/ Flush \/ EmitControl \/ BackfillReturns \/ EndPage

Faults == \/ AssignLSNFails \/ ScanFails \/ CheckRowFails \/ RunFails
          \/ ConnectSlotLost \/ Disconnect \/ Crash

Next ==
    \/ Commit \/ RunStep \/ Faults \/ Connect \/ ResetForSlotLoss
    \/ LiveAppend \/ LiveReturns \/ CommitChunks

\* Go's mutexes are starvation-free: a Run that waits for appendMu or mu gets it.
Fairness ==
    /\ SF_vars(RunStep) /\ WF_vars(CommitChunks)
    /\ WF_vars(LiveAppend) /\ WF_vars(LiveReturns)
    /\ WF_vars(Connect) /\ SF_vars(ResetForSlotLoss)

Spec == Init /\ [][Next]_vars /\ Fairness

-----------------------------------------------------------------------------
TypeOK ==
    /\ wal \in Seq(Txs) /\ slotStart \in 0..Len(wal)
    /\ wcur \in slotStart..Len(wal)
    /\ conn \in {"down", "reset", "up"}
    /\ st.status \in {"none", "pending", "running", "completed"}
    /\ st.cursor \in Keys \cup {0} /\ st.lsn \in 0..FlushLSN /\ st.snap \in 0..snapIDs
    /\ run.pc \in {"idle", "lsn", "register", "scan", "query", "row", "flush",
                   "flushing", "control", "controlling"}
    /\ idx.keys \subseteq Keys /\ idx.todo \subseteq Partitions
    /\ waiting \in Nat /\ faults \in 0..MaxFaults

\* The log has the current row k, unless a change of k is still to be streamed.
Covered(k) ==
    Present(k, Len(wal)) /\ Version(k, Len(wal)) <= wcur =>
        \E e \in Entries : e.ev.key = k /\ e.ev.ver = Version(k, Len(wal))

\* BKF-03 and SRC-06: behind the saved cursor, and everywhere once the table is
\* completed, no row is missing from the log, whatever was skipped, resent,
\* resumed after a crash or taken again after the slot was lost.
SnapshotComplete ==
    conn = "up" =>
        \A k \in Keys : (st.status = "completed" \/ k <= st.cursor) => Covered(k)

\* StartTable's argument: an event is seen by the scan or by the observer.  A
\* complete index holds only rows with a newer live event in the log, and all of
\* them, but for a call whose observers are not told yet and for what a call that
\* failed in a later chunk had committed: nobody is ever told of that.
IndexExact ==
    idx.on /\ ~idx.over /\ idx.todo = {} =>
        LET newer == {e \in Entries : e.ev.lsn > idx.lsn}
        IN  /\ idx.keys \subseteq {e.ev.key : e \in newer}
            /\ \A e \in newer : e.ev.key \in idx.keys \/ e.ev \in call["wal"].written \cup untold

\* Faults are finite: in the end the table is completed, or its last Run has
\* returned an error (Run is not repeated before the next session).
SnapshotFinishes == <>[](st.status = "completed" \/ run.err)

\* README.md:29: "watermark coordination prevents duplicate or stale rows".  A
\* snapshot row never follows a live event that superseded it.
NoStaleRow ==
    [][\A p \in Partitions : \A new \in log'[p] \ log[p], old \in log[p] :
            new.ev.id[1] = "read" /\ old.ev.id[1] = "wal" /\ new.ev.key = old.ev.key
                => old.ev.ver <= new.ev.ver]_log
=============================================================================
