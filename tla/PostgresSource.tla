--------------------------- MODULE PostgresSource ---------------------------
(***************************************************************************)
(* internal/source/postgres/connector.go with parser/pgoutput: from the    *)
(* WAL to the event log.                                                   *)
(*                                                                         *)
(* The connector connects, makes sure of the slot, starts replication at   *)
(* its checkpoint, and handles one message at a time: rows are buffered,   *)
(* a commit appends the buffer to the event log, saves the checkpoint and  *)
(* only then acknowledges (CHK-01).  The connection, the process and the   *)
(* slot can be lost between any two of these steps.                        *)
(*                                                                         *)
(* The Postgres server is external: a WAL, a slot, and a walsender that    *)
(* decodes the WAL record by record.  A session's messages arrive in the   *)
(* order sent, so the server produces them when the connector reads them.  *)
(* All changes touch one primary key with one operation: then only the LSN *)
(* and the change counter of an idempotency key tell two changes apart.    *)
(***************************************************************************)
EXTENDS Integers, Sequences, FiniteSets

CONSTANTS
    Txn,         \* transactions of the database
    RowsOf,      \* the number of changes of each
    Streamed,    \* transactions large enough to be streamed while in progress
    Aborts,      \* transactions that may abort
    Mixed,       \* whether other transactions run next to a streamed one
    Unit, Gap,   \* a WAL record takes Unit LSNs, the last Gap are other WAL
    MsgLen,      \* length of a decoded message
    Threshold,   \* walBufFlushThreshold
    Fragile,     \* whether recovery from a lost slot can itself be interrupted
    MaxFaults,   \* bound: lost connections and process restarts
    MaxLosses    \* bound: losses of the slot

ASSUME SourceAssumption ==
    /\ RowsOf \in [Txn -> Nat \ {0}]
    /\ Streamed \subseteq Txn /\ Aborts \subseteq Txn
    /\ Mixed \in BOOLEAN /\ Fragile \in BOOLEAN
    /\ Unit \in Nat /\ Gap \in 0..(Unit - 1) /\ MsgLen \in Nat \ {0}
    /\ Threshold \in Nat \ {0} /\ MaxFaults \in Nat /\ MaxLosses \in Nat

VARIABLES
    wal,         \* the server's WAL: <<txn, "row" | "commit" | "abort">>
    history,     \* changes of committed transactions, in commit order
    slot,        \* confirmed_flush_lsn of the slot, or NoSlot
    snd,         \* the walsender: start LSN, position, rows streamed, messages
    pc,          \* where the connector is
    need,        \* needsSnapshot
    wasEver,     \* wasEverConnected
    st,          \* walReceiveState, and what follows the flush in progress
    parser,      \* currentLSN and changeSeq
    ckpt,        \* the stored checkpoint, 0 when there is none
    log,         \* the event log: events in the order appended
    covered,     \* changes of history covered by a requested re-snapshot
    faults, losses

dbVars     == <<wal, history>>
connVars   == <<snd, pc, need, wasEver, st, parser>>
durVars    == <<ckpt, log, covered>>
boundVars  == <<faults, losses>>
svars      == <<dbVars, slot, connVars, durVars, boundVars>>

NoSlot == -1

AtLeast(a, b) == IF a > b THEN a ELSE b

StartOf(i) == (i - 1) * Unit       \* LSN at which WAL record i begins
EndOf(i)   == IF i = 0 THEN 0 ELSE i * Unit - Gap

-----------------------------------------------------------------------------
(* The database and the walsender (external).                              *)

RecordsOf(x, kind) == {i \in DOMAIN wal : wal[i] = <<x, kind>>}
Ended(x)  == RecordsOf(x, "commit") \cup RecordsOf(x, "abort") # {}
Open      == {x \in Txn : RecordsOf(x, "row") # {} /\ ~Ended(x)}

\* Rows of x among the first i records, and the record of its n-th row.
RowsUpTo(x, i) == Cardinality({j \in RecordsOf(x, "row") : j <= i})
RowAt(x, n)    == CHOOSE i \in RecordsOf(x, "row") : RowsUpTo(x, i) = n

\* Unless transactions are Mixed, no other one writes between the first segment
\* of a streamed transaction and its end.
MayRun(x) == ~Ended(x) /\ (Mixed \/ \A y \in Open \ {x} : snd.sent[y] = 0)

LastOf(x) ==
    IF Ended(x) THEN CHOOSE i \in DOMAIN wal : wal[i] \in {<<x, "commit">>, <<x, "abort">>}
    ELSE Len(wal)

MayStream(x, i) ==
    /\ x \in Streamed /\ StartOf(i) >= snd.start
    /\ Mixed \/ \A j \in i..LastOf(x) : wal[j][1] = x

WriteRow(x) ==
    /\ MayRun(x) /\ RowsUpTo(x, Len(wal)) < RowsOf[x]
    /\ wal' = Append(wal, <<x, "row">>)
    /\ UNCHANGED <<history, slot, connVars, durVars, boundVars>>

Commit(x) ==
    /\ MayRun(x) /\ RowsUpTo(x, Len(wal)) = RowsOf[x]
    /\ wal' = Append(wal, <<x, "commit">>)
    /\ history' = history \o [n \in 1..RowsOf[x] |-> <<x, n>>]
    /\ UNCHANGED <<slot, connVars, durVars, boundVars>>

Abort(x) ==
    /\ MayRun(x) /\ x \in Open \cap Aborts
    /\ wal' = Append(wal, <<x, "abort">>)
    /\ UNCHANGED <<history, slot, connVars, durVars, boundVars>>

\* A message: its WALStart, the row number or first-segment mark n, and the
\* commit LSN that it carries.
Msg(type, x, lsn, n, final) ==
    [type |-> type, x |-> x, lsn |-> lsn, n |-> n, final |-> final]

\* The rows of x that record i makes available and the session has not sent.
Unsent(x, i, type) ==
    [k \in 1..(RowsUpTo(x, i) - snd.sent[x]) |->
        LET n == snd.sent[x] + k IN Msg(type, x, StartOf(RowAt(x, n)), n, 0)]

\* A segment of a streamed transaction: its rows are encoded with their xid.
Segment(x, i) ==
    LET rows == Unsent(x, i, "xidrow") IN
    IF rows = <<>> THEN <<>>
    ELSE <<Msg("streamstart", x, rows[1].lsn, IF snd.sent[x] = 0 THEN 1 ELSE 0, 0)>>
            \o rows \o <<Msg("streamstop", x, rows[Len(rows)].lsn, 0, 0)>>

\* What the walsender may send for record i: rows are held back until the
\* commit or streamed, and a commit before the start LSN is skipped.
Emitted(i) ==
    LET x == wal[i][1] IN
    CASE wal[i][2] = "row" ->
            {<<>>} \cup (IF MayStream(x, i) THEN {Segment(x, i)} ELSE {})
      [] wal[i][2] = "commit" ->
            {IF StartOf(i) < snd.start THEN <<>>
             ELSE IF snd.sent[x] > 0
             THEN Segment(x, i) \o <<Msg("streamcommit", x, EndOf(i), 0, StartOf(i))>>
             ELSE <<Msg("begin", x, StartOf(RowAt(x, 1)), 0, StartOf(i))>>
                     \o Unsent(x, i, "row") \o <<Msg("commit", x, EndOf(i), 0, 0)>>}
      [] wal[i][2] = "abort" ->
            {IF snd.sent[x] > 0 THEN <<Msg("streamabort", x, EndOf(i), 0, 0)>> ELSE <<>>}

Decode ==
    LET i == snd.pos + 1 IN
    /\ pc = "recv" /\ snd.out = <<>> /\ i \in DOMAIN wal
    /\ \E ms \in Emitted(i) :
          snd' = [snd EXCEPT !.pos = i, !.out = ms,
                             !.sent[wal[i][1]] = IF ms = <<>> THEN @
                                                 ELSE RowsUpTo(wal[i][1], i)]
    /\ UNCHANGED <<dbVars, slot, pc, need, wasEver, st, parser, durVars, boundVars>>

-----------------------------------------------------------------------------
(* connectAndStream up to StartReplication.                                *)

NoSession == [start |-> 0, pos |-> 0, sent |-> [x \in Txn |-> 0], out |-> <<>>]

\* ClearRelationCache
NewParser == [lsn |-> 0, cs |-> 0, inStream |-> FALSE]

NewState(saved) ==
    [walBuf |-> <<>>, open |-> FALSE, pos |-> 0, saved |-> saved, then |-> "recv"]

\* Mutant of EnsureSlot: EvalSlotCheck asks for no snapshot.
EnsureSlotForgets ==
    /\ pc = "down"
    /\ pc' = "reset" /\ need' = FALSE
    /\ \/ slot # NoSlot /\ UNCHANGED slot
       \/ slot = NoSlot /\ Open = {} /\ slot' = EndOf(Len(wal))
    /\ UNCHANGED <<dbVars, snd, wasEver, st, parser, durVars, boundVars>>

\* ensureSlot and EvalSlotCheck.  A slot is created at a point where no
\* transaction is in progress.
EnsureSlot ==
    /\ pc = "down"
    /\ pc' = "reset"
    /\ \/ /\ slot # NoSlot
          /\ need' = FALSE
          /\ UNCHANGED slot
       \/ /\ slot = NoSlot /\ Open = {}
          /\ need' = wasEver
          /\ slot' = EndOf(Len(wal))
    /\ UNCHANGED <<dbVars, snd, wasEver, st, parser, durVars, boundVars>>

\* resetBackfillOnSlotLoss: a re-snapshot of what is committed is recorded.
ResetBackfill ==
    /\ pc = "reset"
    /\ pc' = "start"
    /\ covered' = IF need THEN Len(history) ELSE covered
    /\ UNCHANGED <<dbVars, slot, snd, need, wasEver, st, parser, ckpt, log, boundVars>>

\* ReplicationStartLSN: the LSN to ask for, and the floor of acknowledgements.
ReplicationStartLSN ==
    IF need THEN [start |-> slot, saved |-> 0]
    ELSE IF ckpt = 0 THEN [start |-> 0, saved |-> 0]
    ELSE [start |-> ckpt + 1, saved |-> ckpt]

\* Mutant of StartReplication: the parser of the last session is kept.
StartReplicationKeeps ==
    /\ pc = "start"
    /\ pc' = "recv"
    /\ snd' = [NoSession EXCEPT !.start = AtLeast(slot, ReplicationStartLSN.start)]
    /\ st' = NewState(ReplicationStartLSN.saved)
    /\ need' = FALSE
    /\ UNCHANGED <<dbVars, slot, wasEver, parser, durVars, boundVars>>

\* ClearRelationCache and StartReplication: the server starts at the slot's
\* confirmed LSN if that is later.
StartReplication ==
    /\ pc = "start"
    /\ pc' = "recv"
    /\ snd' = [NoSession EXCEPT !.start = AtLeast(slot, ReplicationStartLSN.start)]
    /\ st' = NewState(ReplicationStartLSN.saved)
    /\ parser' = NewParser
    /\ need' = FALSE
    /\ UNCHANGED <<dbVars, slot, wasEver, durVars, boundVars>>

-----------------------------------------------------------------------------
(* receiveLoop, handleXLogData and finishXLogData.                         *)

Row == {"row", "xidrow"}

\* A row is parsed with or without an xid by inStream; in the wrong mode it is
\* garbled, a warning is logged and the message is dropped.
Garbled(m) == m.type \in Row /\ parser.inStream # (m.type = "xidrow")

\* newEvent: the change counter completes the idempotency key.
NewEvent(m) == [x |-> m.x, n |-> m.n, lsn |-> parser.lsn, cs |-> parser.cs]

\* Mutant of Parsed: every segment of a stream resets the counter.
ParsedResets(m) ==
    CASE m.type = "begin"        -> [parser EXCEPT !.lsn = m.final, !.cs = 0]
      [] m.type \in Row          -> [parser EXCEPT !.cs = @ + 1]
      [] m.type = "streamstart"  -> [parser EXCEPT !.inStream = TRUE, !.cs = 0]
      [] m.type = "streamcommit" -> [parser EXCEPT !.lsn = m.final, !.inStream = FALSE]
      [] m.type \in {"streamstop", "streamabort"} -> [parser EXCEPT !.inStream = FALSE]
      [] OTHER                   -> parser

\* Parser.Parse: what a message does to the parser.
Parsed(m) ==
    CASE m.type = "begin"        -> [parser EXCEPT !.lsn = m.final, !.cs = 0]
      [] m.type \in Row          -> [parser EXCEPT !.cs = @ + 1]
      [] m.type = "streamstart"  -> [parser EXCEPT !.inStream = TRUE,
                                                   !.cs = IF m.n = 1 THEN 0 ELSE @]
      [] m.type = "streamcommit" -> [parser EXCEPT !.lsn = m.final, !.inStream = FALSE]
      [] m.type \in {"streamstop", "streamabort"} -> [parser EXCEPT !.inStream = FALSE]
      [] OTHER                   -> parser

\* stampCommitLSN: every buffered event gets the commit LSN.
Stamped(buf, lsn) == [i \in DOMAIN buf |-> [buf[i] EXCEPT !.lsn = lsn]]

\* The walReceiveState after message m, and where the connector goes next.
Handle(m) ==
    LET s == [st EXCEPT !.pos = AtLeast(@, m.lsn + MsgLen), !.then = "recv"] IN
    CASE m.type \in Row ->
            LET buf == Append(st.walBuf, NewEvent(m)) IN
            /\ st' = [s EXCEPT !.walBuf = buf]
            /\ pc' = IF Len(buf) >= Threshold /\ ~st.open THEN "flush" ELSE "recv"
      [] m.type = "streamstart" ->
            st' = [s EXCEPT !.open = TRUE] /\ pc' = "recv"
      [] m.type = "streamabort" ->
            st' = [s EXCEPT !.walBuf = <<>>, !.open = FALSE] /\ pc' = "save"
      [] m.type \in {"commit", "streamcommit"} ->
            /\ st' = [s EXCEPT !.walBuf = IF m.type = "commit" THEN @
                                          ELSE Stamped(@, m.final),
                               !.open = FALSE, !.then = "save"]
            /\ pc' = IF st.walBuf = <<>> THEN "save" ELSE "flush"
      [] OTHER -> st' = s /\ pc' = "recv"

HandleXLogData ==
    /\ pc = "recv" /\ snd.out # <<>>
    /\ snd' = [snd EXCEPT !.out = Tail(@)]
    /\ LET m == Head(snd.out) IN
          IF Garbled(m) THEN UNCHANGED <<parser, st, pc>>
          ELSE parser' = Parsed(m) /\ Handle(m)
    /\ UNCHANGED <<dbVars, slot, need, wasEver, durVars, boundVars>>

\* An event with the same idempotency key is in the log.
Duplicate(e) == \E i \in DOMAIN log : log[i].lsn = e.lsn /\ log[i].cs = e.cs

\* flushWALBuf, one event of the buffer: AppendBatch commits in chunks, so a
\* failure can leave any prefix of the buffer in the log.
FlushWALBuf ==
    /\ pc = "flush"
    /\ log' = IF Duplicate(Head(st.walBuf)) THEN log ELSE Append(log, Head(st.walBuf))
    /\ st' = [st EXCEPT !.walBuf = Tail(@)]
    /\ pc' = IF Len(st.walBuf) = 1 THEN st.then ELSE "flush"
    /\ UNCHANGED <<dbVars, slot, snd, need, wasEver, parser, ckpt, covered, boundVars>>

\* checkpointLSN
CheckpointLSN ==
    /\ pc = "save"
    /\ ckpt' = st.pos
    /\ st' = [st EXCEPT !.saved = st.pos]
    /\ pc' = "ack"
    /\ UNCHANGED <<dbVars, slot, snd, need, wasEver, parser, log, covered, boundVars>>

\* sendStandbyStatus after a checkpoint.
AckCheckpoint ==
    /\ pc = "ack"
    /\ slot' = AtLeast(slot, st.pos)
    /\ pc' = "recv"
    /\ UNCHANGED <<dbVars, snd, need, wasEver, st, parser, durVars, boundVars>>

AckLSN == IF st.pos > st.saved THEN st.saved ELSE st.pos

\* sendStandbyStatus on the heartbeat or on a requested reply.
Heartbeat ==
    /\ pc = "recv"
    /\ slot' = AtLeast(slot, AckLSN)
    /\ slot' # slot
    /\ UNCHANGED <<dbVars, connVars, durVars, boundVars>>

\* A keepalive carries the end of the WAL the walsender has decoded.
Keepalive ==
    /\ pc = "recv" /\ snd.out = <<>>
    /\ EndOf(snd.pos) > st.pos
    /\ st' = [st EXCEPT !.pos = EndOf(snd.pos)]
    /\ UNCHANGED <<dbVars, slot, snd, pc, need, wasEver, parser, durVars, boundVars>>

-----------------------------------------------------------------------------
(* Failures.                                                               *)

\* The receive state is gone; the parser outlives the session.
SessionEnds(was) ==
    /\ pc' = "down" /\ wasEver' = was /\ need' = FALSE
    /\ snd' = NoSession /\ st' = NewState(0)

\* The new slot exists and the re-snapshot is not yet recorded.
Recovering == need /\ pc = "reset"

\* connectAndStream returns: the connection broke, or an append, a save or a
\* send failed.  Run calls it again.
LoseConnection ==
    /\ faults < MaxFaults
    /\ Fragile \/ ~Recovering
    /\ faults' = faults + 1
    /\ SessionEnds(TRUE)
    /\ UNCHANGED <<dbVars, slot, parser, durVars, losses>>

Restart ==
    /\ faults < MaxFaults
    /\ Fragile \/ (slot # NoSlot /\ ~Recovering)
    /\ faults' = faults + 1
    /\ SessionEnds(FALSE) /\ parser' = NewParser
    /\ UNCHANGED <<dbVars, slot, durVars, losses>>

\* A failover, or an operator: the slot is gone and the session with it.
LoseSlot ==
    /\ slot # NoSlot /\ losses < MaxLosses
    /\ Fragile \/ (~Recovering /\ (wasEver \/ pc # "down"))
    /\ losses' = losses + 1
    /\ slot' = NoSlot
    /\ SessionEnds(wasEver \/ pc # "down")
    /\ UNCHANGED <<dbVars, parser, durVars, faults>>

-----------------------------------------------------------------------------
\* The first run has created the slot; the initial snapshot is Backfill's.
Init ==
    /\ wal = <<>> /\ history = <<>> /\ slot = 0
    /\ pc = "down" /\ need = FALSE /\ wasEver = FALSE
    /\ snd = NoSession /\ st = NewState(0) /\ parser = NewParser
    /\ ckpt = 0 /\ log = <<>> /\ covered = 0
    /\ faults = 0 /\ losses = 0

Database == \E x \in Txn : WriteRow(x) \/ Commit(x) \/ Abort(x)

Connector ==
    \/ EnsureSlot \/ ResetBackfill \/ StartReplication
    \/ Decode \/ HandleXLogData \/ FlushWALBuf \/ CheckpointLSN \/ AckCheckpoint

Next ==
    \/ Database \/ Connector
    \/ Heartbeat \/ Keepalive
    \/ LoseConnection \/ Restart \/ LoseSlot

Spec == Init /\ [][Next]_svars

\* Transactions end, and Run keeps the connector going.
Fairness == WF_svars(Database) /\ WF_svars(Connector)

-----------------------------------------------------------------------------
(* Properties.                                                             *)

Event == [x : Txn, n : Nat, lsn : Nat, cs : Nat]

TypeOK ==
    /\ wal \in Seq(Txn \X {"row", "commit", "abort"})
    /\ history \in Seq(Txn \X Nat)
    /\ slot \in Nat \cup {NoSlot}
    /\ pc \in {"down", "reset", "start", "recv", "flush", "save", "ack"}
    /\ need \in BOOLEAN /\ wasEver \in BOOLEAN
    /\ st \in [walBuf : Seq(Event), open : BOOLEAN, pos : Nat, saved : Nat,
               then : {"recv", "save"}]
    /\ parser \in [lsn : Nat, cs : Nat, inStream : BOOLEAN]
    /\ ckpt \in Nat /\ log \in Seq(Event) /\ covered \in 0..Len(history)

ChangeOf(e) == <<e.x, e.n>>

InLog(ch) == \E i \in DOMAIN log : ChangeOf(log[i]) = ch

CommitRecord(x) == CHOOSE i \in DOMAIN wal : wal[i] = <<x, "commit">>

\* The LSN from which a new session would decode.
Resume == AtLeast(slot, IF ckpt = 0 THEN 0 ELSE ckpt + 1)

\* CHK-01: a committed change that no later session would be sent again is in
\* the event log, or a re-snapshot that covers it has been recorded.
NoLoss ==
    slot # NoSlot /\ ~need =>
        \A i \in DOMAIN history :
            (i > covered /\ StartOf(CommitRecord(history[i][1])) < Resume)
                => InLog(history[i])

\* CHK-01, its other half: the server is told of no position behind which the
\* checkpoint store would not resume, on a commit, a heartbeat or a requested reply.
AcksOnlySaved ==
    [][slot' # slot /\ slot # NoSlot /\ slot' # NoSlot => slot' <= ckpt]_svars

CL == INSTANCE ChangeLog
          WITH log <- [i \in DOMAIN log |-> ChangeOf(log[i])]

\* The connector implements ChangeLog: whatever is resent after lost sessions
\* and partial appends, the log has each committed change once, in commit
\* order, and nothing of an aborted transaction.
ImplementsChangeLog == CL!Spec

\* Every committed change reaches the log or a re-snapshot.
EventuallyLogged ==
    \A x \in Txn :
        (RecordsOf(x, "commit") # {}) ~>
            (\A i \in DOMAIN history :
                history[i][1] = x => i <= covered \/ InLog(history[i]))
=============================================================================
