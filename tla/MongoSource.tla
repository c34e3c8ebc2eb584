---------------------------- MODULE MongoSource -----------------------------
(***************************************************************************)
(* internal/source/mongodb/connector.go: one goroutine per collection      *)
(* follows a change stream, appends batches to the EventLog and then saves *)
(* the resume token of the last document it read.  The goroutines share    *)
(* the log without a lock.                                                 *)
(*                                                                         *)
(* A resume token is the position of a change in its collection; 0 is the  *)
(* empty token.                                                            *)
(***************************************************************************)
EXTENDS EventLog

CONSTANTS
    DocKeys,        \* the document keys of each collection
    OldOps,         \* the changes made before the first start
    BatchSize,      \* maxChangeStreamBatchSize
    Reported,       \* the collections whose lost position the server reports with code
                    \* 260 (InvalidResumeToken); for the others it is another error,
                    \* such as 286 (ChangeStreamHistoryLost)
    Transactions,   \* whether changes of one transaction share a cluster time
    MaxOps,         \* bound: changes per collection
    MaxFaults       \* bound: failed calls, lost streams and restarts

Colls == Writers

\* A change: its document, whether the normalizer can read it, its cluster time.
Op(c) == [key : DocKeys[c], ok : BOOLEAN, time : Nat]

ASSUME MongoAssumption ==
    /\ DOMAIN DocKeys = Writers /\ ~Locked
    /\ \A c \in Colls : DocKeys[c] \subseteq DOMAIN PartitionOf
    /\ OldOps \in [Colls -> Seq([key : DOMAIN PartitionOf, ok : BOOLEAN, time : Nat])]
    /\ \A c \in Colls : /\ OldOps[c] \in Seq(Op(c)) /\ Len(OldOps[c]) > 0
                        /\ \A i \in DOMAIN OldOps[c] : OldOps[c][i].time <= i
    /\ BatchSize \in Nat \ {0} /\ Transactions \in BOOLEAN
    /\ Reported \subseteq Writers

VARIABLES
    ops,      \* the changes of each collection
    gone,     \* changes of each collection that the oplog no longer has
    store,    \* the checkpoint store: saved token of each collection
    legacy,   \* the token an older version saved for the whole source
    tok,      \* resumeTokens, in memory
    pc,       \* each runCollection: "open", "next", "drain", "append", "save", "ended"
    pos,      \* last change each stream has returned, whose token is lastToken
    batch,    \* the events that consumeStream has drained and not yet appended
    snap,     \* needsSnapshot: Run has returned
    base,     \* history: the change behind which tokens are saved
    faults

mongoVars == <<ops, gone, store, legacy, tok, pc, pos, batch, snap, base, faults>>
vars == <<mongoVars, logVars>>

\* loadResumeTokenFromStore, with the legacy key as fallback.
Loaded(c) == IF store[c] = 0 THEN legacy ELSE store[c]

\* A cluster time after those of c's changes.
Now(c) == Len(ops[c]) + 1

\* A change of the database (external); a document may be one the normalizer
\* cannot read, and may share its cluster time with the change before.
Change(c) ==
    /\ Len(ops[c]) < MaxOps
    /\ \E k \in DocKeys[c], good \in BOOLEAN :
         \E t \in {Now(c)} \cup (IF Transactions THEN {ops[c][Len(ops[c])].time} ELSE {}) :
             ops' = [ops EXCEPT ![c] = Append(@, [key |-> k, ok |-> good, time |-> t])]
    /\ UNCHANGED <<gone, store, legacy, tok, pc, pos, batch, snap, base, faults, logVars>>

\* The oplog rolls over (external).
Truncate(c) ==
    /\ gone[c] < Len(ops[c]) /\ faults < MaxFaults
    /\ gone' = [gone EXCEPT ![c] = Len(ops[c])]
    /\ faults' = faults + 1
    /\ UNCHANGED <<ops, store, legacy, tok, pc, pos, batch, snap, base, logVars>>

\* watchFn: after the token, or at the head of the stream without one.
Open(c) ==
    /\ pc[c] = "open" /\ (tok[c] # 0 => tok[c] >= gone[c])
    /\ pos' = [pos EXCEPT ![c] = IF tok[c] # 0 THEN tok[c] ELSE Len(ops[c])]
    /\ pc' = [pc EXCEPT ![c] = "next"]
    /\ UNCHANGED <<ops, gone, store, legacy, tok, batch, snap, base, faults, logVars>>

\* isInvalidResumeToken: the goroutine returns needsSnapshot.  Run itself only
\* returns, and sets the flag, when every collection's goroutine has.
Invalid(c) ==
    /\ c \in Reported
    /\ \/ pc[c] = "open" /\ tok[c] # 0 /\ tok[c] < gone[c]
       \/ pc[c] = "next" /\ pos[c] < gone[c]
    /\ pc' = [pc EXCEPT ![c] = "ended"]
    /\ snap' = (\A d \in Colls : pc'[d] = "ended")
    /\ UNCHANGED <<ops, gone, store, legacy, tok, pos, batch, base, faults, logVars>>

\* Any other error of a stream that cannot go on: it is opened again, which fails as
\* well, after every backoff, when there is a token.
StreamLost(c) ==
    /\ c \notin Reported
    /\ pc[c] = "next" /\ pos[c] < gone[c]
    /\ pc' = [pc EXCEPT ![c] = "open"]
    /\ UNCHANGED <<ops, gone, store, legacy, tok, pos, batch, snap, base, faults, logVars>>

\* NormalizeChangeEvent: the idempotency key is made of collection, document
\* key, operation and cluster time.
Normalized(c, o) == [id |-> <<c, o.key, o.time>>, key |-> o.key]

Drained(c, o) == IF o.ok THEN Append(batch[c], Normalized(c, o)) ELSE batch[c]

\* Mutant of DecodeNext: a document that cannot be normalized ends the stream,
\* which is opened again at the last token.
DecodeNextStrict(c) ==
    LET o == ops[c][pos[c] + 1] IN
    IF o.ok
    THEN /\ pos' = [pos EXCEPT ![c] = @ + 1]
         /\ batch' = [batch EXCEPT ![c] = Drained(c, o)]
         /\ pc' = [pc EXCEPT ![c] = "drain"]
    ELSE /\ batch' = [batch EXCEPT ![c] = <<>>]
         /\ pc' = [pc EXCEPT ![c] = "open"] /\ UNCHANGED pos

\* decodeNext: a document that cannot be read is skipped, but not its token.
DecodeNext(c) ==
    /\ pos' = [pos EXCEPT ![c] = @ + 1]
    /\ batch' = [batch EXCEPT ![c] = Drained(c, ops[c][pos[c] + 1])]
    /\ pc' = [pc EXCEPT ![c] = "drain"]

\* Next returns the first change of a batch, TryNext further ones that are there
\* until the batch is full.
ReadNext(c) ==
    /\ \/ pc[c] = "next" \/ (pc[c] = "drain" /\ Len(batch[c]) < BatchSize)
    /\ gone[c] <= pos[c] /\ pos[c] < Len(ops[c])
    /\ DecodeNext(c)
    /\ UNCHANGED <<ops, gone, store, legacy, tok, snap, base, faults, logVars>>

\* Mutant of Flush: the token is saved before the batch is appended.
FlushSavesFirst(c) ==
    /\ pc[c] = "drain"
    /\ store' = [store EXCEPT ![c] = pos[c]] /\ tok' = [tok EXCEPT ![c] = pos[c]]
    /\ IF batch[c] = <<>>
       THEN pc' = [pc EXCEPT ![c] = "save"] /\ UNCHANGED logVars
       ELSE pc' = [pc EXCEPT ![c] = "append"] /\ Prepare(c, batch[c])
    /\ batch' = [batch EXCEPT ![c] = <<>>]
    /\ UNCHANGED <<ops, gone, legacy, pos, snap, base, faults>>

\* The batch is full or TryNext found the driver's buffer empty: the batch is
\* appended, or only its token saved if no document was good.
Flush(c) ==
    /\ pc[c] = "drain"
    /\ IF batch[c] = <<>>
       THEN pc' = [pc EXCEPT ![c] = "save"] /\ UNCHANGED logVars
       ELSE pc' = [pc EXCEPT ![c] = "append"] /\ Prepare(c, batch[c])
    /\ batch' = [batch EXCEPT ![c] = <<>>]
    /\ UNCHANGED <<ops, gone, store, legacy, tok, pos, snap, base, faults>>

Commit(c) == CommitChunk(c) /\ UNCHANGED mongoVars

Appended(c) ==
    /\ pc[c] = "append" /\ AppendReturns(c)
    /\ pc' = [pc EXCEPT ![c] = "save"]
    /\ UNCHANGED <<ops, gone, store, legacy, tok, pos, batch, snap, base, faults>>

\* saveResumeToken: the store, then the token in memory.
SaveToken(c) ==
    /\ pc[c] = "save"
    /\ store' = [store EXCEPT ![c] = pos[c]]
    /\ tok' = [tok EXCEPT ![c] = pos[c]]
    /\ base' = [base EXCEPT ![c] = IF tok[c] = 0 THEN pos[c] ELSE @]
    /\ pc' = [pc EXCEPT ![c] = "next"]
    /\ UNCHANGED <<ops, gone, legacy, pos, batch, snap, faults, logVars>>

\* The stream breaks, or the append or the save fails: after a backoff the
\* stream is opened again.
StreamFails(c) ==
    /\ pc[c] \in {"next", "append", "save"} /\ faults < MaxFaults
    /\ IF pc[c] = "append" THEN AppendFails(c) ELSE UNCHANGED logVars
    /\ pc' = [pc EXCEPT ![c] = "open"]
    /\ faults' = faults + 1
    /\ UNCHANGED <<ops, gone, store, legacy, tok, pos, batch, snap, base>>

Restart ==
    /\ faults < MaxFaults
    /\ Reopen
    /\ tok' = [c \in Colls |-> Loaded(c)]
    /\ pc' = [c \in Colls |-> "open"] /\ batch' = [c \in Colls |-> <<>>]
    /\ snap' = FALSE
    /\ faults' = faults + 1
    /\ UNCHANGED <<ops, gone, store, legacy, pos, base>>

\* The first start of this version: a legacy token may be in the store.
Init ==
    /\ LogInit
    /\ ops = OldOps
    /\ legacy \in {0, 1}
    /\ gone = [c \in Colls |-> 0]
    /\ store = [c \in Colls |-> 0]
    /\ tok = [c \in Colls |-> legacy]
    /\ base = [c \in Colls |-> legacy]
    /\ pc = [c \in Colls |-> "open"] /\ batch = [c \in Colls |-> <<>>]
    /\ pos = [c \in Colls |-> 0]
    /\ snap = FALSE /\ faults = 0

Collection(c) ==
    \/ Open(c) \/ Invalid(c) \/ StreamLost(c) \/ ReadNext(c) \/ Flush(c)
    \/ Commit(c) \/ Appended(c) \/ SaveToken(c)

Next ==
    \/ \E c \in Colls : Change(c) \/ Truncate(c) \/ Collection(c) \/ StreamFails(c)
    \/ Restart

Spec == Init /\ [][Next]_vars /\ \A c \in Colls : WF_vars(Collection(c))

-----------------------------------------------------------------------------
TypeOK ==
    /\ \A c \in Colls : /\ gone[c] \in 0..Len(ops[c]) /\ pos[c] \in 0..Len(ops[c])
                        /\ store[c] \in 0..Len(ops[c]) /\ tok[c] \in 0..Len(ops[c])
    /\ pc \in [Colls -> {"open", "next", "drain", "append", "save", "ended"}]
    /\ snap \in BOOLEAN

\* CHK-01: from the first saved token on, every change at or before the saved
\* token that can be read is in the log, whatever batches failed, were resent
\* or interrupted by a restart.
NoHole ==
    \A c \in Colls : \A i \in (base[c] + 1)..store[c] :
        ops[c][i].ok => InLog(Normalized(c, ops[c][i]).id)

\* The changes of one document are in the log in the order they were made, each
\* once (LOG-03), although the collections append without a lock.
DocumentOrder ==
    \A c \in Colls : \A i, j \in DOMAIN ops[c] :
        i <= j /\ ops[c][i].key = ops[c][j].key =>
            \A a, b \in log[PartitionOf[ops[c][i].key]] :
                a.ev.id = Normalized(c, ops[c][i]).id /\ b.ev.id = Normalized(c, ops[c][j]).id
                    => IF i = j THEN a = b ELSE a.seq < b.seq

\* The oplog no longer has the change after the position that c goes on from.
Lost(c) == IF tok[c] # 0 THEN tok[c] < gone[c] ELSE pos[c] < gone[c]

\* A bad document, a failure or a restart stalls no collection for ever: each stream
\* catches up with its collection, also after the oplog has rolled over, unless its
\* own position is lost.  Then it stalls for good, whether its goroutine has ended
\* with needsSnapshot or goes on opening the stream: no snapshot follows.
CatchesUp ==
    \A c \in Colls :
        <>[](pc[c] = "next" /\ pos[c] = Len(ops[c])) \/ <>[]Lost(c)
=============================================================================
