------------------------------ MODULE EventLog ------------------------------
(***************************************************************************)
(* internal/eventlog/badger.go as its writers use it.                      *)
(*                                                                         *)
(* AppendBatch takes a sequence number for every event, then commits the   *)
(* batch in chunks that skip known idempotency keys, then tells observers. *)
(* Readers look at the partitions between any two of these steps.  The     *)
(* Postgres connector serializes its writers with appendMu, the MongoDB    *)
(* connector does not (Locked).                                            *)
(***************************************************************************)
EXTENDS Integers, Sequences, FiniteSets

CONSTANTS
    Writers,      \* goroutines that append
    PartitionOf,  \* the partition of each grouping key
    Locked,       \* whether the writers share appendMu
    ChunkSize     \* events that fit into one Badger transaction

ASSUME EventLogAssumption ==
    Locked \in BOOLEAN /\ ChunkSize \in Nat \ {0}

VARIABLES
    log,          \* committed entries of each partition: sets of [seq, ev]
    nextSeq,      \* the next sequence number of each partition
    call,         \* the AppendBatch call of each writer
    appendMu      \* the writer that holds appendMu, as a set

logVars == <<log, nextSeq, call, appendMu>>

Partitions == {PartitionOf[k] : k \in DOMAIN PartitionOf}

NoCall == [busy |-> FALSE, items |-> <<>>, done |-> 0, written |-> {}]

\* Events have an idempotency key (id) and a grouping key (key).
PartOf(e) == PartitionOf[e.key]

InLog(id) == \E p \in Partitions : \E it \in log[p] : it.ev.id = id

\* Phase 1: sequence numbers, outside of the transaction.
Numbered(evs) ==
    [i \in DOMAIN evs |->
        [ev |-> evs[i],
         seq |-> nextSeq[PartOf(evs[i])]
                   + Cardinality({j \in 1..(i - 1) : PartOf(evs[j]) = PartOf(evs[i])})]]

\* Mutant of Prepare: appendMu is not taken.
PrepareUnlocked(w, evs) ==
    /\ ~call[w].busy
    /\ nextSeq' = [p \in Partitions |->
                      nextSeq[p] + Cardinality({i \in DOMAIN evs : PartOf(evs[i]) = p})]
    /\ call' = [call EXCEPT ![w] = [NoCall EXCEPT !.busy = TRUE, !.items = Numbered(evs)]]
    /\ UNCHANGED <<log, appendMu>>

Prepare(w, evs) ==
    /\ ~call[w].busy
    /\ Locked => appendMu = {}
    /\ appendMu' = IF Locked THEN {w} ELSE appendMu
    /\ nextSeq' = [p \in Partitions |->
                      nextSeq[p] + Cardinality({i \in DOMAIN evs : PartOf(evs[i]) = p})]
    /\ call' = [call EXCEPT ![w] = [NoCall EXCEPT !.busy = TRUE, !.items = Numbered(evs)]]
    /\ UNCHANGED log

\* chunkRanges: the next chunk of w's batch.
Chunk(w) ==
    LET c == call[w]
        n == IF c.done + ChunkSize < Len(c.items) THEN c.done + ChunkSize ELSE Len(c.items)
    IN  SubSeq(c.items, c.done + 1, n)

\* Mutant of New: the dedup index is not consulted.
NewUnchecked(chunk) == {chunk[i] : i \in DOMAIN chunk}

\* commitChunk: the items whose idempotency key is new.
New(chunk) ==
    {chunk[i] : i \in {j \in DOMAIN chunk :
        /\ ~InLog(chunk[j].ev.id)
        /\ \A k \in 1..(j - 1) : chunk[k].ev.id # chunk[j].ev.id}}

CommitChunk(w) ==
    /\ call[w].busy /\ call[w].done < Len(call[w].items)
    /\ log' = [p \in Partitions |->
                  log[p] \cup {it \in New(Chunk(w)) : PartOf(it.ev) = p}]
    /\ call' = [call EXCEPT ![w].done = @ + Len(Chunk(w)),
                            ![w].written = @ \cup {it.ev : it \in New(Chunk(w))}]
    /\ UNCHANGED <<nextSeq, appendMu>>

\* The call is over: the caller gets its result and releases appendMu.
Return(w) ==
    /\ call' = [call EXCEPT ![w] = NoCall]
    /\ appendMu' = appendMu \ {w}
    /\ UNCHANGED <<log, nextSeq>>

\* A chunk fails: AppendBatch returns the error without telling observers.
AppendFails(w) ==
    /\ call[w].busy /\ call[w].done < Len(call[w].items)
    /\ Return(w)

\* notifyObservers with call[w].written (the observer's part is the caller's),
\* then AppendBatch returns.
AppendReturns(w) ==
    /\ call[w].busy /\ call[w].done = Len(call[w].items)
    /\ Return(w)

\* The process dies: the sequence leases of the partitions may be lost.
Reopen ==
    /\ call' = [w \in Writers |-> NoCall]
    /\ appendMu' = {}
    /\ UNCHANGED <<log, nextSeq>>

LogInit ==
    /\ log = [p \in Partitions |-> {}]
    /\ nextSeq = [p \in Partitions |-> 1]
    /\ call = [w \in Writers |-> NoCall]
    /\ appendMu = {}

\* What ReadPartition finds, over all partitions.
Entries == UNION {log[p] : p \in Partitions}

-----------------------------------------------------------------------------
\* The log grows only by new events (LOG-03), whatever is resent after failures
\* and crashes, and only at its end: a reader resumes after the last sequence
\* number it has seen (ReadPartition, Router.runPartition), so no entry may appear
\* behind one that is already there.
GrowsAtEnd ==
    [][\A p \in Partitions : \A new \in log'[p] \ log[p] :
           /\ \A old \in log[p] : new.seq > old.seq
           /\ \A e \in UNION {log'[q] : q \in Partitions} : e.ev.id = new.ev.id => e = new]_log
=============================================================================
