------------------------------ MODULE Streams -------------------------------
(***************************************************************************)
(* internal/output/sse and internal/output/grpc: one client connection as  *)
(* a consumer of the router, from registration to the end of its handler.  *)
(*                                                                         *)
(* Each partition goroutine of the router calls Deliver and, for SSE,      *)
(* FlushBatch; the retry goroutine calls Deliver alone; the handler        *)
(* (ServeHTTP, Subscribe) sends, pings and closes.  Every partition holds  *)
(* one message group here; modules Router and RetryScheduler have several, *)
(* and the interleavings within dispatch and drainGroup.                   *)
(***************************************************************************)
EXTENDS Integers, Sequences, FiniteSets, SequencesExt

CONSTANTS
    StreamLog,       \* StreamLog[p]: the events of partition p
    StreamFilter,    \* EventFilter: [tables, operations], an empty set allows all
    ColFilterSets,   \* colFilterSets: the columns allowed of each filtered table
    ChanSize,        \* capacity of GRPCConsumer.ch (64 in the code)
    BufSize,         \* frames that net/http's response buffer holds
    MaxRereads       \* bound: windows that are read again

ASSUME StreamAssumption ==
    ChanSize \in Nat \ {0} /\ BufSize \in Nat \ {0} /\ MaxRereads \in Nat

Parts == DOMAIN StreamLog

VARIABLES
    proto,       \* "sse" or "grpc"
    closed,      \* Close was called
    at,          \* per partition: the entry dispatch has come to in its window
    cursor,      \* per partition: cursorByPartition of the consumer
    prov,        \* per partition: provisionalByPartition, 0 if there is none
    queue,       \* per partition: the blocked group in the retry scheduler
    rereads,     \* windows that began before the end of the last one
    failed,      \* history: entries whose Deliver failed in dispatch
    dead,        \* entries dead-lettered
    ch, hand,    \* gRPC: the channel; the event Subscribe is sending
    buf, mid,    \* SSE: the response buffer; the frame Deliver is writing, under mu
    sticky,      \* SSE: a write to the connection has failed; all later ones do
    wire         \* what has reached the client
routerVars == <<at, cursor, prov, queue, rereads, failed, dead>>
connVars == <<ch, hand, buf, mid, wire>>
streamVars == <<proto, closed, sticky, routerVars, connVars>>

Nobody == <<>>
Entry(p, i) == StreamLog[p][i]
Larger(m, n) == IF m > n THEN m ELSE n

-----------------------------------------------------------------------------
(* Filters.                                                                 *)

\* EventFilter.Allow
Allow(ev) ==
    /\ StreamFilter.tables = {} \/ ev.table \in StreamFilter.tables
    /\ StreamFilter.operations = {} \/ ev.op \in StreamFilter.operations

\* ApplyColumnFilterSet: a table without an allow-list, and an empty list, pass.
ColumnFilterSet(ev) ==
    IF ev.table \in DOMAIN ColFilterSets /\ ColFilterSets[ev.table] # {}
    THEN ev.columns \cap ColFilterSets[ev.table]
    ELSE ev.columns

\* What Deliver makes of an event before it touches the connection; ev.row is what
\* RowFilter.Match answers (module Rules): "yes", "no" or "error" for a bad row.
Verdict(ev) ==
    CASE ~Allow(ev) \/ ev.row = "no" -> "filtered"
      [] Allow(ev) /\ ev.row = "error" -> "permanent"
      [] OTHER -> "send"

Message(p, i) == [part |-> p, index |-> i, columns |-> ColumnFilterSet(Entry(p, i))]

-----------------------------------------------------------------------------
(* What dispatch ("dispatch") and drainGroup ("retry") do with an entry.     *)

\* The entry that a goroutine holds: the next of the window if its key is not
\* blocked, the head of the blocked group.
Holds(who, p) ==
    IF who = "dispatch"
    THEN (IF queue[p] = <<>> /\ at[p] \in DOMAIN StreamLog[p] THEN {at[p]} ELSE {})
    ELSE (IF queue[p] # <<>> THEN {Head(queue[p])} ELSE {})

Pop(p) == queue' = [queue EXCEPT ![p] = Tail(@)]

\* Deliver returned nil.  The SSE consumer is a BatchFlusher, so dispatch advances
\* its cursor provisionally; drainGroup pops the record and waits for no flush.
Succeeds(who, p) ==
    IF who = "retry" THEN Pop(p) /\ UNCHANGED <<at, cursor, prov, rereads, failed, dead>>
    ELSE
      /\ at' = [at EXCEPT ![p] = @ + 1]
      /\ IF proto = "grpc" THEN cursor' = [cursor EXCEPT ![p] = at[p] + 1] /\ UNCHANGED prov
         ELSE prov' = [prov EXCEPT ![p] = at[p] + 1] /\ UNCHANGED cursor
      /\ UNCHANGED <<queue, rereads, failed, dead>>

\* Mutant: dispatch moves on without blocking the key.
FailsForgets(who, p) ==
    IF who = "dispatch"
    THEN /\ at' = [at EXCEPT ![p] = @ + 1] /\ cursor' = [cursor EXCEPT ![p] = at[p] + 1]
         /\ failed' = failed \cup {<<p, at[p]>>}
         /\ UNCHANGED <<queue, prov, rereads, dead>>
    ELSE dead' = dead \cup {<<p, Head(queue[p])>>} /\ Pop(p) /\ UNCHANGED <<at, cursor, prov, rereads, failed>>

\* Deliver returned an error: dispatch blocks the key and leaves the cursor where it
\* is; drainGroup dead-letters at once or after the last retry, else it tries again.
Fails(who, p) ==
    IF who = "dispatch" THEN
      /\ at' = [at EXCEPT ![p] = @ + 1]
      /\ queue' = [queue EXCEPT ![p] = Append(@, at[p])]
      /\ failed' = failed \cup {<<p, at[p]>>}
      /\ UNCHANGED <<cursor, prov, rereads, dead>>
    ELSE
      /\ dead' = dead \cup {<<p, Head(queue[p])>>} /\ Pop(p)
      /\ UNCHANGED <<at, cursor, prov, rereads, failed>>

\* The key is blocked: the entry is queued behind its predecessors, and the cursor
\* passes it together with all that is only buffered.
Enqueue(p) ==
    /\ queue[p] # <<>> /\ at[p] \in DOMAIN StreamLog[p]
    /\ ~\E m \in ToSet(mid) : m.by = "dispatch" /\ m.part = p
    /\ queue' = [queue EXCEPT ![p] = Append(@, at[p])]
    /\ at' = [at EXCEPT ![p] = @ + 1] /\ cursor' = [cursor EXCEPT ![p] = at[p] + 1]
    /\ UNCHANGED <<proto, closed, sticky, prov, rereads, failed, dead, connVars>>

\* Deliver returns nil for an event that the filters drop; an SSE connection that is
\* closed refuses before it filters.
Free == proto = "sse" => mid = Nobody

DeliverFiltered(who, p) ==
    /\ Free /\ ~(proto = "sse" /\ closed)
    /\ \E i \in Holds(who, p) : Verdict(Entry(p, i)) = "filtered"
    /\ Succeeds(who, p)
    /\ UNCHANGED <<proto, closed, sticky, connVars>>

\* Deliver's errors: a row filter that fails (PermanentError), a full channel or a
\* closed one, a closed or broken SSE connection.
Refused(p, i) ==
    LET v == Verdict(Entry(p, i)) IN
    \/ v = "permanent"
    \/ proto = "grpc" /\ v = "send" /\ (closed \/ Len(ch) = ChanSize)
    \/ proto = "sse" /\ (closed \/ (sticky /\ v = "send"))

DeliverFails(who, p) ==
    /\ Free /\ \E i \in Holds(who, p) : Refused(p, i)
    /\ Fails(who, p)
    /\ UNCHANGED <<proto, closed, sticky, connVars>>

\* The window ends, after any number of entries, and the next one is read from the
\* cursor: an entry that failed last is met again.
NextWindow(p, c) ==
    /\ at[p] > c => rereads < MaxRereads
    /\ cursor' = [cursor EXCEPT ![p] = c] /\ at' = [at EXCEPT ![p] = c]
    /\ prov' = [prov EXCEPT ![p] = 0]
    /\ rereads' = IF at[p] > c THEN rereads + 1 ELSE rereads
    /\ UNCHANGED <<proto, closed, sticky, queue, failed, dead>>

\* The client leaves: the request's context ends and the handler's deferred Close
\* runs.  SSE's Close waits for mu.
CloseStream ==
    /\ ~closed /\ closed' = TRUE /\ Free
    /\ UNCHANGED <<proto, sticky, routerVars, connVars>>

-----------------------------------------------------------------------------
(* gRPC.                                                                    *)

\* Mutant: a slow client loses the oldest event of the channel.
ChannelSendEvicts(p, i) ==
    ch' = Append(IF Len(ch) = ChanSize THEN Tail(ch) ELSE ch, Message(p, i))

\* The select of Deliver: with room in the channel the send may be chosen even if
\* done is closed; a full channel is an error.
ChannelSend(p, i) == Len(ch) < ChanSize /\ ch' = Append(ch, Message(p, i))

GRPCDeliver(who, p) ==
    /\ proto = "grpc"
    /\ \E i \in Holds(who, p) : Verdict(Entry(p, i)) = "send" /\ ChannelSend(p, i)
    /\ Succeeds(who, p)
    /\ UNCHANGED <<proto, closed, sticky, hand, buf, mid, wire>>

GRPCWindowEnds(p) ==
    /\ proto = "grpc" /\ at[p] > cursor[p] /\ NextWindow(p, cursor[p])
    /\ UNCHANGED connVars

SubscribeTakes ==
    /\ proto = "grpc" /\ ~closed /\ hand = Nobody /\ ch # <<>>
    /\ hand' = <<Head(ch)>> /\ ch' = Tail(ch)
    /\ UNCHANGED <<proto, closed, sticky, routerVars, buf, mid, wire>>

\* stream.Send, outside every lock of the router.
SubscribeSends ==
    /\ proto = "grpc" /\ ~closed /\ hand # Nobody
    /\ wire' = wire \o hand /\ hand' = Nobody
    /\ UNCHANGED <<proto, closed, sticky, routerVars, ch, buf, mid>>

-----------------------------------------------------------------------------
(* SSE.                                                                     *)

\* A write goes to the response buffer; net/http writes out what does not fit.
Put(frame) ==
    IF Len(buf) < BufSize THEN buf' = Append(buf, frame) /\ UNCHANGED wire
    ELSE buf' = <<frame>> /\ wire' = wire \o buf

Flush == wire' = wire \o buf /\ buf' = <<>>

\* Deliver: the id line, ...
SSEDeliverHead(who, p) ==
    /\ proto = "sse" /\ Free /\ ~closed /\ ~sticky
    /\ \E i \in Holds(who, p) :
          /\ Verdict(Entry(p, i)) = "send"
          /\ mid' = <<[part |-> p, by |-> who, message |-> Message(p, i)]>>
          /\ Put([line |-> "id", message |-> Message(p, i)])
    /\ UNCHANGED <<proto, closed, sticky, routerVars, ch, hand>>

\* ... and the payload, without a flush.
SSEDeliverBody(who, p) ==
    /\ \E m \in ToSet(mid) :
          /\ m.part = p /\ m.by = who
          /\ IF sticky THEN UNCHANGED <<buf, wire>> /\ Fails(who, p)
             ELSE Put([line |-> "data", message |-> m.message]) /\ Succeeds(who, p)
    /\ mid' = Nobody
    /\ UNCHANGED <<proto, closed, sticky, ch, hand>>

\* The connection breaks under a write, a flush or a ping.
WriteFails ==
    /\ proto = "sse" /\ ~sticky /\ sticky' = TRUE
    /\ UNCHANGED <<proto, closed, routerVars, connVars>>

\* FlushBatch after a window.  A closed connection has nothing to flush and returns
\* nil; when the flush fails, the provisional cursor is discarded.
SSEWindowEnds(p) ==
    /\ proto = "sse" /\ Free
    /\ at[p] > cursor[p] \/ prov[p] > 0
    /\ NextWindow(p, IF closed \/ ~sticky THEN Larger(cursor[p], prov[p]) ELSE cursor[p])
    /\ IF closed \/ sticky THEN UNCHANGED <<buf, wire>> ELSE Flush
    /\ UNCHANGED <<ch, hand, mid>>

\* The handler's ticker writes ": ping" and flushes, without mu.  Clients skip the
\* line, unless it falls into a frame that Deliver is writing: it then ends up behind
\* "data: " and its blank line ends the frame.
Ping ==
    /\ proto = "sse" /\ ~closed /\ ~sticky /\ buf # <<>> /\ buf' = <<>>
    /\ wire' = wire \o buf \o [k \in DOMAIN mid |-> [line |-> "ping", message |-> mid[k].message]]
    /\ UNCHANGED <<proto, closed, sticky, routerVars, ch, hand, mid>>

-----------------------------------------------------------------------------
StreamInit ==
    /\ proto \in {"sse", "grpc"} /\ closed = FALSE /\ sticky = FALSE
    /\ at = [p \in Parts |-> 1] /\ cursor = at /\ prov = [p \in Parts |-> 0]
    /\ queue = [p \in Parts |-> <<>>] /\ rereads = 0 /\ failed = {} /\ dead = {}
    /\ ch = <<>> /\ hand = Nobody /\ buf = <<>> /\ mid = Nobody /\ wire = <<>>

Deliver(who, p) ==
    \/ DeliverFiltered(who, p) \/ GRPCDeliver(who, p)
    \/ SSEDeliverHead(who, p) \/ SSEDeliverBody(who, p)

StreamPartition(p) ==
    \/ Deliver("dispatch", p) \/ DeliverFails("dispatch", p) \/ Enqueue(p)
    \/ GRPCWindowEnds(p) \/ SSEWindowEnds(p)

StreamRetry(p) == Deliver("retry", p) \/ DeliverFails("retry", p)

StreamHandler == SubscribeTakes \/ SubscribeSends \/ Ping

StreamNext ==
    \/ \E p \in Parts : StreamPartition(p) \/ StreamRetry(p)
    \/ StreamHandler \/ CloseStream \/ WriteFails

-----------------------------------------------------------------------------
(* Properties.                                                              *)

\* The messages the client has got whole: for SSE, payloads right behind their id.
Received ==
    IF proto = "grpc" THEN wire
    ELSE LET whole(k) == wire[k].line = "data" /\ wire[k - 1].line = "id"
             places == SelectSeq([k \in DOMAIN wire |-> k], whole)
         IN  [k \in DOMAIN places |-> wire[places[k]].message]

\* The entries whose SSE frame a ping fell into.
Torn == IF proto = "grpc" THEN {}
        ELSE {<<f.message.part, f.message.index>> : f \in {f \in ToSet(wire) : f.line = "ping"}}

Arrived(p, i) == \E m \in ToSet(Received) : m.part = p /\ m.index = i
ToSend == [p \in Parts |-> {i \in DOMAIN StreamLog[p] : Verdict(Entry(p, i)) = "send"}]

\* A stream has no holes, although dispatch and the retry goroutine both deliver: in
\* each partition the client has every event its filters admit before any later one,
\* except dead-lettered ones and those torn by a ping, and only the columns it may see.
\* Only an event that failed in dispatch, behind which a window may be read again,
\* comes a second time or out of order.  No SSE frame is torn by another frame.
StreamExact ==
    LET got == Received
        allowed(ev) == IF ev.table \in DOMAIN ColFilterSets THEN ColFilterSets[ev.table] ELSE {}
    IN  /\ \A k \in DOMAIN got :
              LET p == got[k].part
                  i == got[k].index
                  earlier == {got[h].index : h \in {h \in 1..(k - 1) : got[h].part = p}}
              IN  /\ i \in ToSend[p]
                  /\ got[k].columns = {c \in Entry(p, i).columns :
                                           allowed(Entry(p, i)) = {} \/ c \in allowed(Entry(p, i))}
                  /\ \A j \in ToSend[p] : j < i /\ <<p, j>> \notin dead \cup Torn => j \in earlier
                  /\ (\E j \in earlier : i <= j) => <<p, i>> \in failed
        /\ proto = "sse" => \A k \in DOMAIN wire : wire[k].line = "data" =>
               k > 1 /\ wire[k - 1].message = wire[k].message

\* The cursor that is saved: capped at the head of the blocked group.
Saved(p) ==
    IF queue[p] = <<>> \/ cursor[p] < Head(queue[p]) THEN cursor[p] ELSE Head(queue[p])

\* What the saved cursor has passed and the client neither got nor will find in the
\* dead-letter store.
Owed == UNION {{<<p, i>> : i \in {j \in ToSend[p] : j < Saved(p) /\ ~Arrived(p, j)}} : p \in Parts} \ dead

\* A client that vanishes misses little: over gRPC at most what the channel and one
\* Send hold, although Deliver may still accept events after Close; over SSE only
\* events whose last line is still in the response buffer, or that a ping tore.
LossBounded ==
    IF proto = "grpc" THEN Cardinality(Owed) <= ChanSize + 1
    ELSE \A x \in Owed \ Torn : \E k \in DOMAIN buf :
             /\ buf[k].line = "data"
             /\ <<buf[k].message.part, buf[k].message.index>> = x

\* What a client of SSE or gRPC got is exact, and what it will never get bounded.
StreamRight == StreamExact /\ LossBounded

\* Each event that the filters admit has arrived, is dead-lettered or torn by a ping.
StreamSettled ==
    \A p \in Parts : \A i \in ToSend[p] : Arrived(p, i) \/ <<p, i>> \in dead \cup Torn
=============================================================================
