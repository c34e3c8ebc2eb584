------------------------------ MODULE NatsLog -------------------------------
(***************************************************************************)
(* internal/eventlog/nats.go: appending to the JetStream stream that the   *)
(* nodes of a cluster share.                                               *)
(*                                                                         *)
(* AppendBatch publishes its messages without waiting, then collects one   *)
(* PubAck future after the other, until a deadline that all of them share, *)
(* and tells the observers what was written.  Append is a batch of one.    *)
(* A caller that gets an error reads its changes again from the confirmed  *)
(* position; after a change of leader the old and the new one may publish  *)
(* the same changes.  Of the two deadlines and of retention only the first *)
(* counts: the stream's Duplicates window is as long as its entries live.  *)
(***************************************************************************)
EXTENDS Integers, Sequences, SequencesExt

CONSTANTS
    Publishers,     \* nodes that append
    MaxChange,      \* changes of the source, 1..MaxChange in commit order
    MaxBatch,       \* messages of a batch
    MaxLost         \* bound: messages and acks that get lost, calls cut short

ASSUME NatsAssumption ==
    MaxChange \in Nat /\ MaxBatch \in Nat \ {0} /\ MaxLost \in Nat

VARIABLES
    stream,     \* the JetStream stream: Nats-Msg-Ids in the order of their sequence numbers
    publ,       \* the AppendBatch call of each publisher
    net,        \* messages of each publisher on their way to the server
    from,       \* the last change each publisher has appended
    confirmed,  \* the position the source may forget
    observed,   \* what each publisher's observers were told
    acked,      \* history: new entries whose PubAck a call got in time and could collect
    lost
natsVars == <<stream, publ, net, from, confirmed, observed, acked, lost>>

NoAppend == [batch |-> <<>>, sent |-> 0, reply |-> <<>>, got |-> 0, written |-> {},
             failed |-> FALSE, late |-> FALSE]
Appending(n) == publ[n].batch # <<>>

\* The Nats-Msg-Id header is the event's IdempotencyKey.
MsgId(e) == e

\* The connector hands over the changes that follow what it has appended.
AppendBatch(n) ==
    /\ ~Appending(n) /\ from[n] < MaxChange
    /\ \E k \in 1..MaxBatch :
          /\ from[n] + k <= MaxChange
          /\ publ' = [publ EXCEPT ![n] =
                [NoAppend EXCEPT !.batch = [i \in 1..k |-> from[n] + i],
                                 !.reply = [i \in 1..k |-> "none"]]]
    /\ UNCHANGED <<stream, net, from, confirmed, observed, acked, lost>>

\* PublishMsgAsync: the message leaves, its future is kept.
PublishMsgAsync(n) ==
    LET i == publ[n].sent + 1 IN
    /\ i <= Len(publ[n].batch)
    /\ net' = [net EXCEPT ![n] = Append(@, [id |-> MsgId(publ[n].batch[i]), slot |-> i])]
    /\ publ' = [publ EXCEPT ![n].sent = i]
    /\ UNCHANGED <<stream, from, confirmed, observed, acked, lost>>

\* The future of a message resolves; slot 0 is a message of a call that is over.
Resolved(n, msg, reply) ==
    IF msg.slot = 0 THEN publ ELSE [publ EXCEPT ![n].reply[msg.slot] = reply]

\* The server stores a message, unless its ID is known, and acknowledges it.
Stores(n) ==
    LET msg == Head(net[n])
        new == ~Contains(stream, msg.id)
    IN  /\ net[n] # <<>>
        /\ stream' = IF new THEN Append(stream, msg.id) ELSE stream
        /\ publ' = Resolved(n, msg, IF new THEN "ok" ELSE "duplicate")
        /\ acked' = IF new /\ msg.slot # 0 /\ ~publ[n].late
                    THEN [acked EXCEPT ![n] = @ \cup {publ[n].batch[msg.slot]}] ELSE acked
        /\ net' = [net EXCEPT ![n] = Tail(@)]
        /\ UNCHANGED <<from, confirmed, observed, lost>>

\* The message is stored and the PubAck gets lost, or neither arrives.
Loses(n) ==
    /\ net[n] # <<>> /\ lost < MaxLost /\ lost' = lost + 1
    /\ \/ UNCHANGED stream
       \/ ~Contains(stream, Head(net[n]).id) /\ stream' = Append(stream, Head(net[n]).id)
    /\ net' = [net EXCEPT ![n] = Tail(@)]
    /\ UNCHANGED <<publ, from, confirmed, observed, acked>>

\* No server answers: the future fails, or the client sends the message again
\* behind those that it has sent since.
NoResponders(n) ==
    /\ net[n] # <<>> /\ lost < MaxLost /\ lost' = lost + 1
    /\ \/ publ' = Resolved(n, Head(net[n]), "error") /\ net' = [net EXCEPT ![n] = Tail(@)]
       \/ net' = [net EXCEPT ![n] = Append(Tail(@), Head(@))] /\ UNCHANGED publ
    /\ UNCHANGED <<stream, from, confirmed, observed, acked>>

\* Messages of a call that is over.
Orphaned(msgs) == [i \in DOMAIN msgs |-> [msgs[i] EXCEPT !.slot = 0]]

\* PublishMsgAsync refuses a message (the client is closed or has too many
\* futures open): AppendBatch returns at once, whatever was published before it.
PublishFails(n) ==
    /\ publ[n].sent < Len(publ[n].batch) /\ lost < MaxLost /\ lost' = lost + 1
    /\ publ' = [publ EXCEPT ![n] = NoAppend]
    /\ net' = [net EXCEPT ![n] = Orphaned(@)]
    /\ from' = [from EXCEPT ![n] = confirmed]
    /\ acked' = [acked EXCEPT ![n] = @ \ ToSet(publ[n].batch)]
    /\ UNCHANGED <<stream, confirmed, observed>>

\* The call's deadline passes: because a future will never resolve, or because the
\* server is slow.
Deadline(n) ==
    /\ Appending(n) /\ ~publ[n].late
    /\ IF \E i \in 1..publ[n].sent : publ[n].reply[i] = "none" /\ \A m \in ToSet(net[n]) : m.slot # i
       THEN UNCHANGED lost ELSE lost < MaxLost /\ lost' = lost + 1
    /\ publ' = [publ EXCEPT ![n].late = TRUE]
    /\ UNCHANGED <<stream, net, from, confirmed, observed, acked>>

Collecting(n) == publ[n].sent = Len(publ[n].batch) /\ publ[n].got < Len(publ[n].batch)

\* What one round of the loop makes of its future's reply.
Taken(c, reply) ==
    [c EXCEPT !.got = @ + 1,
              !.written = IF reply = "ok" THEN @ \cup {c.batch[c.got + 1]} ELSE @,
              !.failed = @ \/ reply = "error"]

\* Mutant: the result is that of the last future.
CollectLast(n, reply) ==
    publ' = [publ EXCEPT ![n] = [Taken(@, reply) EXCEPT !.failed = reply = "error"]]

\* Mutant: a duplicate is an error.
CollectRefusesDuplicate(n, reply) ==
    publ' = [publ EXCEPT ![n] = Taken(@, IF reply = "duplicate" THEN "error" ELSE reply)]

\* collectBatchPubAcks: one future.
Collect(n, reply) == publ' = [publ EXCEPT ![n] = Taken(@, reply)]

\* The select: a reply that is there, or the deadline; with both, either.
CollectReply(n) ==
    /\ Collecting(n) /\ publ[n].reply[publ[n].got + 1] # "none"
    /\ Collect(n, publ[n].reply[publ[n].got + 1])
    /\ UNCHANGED <<stream, net, from, confirmed, observed, acked, lost>>

CollectTimesOut(n) ==
    /\ Collecting(n) /\ publ[n].late
    /\ Collect(n, "error")
    \* An ack that is there may lose against the deadline: the observers miss it.
    /\ acked' = [acked EXCEPT ![n] = @ \ {publ[n].batch[publ[n].got + 1]}]
    /\ UNCHANGED <<stream, net, from, confirmed, observed, lost>>

\* notifyObservers, then AppendBatch returns.  On success the connector goes on
\* and confirms its position; on an error it connects again.
AppendReturns(n) ==
    LET c == publ[n] IN
    /\ Appending(n) /\ c.got = Len(c.batch)
    /\ observed' = [observed EXCEPT ![n] = @ \cup c.written]
    /\ publ' = [publ EXCEPT ![n] = NoAppend]
    /\ net' = [net EXCEPT ![n] = Orphaned(@)]
    /\ from' = [from EXCEPT ![n] = IF c.failed THEN confirmed ELSE Last(c.batch)]
    /\ confirmed' = IF ~c.failed /\ Last(c.batch) > confirmed THEN Last(c.batch) ELSE confirmed
    /\ UNCHANGED <<stream, acked, lost>>

\* The node dies and comes back.
NodeRestarts(n) ==
    /\ lost < MaxLost /\ lost' = lost + 1
    /\ publ' = [publ EXCEPT ![n] = NoAppend]
    /\ net' = [net EXCEPT ![n] = Orphaned(@)]
    /\ from' = [from EXCEPT ![n] = confirmed]
    /\ observed' = [observed EXCEPT ![n] = {}] /\ acked' = [acked EXCEPT ![n] = {}]
    /\ UNCHANGED <<stream, confirmed>>

NatsInit ==
    /\ stream = <<>> /\ confirmed = 0 /\ lost = 0
    /\ publ = [n \in Publishers |-> NoAppend]
    /\ net = [n \in Publishers |-> <<>>]
    /\ from = [n \in Publishers |-> 0]
    /\ observed = [n \in Publishers |-> {}] /\ acked = observed

NatsStep(n) ==
    \/ AppendBatch(n) \/ PublishMsgAsync(n) \/ Stores(n) \/ Deadline(n)
    \/ CollectReply(n) \/ CollectTimesOut(n) \/ AppendReturns(n)

NatsNext == \E n \in Publishers : NatsStep(n) \/ Loses(n) \/ NoResponders(n) \/ PublishFails(n) \/ NodeRestarts(n)

NatsSpec == NatsInit /\ [][NatsNext]_natsVars

-----------------------------------------------------------------------------
(* Properties.                                                              *)

\* EVLOG-01 and LOG-03: over retries, late messages of calls that failed and two
\* leaders at once, the stream holds every confirmed change, and each change once.
StreamHoldsConfirmed ==
    /\ \A e \in 1..confirmed : \E i \in DOMAIN stream : stream[i] = e
    /\ \A i, j \in DOMAIN stream : stream[i] = stream[j] => i = j

\* "Notify observers for every acknowledged non-duplicate event even when a later
\* PubAck fails": between calls the watermark index knows of every new entry whose
\* PubAck came in time, since a retry would find only a duplicate.
AckedIsObserved == \A n \in Publishers : ~Appending(n) => acked[n] \subseteq observed[n]

\* What AppendBatch tells its caller and its observers is true of the stream.
AppendTellsTruth == StreamHoldsConfirmed /\ AckedIsObserved

\* Whatever was lost, every change gets into the stream and is confirmed.
EveryChangeConfirmed == <>(confirmed = MaxChange)
=============================================================================
