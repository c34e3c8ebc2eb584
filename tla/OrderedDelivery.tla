-------------------------- MODULE OrderedDelivery --------------------------
(***************************************************************************)
(* What the router promises its consumers, without cursors, windows, retry *)
(* queues or locks: the log grows, and each consumer settles (delivers or  *)
(* explicitly gives up on) every event once and for good, never an event   *)
(* of a key before the earlier events of that key.                         *)
(***************************************************************************)
EXTENDS Integers, Sequences

CONSTANTS Conn, Key

VARIABLES
    log,         \* keys of the appended events; the index is the seq
    settled      \* [Conn -> set of seqs settled for that consumer]

vars == <<log, settled>>

Init == log = <<>> /\ settled = [c \in Conn |-> {}]

AppendEvent(k) ==
    /\ log' = Append(log, k)
    /\ UNCHANGED settled

\* Every earlier event of the same key is settled for c.
MayOvertake(c, s) == \A t \in 1..(s - 1) : log[t] = log[s] => t \in settled[c]

Settle(c, s) ==
    /\ s \in DOMAIN log \ settled[c]
    /\ MayOvertake(c, s)
    /\ settled' = [settled EXCEPT ![c] = @ \cup {s}]
    /\ UNCHANGED log

Next ==
    \/ \E k \in Key : AppendEvent(k)
    \/ \E c \in Conn : \E s \in DOMAIN log : Settle(c, s)

Spec == Init /\ [][Next]_vars

\* Every appended event is eventually settled for every consumer.
EverySettled(seqs) ==
    \A c \in Conn, s \in seqs : (s \in DOMAIN log) ~> (s \in settled[c])
=============================================================================
