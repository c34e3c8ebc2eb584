----------------------------- MODULE ChangeLog -----------------------------
(***************************************************************************)
(* What a source promises, without LSNs, sessions, buffers or checkpoints: *)
(* committed changes enter the event log in commit order, each once, and   *)
(* none is passed over unless a snapshot covers it.                        *)
(***************************************************************************)
EXTENDS Integers, Sequences

VARIABLES
    history,     \* the committed changes, in commit order
    covered,     \* a snapshot covers the first "covered" changes of history
    log          \* the changes in the event log

vars == <<history, covered, log>>

Init == history = <<>> /\ covered = 0 /\ log = <<>>

\* A transaction commits: history grows at its end.
Commit ==
    /\ Len(history') > Len(history)
    /\ SubSeq(history', 1, Len(history)) = history
    /\ UNCHANGED <<covered, log>>

Snapshot ==
    /\ covered' \in covered..Len(history)
    /\ UNCHANGED <<history, log>>

\* The changes of history that are in the log.
Logged == {i \in DOMAIN history : \E j \in DOMAIN log : log[j] = history[i]}

\* The next change of history that is neither in the log nor before one.
AppendChange(i) ==
    /\ \A j \in Logged : j < i
    /\ \A j \in (covered + 1)..(i - 1) : j \in Logged
    /\ log' = Append(log, history[i])
    /\ UNCHANGED <<history, covered>>

Next == Commit \/ Snapshot \/ \E i \in DOMAIN history : AppendChange(i)

Spec == Init /\ [][Next]_vars
=============================================================================
