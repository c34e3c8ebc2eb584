--------------------------- MODULE CursorRegister ---------------------------
(***************************************************************************)
(* What a cursor store promises: a register per cell whose durable copy    *)
(* catches up with the current value in the order of the saves, and to     *)
(* which a crash falls back.  A value is the number of the save that wrote *)
(* it; 0 stands for "never saved".                                         *)
(***************************************************************************)
EXTENDS Naturals

CONSTANT Cell

VARIABLES
    current,     \* what the store answers
    durable,     \* what survives a crash
    crashes      \* crashes so far

vars == <<current, durable, crashes>>

Init ==
    /\ current = [k \in Cell |-> 0]
    /\ durable = [k \in Cell |-> 0]
    /\ crashes = 0

\* A newer value replaces the current one of a single cell.
Save(k) ==
    /\ current'[k] \in Nat /\ current'[k] > current[k]
    /\ current' = [current EXCEPT ![k] = current'[k]]
    /\ UNCHANGED <<durable, crashes>>

\* Some cells become durable, with a value at most as new as the current one
\* and never older than what was durable before.
Persist ==
    /\ durable' \in [Cell -> Nat]
    /\ \A k \in Cell : durable[k] <= durable'[k] /\ durable'[k] <= current[k]
    /\ UNCHANGED <<current, crashes>>

Crash ==
    /\ current' = durable
    /\ crashes' = crashes + 1
    /\ UNCHANGED durable

Next == \/ \E k \in Cell : Save(k)
        \/ Persist
        \/ Crash

Spec == Init /\ [][Next]_vars
=============================================================================
