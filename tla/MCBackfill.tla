----------------------------- MODULE MCBackfill -----------------------------
EXTENDS Backfill, TLC

\* Row 1 and the control event share a partition; row 2 is on another.
MCPartitionOf == 0 :> 1 @@ 1 :> 1 @@ 2 :> 2

\* Transactions that write both rows, or delete one.
MCTxs == {[keys |-> {1, 2}, op |-> "put"], [keys |-> {1}, op |-> "del"]}
=============================================================================
