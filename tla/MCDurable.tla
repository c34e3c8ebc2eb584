----------------------------- MODULE MCDurable ------------------------------
(***************************************************************************)
(* Instances for TLC of what must be durable before anybody counts on it:  *)
(* the Postgres source's position and the consumers' cursors.  The two     *)
(* share nothing, so "focus" picks one of them per behaviour.  Of the      *)
(* cursor store: at most MaxSaves saves, MaxStops crashes and one          *)
(* LoadCursor or DeleteCursor at a time.                                   *)
(***************************************************************************)
EXTENDS PostgresSource, CursorStore

CONSTANTS x1, x2, i1, i2, p1, MaxSaves, MaxStops

VARIABLE focus

MCRowsOf == [x \in Txn |-> IF x = x1 THEN 2 ELSE 1]

MCInit == Init /\ StoreInit /\ focus \in {"source", "cursors"}

SourceMoves == focus = "source" /\ Next /\ UNCHANGED <<storeVars, focus>>

\* One step of the store, with the bounds as guards.
CursorsMove ==
    /\ focus = "cursors"
    /\ \/ saves < MaxSaves /\ \E k \in CursorKey : SaveCursor(k)
       \/ \E k \in CursorKey : LoadDirty(k)
       \/ LoadRow \/ LoadReturns
       \/ \E id \in Deletable : DeletePending(id)
       \/ DeleteRows
       \/ Flush
       \/ crashes < MaxStops /\ Crash
    /\ UNCHANGED <<svars, focus>>

MCSpec ==
    /\ MCInit /\ [][SourceMoves \/ CursorsMove]_<<svars, storeVars, focus>>
    /\ focus = "source" => Fairness
=============================================================================
