-------------------------- MODULE MCRetryScheduler --------------------------
(* Instance of RetryScheduler for TLC: a bounded number of AddBlocked calls *)
(* with seqs up to MaxSeq.                                                  *)
EXTENDS RetryScheduler, TLC

CONSTANTS c1, i1, k1, k2, k3, p1, p2, MaxSeq, MaxAdds

VARIABLE adds     \* AddBlocked calls made so far

MCIdOf   == c1 :> i1
MCPartOf == k1 :> p1 @@ k2 :> p1 @@ k3 :> p2

MCvars == <<vars, adds>>

MCInit == Init /\ adds = 0 /\ cur = <<i1, k1>> /\ rel = [id |-> i1, part |-> p1, floor |-> 0]

MCEnqueue ==
    /\ adds < MaxAdds
    /\ adds' = adds + 1
    /\ \E c \in Conn, k \in Key, s \in 1..MaxSeq : Enqueue(c, k, s)

MCTickStep == TickStep /\ UNCHANGED adds
MCElapse == Elapse /\ UNCHANGED adds

MCNext == MCTickStep \/ MCElapse \/ MCEnqueue

MCSpec == MCInit /\ [][MCNext]_MCvars

MCFairSpec == MCSpec /\ Fairness
=============================================================================
