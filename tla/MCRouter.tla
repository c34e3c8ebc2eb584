------------------------------ MODULE MCRouter ------------------------------
(* Instances of Router for TLC.                                             *)
EXTENDS Router, TLC

CONSTANTS c1, c2, i1, i2, k1, k2, p1

OneId    == [c \in Conn |-> i1]      \* a client reconnecting with the same id
TwoIds   == [c \in Conn |-> IF c = c1 THEN i1 ELSE i2]
MCPartOf == [k \in Key |-> p1]
BootOne  == <<c1>>
BootTwo  == <<c1, c2>>

\* Nothing tells two keys of the partition apart.
KeySymmetry == Permutations({k1, k2})

FairSpec == Spec /\ Fairness
=============================================================================
