------------------------------- MODULE MCSinks -------------------------------
(* Instances of Sinks for TLC.                                               *)
EXTENDS Sinks

CONSTANTS k1, k2, t1, t2, u1, u2

\* The log of the bounded instance: entry 1 belongs to k1, only entry 2 may need
\* no sending, and the vector sink's logs use the delete and every text, t1 first
\* (keys, targets and texts have no order: the other logs are renamings).
MCInit ==
    /\ Start
    /\ entry \in {e \in Entries(kind) :
           /\ e[1].key = k1 /\ e[1].url = CHOOSE t \in Target : TRUE
           /\ \A s \in 1..N : e[s].text = Empty => s = 2
           /\ \A s \in 1..N : e[s].text = t2 => \E r \in 1..(s - 1) : e[r].text = t1
           /\ kind # "vector" => \A s \in 1..N : e[s].text \in {t1, Empty}}

MCSpec == MCInit /\ [][Next]_vars /\ WF_vars(Loop) /\ WF_vars(OutageEnds)
=============================================================================
