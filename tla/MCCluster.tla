----------------------------- MODULE MCCluster ------------------------------
EXTENDS Cluster, NatsLog

\* The lease and the partitions share nothing but the life of the nodes, and the
\* writers of the event log share nothing with either: a behaviour takes the steps
\* of one of them.
VARIABLE focus

MCInit == Init /\ NatsInit /\ focus \in {"partitions", "lease", "log"}

NodesMove ==
    /\ \/ focus # "log" /\ \E n \in Nodes : Life(n)
       \/ focus = "partitions" /\ \E n \in Nodes : PartitionStep(n)
       \/ focus = "lease" /\ \E n \in Nodes : Lease(n)
       \/ focus = "lease" /\ Expire
    /\ UNCHANGED natsVars

WritersMove == focus = "log" /\ NatsNext /\ UNCHANGED vars

MCNext == (NodesMove \/ WritersMove) /\ UNCHANGED focus

MCFairness == focus = "partitions" => Fairness
LogFairness == \A n \in Publishers : WF_natsVars(focus = "log" /\ NatsStep(n))

MCSpec == MCInit /\ [][MCNext]_<<vars, natsVars, focus>> /\ MCFairness /\ LogFairness

\* With the partitions in focus.
AdoptedInFocus == focus = "partitions" => Adopted

\* With the event log's writers in focus: whatever was lost, every change gets into
\* the stream and is confirmed.
ConfirmedInFocus == focus = "log" => EveryChangeConfirmed
=============================================================================
