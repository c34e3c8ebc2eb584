--------------------------- MODULE MCMongoSource ----------------------------
EXTENDS MongoSource, TLC

\* Two collections whose documents share the partitions.
MCDocKeys == "users" :> {"a"} @@ "orders" :> {"b"}
MCPartitionOf == "a" :> 1 @@ "b" :> 1
MCOldOps == "users" :> <<[key |-> "a", ok |-> TRUE, time |-> 1]>>
         @@ "orders" :> <<[key |-> "b", ok |-> TRUE, time |-> 1]>>
=============================================================================
