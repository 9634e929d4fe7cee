------------------------- MODULE MCShardedPipeline -------------------------
(* Model values and routes for checking ShardedPipeline. *)
EXTENDS ShardedPipeline

CONSTANTS f1, f2, f3, r1

\* f1 and f2 share shard 0; every flow offloads to the only offload worker.
MCShard == [f \in Flows |-> IF f = f3 THEN 1 ELSE 0]
MCOneShard == [f \in Flows |-> 0]
MCOffloadShard == [f \in Flows |-> 0]
=============================================================================
