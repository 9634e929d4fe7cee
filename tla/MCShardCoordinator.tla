------------------------ MODULE MCShardCoordinator ------------------------
(* Model values and hashes for checking ShardCoordinator. *)
EXTENDS ShardCoordinator, TLC

CONSTANTS t1, t2, u1

\* t1 prefers shard 0 and falls back to 1, t2 the other way round; the two
\* hashes of u1 collide on one shard.
MCRouteHash == (t1 :> 4) @@ (t2 :> 7) @@ (u1 :> 2)
MCSecondaryHash == (t1 :> 7) @@ (t2 :> 4) @@ (u1 :> 8)
MCStripeHash == (t1 :> <<1, 2>>) @@ (t2 :> <<1>>) @@ (u1 :> <<2, 5, 1, 0>>)
=============================================================================
