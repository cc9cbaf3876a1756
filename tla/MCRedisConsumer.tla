-------------------------- MODULE MCRedisConsumer --------------------------
(* Consumers of one group over two shards; entries of shard 0 may be bad. *)
EXTENDS RedisConsumer

MCPoison == {0} \X Ids
=============================================================================
