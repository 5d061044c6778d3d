---------------------------- MODULE MCShardedKV -----------------------------
(* Instances of ShardedKV for TLC. *)
EXTENDS ShardedKV, TLC

CONSTANTS c1, c2, t_4, t_7, t_big, v

\* Keys "t_4" and "t_7" of one table fall to different shards of two.
Ids == (t_4 :> 4) @@ (t_7 :> 7)
Tables == {{t_4, t_7}}

\* A key such as "t_4294967289", whose number is cut to the int -7.
IdsOneNegative == (t_4 :> 4) @@ (t_big :> -7)
TableOneNegative == {{t_4, t_big}}

AllRepairs == {"null_buf", "connect_test", "shard_index"}
AsCommitted == {}

ClientSymmetry == Permutations(Clients)
=============================================================================
