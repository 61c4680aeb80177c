-------------------------- MODULE MCSearchFailover --------------------------
(* A namespace on shard 0, where vectors without a namespace are as well. *)
EXTENDS SearchFailover

CONSTANT n1

OnShardZero == [n \in {n1} |-> 0]
=============================================================================
