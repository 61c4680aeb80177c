-------------------------- MODULE MCReplicatedShard --------------------------
(***************************************************************************)
(* Small instances of ReplicatedShard.                                     *)
(***************************************************************************)
EXTENDS ReplicatedShard, TLC

CONSTANTS r1, r2, c1, c2

\* The replicas and the coordinators are interchangeable (safety runs only).
Interchangeable == Permutations(Replica) \cup Permutations(Coordinator)
=============================================================================
