----------------------------- MODULE MCGlobalIds -----------------------------
(* A small cluster with two interchangeable coordinators. *)
EXTENDS GlobalIds, TLC

CONSTANTS c1, c2

Interchangeable == Permutations(Coordinator)
=============================================================================
