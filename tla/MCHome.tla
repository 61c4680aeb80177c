------------------------------- MODULE MCHome -------------------------------
(* Two replicas, two files; pids are taken again once they are free. *)
EXTENDS Home

CONSTANTS s1, s2, f1, f2
=============================================================================
