--------------------------- MODULE MCMemoryStore ---------------------------
\* Two stores of one owner, two replicas, and two facts that are not the same.
EXTENDS MemoryStore, TLC

CONSTANTS w1, w2, r1, r2, f1, f2

MCDistance == [f \in {f1, f2} |-> [g \in {f1, f2} |-> IF f = g THEN 0 ELSE 1]]

\* The record of a forget has the vector of ones, facts are farther from it.
MCFromOnes == [f \in {f1, f2, "none"} |-> IF f = "none" THEN 0 ELSE 1]

Symmetry == Permutations({w1, w2}) \cup Permutations({r1, r2}) \cup Permutations({f1, f2})
=============================================================================
