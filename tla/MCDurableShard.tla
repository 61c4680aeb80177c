--------------------------- MODULE MCDurableShard ---------------------------
(***************************************************************************)
(* Small instances of DurableShard: two batches, of one and of two         *)
(* vectors, so that a snapshot falls due after one write or after two.     *)
(***************************************************************************)
EXTENDS DurableShard

CONSTANTS w1, w2

MCVectors == [w \in Write |-> IF w = w1 THEN 1 ELSE 2]
MCSameDim == [w \in Write |-> 2]
MCTwoDims == [w \in Write |-> IF w = w1 THEN 2 ELSE 3]
=============================================================================
