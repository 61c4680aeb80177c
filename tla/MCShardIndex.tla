---------------------------- MODULE MCShardIndex ----------------------------
(* Three points on a line, each with a payload of two fields.  Unit vectors of a half *)
(* plane compare by cosine distance as their angles do.                               *)
EXTENDS ShardIndex

Points   == {0, 1, 3}
Distances == [p \in Points, q \in Points |-> IF p < q THEN q - p ELSE p - q]
BeforeOrAfter == {-1, 0}
Payloads == [p \in Points |-> {<<"place", p>>, <<"odd", p % 2>>}]
Filters  == {[odd |-> {0, 1}], [place |-> {0, 3}], [odd |-> {1}], [place |-> {0, 1}, odd |-> {0, 1}]}
=============================================================================
