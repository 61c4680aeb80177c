----------------------------- MODULE DurableLog -----------------------------
(***************************************************************************)
(* What a durable shard promises its clients: a log of writes of which a   *)
(* crash may take away a suffix, but never a write that was acknowledged.  *)
(***************************************************************************)
EXTENDS Naturals, Sequences

CONSTANT Write

VARIABLES
    log,      \* the writes a restart would rebuild, in order
    acked     \* the writes the clients were told are safe

Init == log = <<>> /\ acked = {}

\* Write and catch-up: the log gets longer at its end.
Grow ==
    /\ Len(log') > Len(log)
    /\ SubSeq(log', 1, Len(log)) = log
    /\ log' \in Seq(Write)
    /\ UNCHANGED acked

Acknowledge ==
    /\ \E n \in 1 .. Len(log) : acked' = acked \cup {[seq |-> n, write |-> log[n]]}
    /\ UNCHANGED log

\* A crash loses the end of the log, down to the last acknowledged write.
Lose ==
    /\ \E n \in 0 .. Len(log) :
          /\ \A a \in acked : a.seq <= n
          /\ log' = SubSeq(log, 1, n)
    /\ UNCHANGED acked

Next == Grow \/ Acknowledge \/ Lose

Spec == Init /\ [][Next]_<<log, acked>>
=============================================================================
