------------------------------ MODULE GlobalIds ------------------------------
(***************************************************************************)
(* GrpcCoordinator.add() (vsearch/client.py) over several shards, each with *)
(* several replicas: how vectors get their global ids and their shard, and *)
(* what an add() that fails half-way leaves of ids and positions.          *)
(*                                                                         *)
(* ReplicatedShard looks inside one shard, call by call.  Here one step is *)
(* one round of calls: what matters is what several shards, several        *)
(* coordinators and several rounds do to each other.                       *)
(***************************************************************************)
EXTENDS Integers, Sequences, FiniteSets, FiniteSetsExt

CONSTANTS
    NumShards, NumReplicas,
    Coordinator,     \* client processes
    PerRequest,      \* vectors of a shard that fit into one request
    CallersRefresh,  \* is refresh() called once another coordinator may have written?
    MaxVectors,      \* bound on the vectors of one add()
    MaxAdds, MaxCrashes, MaxDeaths    \* bounds on what happens in a behaviour

ASSUME ConstantsAssumption ==
    /\ NumShards \in Nat \ {0} /\ NumReplicas \in Nat \ {0} /\ PerRequest \in Nat \ {0}
    /\ CallersRefresh \in BOOLEAN
    /\ MaxVectors \in Nat /\ MaxAdds \in Nat /\ MaxCrashes \in Nat /\ MaxDeaths \in Nat

Shard   == 0..NumShards - 1
Replica == 0..NumReplicas - 1
Server  == Shard \X Replica

VARIABLES
    durable,      \* do the servers have a --data-dir?
    held,         \* held[s, r]: the chunks a server has applied, in order
    up,           \* the servers that run
    size,         \* size[c]: next free global id, as far as c knows
    last_seqs,    \* last_seqs[c][s]: last write all replicas of s agree on
    op,           \* op[c]: the call c is in
    adds,         \* number of add() calls that have been given ids
    writer,       \* the coordinator that wrote last
    acked,        \* the vectors of adds that returned
    crashes, deaths

vars == <<durable, held, up, size, last_seqs, op, adds, writer, acked,
          crashes, deaths>>

Unknown   == -2   \* None in _last_seqs
Unchecked == -1   \* _UNCHECKED
AllShards == NumShards   \* no namespace

Forgotten == [s \in Shard |-> Unknown]
Idle      == [kind |-> "idle"]

\* A vector is the add() it belongs to and its global id; a chunk is a set of vectors.
Vectors(t)  == UNION {held[t][i] : i \in DOMAIN held[t]}
Ids(vs)     == {v.id : v \in vs}
LastSeq(t)  == Len(held[t])
Copies(s)   == {s} \X Replica

Init ==
    /\ durable \in BOOLEAN
    /\ held = [t \in Server |-> <<>>] /\ up = Server
    /\ size = [c \in Coordinator |-> 0]
    /\ last_seqs = [c \in Coordinator |-> Forgotten]
    /\ op = [c \in Coordinator |-> Idle]
    /\ adds = 0 /\ writer \in Coordinator /\ acked = {}
    /\ crashes = 0 /\ deaths = 0

Free(c)  == op[c] = Idle
Leave(c) == op' = [op EXCEPT ![c] = Idle]

servers   == <<durable, held, up>>
positions == <<size, last_seqs>>
history   == <<adds, writer, acked, crashes, deaths>>

-----------------------------------------------------------------------------
(***************************************************************************)
(* add().                                                                  *)
(***************************************************************************)
\* Mutant: callers rely on what they learned earlier.
Refreshed(c) == FALSE

\* refresh() belongs before an add() when another coordinator wrote last.
MustRefresh(c) == CallersRefresh /\ writer # c

\* One coordinator writes at a time.  ns: one shard, or AllShards.
StartAdd(c, n, ns) ==
    /\ Free(c) /\ adds < MaxAdds
    /\ \A d \in Coordinator : op[d].kind \notin {"check", "send"}
    /\ op' = [op EXCEPT ![c] = [kind |-> "check", n |-> n, ns |-> ns]]
    /\ last_seqs' = IF MustRefresh(c) THEN [last_seqs EXCEPT ![c] = Forgotten] ELSE last_seqs
    /\ UNCHANGED <<servers, size, history>>

\* Mutant: as many ids are in use as there are vectors.
NextGlobalIdCounts(t) == Cardinality(Vectors(t))

NextGlobalId(t) == Max({-1} \cup Ids(Vectors(t))) + 1

ToCheck(c) == {s \in Shard : last_seqs[c][s] = Unknown}

\* _check_shards, one shard: every replica has to answer and, if it numbers its
\* writes, to agree.
CheckShard(c) ==
    /\ op[c].kind = "check" /\ ToCheck(c) # {}
    /\ LET s == Min(ToCheck(c))
           agree == \A t, u \in Copies(s) : LastSeq(t) = LastSeq(u) IN
       /\ Copies(s) \subseteq up
       /\ size' = [size EXCEPT ![c] = Max({@} \cup {NextGlobalId(t) : t \in Copies(s)})]
       /\ IF durable /\ ~agree
            THEN Leave(c) /\ UNCHANGED last_seqs            \* ReplicasOutOfSyncError
            ELSE /\ last_seqs' = [last_seqs EXCEPT ![c][s] =
                                     IF durable THEN LastSeq(<<s, 0>>) ELSE Unchecked]
                 /\ UNCHANGED op
    /\ UNCHANGED <<servers, history>>

\* A Status call, or the connection to a server, fails.
CheckFails(c) ==
    /\ op[c].kind = "check" /\ ToCheck(c) # {}
    /\ Leave(c)
    /\ UNCHANGED <<servers, positions, history>>

\* route_round_robin, route_to_shard: consecutive ids, each with its shard.
Route(c) ==
    /\ op[c].kind = "check" /\ ToCheck(c) = {}
    /\ LET new == size[c]..size[c] + op[c].n - 1
           home(id) == IF op[c].ns = AllShards THEN id % NumShards ELSE op[c].ns IN
       op' = [op EXCEPT ![c] = [kind |-> "send", all |-> {[add |-> adds, id |-> i] : i \in new},
                                left |-> [s \in Shard |-> {i \in new : home(i) = s}]]]
    /\ size' = [size EXCEPT ![c] = @ + op[c].n]
    /\ adds' = adds + 1 /\ writer' = c
    /\ UNCHANGED <<servers, last_seqs, acked, crashes, deaths>>

\* The ids of the next request to a shard: the first PerRequest of those left.
Chunk(c, s) == {i \in op[c].left[s] : Cardinality({j \in op[c].left[s] : j < i}) < PerRequest}

\* Mutant: the first replica is written to, and repair() takes care of the rest.
AddressedFirst(c) == {t \in Server : t[2] = 0 /\ Chunk(c, t[1]) # {}}

Addressed(c) == {t \in Server : Chunk(c, t[1]) # {}}

\* A numbered write has to be the next one.
Accepts(c, t) == t \in up /\ last_seqs[c][t[1]] \in {Unchecked, LastSeq(t)}

Apply(c, ts) ==
    held' = [t \in Server |-> IF t \in ts
        THEN Append(held[t], {v \in op[c].all : v.id \in Chunk(c, t[1])}) ELSE held[t]]

\* A round of Add calls of which some fail: the server is down or refuses, or
\* the answer is lost.  Nothing is known about any position any more.
ChunkFails(c) ==
    /\ op[c].kind = "send"
    /\ \E done \in SUBSET {t \in Addressed(c) : Accepts(c, t)} : Apply(c, done)
    /\ last_seqs' = [last_seqs EXCEPT ![c] = Forgotten]
    /\ Leave(c)
    /\ UNCHANGED <<durable, up, size, history>>

\* The servers of shard s that were written to report different sizes.
Diverged(c, s) ==
    \E t, u \in Addressed(c) : /\ t[1] = s /\ u[1] = s
                              /\ Cardinality(Vectors(t)') # Cardinality(Vectors(u)')

\* Every call succeeds.  If replicas report different sizes the loop over the
\* reports raises, with the positions of the shards before that one advanced.
ChunkDone(c) ==
    /\ op[c].kind = "send"
    /\ \A t \in Addressed(c) : Accepts(c, t)
    /\ Apply(c, Addressed(c))
    /\ LET shards == {t[1] : t \in Addressed(c)}
           wrong  == {s \in shards : Diverged(c, s)}
           good   == {s \in shards : \A d \in wrong : s < d}
           left   == [s \in Shard |-> op[c].left[s] \ Chunk(c, s)] IN
       /\ last_seqs' = [last_seqs EXCEPT ![c] = [s \in Shard |->
              IF s \in good /\ @[s] # Unchecked THEN @[s] + 1 ELSE @[s]]]
       /\ IF wrong # {} \/ \A s \in Shard : left[s] = {}
            THEN Leave(c) ELSE op' = [op EXCEPT ![c].left = left]
       /\ acked' = IF wrong = {} /\ \A s \in Shard : left[s] = {}
                     THEN acked \cup op[c].all ELSE acked
    /\ UNCHANGED <<durable, up, size, adds, writer, crashes, deaths>>

-----------------------------------------------------------------------------
(***************************************************************************)
(* repair(), one shard at a time.                                          *)
(***************************************************************************)
StartRepair(c) ==
    /\ Free(c) /\ durable
    /\ op' = [op EXCEPT ![c] = [kind |-> "repair", shard |-> 0]]
    /\ UNCHANGED <<servers, positions, history>>

\* Mutant: one shard too many.
IsLastPast(s) == s = NumShards

IsLast(s) == s = NumShards - 1

\* Of the replicas that answered, those in `done` take over what the most
\* advanced one has.
CatchUp(answered, done) ==
    \E t \in answered :
        /\ \A u \in answered : LastSeq(u) <= LastSeq(t)
        /\ held' = [u \in Server |-> IF u \in done THEN held[t] ELSE held[u]]

RepairShard(c) ==
    /\ op[c].kind = "repair"
    /\ LET s == op[c].shard IN
       /\ \/ \E answered \in SUBSET (Copies(s) \cap up) : CatchUp(answered, answered)
          \/ UNCHANGED held     \* none answered
       /\ op' = [op EXCEPT ![c] = IF IsLast(s) THEN Idle ELSE [@ EXCEPT !.shard = s + 1]]
       /\ last_seqs' = IF IsLast(s) THEN [last_seqs EXCEPT ![c] = Forgotten] ELSE last_seqs
    /\ UNCHANGED <<durable, up, size, history>>

\* A Status or a SyncFrom fails; what is known about positions stays.
RepairFails(c) ==
    /\ op[c].kind = "repair" /\ Leave(c)
    /\ \/ \E answered \in SUBSET (Copies(op[c].shard) \cap up) :
             \E done \in SUBSET answered : CatchUp(answered, done)
       \/ UNCHANGED held
    /\ UNCHANGED <<durable, up, positions, history>>

-----------------------------------------------------------------------------
(***************************************************************************)
(* Processes.                                                              *)
(***************************************************************************)
Crash(t) ==
    /\ t \in up /\ crashes < MaxCrashes
    /\ up' = up \ {t} /\ crashes' = crashes + 1
    /\ UNCHANGED <<durable, held, positions, op, adds, writer, acked, deaths>>

\* A durable server comes back with what it had, another one comes back empty.
Restart(t) ==
    /\ t \notin up
    /\ up' = up \cup {t}
    /\ held' = IF durable THEN held ELSE [held EXCEPT ![t] = <<>>]
    /\ UNCHANGED <<durable, positions, op, history>>

\* A client process ends, maybe in the middle of a round of calls, and the next
\* one starts with a new coordinator.
Replace(c) ==
    /\ deaths < MaxDeaths /\ deaths' = deaths + 1
    /\ \/ op[c].kind = "send"
          /\ \E done \in SUBSET {t \in Addressed(c) : Accepts(c, t)} : Apply(c, done)
       \/ op[c].kind # "send" /\ UNCHANGED held
    /\ size' = [size EXCEPT ![c] = 0]
    /\ last_seqs' = [last_seqs EXCEPT ![c] = Forgotten]
    /\ Leave(c)
    /\ UNCHANGED <<durable, up, adds, writer, acked, crashes>>

Next ==
    \/ \E c \in Coordinator, n \in 1..MaxVectors, ns \in Shard \cup {AllShards} : StartAdd(c, n, ns)
    \/ \E c \in Coordinator :
          \/ CheckShard(c) \/ CheckFails(c) \/ Route(c) \/ ChunkFails(c) \/ ChunkDone(c)
          \/ StartRepair(c) \/ RepairShard(c) \/ RepairFails(c)
          \/ Replace(c)
    \/ \E t \in Server : Crash(t) \/ Restart(t)

Spec == Init /\ [][Next]_vars

-----------------------------------------------------------------------------
Vector == [add : 0..MaxAdds, id : Nat]

OpOK(o) ==
    \/ o = Idle
    \/ o \in [kind : {"check"}, n : 1..MaxVectors, ns : Shard \cup {AllShards}]
    \/ o \in [kind : {"send"}, all : SUBSET Vector, left : [Shard -> SUBSET Nat]]
    \/ o \in [kind : {"repair"}, shard : Shard]

TypeOK ==
    /\ durable \in BOOLEAN /\ held \in [Server -> Seq(SUBSET Vector)] /\ up \subseteq Server
    /\ size \in [Coordinator -> Nat]
    /\ last_seqs \in [Coordinator -> [Shard -> {Unknown, Unchecked} \cup Nat]]
    /\ \A c \in Coordinator : OpOK(op[c])
    /\ adds \in 0..MaxAdds /\ writer \in Coordinator /\ acked \subseteq Vector
    /\ crashes \in 0..MaxCrashes /\ deaths \in 0..MaxDeaths

\* No two vectors that any server holds have the same global id, whatever adds
\* failed half-way, whichever coordinator numbered them (_check_shards).
NoIdTwice ==
    LET stored == UNION {Vectors(t) : t \in Server} IN
    \A v, w \in stored : v.id = w.id => v = w

\* On durable servers a vector whose add() returned is on every copy of its shard,
\* and on no other shard, whatever failed, was repaired or replaced since (add).
AckedOnEveryCopy ==
    durable => \A v \in acked : \E s \in Shard : \A t \in Server : v \in Vectors(t) <=> t[1] = s

\* What a coordinator numbers after its check fits: every replica that is still
\* up would take the next request, so a write fails only because a server or the
\* network does (_check_shards, refresh).
NextNumberFits ==
    \A c \in Coordinator : op[c].kind = "send" =>
        \A t \in Addressed(c) \cap up : Accepts(c, t)
=============================================================================
