--------------------------- MODULE SearchFailover ---------------------------
(***************************************************************************)
(* How GrpcCoordinator searches (vsearch/client.py): one replica of every  *)
(* shard that can hold a match is asked, the others when it fails, and the *)
(* answers of the shards are merged.                                       *)
(*                                                                         *)
(* What is stored does not change here: the replicas of a shard hold the   *)
(* same vectors (ReplicatedShard, GlobalIds) and a replica that answers is *)
(* exact (ShardIndex has the index).  A server that is down is one whose   *)
(* calls fail; any call may fail, because of its server or of the network. *)
(* Vectors and queries are points on a line.                               *)
(***************************************************************************)
EXTENDS Integers, FiniteSets

CONSTANTS
    NumShards, NumReplicas,
    Vector,      \* the vectors, each both its global id and its place on the line
    Namespace, Nowhere,    \* Nowhere: no namespace
    Query,       \* the places that are asked for
    Home,        \* Home[n]: the shard of namespace n (shard_for_namespace)
    K            \* how many results a search asks for

Shard   == 0..NumShards - 1
Replica == 0..NumReplicas - 1
Server  == Shard \X Replica

ASSUME ConstantsAssumption ==
    /\ NumShards \in Nat \ {0} /\ NumReplicas \in Nat \ {0} /\ K \in Nat \ {0}
    /\ Vector \subseteq Nat /\ IsFiniteSet(Vector) /\ Query \subseteq Nat /\ Nowhere \notin Namespace
    /\ Home \in [Namespace -> Shard]

VARIABLES
    tag,           \* tag[v]: the namespace a vector was added in
    next_replica,  \* next_replica[s]: where the rotation stands
    down,          \* servers whose down_until is in the future
    call           \* the search the coordinator is in, or its answer

vars == <<tag, next_replica, down, call>>

Idle == [kind |-> "idle"]

\* route_round_robin, route_to_shard.
ShardOf(v) == IF tag[v] = Nowhere THEN v % NumShards ELSE Home[tag[v]]

Init ==
    /\ tag \in [Vector -> Namespace \cup {Nowhere}]
    /\ next_replica = [s \in Shard |-> 0] /\ down = {} /\ call = Idle

Distance(q, v)  == IF q < v THEN v - q ELSE q - v
Closer(q, v, w) == \/ Distance(q, v) < Distance(q, w)
                   \/ Distance(q, v) = Distance(q, w) /\ v < w

\* merge_top_k_scored, and what a shard does by itself: the k closest, ties by id.
Nearest(q, k, vs) == {v \in vs : Cardinality({w \in vs : Closer(q, w, v)}) < k}

\* plan_query: inside a namespace its shard is asked, with the namespace as a filter.
Targets(ns)    == IF ns = Nowhere THEN Shard ELSE {Home[ns]}
Matches(ns)    == {v \in Vector : ns \in {Nowhere, tag[v]}}

\* Mutant: each shard contributes its share of the k results.
LocalTopShare(q, ns, s) == Nearest(q, K \div Cardinality(Targets(ns)),
                                   {v \in Matches(ns) : ShardOf(v) = s})

\* Search on a server of shard s.
LocalTop(q, ns, s) == Nearest(q, K, {v \in Matches(ns) : ShardOf(v) = s})

-----------------------------------------------------------------------------
\* An order gives each replica that is left to try its place.
Turn(s, r) == (r - next_replica[s]) % NumReplicas

\* Mutant: recently failed replicas are not tried again.
OrderWithoutDown(s) ==
    LET healthy == {r \in Replica : <<s, r>> \notin down} IN
    [r \in IF healthy = {} THEN Replica ELSE healthy |-> Turn(s, r)]

\* Mutant: replicas are tried in the same order every time.
OrderUnrotated(s) == [r \in Replica |-> IF <<s, r>> \in down THEN NumReplicas + r ELSE r]

\* _replica_order: rotated, recently failed ones last.
Order(s) == [r \in Replica |-> IF <<s, r>> \in down THEN NumReplicas + Turn(s, r) ELSE Turn(s, r)]

First(order) == CHOOSE r \in DOMAIN order : \A q \in DOMAIN order : order[r] <= order[q]

\* The replicas that come after it.
Rest(order) == [r \in DOMAIN order \ {First(order)} |-> order[r]]

\* Every target is sent the query at once.  `failed` is kept to state what a
\* missing shard stands for.
StartSearch(q, ns, partial) ==
    /\ call.kind # "search"
    /\ call' = [kind |-> "search", query |-> q, ns |-> ns, partial |-> partial,
                order |-> [s \in Targets(ns) |-> Order(s)], pending |-> Targets(ns),
                hits |-> {}, missing |-> {}, failed |-> {}]
    /\ next_replica' = [s \in Shard |->
           IF s \in Targets(ns) THEN (next_replica[s] + 1) % NumReplicas ELSE next_replica[s]]
    /\ UNCHANGED <<tag, down>>

\* When no shard is pending the answers are merged.  search, search_scored and
\* search_hits raise if a shard is missing, search_partial names it.
Finish(c) ==
    IF c.pending # {} THEN c
    ELSE IF c.missing # {} /\ ~c.partial THEN Idle
    ELSE [kind |-> "answered", query |-> c.query, ns |-> c.ns, missing |-> c.missing,
          failed |-> c.failed, result |-> Nearest(c.query, K, c.hits)]

Searching(s) == call.kind = "search" /\ s \in call.pending
Asked(s)     == <<s, First(call.order[s])>>

\* A replica answers; it counts as healthy again.
Answer(s) ==
    /\ Searching(s)
    /\ call' = Finish([call EXCEPT !.pending = @ \ {s},
                                   !.hits = @ \cup LocalTop(call.query, call.ns, s)])
    /\ down' = down \ {Asked(s)}
    /\ UNCHANGED <<tag, next_replica>>

\* Mutant: one more replica is asked than there are.
AskFailsPastLast(s) ==
    /\ Searching(s)
    /\ down' = down \cup {Asked(s)}
    /\ LET c == [call EXCEPT !.failed = @ \cup {Asked(s)}] IN
       call' = IF DOMAIN c.order[s] # {} THEN [c EXCEPT !.order[s] = Rest(@)]
               ELSE Finish([c EXCEPT !.pending = @ \ {s}, !.missing = @ \cup {s}])
    /\ UNCHANGED <<tag, next_replica>>

\* It is unavailable or too slow: on to the next one, or the shard is missing.
AskFails(s) ==
    /\ Searching(s)
    /\ down' = down \cup {Asked(s)}
    /\ LET c == [call EXCEPT !.failed = @ \cup {Asked(s)}] IN
       call' = IF DOMAIN Rest(c.order[s]) # {} THEN [c EXCEPT !.order[s] = Rest(@)]
               ELSE Finish([c EXCEPT !.pending = @ \ {s}, !.missing = @ \cup {s}])
    /\ UNCHANGED <<tag, next_replica>>

\* An error that no other replica would answer differently ends the search.
SearchRaises ==
    /\ call.kind = "search" /\ call' = Idle
    /\ UNCHANGED <<tag, next_replica, down>>

\* retry_after seconds have passed since t failed.
RetryAfter(t) ==
    /\ t \in down /\ down' = down \ {t}
    /\ UNCHANGED <<tag, next_replica, call>>

Next ==
    \/ \E q \in Query, ns \in Namespace \cup {Nowhere}, partial \in BOOLEAN :
          StartSearch(q, ns, partial)
    \/ \E s \in Shard : Answer(s) \/ AskFails(s)
    \/ SearchRaises
    \/ \E t \in Server : RetryAfter(t)

\* Every call has a timeout, so a search ends; and time passes.
Spec ==
    /\ Init /\ [][Next]_vars
    /\ WF_vars(\E s \in Shard : Answer(s) \/ AskFails(s))
    /\ \A t \in Server : WF_vars(RetryAfter(t))

-----------------------------------------------------------------------------
Asking == [query : Query, ns : Namespace \cup {Nowhere}, missing : SUBSET Shard,
           failed : SUBSET Server]

\* The state stays in its domains: every pending shard has a replica left to ask.
TypeOK ==
    /\ tag \in [Vector -> Namespace \cup {Nowhere}]
    /\ next_replica \in [Shard -> Replica] /\ down \subseteq Server
    /\ call = Idle \/ [f \in {"query", "ns", "missing", "failed"} |-> call[f]] \in Asking
    /\ call.kind = "search" =>
          /\ call.pending \subseteq Targets(call.ns) /\ call.hits \subseteq Vector
          /\ \A s \in Targets(call.ns) :
                \E left \in (SUBSET Replica) \ {{}} : call.order[s] \in [left -> Nat]
    /\ call.kind = "answered" => call.result \subseteq Vector

\* An answer has exactly the K closest of all vectors of its namespace that are
\* on shards it does not report missing, wherever the close ones happen to be
\* (plan_query, route_to_shard, merge_top_k_scored).
TopK ==
    call.kind = "answered" =>
        call.result = Nearest(call.query, K,
            {v \in Vector : /\ call.ns # Nowhere => tag[v] = call.ns
                            /\ ShardOf(v) \notin call.missing})

\* A shard is reported missing only after each of its copies has failed this very
\* search, whatever earlier searches put aside (_replica_order).
MissingOnlyIfAllFailed ==
    call.kind = "answered" => \A s \in call.missing : {s} \X Replica \subseteq call.failed

\* As long as a shard is searched, every one of its replicas is asked again and
\* again: also the one that failed before and came back (_replica_order).
ComesBack ==
    \A t \in Server :
        []<>Searching(t[1]) => []<>(Searching(t[1]) /\ Asked(t[1]) = t)
=============================================================================
