----------------------------- MODULE ShardIndex -----------------------------
(***************************************************************************)
(* One shard in memory: the HNSW graph (vsearch/hnsw.py), the payload      *)
(* index (vsearch/filtering.py), and the Shard that searches with both     *)
(* (vsearch/cluster.py).                                                   *)
(*                                                                         *)
(* Vectors are points.  All that the code asks of two of them is their     *)
(* distance, and of two distances which one is less, so numbers that       *)
(* compare as the distances do stand for them; nothing is assumed of them, *)
(* neither symmetry nor that equal points are closest.  The level of a     *)
(* node, random in the code, is any level here.  A node is its number,     *)
(* from 1 on, and the point of its vector.                                 *)
(***************************************************************************)
EXTENDS Integers, Sequences, FiniteSets, SequencesExt

CONSTANTS
    Point,             \* the vectors that are added and searched for
    Distance,          \* Distance[p, q]
    Payload,           \* Payload[p]: the <<field, value>> pairs stored with p
    Filter,            \* the filters asked for: [fields -> sets of values]
    M, EfConstruction, EfSearch, NeighborSelection, ExactAdvantage,
    MaxK, MaxNodes, MaxLevel,       \* bounds
    TallNodes,                      \* only so many nodes may have a level above 0
    Copies,                         \* a point is added so often
    TieRanks,                       \* which orders of nodes at one distance are tried
    SearchesAt, SnapshotsAt         \* sizes at which a filtered search, a snapshot comes

ASSUME ConstantsAssumption ==
    /\ Distance \in [Point \X Point -> Int] /\ M \in Nat \ {0, 1}
    /\ EfConstruction \in Nat \ {0} /\ EfSearch \in Nat \ {0} /\ ExactAdvantage \in Nat
    /\ NeighborSelection \in {"heuristic", "closest"}
    /\ MaxK \in Nat /\ MaxNodes \in Nat /\ MaxLevel \in Nat /\ TallNodes \in Nat /\ Copies \in Nat
    /\ TieRanks \subseteq Int /\ SearchesAt \subseteq Nat /\ SnapshotsAt \subseteq Nat

VARIABLES
    vectors,        \* the points in the order they were added
    graph,          \* graph[layer][n]: the nodes that n is linked to
    entry_point,
    top_layer,
    ids,            \* PayloadIndex._ids: <<key, node>> pairs
    indexed         \* payloads read so far

vars == <<vectors, graph, entry_point, top_layer, ids, indexed>>

Node == {<<i, vectors[i]>> : i \in DOMAIN vectors}
Layer == DOMAIN graph
None == <<0, 0>>

Larger(a, b)   == IF a < b THEN b ELSE a
Dist(q, n)     == Distance[q, n[2]]

\* The order of (distance, id) pairs.
Before(q, m, n)   == Dist(q, m) < Dist(q, n) \/ (Dist(q, m) = Dist(q, n) /\ m[1] < n[1])
Nearest(q, k, ns) == {n \in ns : Cardinality({m \in ns : Before(q, m, n)}) < k}
Closest(q, ns)    == CHOOSE n \in ns : \A m \in ns \ {n} : Before(q, n, m)
\* On top of the heap of results, which holds (-distance, id) pairs.
Worst(q, ns)      == CHOOSE n \in ns : \A m \in ns :
    Dist(q, m) < Dist(q, n) \/ (Dist(q, m) = Dist(q, n) /\ n[1] <= m[1])

-----------------------------------------------------------------------------
\* The closest of the neighbors of n, the first of them in the list, or n if none
\* is closer than n.
Hop(q, links, n) ==
    LET First(ns) == ns[CHOOSE i \in DOMAIN ns : \A j \in DOMAIN ns :
                            \/ Dist(q, ns[i]) < Dist(q, ns[j])
                            \/ Dist(q, ns[i]) = Dist(q, ns[j]) /\ i <= j]
    IN IF \A i \in DOMAIN links[n] : Dist(q, links[n][i]) >= Dist(q, n)
       THEN n ELSE First(links[n])

\* _greedy_descend.  Every hop leads closer, so there are fewer hops than nodes.
Greedy(q, from, layer) ==
    LET links == graph[layer]
        at[i \in 0..Cardinality(DOMAIN links)] == IF i = 0 THEN from ELSE Hop(q, links, at[i - 1])
    IN at[Cardinality(DOMAIN links)]

\* Mutant: nodes that are not allowed are not walked through.
ConsiderAllowed(q, ef, allowed, beam, n) ==
    IF n \in allowed /\ (\/ Cardinality(beam.results) < ef
                         \/ Dist(q, n) < Dist(q, Worst(q, beam.results)))
    THEN LET results == beam.results \cup {n} IN
         [beam EXCEPT !.candidates = @ \cup {n},
                      !.results = IF Cardinality(results) > ef
                                    THEN results \ {Worst(q, results)} ELSE results]
    ELSE beam

\* A neighbor of an expanded node becomes a candidate if it may improve the
\* results, and a result if it is allowed as well.
Consider(q, ef, allowed, beam, n) ==
    IF \/ Cardinality(beam.results) < ef
       \/ Dist(q, n) < Dist(q, Worst(q, beam.results))
    THEN LET results == beam.results \cup ({n} \cap allowed) IN
         [beam EXCEPT !.candidates = @ \cup {n},
                      !.results = IF Cardinality(results) > ef
                                    THEN results \ {Worst(q, results)} ELSE results]
    ELSE beam

\* One round of the loop: the closest candidate is expanded, unless it is
\* farther than the worst result of a full beam.  Of its neighbors those count
\* that were not visited before the round.
Expand(q, layer, ef, allowed, beam) ==
    LET c     == Closest(q, beam.candidates)
        links == graph[layer][c]
        after[i \in 0..Len(links)] ==
            IF i = 0 THEN [beam EXCEPT !.candidates = @ \ {c}, !.visited = @ \cup ToSet(links)]
            ELSE IF links[i] \in beam.visited THEN after[i - 1]
            ELSE Consider(q, ef, allowed, after[i - 1], links[i])
    IN IF beam.candidates = {} THEN beam
       ELSE IF /\ Cardinality(beam.results) >= ef
               /\ Dist(q, c) > Dist(q, Worst(q, beam.results))
       THEN [beam EXCEPT !.candidates = {}]
       ELSE after[Len(links)]

\* _search_layer_filtered; _search_layer_with_distances is the case that all
\* nodes are allowed.  Every round takes one node, so there are at most as many.
Beam(q, from, layer, ef, allowed) ==
    LET after[i \in 0..Len(vectors)] ==
            IF i = 0 THEN [candidates |-> {from}, visited |-> {from}, results |-> {from} \cap allowed]
            ELSE Expand(q, layer, ef, allowed, after[i - 1])
    IN after[Len(vectors)].results

\* The nodes of a list by distance to q; those at one distance keep their order.
Sorted(q, list) ==
    [r \in DOMAIN list |-> list[CHOOSE i \in DOMAIN list :
        Cardinality({j \in DOMAIN list :
            \/ Dist(q, list[j]) < Dist(q, list[i])
            \/ Dist(q, list[j]) = Dist(q, list[i]) /\ j < i}) = r - 1]]

\* Mutant: a candidate stays if it is closer to the base than to some neighbor kept.
KeepLoose(q, m, kept, n) ==
    IF Len(kept) < m /\ \E i \in DOMAIN kept : Dist(q, n) < Distance[n[2], kept[i][2]]
    THEN Append(kept, n) ELSE kept

\* A candidate stays if it is closer to the base at q than to every neighbor kept.
Keep(q, m, kept, n) ==
    IF Len(kept) < m /\ \A i \in DOMAIN kept : Dist(q, n) < Distance[n[2], kept[i][2]]
    THEN Append(kept, n) ELSE kept

\* _select_neighbors: up to m of the nodes as neighbors of a node at q.
SelectNeighbors(list, q, m) ==
    LET sorted == Sorted(q, list)
        kept[i \in 0..Len(sorted)] == IF i = 0 THEN <<>> ELSE Keep(q, m, kept[i - 1], sorted[i])
    IN IF Len(list) <= m THEN sorted
       ELSE IF NeighborSelection = "closest" THEN SubSeq(sorted, 1, m)
       ELSE kept[Len(sorted)]

\* One after the other, all nodes that links lead to.
Reachable(from) ==
    LET after[i \in 0..Len(vectors)] ==
            IF i = 0 THEN {from}
            ELSE after[i - 1] \cup UNION {ToSet(graph[0][n]) : n \in after[i - 1]}
    IN after[Len(vectors)]

-----------------------------------------------------------------------------
Init ==
    /\ vectors = <<>> /\ graph = <<>> /\ entry_point = None /\ top_layer = -1
    /\ ids = {} /\ indexed = 0

\* The nodes that have an older one at their distance to q.
Tied(q) == {n \in Node : \E m \in Node : m[1] < n[1] /\ Dist(q, m) = Dist(q, n)}

\* The candidates found in a layer in the order of their distances.  In which order
\* those at one distance come depends on the heap: rank puts them before or after
\* the oldest, which has rank 0.
Scored(q, ns, rank) ==
    LET Rank(n)      == IF n \in DOMAIN rank THEN rank[n] ELSE 0
        Sooner(m, n) == \/ Dist(q, m) < Dist(q, n)
                        \/ /\ Dist(q, m) = Dist(q, n)
                           /\ Rank(m) < Rank(n) \/ (Rank(m) = Rank(n) /\ m[1] < n[1])
    IN [r \in 1..Cardinality(ns) |->
            CHOOSE n \in ns : Cardinality({m \in ns : Sooner(m, n)}) = r - 1]

\* Mutant: every layer has the bound of layer 0.
MaxConnSame(l) == 2 * M

MaxConn(l) == IF l = 0 THEN 2 * M ELSE M

\* insert: down the layers above the node's own, then the candidates of each of
\* its layers, from which the neighbors are selected.
Linked(node, level, rank) ==
    LET q == node[2]
        \* what the walk through layer l finds, and where it starts
        Found(l, at) == Scored(q, Beam(q, at, l, EfConstruction, DOMAIN graph[l]), rank)
        from[l \in 0..top_layer] ==
            IF l = top_layer THEN entry_point
            ELSE IF l + 1 > level THEN Greedy(q, from[l + 1], l + 1)
            ELSE Head(Found(l + 1, from[l + 1]))
        Neighbors(l) == SelectNeighbors(Found(l, from[l]), q, M)
        Relink(l, ns) == [n \in DOMAIN graph[l] \cup {node} |->
            IF n = node THEN ns
            ELSE IF n \notin ToSet(ns) THEN graph[l][n]
            ELSE LET links == Append(graph[l][n], node) IN
                 IF Len(links) > MaxConn(l) THEN SelectNeighbors(links, n[2], MaxConn(l))
                 ELSE links]
    IN [l \in 0..Larger(top_layer, level) |->
            IF l > level THEN graph[l]
            ELSE IF l > top_layer THEN [n \in {node} |-> <<>>]
            ELSE Relink(l, Neighbors(l))]

\* Mutant: the search goes on beginning at the first node.
EntryFirst(node, level) == IF vectors = <<>> THEN node ELSE entry_point

\* A node above all others is where searches begin from now on.
Entry(node, level) == IF level > top_layer THEN node ELSE entry_point

Insert(p, level, rank) ==
    LET node == <<Len(vectors) + 1, p>> IN
    /\ Len(vectors) < MaxNodes /\ (level > 0 => Len(vectors) < TallNodes)
    /\ Cardinality({i \in DOMAIN vectors : vectors[i] = p}) < Copies
    /\ vectors' = Append(vectors, p)
    /\ graph' = Linked(node, level, rank)
    /\ top_layer' = Larger(top_layer, level)
    /\ entry_point' = Entry(node, level)

Add(p, level, rank) == Insert(p, level, rank) /\ UNCHANGED <<ids, indexed>>

\* Mutant: the payload index outlives the payloads it was made from.
ReplaceKeepsIndex(p, level, rank) ==
    /\ Len(vectors) \in SnapshotsAt
    /\ Insert(p, level, rank) /\ ids' = ids /\ indexed' = Len(vectors) + 1

\* A snapshot of a peer that is ahead, here by one vector, takes the place of
\* what there was: a new Shard, so nothing is indexed (install_snapshot).
Replace(p, level, rank) ==
    /\ Len(vectors) \in SnapshotsAt
    /\ Insert(p, level, rank) /\ ids' = {} /\ indexed' = 0

\* A filtered search first reads the payloads that came since the last one.
CatchUp ==
    /\ indexed < Len(vectors) /\ Len(vectors) \in SearchesAt
    /\ ids' = ids \cup UNION {{<<key, i>> : key \in Payload[vectors[i]]} :
                                 i \in indexed + 1..Len(vectors)}
    /\ indexed' = Len(vectors)
    /\ UNCHANGED <<vectors, graph, entry_point, top_layer>>

Next ==
    \/ \E p \in Point, level \in 0..MaxLevel : \E rank \in [Tied(p) -> TieRanks] :
          Add(p, level, rank) \/ Replace(p, level, rank)
    \/ CatchUp

Spec == Init /\ [][Next]_vars

-----------------------------------------------------------------------------
(***************************************************************************)
(* Searching, which changes nothing but the payload index.                 *)
(***************************************************************************)
\* matching: every field has one of its wanted values.
Matching(where) ==
    {i \in DOMAIN vectors : \A f \in DOMAIN where : \E v \in where[f] : <<<<f, v>>, i>> \in ids}

\* From the top to layer 0, greedily.
EntryTo(q) ==
    LET from[l \in 0..top_layer] ==
            IF l = top_layer THEN entry_point ELSE Greedy(q, from[l + 1], l + 1)
    IN from[0]

\* Mutant: k plays no part in how wide the search is.
BeamWidthFixed(k, filtered) == EfSearch

BeamWidth(k, filtered) == IF filtered THEN Larger(EfSearch, k) ELSE EfSearch

\* search_with_distances
ByGraph(q, k, allowed, filtered) ==
    Nearest(q, k, Beam(q, EntryTo(q), 0, BeamWidth(k, filtered), allowed))

\* filter_strategy
Exact(k, matches) == matches * matches <= ExactAdvantage * Larger(EfSearch, k) * Len(vectors)

Allowed(where) == {n \in Node : n[1] \in Matching(where)}

\* search, with a filter and after CatchUp.
Hits(q, k, where) ==
    IF Exact(k, Cardinality(Allowed(where))) THEN Nearest(q, k, Allowed(where))
    ELSE ByGraph(q, k, Allowed(where), TRUE)

-----------------------------------------------------------------------------
\* From the entry point a search can go down layer by layer: every layer is part of
\* the one below, layer 0 has all nodes, and the entry point is in the top layer,
\* whichever levels were drawn in which order (insert).
LayersNest ==
    /\ Layer = 0..top_layer
    /\ vectors # <<>> => /\ 0 \in Layer /\ DOMAIN graph[0] = Node
                         /\ entry_point \in DOMAIN graph[top_layer]
    /\ \A l \in Layer \ {0} : DOMAIN graph[l] \subseteq DOMAIN graph[l - 1]

\* And through each layer link by link: links stay inside their layer, lead to
\* another node and only once; and no node has more than its layer allows (insert).
GraphOK ==
    /\ \A l \in Layer : \A n \in DOMAIN graph[l] :
          /\ ToSet(graph[l][n]) \subseteq DOMAIN graph[l] \ {n}
          /\ IsInjective(graph[l][n])
          /\ Len(graph[l][n]) <= (IF l = 0 THEN 2 * M ELSE M)
    /\ indexed \in 0..Len(vectors)

\* A walk never ends where it began: pruning leaves every node a link (_select_neighbors).
NoDeadEnd ==
    \A l \in Layer : Cardinality(DOMAIN graph[l]) > 1 =>
        \A n \in DOMAIN graph[l] : graph[l][n] # <<>>

\* After catching up the payload index knows exactly which vectors match, whether
\* they were added before or after the last search, or came in a snapshot (catch_up).
FilterMatches ==
    indexed = Len(vectors) => \A where \in Filter :
        Matching(where) = {i \in DOMAIN vectors : \A f \in DOMAIN where :
                              \E v \in where[f] : <<f, v>> \in Payload[vectors[i]]}

\* A beam that is wide enough finds every allowed node that links lead to, through
\* whatever is not allowed (_search_layer_filtered).
FindsReachable ==
    (vectors # <<>> /\ indexed = Len(vectors)) => \A q \in Point, where \in Filter :
        Beam(q, EntryTo(q), 0, Len(vectors), Allowed(where))
            = Allowed(where) \cap Reachable(EntryTo(q))

\* A filtered search has k results as long as there are so many to be reached,
\* also when k is larger than ef_search (search_with_distances).
NoShortAnswer ==
    (vectors # <<>> /\ indexed = Len(vectors)) =>
        \A q \in Point, k \in 1..MaxK, where \in Filter :
            LET there == Cardinality(Allowed(where) \cap Reachable(EntryTo(q))) IN
            Cardinality(Hits(q, k, where)) >= (IF there < k THEN there ELSE k)
=============================================================================
