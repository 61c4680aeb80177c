-------------------------- MODULE ShardIndex_proofs --------------------------
(***************************************************************************)
(* Proofs about ShardIndex that hold for all values of its constants:      *)
(*   - the payload index is exactly what the payloads read so far say, so  *)
(*     a filtered search considers all vectors that match and no others;   *)
(*   - the layers of the graph lie one within the other below the entry    *)
(*     point, and the links of each layer are lists that no insert spoils; *)
(*   - a greedy walk ends, a wide enough beam finds whatever links lead    *)
(*     to, and a filtered search has as many results as there are.         *)
(* The loops of the code are functions of the number of rounds; what holds *)
(* after every round is shown with StepsStay and Rounds of FiniteOrders.   *)
(***************************************************************************)
EXTENDS ShardIndex, FiniteOrders, SequenceTheorems, TLAPS

\* The index holds the payloads of the first `indexed` vectors: no entry is
\* missing, none is left over from payloads that a snapshot replaced.
IndexInv ==
    /\ vectors \in Seq(Point)
    /\ indexed \in 0 .. Len(vectors)
    /\ \A key, i : <<key, i>> \in ids <=> i \in 1 .. indexed /\ key \in Payload[vectors[i]]

LEMMA IndexInit == Init => IndexInv
<1> SUFFICES ASSUME Init PROVE IndexInv
  OBVIOUS
<1>1. vectors = <<>> /\ ids = {} /\ indexed = 0
  BY DEF Init
<1>2. <<>> \in Seq(Point) /\ Len(<<>>) = 0
  BY EmptySeq
<1> QED BY <1>1, <1>2 DEF IndexInv

\* Adding a vector, by a client or with a snapshot, changes none of the others.
LEMMA InsertAppends ==
    ASSUME IndexInv, NEW p \in Point, NEW level, NEW rank, Insert(p, level, rank)
    PROVE  /\ vectors' \in Seq(Point) /\ Len(vectors') = Len(vectors) + 1
           /\ \A i \in 1 .. Len(vectors) : vectors'[i] = vectors[i]
BY AppendProperties DEF IndexInv, Insert

LEMMA IndexStep == IndexInv /\ [Next]_vars => IndexInv'
<1> SUFFICES ASSUME IndexInv, [Next]_vars PROVE IndexInv'
  OBVIOUS
<1>1. /\ vectors \in Seq(Point) /\ Len(vectors) \in Nat /\ indexed \in 0 .. Len(vectors)
      /\ \A key, i : <<key, i>> \in ids <=> i \in 1 .. indexed /\ key \in Payload[vectors[i]]
  BY LenProperties DEF IndexInv
<1>2. ASSUME NEW p \in Point, NEW level, NEW rank, Add(p, level, rank) PROVE IndexInv'
  <2>1. Insert(p, level, rank) /\ ids' = ids /\ indexed' = indexed
    BY <1>2 DEF Add
  <2>2. /\ vectors' \in Seq(Point) /\ Len(vectors') = Len(vectors) + 1
        /\ \A i \in 1 .. Len(vectors) : vectors'[i] = vectors[i]
    BY <2>1, InsertAppends
  <2>3. \A i \in 1 .. indexed : vectors'[i] = vectors[i]
    BY <1>1, <2>2
  <2> QED BY <1>1, <2>1, <2>2, <2>3 DEF IndexInv
<1>3. ASSUME NEW p \in Point, NEW level, NEW rank, Replace(p, level, rank) PROVE IndexInv'
  <2>1. Insert(p, level, rank) /\ ids' = {} /\ indexed' = 0
    BY <1>3 DEF Replace
  <2>2. vectors' \in Seq(Point) /\ Len(vectors') = Len(vectors) + 1
    BY <2>1, InsertAppends
  <2> QED BY <1>1, <2>1, <2>2 DEF IndexInv
<1>4. CASE CatchUp
  <2>1. /\ vectors' = vectors /\ indexed' = Len(vectors)
        /\ ids' = ids \cup UNION {{<<key, i>> : key \in Payload[vectors[i]]} :
                                     i \in indexed + 1 .. Len(vectors)}
    BY <1>4 DEF CatchUp
  <2>2. \A key, i : <<key, i>> \in ids' <=>
           \/ <<key, i>> \in ids
           \/ i \in indexed + 1 .. Len(vectors) /\ key \in Payload[vectors[i]]
    BY <2>1
  <2>3. \A i : i \in 1 .. indexed \/ i \in indexed + 1 .. Len(vectors) <=> i \in 1 .. Len(vectors)
    BY <1>1
  <2>4. \A key, i : <<key, i>> \in ids' <=> i \in 1 .. Len(vectors) /\ key \in Payload[vectors[i]]
    BY <1>1, <2>2, <2>3
  <2>5. indexed' \in 0 .. Len(vectors')
    BY <1>1, <2>1
  <2> QED BY <1>1, <2>1, <2>4, <2>5 DEF IndexInv
<1>5. CASE UNCHANGED vars
  BY <1>1, <1>5 DEF vars, IndexInv
<1> QED BY <1>2, <1>3, <1>4, <1>5 DEF Next

\* Once the payload index has caught up, a filter selects exactly the vectors
\* whose payload it describes, in whatever order vectors were added, searched
\* for, or replaced by a peer's snapshot (catch_up, matching, install_snapshot).
THEOREM FilterSelectsMatches == Spec => []FilterMatches
<1>1. IndexInv => FilterMatches
  <2> SUFFICES ASSUME IndexInv, indexed = Len(vectors), NEW where \in Filter
               PROVE  Matching(where) = {i \in DOMAIN vectors : \A f \in DOMAIN where :
                              \E v \in where[f] : <<f, v>> \in Payload[vectors[i]]}
    BY DEF FilterMatches
  <2>1. DOMAIN vectors = 1 .. indexed
    BY LenProperties DEF IndexInv
  <2>2. \A key : \A i \in DOMAIN vectors : <<key, i>> \in ids <=> key \in Payload[vectors[i]]
    BY <2>1 DEF IndexInv
  <2>3. \A i \in DOMAIN vectors : \A f, v : <<<<f, v>>, i>> \in ids <=> <<f, v>> \in Payload[vectors[i]]
    BY <2>2
  <2> QED BY <2>3 DEF Matching
<1> QED BY <1>1, IndexInit, IndexStep, PTL DEF Spec

-----------------------------------------------------------------------------
(***************************************************************************)
(* The layers of the graph.  What the walks through them find plays no     *)
(* part here: a node is put into all layers up to its level.               *)
(***************************************************************************)
LayersInv ==
    /\ vectors \in Seq(Point) /\ top_layer \in Nat \cup {-1}
    /\ vectors = <<>> => top_layer = -1
    /\ LayersNest

LEMMA LayersInit == Init => LayersInv
<1> SUFFICES ASSUME Init PROVE LayersInv
  OBVIOUS
<1>1. vectors = <<>> /\ graph = <<>> /\ top_layer = -1
  BY DEF Init
<1>2. <<>> \in Seq(Point) /\ DOMAIN <<>> = {} /\ 0 .. -1 = {}
  BY EmptySeq
<1> QED BY <1>1, <1>2 DEF LayersInv, LayersNest, Layer

\* Layer l after node has been inserted up to level.
InsertedUpTo(nodes, l, node, level) ==
    /\ l > level => nodes = DOMAIN graph[l]
    /\ l <= level /\ l > top_layer => nodes = {node}
    /\ l <= level /\ l <= top_layer => nodes = DOMAIN graph[l] \cup {node}

LEMMA LinkedLayers ==
    ASSUME NEW node, NEW level \in Nat, NEW rank, top_layer \in Nat \cup {-1}
    PROVE  /\ DOMAIN Linked(node, level, rank) = 0 .. Larger(top_layer, level)
           /\ \A l \in 0 .. Larger(top_layer, level) :
                 InsertedUpTo(DOMAIN Linked(node, level, rank)[l], l, node, level)
BY DEF Linked, Larger, InsertedUpTo

LEMMA InsertLayers ==
    ASSUME LayersInv, NEW p \in Point, NEW level \in Nat, NEW rank, Insert(p, level, rank)
    PROVE  LayersInv'
<1> DEFINE node == <<Len(vectors) + 1, p>>
<1>1. /\ vectors \in Seq(Point) /\ Len(vectors) \in Nat /\ top_layer \in Nat \cup {-1}
      /\ vectors = <<>> => top_layer = -1
      /\ DOMAIN graph = 0 .. top_layer
      /\ vectors # <<>> => top_layer >= 0 /\ DOMAIN graph[0] = Node
                           /\ entry_point \in DOMAIN graph[top_layer]
      /\ \A l \in (0 .. top_layer) \ {0} : DOMAIN graph[l] \subseteq DOMAIN graph[l - 1]
  <2>1. DOMAIN graph = 0 .. top_layer /\ Layer = 0 .. top_layer
    BY DEF LayersInv, LayersNest, Layer
  <2>2. \A l \in Layer \ {0} : DOMAIN graph[l] \subseteq DOMAIN graph[l - 1]
    BY DEF LayersInv, LayersNest
  <2>3. vectors # <<>> => 0 \in Layer /\ DOMAIN graph[0] = Node
                           /\ entry_point \in DOMAIN graph[top_layer]
    BY DEF LayersInv, LayersNest
  <2>4. vectors \in Seq(Point) /\ Len(vectors) \in Nat /\ top_layer \in Nat \cup {-1}
        /\ (vectors = <<>> => top_layer = -1)
    BY LenProperties DEF LayersInv
  <2>5. 0 \in 0 .. top_layer => top_layer >= 0
    BY <2>4
  <2> QED BY <2>1, <2>2, <2>3, <2>4, <2>5
<1>2. /\ vectors' = Append(vectors, p) /\ graph' = Linked(node, level, rank)
      /\ top_layer' = (IF top_layer < level THEN level ELSE top_layer)
      /\ entry_point' = (IF level > top_layer THEN node ELSE entry_point)
  BY DEF Insert, Larger, Entry
<1>3. /\ vectors' \in Seq(Point) /\ Len(vectors') = Len(vectors) + 1
      /\ \A i \in 1 .. Len(vectors) : vectors'[i] = vectors[i]
      /\ vectors'[Len(vectors) + 1] = p
  BY <1>1, <1>2, AppendProperties
<1>4. /\ DOMAIN graph' = 0 .. top_layer'
      /\ \A l \in 0 .. top_layer' :
            /\ l > level => DOMAIN graph'[l] = DOMAIN graph[l]
            /\ l <= level /\ l > top_layer => DOMAIN graph'[l] = {node}
            /\ l <= level /\ l <= top_layer => DOMAIN graph'[l] = DOMAIN graph[l] \cup {node}
  <2>1. top_layer' = Larger(top_layer, level)
    BY <1>2 DEF Larger
  <2>2. DOMAIN graph' = 0 .. top_layer'
    BY <1>1, <1>2, <2>1, LinkedLayers
  <2>3. \A l \in 0 .. top_layer' : InsertedUpTo(DOMAIN graph'[l], l, node, level)
    BY <1>1, <1>2, <2>1, LinkedLayers
  <2> QED BY <2>2, <2>3 DEF InsertedUpTo
<1>5. Node' = Node \cup {node}
  <2>1. DOMAIN vectors = 1 .. Len(vectors) /\ DOMAIN vectors' = 1 .. Len(vectors) + 1
    BY <1>1, <1>3, LenProperties
  <2>2. \A i : i \in 1 .. Len(vectors) + 1 <=> i \in 1 .. Len(vectors) \/ i = Len(vectors) + 1
    BY <1>1
  <2>3. Node = {<<i, vectors[i]>> : i \in 1 .. Len(vectors)}
    BY <2>1 DEF Node
  <2>4. Node' = {<<i, vectors'[i]>> : i \in 1 .. Len(vectors) + 1}
    BY <2>1 DEF Node
  <2> QED BY <1>3, <2>2, <2>3, <2>4
<1> HIDE DEF node
<1>6. top_layer' \in Nat /\ level <= top_layer' /\ top_layer <= top_layer'
      /\ (top_layer' = level \/ top_layer' = top_layer)
  BY <1>1, <1>2
<1>7. DOMAIN graph'[0] = Node'
  <2>1. CASE top_layer = -1
    <3>1. vectors = <<>>
      BY <1>1, <2>1
    <3>2. Node = {}
      BY <3>1, EmptySeq DEF Node
    <3> QED BY <1>4, <1>5, <1>6, <2>1, <3>2
  <2>2. CASE top_layer # -1
    <3>1. vectors # <<>> /\ DOMAIN graph[0] = Node /\ top_layer >= 0
      BY <1>1, <2>2
    <3> QED BY <1>4, <1>5, <1>6, <3>1
  <2> QED BY <2>1, <2>2
<1>8. entry_point' \in DOMAIN graph'[top_layer']
  <2>1. CASE level > top_layer
    <3>1. top_layer' = level /\ entry_point' = node
      BY <1>1, <1>2, <2>1
    <3>2. DOMAIN graph'[level] = {node}
      BY <1>1, <1>4, <1>6, <2>1, <3>1
    <3> QED BY <3>1, <3>2
  <2>2. CASE level <= top_layer
    <3>1. top_layer' = top_layer /\ entry_point' = entry_point /\ top_layer # -1
      BY <1>1, <1>2, <2>2
    <3>2. entry_point \in DOMAIN graph[top_layer]
      BY <1>1, <3>1
    <3>3. DOMAIN graph[top_layer] \subseteq DOMAIN graph'[top_layer]
      BY <1>1, <1>4, <1>6, <2>2, <3>1
    <3> QED BY <3>1, <3>2, <3>3
  <2> QED BY <1>1, <2>1, <2>2
<1>9. ASSUME NEW l \in (0 .. top_layer') \ {0}
      PROVE  DOMAIN graph'[l] \subseteq DOMAIN graph'[l - 1]
  <2>1. l \in 0 .. top_layer' /\ l - 1 \in 0 .. top_layer' /\ l \in Nat /\ l - 1 < l
    BY <1>6
  <2>2. CASE l > level
    <3>1. l \in (0 .. top_layer) \ {0}
      BY <1>1, <1>6, <2>1, <2>2
    <3>2. DOMAIN graph[l] \subseteq DOMAIN graph[l - 1] /\ l - 1 <= top_layer
      BY <1>1, <2>1, <3>1
    <3>3. DOMAIN graph'[l] = DOMAIN graph[l]
      BY <1>4, <2>1, <2>2
    <3>4. DOMAIN graph[l - 1] \subseteq DOMAIN graph'[l - 1]
      BY <1>1, <1>4, <2>1, <3>2
    <3> QED BY <3>2, <3>3, <3>4
  <2>3. CASE l <= level /\ l > top_layer
    <3>1. DOMAIN graph'[l] = {node} /\ l - 1 <= level
      BY <1>4, <2>1, <2>3
    <3>2. node \in DOMAIN graph'[l - 1]
      BY <1>1, <1>4, <2>1, <3>1
    <3> QED BY <3>1, <3>2
  <2>4. CASE l <= level /\ l <= top_layer
    <3>1. /\ DOMAIN graph'[l] = DOMAIN graph[l] \cup {node}
          /\ l - 1 <= level /\ l - 1 <= top_layer
          /\ l \in (0 .. top_layer) \ {0}
      BY <1>1, <1>4, <2>1, <2>4
    <3>2. DOMAIN graph'[l - 1] = DOMAIN graph[l - 1] \cup {node}
      BY <1>4, <2>1, <3>1
    <3> QED BY <1>1, <3>1, <3>2
  <2> QED BY <1>1, <2>1, <2>2, <2>3, <2>4
<1>10. vectors' # <<>>
  BY <1>1, <1>3, EmptySeq
<1> QED BY <1>3, <1>4, <1>6, <1>7, <1>8, <1>9, <1>10 DEF LayersInv, LayersNest, Layer

LEMMA LayersStep == LayersInv /\ [Next]_vars => LayersInv'
<1> SUFFICES ASSUME LayersInv, [Next]_vars PROVE LayersInv'
  OBVIOUS
<1>1. ASSUME NEW p \in Point, NEW level \in 0 .. MaxLevel, NEW rank,
             Add(p, level, rank) \/ Replace(p, level, rank)
      PROVE  LayersInv'
  <2>1. Insert(p, level, rank) /\ level \in Nat
    BY <1>1, ConstantsAssumption DEF Add, Replace
  <2> QED BY <2>1, InsertLayers
<1>2. CASE CatchUp \/ UNCHANGED vars
  BY <1>2 DEF CatchUp, vars, LayersInv, LayersNest, Layer, Node
<1> QED BY <1>1, <1>2 DEF Next

\* Every layer is part of the one below and the search begins in the top one, for
\* all numbers of vectors and all draws of their levels (insert).
THEOREM LayersAlwaysNest == Spec => []LayersNest
BY LayersInit, LayersStep, PTL DEF Spec, LayersInv

-----------------------------------------------------------------------------
(***************************************************************************)
(* Lists of nodes: sorted, and pruned to the neighbors that are kept.      *)
(***************************************************************************)
\* A node is known by its number.
Numbered(D) ==
    /\ D \subseteq Nat \X Point /\ IsFiniteSet(D)
    /\ \A m, n \in D : m[1] = n[1] => m = n

\* Lists in which no node is twice.
ListOf(D) == {list \in Seq(D) : \A i, j \in 1 .. Len(list) : list[i] = list[j] => i = j}

LEMMA DistType ==
    ASSUME NEW q \in Point, NEW n \in Nat \X Point
    PROVE  Dist(q, n) \in Int
BY ConstantsAssumption DEF Dist

LEMMA NumberedDist ==
    ASSUME NEW q \in Point, NEW D, Numbered(D)
    PROVE  \A n \in D : Dist(q, n) \in Int /\ n[1] \in Nat
BY DistType DEF Numbered

\* Sorting changes the order of a list and nothing else.
LEMMA SortedList ==
    ASSUME NEW D, Numbered(D), NEW list \in ListOf(D), NEW q \in Point
    PROVE  Sorted(q, list) \in ListOf(D) /\ Len(Sorted(q, list)) = Len(list)
<1> DEFINE T == DOMAIN list
           Sooner(i) == {j \in T : \/ Dist(q, list[j]) < Dist(q, list[i])
                                   \/ Dist(q, list[j]) = Dist(q, list[i]) /\ j < i}
           Under == [i \in T |-> Sooner(i)]
           pos == [r \in T |-> CHOOSE i \in T : Cardinality(Sooner(i)) = r - 1]
<1>1. /\ list \in Seq(D) /\ Len(list) \in Nat /\ T = 1 .. Len(list)
      /\ \A i \in T : list[i] \in D
      /\ \A i, j \in T : list[i] = list[j] => i = j
  BY DEF ListOf
<1>2. \A i \in T : Dist(q, list[i]) \in Int /\ i \in Nat
  <2>1. \A n \in D : Dist(q, n) \in Int
    BY NumberedDist
  <2> QED BY <1>1, <2>1
<1>3. IsFiniteSet(T) /\ Cardinality(T) = Len(list)
  <2>1. 1 \in Int /\ Len(list) \in Int
    BY <1>1
  <2>2. IsFiniteSet(1 .. Len(list)) /\ Cardinality(1 .. Len(list)) = IF 1 > Len(list) THEN 0 ELSE Len(list) - 1 + 1
    BY <2>1, FS_Interval
  <2> QED BY <1>1, <2>2
<1>4. Sorted(q, list) = [r \in T |-> list[pos[r]]]
  BY DEF Sorted
<1>5. \A m \in 0 .. Len(list) - 1 : \E i \in T : Cardinality(Sooner(i)) = m
  <2>1. \A i, j \in T : j \in Under[i] <=> \/ Dist(q, list[j]) < Dist(q, list[i])
                                           \/ Dist(q, list[j]) = Dist(q, list[i]) /\ j < i
    OBVIOUS
  <2>2. Under \in [T -> SUBSET T]
    OBVIOUS
  <2>3. \A i \in T : Under[i] = Sooner(i)
    OBVIOUS
  <2> HIDE DEF Under, Sooner
  <2>4. \A i \in T : i \notin Under[i]
    BY <1>2, <2>1
  <2>5. \A i, j, k \in T : i \in Under[j] /\ j \in Under[k] => i \in Under[k]
    <3> SUFFICES ASSUME NEW i \in T, NEW j \in T, NEW k \in T, i \in Under[j], j \in Under[k]
                 PROVE  i \in Under[k]
      OBVIOUS
    <3> HIDE DEF T
    <3> QED BY <1>2, <2>1
  <2>6. \A i, j \in T : i = j \/ i \in Under[j] \/ j \in Under[i]
    <3> HIDE DEF T
    <3> QED BY <1>2, <2>1
  <2> HIDE DEF T
  <2>7. \A m \in 0 .. Cardinality(T) - 1 : \E i \in T : Cardinality(Under[i]) = m
    BY <1>3, <2>2, <2>4, <2>5, <2>6, Ranks
  <2> QED BY <1>3, <2>3, <2>7
<1>6. \A r \in T : pos[r] \in T /\ Cardinality(Sooner(pos[r])) = r - 1
  <2>1. ASSUME NEW r \in T PROVE pos[r] \in T /\ Cardinality(Sooner(pos[r])) = r - 1
    <3>1. r - 1 \in 0 .. Len(list) - 1
      BY <1>1
    <3>2. \E i \in T : Cardinality(Sooner(i)) = r - 1
      BY <1>5, <3>1
    <3> HIDE DEF Sooner
    <3> QED BY <3>2, Zenon
  <2> QED BY <2>1
<1>7. ASSUME NEW r \in T, NEW s \in T, pos[r] = pos[s] PROVE r = s
  <2>1. r - 1 = s - 1
    BY <1>6, <1>7
  <2> QED BY <1>1, <2>1
<1> HIDE DEF pos, Sooner
<1>8. Sorted(q, list) \in Seq(D) /\ Len(Sorted(q, list)) = Len(list)
  BY <1>1, <1>4, <1>6
<1>9. ASSUME NEW r \in T, NEW s \in T, Sorted(q, list)[r] = Sorted(q, list)[s] PROVE r = s
  BY <1>1, <1>4, <1>6, <1>7, <1>9
<1> QED BY <1>1, <1>8, <1>9 DEF ListOf

\* Pruning keeps some of the list, no more than m, and never nothing: the closest
\* one always stays.
LEMMA SelectedList ==
    ASSUME NEW D, Numbered(D), NEW list \in ListOf(D), NEW q \in Point, NEW m \in Nat \ {0}
    PROVE  /\ SelectNeighbors(list, q, m) \in ListOf(D)
           /\ Len(SelectNeighbors(list, q, m)) <= m
           /\ list # <<>> => SelectNeighbors(list, q, m) # <<>>
<1> DEFINE sorted == Sorted(q, list)
           N == Len(sorted)
           Short == {kept \in ListOf(D) : Len(kept) <= m}
           S == [i \in 0 .. N |-> {kept \in Short : /\ \A j \in 1 .. Len(kept) :
                                                         \E r \in 1 .. i : kept[j] = sorted[r]
                                                    /\ i > 0 => kept # <<>>}]
<1>1. /\ list \in Seq(D) /\ sorted \in ListOf(D) /\ sorted \in Seq(D) /\ N = Len(list) /\ N \in Nat
      /\ \A i \in 1 .. N : sorted[i] \in D
      /\ \A i, j \in 1 .. N : sorted[i] = sorted[j] => i = j
  BY SortedList DEF ListOf
<1>0. Len(sorted) = N
  OBVIOUS
<1>2. list # <<>> => N > 0
  BY <1>1, EmptySeq
<1> HIDE DEF sorted, N
<1>3. CASE Len(list) <= m
  <2>1. SelectNeighbors(list, q, m) = sorted
    BY <1>3 DEF SelectNeighbors, sorted
  <2> QED BY <1>0, <1>1, <1>2, <1>3, <2>1, EmptySeq
<1>4. CASE ~(Len(list) <= m) /\ NeighborSelection = "closest"
  <2>1. SelectNeighbors(list, q, m) = SubSeq(sorted, 1, m)
    BY <1>4 DEF SelectNeighbors, sorted
  <2>2. m \in 1 .. N
    BY <1>1, <1>4
  <2>3. /\ SubSeq(sorted, 1, m) \in Seq(D) /\ Len(SubSeq(sorted, 1, m)) = m
        /\ \A i \in 1 .. m : SubSeq(sorted, 1, m)[i] = sorted[i]
    BY <1>1, <2>2
  <2>4. \A i, j \in 1 .. m : sorted[i] = sorted[j] => i = j
    BY <1>1, <2>2
  <2> DEFINE t == SubSeq(sorted, 1, m)
  <2> HIDE DEF t
  <2>5. t \in ListOf(D)
    BY <2>3, <2>4 DEF ListOf, t
  <2>6. Len(t) = m /\ t # <<>>
    BY <2>3, EmptySeq DEF t
  <2> QED BY <2>1, <2>5, <2>6 DEF t
<1>5. CASE ~(Len(list) <= m) /\ NeighborSelection # "closest"
  <2> DEFINE kept == CHOOSE f : f = [i \in 0 .. N |->
                         IF i = 0 THEN <<>> ELSE Keep(q, m, f[i - 1], sorted[i])]
  <2>1. SelectNeighbors(list, q, m) = kept[N]
    BY <1>5 DEF SelectNeighbors, sorted, N
  <2>2. ASSUME NEW i \in 1 .. N, NEW s \in S[i - 1] PROVE Keep(q, m, s, sorted[i]) \in S[i]
    <3>1. /\ s \in Seq(D) /\ Len(s) \in Nat /\ Len(s) <= m
          /\ \A j, k \in 1 .. Len(s) : s[j] = s[k] => j = k
          /\ \A j \in 1 .. Len(s) : \E r \in 1 .. i - 1 : s[j] = sorted[r]
          /\ i - 1 > 0 => s # <<>>
      <4>1. i - 1 \in 0 .. N
        BY <1>1
      <4>2. s \in Short /\ (i - 1 > 0 => s # <<>>)
            /\ \A j \in 1 .. Len(s) : \E r \in 1 .. i - 1 : s[j] = sorted[r]
        BY <2>2, <4>1
      <4>3. s \in Seq(D) /\ Len(s) <= m /\ \A j, k \in 1 .. Len(s) : s[j] = s[k] => j = k
        BY <4>2 DEF ListOf
      <4> QED BY <4>2, <4>3, LenProperties
    <3>2. sorted[i] \in D
      BY <1>1
    <3>3. CASE Keep(q, m, s, sorted[i]) = s
      <4>1. s # <<>>
        <5>1. CASE s = <<>>
          <6>1. Keep(q, m, s, sorted[i]) = Append(s, sorted[i])
            BY <5>1, EmptySeq DEF Keep
          <6>2. Len(Append(s, sorted[i])) = Len(s) + 1
            BY <3>1, <3>2
          <6> QED BY <3>1, <3>3, <6>1, <6>2
        <5> QED BY <5>1
      <4>2. \A j \in 1 .. Len(s) : \E r \in 1 .. i : s[j] = sorted[r]
        BY <3>1
      <4> QED BY <3>1, <3>3, <4>1, <4>2 DEF ListOf
    <3>4. CASE Keep(q, m, s, sorted[i]) # s
      <4> DEFINE t == Append(s, sorted[i])
      <4>1. Len(s) < m /\ Keep(q, m, s, sorted[i]) = t
        BY <3>4 DEF Keep
      <4>2. /\ t \in Seq(D) /\ Len(t) = Len(s) + 1 /\ t[Len(s) + 1] = sorted[i]
            /\ \A j \in 1 .. Len(s) : t[j] = s[j]
        BY <3>1, <3>2, AppendProperties
      <4> HIDE DEF t
      <4>3. \A j \in 1 .. Len(t) : j \in 1 .. Len(s) \/ j = Len(s) + 1
        BY <3>1, <4>2
      <4>4. \A j \in 1 .. Len(t) : \E r \in 1 .. i : t[j] = sorted[r]
        <5>1. ASSUME NEW j \in 1 .. Len(s) PROVE \E r \in 1 .. i : t[j] = sorted[r]
          <6>1. PICK r \in 1 .. i - 1 : s[j] = sorted[r]
            BY <3>1
          <6>2. r \in 1 .. i /\ t[j] = sorted[r]
            BY <4>2, <6>1
          <6> QED BY <6>2
        <5>2. i \in 1 .. i
          OBVIOUS
        <5> QED BY <4>2, <4>3, <5>1, <5>2
      <4>5. \A j \in 1 .. Len(s) : s[j] # sorted[i]
        BY <1>1, <3>1
      <4>6. \A j, k \in 1 .. Len(t) : t[j] = t[k] => j = k
        BY <3>1, <4>2, <4>3, <4>5
      <4>7. t # <<>> /\ Len(t) <= m
        BY <3>1, <4>1, <4>2, EmptySeq
      <4> QED BY <4>1, <4>2, <4>4, <4>6, <4>7 DEF ListOf
    <3> QED BY <3>3, <3>4
  <2>3. <<>> \in S[0]
    BY EmptySeq, <1>1 DEF ListOf
  <2> HIDE DEF S
  <2>4. kept = [i \in 0 .. N |-> IF i = 0 THEN <<>> ELSE Keep(q, m, kept[i - 1], sorted[i])]
    <3> DEFINE step == [i \in 1 .. N |-> [s \in S[i - 1] |-> Keep(q, m, s, sorted[i])]]
    <3>1. \A i \in 1 .. N : \A s \in S[i - 1] : step[i][s] = Keep(q, m, s, sorted[i]) /\ step[i][s] \in S[i]
      BY <2>2
    <3> DEFINE none == <<>>
    <3> HIDE DEF step, none
    <3>2. \E f : StepFunction(f, N, S, none, step)
      <4>1. \A i \in 1 .. N : \A s \in S[i - 1] : step[i][s] \in S[i]
        BY <3>1
      <4>2. N \in Nat
        BY <1>1
      <4>3. none \in S[0]
        BY <2>3 DEF none
      <4> QED BY <4>1, <4>2, <4>3, StepsExist
    <3>3. PICK f : /\ f = [i \in 0 .. N |-> f[i]] /\ f[0] = none
                   /\ \A i \in 1 .. N : f[i] = step[i][f[i - 1]]
                   /\ \A i \in 0 .. N : f[i] \in S[i]
      BY <3>2 DEF StepFunction
    <3>4. f = [i \in 0 .. N |-> IF i = 0 THEN <<>> ELSE Keep(q, m, f[i - 1], sorted[i])]
      <4>1. \A i \in 0 .. N : i # 0 => i \in 1 .. N /\ i - 1 \in 0 .. N
        BY <1>1
      <4>2. \A i \in 0 .. N : f[i] = IF i = 0 THEN <<>> ELSE Keep(q, m, f[i - 1], sorted[i])
        BY <3>1, <3>3, <4>1 DEF none
      <4> QED BY <3>3, <4>2
    <3> QED BY <3>4, Zenon
  <2>5. kept[0] = <<>> /\ \A i \in 1 .. N : kept[i] = Keep(q, m, kept[i - 1], sorted[i])
    <3> HIDE DEF kept
    <3>1. 0 \in 0 .. N /\ \A i \in 1 .. N : i \in 0 .. N /\ i # 0
      BY <1>1
    <3> QED BY <2>4, <3>1
  <2> HIDE DEF kept
  <2>6. \A i \in 0 .. N : kept[i] \in S[i]
    <3>1. kept[0] \in S[0] /\ \A i \in 1 .. N : kept[i - 1] \in S[i - 1] => kept[i] \in S[i]
      BY <2>2, <2>3, <2>5
    <3>2. N \in Nat
      BY <1>1
    <3> QED BY <3>1, <3>2, StepsStay
  <2>7. N \in 0 .. N /\ N > 0
    BY <1>1, <1>5
  <2>8. kept[N] \in ListOf(D) /\ Len(kept[N]) <= m /\ kept[N] # <<>>
    BY <2>6, <2>7 DEF S
  <2> QED BY <2>1, <2>8
<1> QED BY <1>3, <1>4, <1>5

LEMMA NumberedSubset ==
    ASSUME NEW D, Numbered(D), NEW E \in SUBSET D
    PROVE  Numbered(E)
BY FS_Subset DEF Numbered

\* Orders of nodes at one distance.
Ranking(rank) == \A n \in DOMAIN rank : rank[n] \in Int

\* What a walk finds is put in a list, each node once.
LEMMA ScoredList ==
    ASSUME NEW D, Numbered(D), NEW q \in Point, NEW rank, Ranking(rank)
    PROVE  Scored(q, D, rank) \in ListOf(D) /\ Len(Scored(q, D, rank)) = Cardinality(D)
<1> DEFINE Rank(n) == IF n \in DOMAIN rank THEN rank[n] ELSE 0
           Sooner(n) == {m \in D :
               \/ Dist(q, m) < Dist(q, n)
               \/ /\ Dist(q, m) = Dist(q, n)
                  /\ Rank(m) < Rank(n) \/ (Rank(m) = Rank(n) /\ m[1] < n[1])}
           Under == [n \in D |-> Sooner(n)]
           N == Cardinality(D)
           place == [r \in 1 .. N |-> CHOOSE n \in D : Cardinality(Sooner(n)) = r - 1]
<1>1. \A n \in D : Dist(q, n) \in Int /\ n[1] \in Nat /\ Rank(n) \in Int
  BY NumberedDist DEF Ranking
<1>2. /\ IsFiniteSet(D) /\ N \in Nat
      /\ \A m, n \in D : m[1] = n[1] => m = n
  BY FS_CardinalityType DEF Numbered
<1>3. Scored(q, D, rank) = place
  BY DEF Scored
<1>4. \A m \in 0 .. N - 1 : \E n \in D : Cardinality(Sooner(n)) = m
  <2>1. \A n, m \in D : m \in Under[n] <=>
               \/ Dist(q, m) < Dist(q, n)
               \/ /\ Dist(q, m) = Dist(q, n)
                  /\ Rank(m) < Rank(n) \/ (Rank(m) = Rank(n) /\ m[1] < n[1])
    OBVIOUS
  <2>2. Under \in [D -> SUBSET D]
    OBVIOUS
  <2>3. \A n \in D : Under[n] = Sooner(n)
    OBVIOUS
  <2> HIDE DEF Under, Sooner, Rank
  <2>4. \A n \in D : n \notin Under[n]
    BY <1>1, <2>1
  <2>5. \A k, m, n \in D : k \in Under[m] /\ m \in Under[n] => k \in Under[n]
    BY <1>1, <2>1
  <2>6. \A m, n \in D : m = n \/ m \in Under[n] \/ n \in Under[m]
    BY <1>1, <1>2, <2>1
  <2>7. \A m \in 0 .. Cardinality(D) - 1 : \E n \in D : Cardinality(Under[n]) = m
    BY <1>2, <2>2, <2>4, <2>5, <2>6, Ranks
  <2> QED BY <2>3, <2>7
<1>5. \A r \in 1 .. N : place[r] \in D /\ Cardinality(Sooner(place[r])) = r - 1
  <2>1. ASSUME NEW r \in 1 .. N PROVE place[r] \in D /\ Cardinality(Sooner(place[r])) = r - 1
    <3>1. r - 1 \in 0 .. N - 1
      BY <1>2
    <3>2. \E n \in D : Cardinality(Sooner(n)) = r - 1
      BY <1>4, <3>1
    <3> HIDE DEF Sooner
    <3> QED BY <3>2, Zenon
  <2> QED BY <2>1
<1>6. ASSUME NEW r \in 1 .. N, NEW s \in 1 .. N, place[r] = place[s] PROVE r = s
  <2>1. r - 1 = s - 1
    BY <1>5, <1>6
  <2> QED BY <1>2, <2>1
<1> HIDE DEF Sooner
<1>7. place \in [1 .. N -> D]
  BY <1>5
<1> HIDE DEF place, N
<1>8. place \in Seq(D) /\ Len(place) = N
  BY <1>2, <1>5, <1>7
<1>9. place \in ListOf(D)
  BY <1>6, <1>8 DEF ListOf
<1> QED BY <1>3, <1>8, <1>9 DEF N

-----------------------------------------------------------------------------
(***************************************************************************)
(* The beam search finds what links lead to.                               *)
(***************************************************************************)
\* The closest of some nodes exists, and so does the worst of some results.
LEMMA ClosestExists ==
    ASSUME NEW D, Numbered(D), D # {}, NEW q \in Point
    PROVE  Closest(q, D) \in D
<1> DEFINE Below == {e \in D \X D : Before(q, e[1], e[2])}
<1>1. \A n \in D : Dist(q, n) \in Int /\ n[1] \in Nat
  BY NumberedDist
<1>2. IsFiniteSet(D) /\ \A m, n \in D : m[1] = n[1] => m = n
  BY DEF Numbered
<1>3. \A m, n \in D : <<m, n>> \in Below <=>
          Dist(q, m) < Dist(q, n) \/ (Dist(q, m) = Dist(q, n) /\ m[1] < n[1])
  BY DEF Before
<1> HIDE DEF Below
<1>4. \E n \in D : \A m \in D : <<m, n>> \notin Below
  <2>1. \A n \in D : <<n, n>> \notin Below
    BY <1>1, <1>3
  <2>2. \A k, m, n \in D : <<k, m>> \in Below /\ <<m, n>> \in Below => <<k, n>> \in Below
    BY <1>1, <1>3
  <2> QED BY <1>2, <2>1, <2>2, Minimal
<1>5. PICK n \in D : \A m \in D : <<m, n>> \notin Below
  BY <1>4
<1>6. \A m \in D \ {n} : Before(q, n, m)
  <2> SUFFICES ASSUME NEW m \in D \ {n} PROVE Before(q, n, m)
    OBVIOUS
  <2>1. m[1] # n[1]
    BY <1>2
  <2>2. ~(Dist(q, m) < Dist(q, n) \/ (Dist(q, m) = Dist(q, n) /\ m[1] < n[1]))
    BY <1>3, <1>5
  <2> QED BY <1>1, <2>1, <2>2 DEF Before
<1> QED BY <1>6, Zenon DEF Closest

LEMMA WorstExists ==
    ASSUME NEW D, Numbered(D), D # {}, NEW q \in Point
    PROVE  Worst(q, D) \in D
<1> DEFINE Below == {e \in D \X D : \/ Dist(q, e[2]) < Dist(q, e[1])
                                    \/ Dist(q, e[2]) = Dist(q, e[1]) /\ e[1][1] < e[2][1]}
<1>1. \A n \in D : Dist(q, n) \in Int /\ n[1] \in Nat
  BY NumberedDist
<1>2. IsFiniteSet(D)
  BY DEF Numbered
<1>3. \A m, n \in D : <<m, n>> \in Below <=>
          Dist(q, n) < Dist(q, m) \/ (Dist(q, n) = Dist(q, m) /\ m[1] < n[1])
  OBVIOUS
<1> HIDE DEF Below
<1>4. \E n \in D : \A m \in D : <<m, n>> \notin Below
  <2>1. \A n \in D : <<n, n>> \notin Below
    BY <1>1, <1>3
  <2>2. \A k, m, n \in D : <<k, m>> \in Below /\ <<m, n>> \in Below => <<k, n>> \in Below
    BY <1>1, <1>3
  <2> QED BY <1>2, <2>1, <2>2, Minimal
<1>5. PICK n \in D : \A m \in D : <<m, n>> \notin Below
  BY <1>4
<1>6. \A m \in D : Dist(q, m) < Dist(q, n) \/ (Dist(q, m) = Dist(q, n) /\ n[1] <= m[1])
  <2> SUFFICES ASSUME NEW m \in D
               PROVE  Dist(q, m) < Dist(q, n) \/ (Dist(q, m) = Dist(q, n) /\ n[1] <= m[1])
    OBVIOUS
  <2>1. ~(Dist(q, n) < Dist(q, m) \/ (Dist(q, n) = Dist(q, m) /\ m[1] < n[1]))
    BY <1>3, <1>5
  <2> QED BY <1>1, <2>1
<1> QED BY <1>6, Zenon DEF Worst

BeamOf(D) == [candidates : SUBSET D, visited : SUBSET D, results : SUBSET D]

\* A beam that is not full takes every node, one that is full stays so.
ConsiderKeeps(old, new, n, ef, allowed) ==
    /\ new.visited = old.visited
    /\ new.candidates = old.candidates \/ new.candidates = old.candidates \cup {n}
    /\ new.results \subseteq old.results \cup ({n} \cap allowed)
    /\ Cardinality(new.results) <= ef
    /\ Cardinality(old.results) = ef => Cardinality(new.results) = ef
    /\ Cardinality(old.results) < ef => /\ new.candidates = old.candidates \cup {n}
                                        /\ new.results = old.results \cup ({n} \cap allowed)

LEMMA ConsiderBeam ==
    ASSUME NEW D, Numbered(D), NEW q \in Point, NEW ef \in Nat \ {0}, NEW allowed,
           NEW b \in BeamOf(D), Cardinality(b.results) <= ef, NEW n \in D \ b.results
    PROVE  /\ Consider(q, ef, allowed, b, n) \in BeamOf(D)
           /\ ConsiderKeeps(b, Consider(q, ef, allowed, b, n), n, ef, allowed)
<1> DEFINE new == Consider(q, ef, allowed, b, n)
           results == b.results \cup ({n} \cap allowed)
<1>1. /\ b.candidates \in SUBSET D /\ b.visited \in SUBSET D /\ b.results \in SUBSET D
      /\ results \in SUBSET D
  BY DEF BeamOf
<1>2. /\ IsFiniteSet(b.results) /\ Cardinality(b.results) \in Nat
      /\ IsFiniteSet(results) /\ Cardinality(results) \in Nat
  <2>1. IsFiniteSet(b.results) /\ IsFiniteSet(results)
    BY <1>1, FS_Subset DEF Numbered
  <2> QED BY <2>1, FS_CardinalityType
<1>3. Cardinality(results) = IF n \in allowed THEN Cardinality(b.results) + 1 ELSE Cardinality(b.results)
  <2>1. CASE n \in allowed
    <3>1. results = b.results \cup {n} /\ n \notin b.results
      BY <2>1
    <3>2. Cardinality(b.results \cup {n}) = Cardinality(b.results) + 1
      BY <1>2, <3>1, FS_AddElement
    <3> QED BY <2>1, <3>1, <3>2
  <2>2. CASE n \notin allowed
    <3>1. results = b.results
      BY <2>2
    <3> QED BY <2>2, <3>1
  <2> QED BY <2>1, <2>2
<1> HIDE DEF results
<1>4. CASE ~(Cardinality(b.results) < ef \/ Dist(q, n) < Dist(q, Worst(q, b.results)))
  <2>1. new = b /\ ~(Cardinality(b.results) < ef)
    BY <1>4 DEF Consider
  <2> QED BY <1>2, <2>1 DEF ConsiderKeeps
<1>5. CASE Cardinality(b.results) < ef \/ Dist(q, n) < Dist(q, Worst(q, b.results))
  <2> DEFINE kept == IF Cardinality(results) > ef THEN results \ {Worst(q, results)} ELSE results
  <2>1. new = [b EXCEPT !.candidates = @ \cup {n}, !.results = kept]
    BY <1>5 DEF Consider, results
  <2>2. /\ new = [candidates |-> b.candidates \cup {n}, visited |-> b.visited, results |-> kept]
        /\ new.visited = b.visited /\ new.candidates = b.candidates \cup {n} /\ new.results = kept
    BY <2>1 DEF BeamOf
  <2> HIDE DEF new
  <2>3. kept \subseteq results
    OBVIOUS
  <2>4. Cardinality(kept) = IF Cardinality(results) > ef THEN Cardinality(results) - 1 ELSE Cardinality(results)
    <3>1. CASE Cardinality(results) > ef
      <4>1. results # {}
        BY <1>2, <3>1, FS_EmptySet
      <4>2. Numbered(results)
        BY <1>1, NumberedSubset
      <4>3. Worst(q, results) \in results
        BY <4>1, <4>2, WorstExists
      <4>4. Cardinality(results \ {Worst(q, results)}) = Cardinality(results) - 1
        BY <1>2, <4>3, FS_RemoveElement
      <4> QED BY <3>1, <4>4
    <3>2. CASE ~(Cardinality(results) > ef)
      BY <3>2
    <3> QED BY <3>1, <3>2
  <2>5. Cardinality(results) <= ef => kept = results
    BY <1>2
  <2> HIDE DEF kept
  <2>6. Cardinality(kept) <= ef /\ (Cardinality(b.results) = ef => Cardinality(kept) = ef)
    BY <1>2, <1>3, <2>4
  <2>7. Cardinality(b.results) < ef => kept = results
    BY <1>2, <1>3, <2>5
  <2>8. new \in BeamOf(D)
    BY <1>1, <2>2, <2>3 DEF BeamOf
  <2>9. new.results \subseteq b.results \cup ({n} \cap allowed)
    BY <2>2, <2>3 DEF results
  <2>10. Cardinality(b.results) < ef => new.results = b.results \cup ({n} \cap allowed)
    BY <2>2, <2>7 DEF results
  <2> QED BY <2>2, <2>6, <2>8, <2>9, <2>10 DEF ConsiderKeeps, new
<1> QED BY <1>4, <1>5

\* Every link of a layer stays in it.
LayerLists(layer) ==
    /\ Numbered(DOMAIN graph[layer])
    /\ \A n \in DOMAIN graph[layer] : graph[layer][n] \in ListOf(DOMAIN graph[layer])

\* What was visited before a round, and the first i links of the node it expands.
Seen(visited, links, i) == visited \cup {links[j] : j \in 1 .. i}

\* Inside a round: c is expanded, of its links the first i have been considered.
Considered(x, i, b, c, links, allowed, ef) ==
    /\ x.visited = Seen(b.visited, links, Len(links))
    /\ x.candidates \subseteq x.visited /\ x.candidates \cap b.visited = b.candidates \ {c}
    /\ x.results \subseteq allowed \cap Seen(b.visited, links, i)
    /\ Cardinality(x.results) <= ef
    /\ Cardinality(b.results) = ef => Cardinality(x.results) = ef
    /\ \/ Cardinality(x.results) = ef
       \/ /\ x.results = allowed \cap Seen(b.visited, links, i)
          /\ Seen(b.visited, links, i) \subseteq b.visited \cup x.candidates

LEMMA ConsideredStep ==
    ASSUME NEW D, Numbered(D), NEW q \in Point, NEW ef \in Nat \ {0}, NEW allowed,
           NEW links \in ListOf(D), NEW i \in 1 .. Len(links), NEW b \in BeamOf(D), NEW c,
           NEW x \in BeamOf(D), Considered(x, i - 1, b, c, links, allowed, ef),
           NEW new, new = IF links[i] \in b.visited THEN x ELSE Consider(q, ef, allowed, x, links[i])
    PROVE  new \in BeamOf(D) /\ Considered(new, i, b, c, links, allowed, ef)
<1> DEFINE n == links[i]
           before == Seen(b.visited, links, i - 1)
           now == Seen(b.visited, links, i)
<1>1. /\ links \in Seq(D) /\ Len(links) \in Nat /\ i \in Nat
      /\ \A j, k \in 1 .. Len(links) : links[j] = links[k] => j = k
      /\ \A j \in 1 .. Len(links) : links[j] \in D
  BY DEF ListOf
<1>2. now = before \cup {n}
  <2>1. \A j : j \in 1 .. i <=> j \in 1 .. i - 1 \/ j = i
    BY <1>1
  <2> QED BY <2>1 DEF Seen
<1>3. n \in D /\ n \in Seen(b.visited, links, Len(links)) /\ b.visited \subseteq before
  BY <1>1 DEF Seen
<1>4. n \notin b.visited => n \notin before
  BY <1>1 DEF Seen
<1>5. /\ x.visited = Seen(b.visited, links, Len(links))
      /\ x.candidates \subseteq x.visited /\ x.candidates \cap b.visited = b.candidates \ {c}
      /\ x.results \subseteq allowed \cap before
      /\ Cardinality(x.results) <= ef
      /\ Cardinality(b.results) = ef => Cardinality(x.results) = ef
      /\ \/ Cardinality(x.results) = ef
         \/ /\ x.results = allowed \cap before
            /\ before \subseteq b.visited \cup x.candidates
  BY DEF Considered
<1>6. Cardinality(x.results) \in Nat
  <2>1. x.results \in SUBSET D
    BY DEF BeamOf
  <2>2. IsFiniteSet(x.results)
    BY <2>1, FS_Subset DEF Numbered
  <2> QED BY <2>2, FS_CardinalityType
<1> HIDE DEF n, before, now
<1>7. CASE n \in b.visited
  <2>1. new = x
    BY <1>7 DEF n
  <2>2. now = before
    BY <1>2, <1>3, <1>7
  <2> QED BY <1>5, <2>1, <2>2 DEF Considered, now
<1>8. CASE n \notin b.visited
  <2>1. new = Consider(q, ef, allowed, x, n)
    BY <1>8 DEF n
  <2>2. n \in D \ x.results
    BY <1>3, <1>4, <1>5, <1>8
  <2>3. new \in BeamOf(D) /\ ConsiderKeeps(x, new, n, ef, allowed)
    BY <1>5, <2>1, <2>2, ConsiderBeam
  <2>4. /\ new.visited = x.visited
        /\ new.candidates = x.candidates \/ new.candidates = x.candidates \cup {n}
        /\ new.results \subseteq x.results \cup ({n} \cap allowed)
        /\ Cardinality(new.results) <= ef
        /\ Cardinality(x.results) = ef => Cardinality(new.results) = ef
        /\ Cardinality(x.results) < ef => /\ new.candidates = x.candidates \cup {n}
                                          /\ new.results = x.results \cup ({n} \cap allowed)
    BY <2>3 DEF ConsiderKeeps
  <2>5. /\ new.visited = Seen(b.visited, links, Len(links))
        /\ new.candidates \subseteq new.visited
        /\ new.candidates \cap b.visited = b.candidates \ {c}
    BY <1>3, <1>5, <1>8, <2>4
  <2>6. new.results \subseteq allowed \cap now
    BY <1>2, <1>5, <2>4
  <2>7. \/ Cardinality(new.results) = ef
        \/ /\ new.results = allowed \cap now
           /\ now \subseteq b.visited \cup new.candidates
    <3>1. CASE Cardinality(x.results) = ef
      BY <2>4, <3>1
    <3>2. CASE Cardinality(x.results) # ef
      <4>1. Cardinality(x.results) < ef
        BY <1>5, <1>6, <3>2
      <4> QED BY <1>2, <1>5, <2>4, <3>2, <4>1
    <3> QED BY <3>1, <3>2
  <2>8. Cardinality(b.results) = ef => Cardinality(new.results) = ef
    BY <1>5, <2>4
  <2> QED BY <2>3, <2>4, <2>5, <2>6, <2>7, <2>8 DEF Considered, now
<1> QED BY <1>7, <1>8

\* Between two rounds: unless the beam is full it holds all that is allowed of what was
\* visited, and the links of every expanded node have been visited.
Explored(b, layer, allowed, ef) ==
    /\ b \in BeamOf(DOMAIN graph[layer])
    /\ b.candidates \subseteq b.visited /\ b.results \subseteq allowed \cap b.visited
    /\ Cardinality(b.results) <= ef
    /\ \/ Cardinality(b.results) = ef
       \/ /\ b.results = allowed \cap b.visited
          /\ \A n \in b.visited \ b.candidates : ToSet(graph[layer][n]) \subseteq b.visited

\* A round expands a candidate that is never one again, and visits nothing but links.
ExpandKeeps(old, new, layer) ==
    /\ old.visited \subseteq new.visited
    /\ \A n \in new.visited : n \in old.visited \/ \E c \in old.visited : n \in ToSet(graph[layer][c])
    /\ \/ new.candidates = {}
       \/ \E c \in old.candidates :
             (old.visited \ old.candidates) \cup {c} \subseteq new.visited \ new.candidates

LEMMA ExpandBeam ==
    ASSUME NEW layer, LayerLists(layer), NEW q \in Point, NEW ef \in Nat \ {0}, NEW allowed,
           NEW b, Explored(b, layer, allowed, ef)
    PROVE  /\ Explored(Expand(q, layer, ef, allowed, b), layer, allowed, ef)
           /\ ExpandKeeps(b, Expand(q, layer, ef, allowed, b), layer)
<1> DEFINE D == DOMAIN graph[layer]
           new == Expand(q, layer, ef, allowed, b)
           c == Closest(q, b.candidates)
           links == graph[layer][c]
           N == Len(links)
           rest == [b EXCEPT !.candidates = @ \ {c}, !.visited = @ \cup ToSet(links)]
<1>1. /\ Numbered(D) /\ b \in BeamOf(D)
      /\ b.candidates \in SUBSET D /\ b.visited \in SUBSET D /\ b.results \in SUBSET D
      /\ b.candidates \subseteq b.visited /\ b.results \subseteq allowed \cap b.visited
      /\ Cardinality(b.results) <= ef
      /\ \/ Cardinality(b.results) = ef
         \/ /\ b.results = allowed \cap b.visited
            /\ \A n \in b.visited \ b.candidates : ToSet(graph[layer][n]) \subseteq b.visited
  BY DEF Explored, LayerLists, BeamOf
<1>2. CASE b.candidates = {}
  <2>1. new = b
    BY <1>2 DEF Expand
  <2> QED BY <1>2, <2>1 DEF ExpandKeeps
<1>3. CASE b.candidates # {} /\ Cardinality(b.results) >= ef
           /\ Dist(q, c) > Dist(q, Worst(q, b.results))
  <2>1. new = [b EXCEPT !.candidates = {}]
    BY <1>3 DEF Expand
  <2>2. /\ new.candidates = {} /\ new.visited = b.visited /\ new.results = b.results
        /\ new \in BeamOf(D)
    BY <1>1, <2>1 DEF BeamOf
  <2>3. Cardinality(b.results) \in Nat
    <3>1. IsFiniteSet(b.results)
      BY <1>1, FS_Subset DEF Numbered
    <3> QED BY <3>1, FS_CardinalityType
  <2>4. Cardinality(b.results) = ef
    BY <1>1, <1>3, <2>3
  <2> HIDE DEF new
  <2>5. Explored(new, layer, allowed, ef)
    BY <1>1, <2>2, <2>4 DEF Explored
  <2>6. ExpandKeeps(b, new, layer)
    BY <2>2 DEF ExpandKeeps
  <2> QED BY <2>5, <2>6 DEF new
<1>4. CASE b.candidates # {} /\ ~(/\ Cardinality(b.results) >= ef
                                  /\ Dist(q, c) > Dist(q, Worst(q, b.results)))
  <2> DEFINE Next1(x, n) == IF n \in b.visited THEN x ELSE Consider(q, ef, allowed, x, n)
             after == CHOOSE f : f = [i \in 0 .. N |->
                          IF i = 0 THEN rest
                          ELSE IF links[i] \in b.visited THEN f[i - 1]
                          ELSE Consider(q, ef, allowed, f[i - 1], links[i])]
             S == [i \in 0 .. N |-> {x \in BeamOf(D) : Considered(x, i, b, c, links, allowed, ef)}]
  <2>1. new = after[N]
    BY <1>4 DEF Expand
  <2>2. c \in b.candidates
    BY <1>1, <1>4, NumberedSubset, ClosestExists
  <2>3. links \in ListOf(D) /\ links \in Seq(D) /\ N \in Nat /\ ToSet(links) \in SUBSET D
        /\ ToSet(links) = {links[j] : j \in 1 .. N}
    BY <1>1, <2>2 DEF LayerLists, ListOf, ToSet
  <2>4. /\ rest.candidates = b.candidates \ {c} /\ rest.visited = b.visited \cup ToSet(links)
        /\ rest.results = b.results /\ rest \in BeamOf(D)
    BY <1>1, <2>3 DEF BeamOf
  <2> HIDE DEF new, c, links, N, rest
  <2>5. rest \in S[0]
    <3>1. Seen(b.visited, links, 0) = b.visited /\ Seen(b.visited, links, N) = rest.visited
      <4>1. 1 .. 0 = {}
        OBVIOUS
      <4>2. {links[j] : j \in 1 .. 0} = {}
        BY <4>1
      <4> QED BY <2>3, <2>4, <4>2 DEF Seen
    <3>2. \/ Cardinality(b.results) = ef
          \/ b.results = allowed \cap b.visited
      BY <1>1
    <3>3. Considered(rest, 0, b, c, links, allowed, ef)
      BY <1>1, <2>4, <3>1, <3>2 DEF Considered, N
    <3> QED BY <2>3, <2>4, <3>3
  <2>6. ASSUME NEW i \in 1 .. N, NEW x \in S[i - 1] PROVE Next1(x, links[i]) \in S[i]
    <3>1. i - 1 \in 0 .. N /\ i \in 0 .. N
      BY <2>3
    <3>2. x \in BeamOf(D) /\ Considered(x, i - 1, b, c, links, allowed, ef)
      BY <2>6, <3>1
    <3>3. i \in 1 .. Len(links)
      BY DEF N
    <3> HIDE DEF D
    <3> DEFINE y == Next1(x, links[i])
    <3>4. y = IF links[i] \in b.visited THEN x ELSE Consider(q, ef, allowed, x, links[i])
      OBVIOUS
    <3> HIDE DEF y
    <3>5. y \in BeamOf(D) /\ Considered(y, i, b, c, links, allowed, ef)
      BY <1>1, <2>3, <3>2, <3>3, <3>4, ConsideredStep
    <3> QED BY <3>1, <3>5 DEF y
  <2> HIDE DEF S
  <2>7. after = [i \in 0 .. N |-> IF i = 0 THEN rest
                          ELSE IF links[i] \in b.visited THEN after[i - 1]
                          ELSE Consider(q, ef, allowed, after[i - 1], links[i])]
    <3> DEFINE step == [i \in 1 .. N |-> [x \in S[i - 1] |-> Next1(x, links[i])]]
    <3>1. \A i \in 1 .. N : \A x \in S[i - 1] : step[i][x] = Next1(x, links[i]) /\ step[i][x] \in S[i]
      BY <2>6
    <3> HIDE DEF step
    <3>2. \E f : StepFunction(f, N, S, rest, step)
      <4>1. \A i \in 1 .. N : \A x \in S[i - 1] : step[i][x] \in S[i]
        BY <3>1
      <4>2. N \in Nat
        BY <2>3
      <4> QED BY <2>5, <4>1, <4>2, StepsExist
    <3>3. PICK f : /\ f = [i \in 0 .. N |-> f[i]] /\ f[0] = rest
                   /\ \A i \in 1 .. N : f[i] = step[i][f[i - 1]]
                   /\ \A i \in 0 .. N : f[i] \in S[i]
      BY <3>2 DEF StepFunction
    <3>4. f = [i \in 0 .. N |-> IF i = 0 THEN rest
                          ELSE IF links[i] \in b.visited THEN f[i - 1]
                          ELSE Consider(q, ef, allowed, f[i - 1], links[i])]
      <4>1. \A i \in 0 .. N : i # 0 => i \in 1 .. N /\ i - 1 \in 0 .. N
        BY <2>3
      <4>2. \A i \in 0 .. N : f[i] = IF i = 0 THEN rest ELSE Next1(f[i - 1], links[i])
        BY <3>1, <3>3, <4>1
      <4> QED BY <3>3, <4>2
    <3> QED BY <3>4, Zenon
  <2>8. after[0] = rest /\ \A i \in 1 .. N : after[i] = Next1(after[i - 1], links[i])
    <3> HIDE DEF after
    <3>1. 0 \in 0 .. N /\ \A i \in 1 .. N : i \in 0 .. N /\ i # 0
      BY <2>3
    <3> QED BY <2>7, <3>1
  <2> HIDE DEF after
  <2>9. after[N] \in S[N]
    <3>1. after[0] \in S[0] /\ \A i \in 1 .. N : after[i - 1] \in S[i - 1] => after[i] \in S[i]
      BY <2>5, <2>6, <2>8
    <3>2. N \in Nat
      BY <2>3
    <3>3. \A i \in 0 .. N : after[i] \in S[i]
      BY <3>1, <3>2, StepsStay
    <3> QED BY <3>2, <3>3
  <2>10. /\ new \in BeamOf(D)
         /\ new.visited = b.visited \cup ToSet(links)
         /\ new.candidates \subseteq new.visited /\ new.candidates \cap b.visited = b.candidates \ {c}
         /\ new.results \subseteq allowed \cap new.visited
         /\ Cardinality(new.results) <= ef
         /\ \/ Cardinality(new.results) = ef
            \/ /\ new.results = allowed \cap new.visited
               /\ new.visited \subseteq b.visited \cup new.candidates
         /\ Cardinality(b.results) = ef => Cardinality(new.results) = ef
    <3>1. N \in 0 .. N
      BY <2>3
    <3>2. new \in BeamOf(D) /\ Considered(new, N, b, c, links, allowed, ef)
      BY <2>1, <2>9, <3>1 DEF S
    <3>3. Seen(b.visited, links, N) = b.visited \cup ToSet(links)
      BY <2>3 DEF Seen
    <3> QED BY <1>1, <3>2, <3>3 DEF Considered, N
  <2>11. ExpandKeeps(b, new, layer)
    <3>1. (b.visited \ b.candidates) \cup {c} \subseteq new.visited \ new.candidates
      BY <1>1, <2>2, <2>10
    <3>2. ToSet(links) = ToSet(graph[layer][c])
      BY DEF links
    <3> QED BY <1>1, <2>2, <2>10, <3>1, <3>2 DEF ExpandKeeps
  <2>12. ASSUME Cardinality(new.results) # ef, NEW n \in new.visited \ new.candidates
         PROVE  ToSet(graph[layer][n]) \subseteq new.visited
    <3>1. CASE n = c
      BY <2>10, <3>1 DEF links
    <3>2. CASE n # c
      <4>1. n \in b.visited \ b.candidates
        BY <2>10, <2>12, <3>2
      <4>2. ToSet(graph[layer][n]) \subseteq b.visited
        BY <1>1, <2>10, <2>12, <4>1
      <4> QED BY <2>10, <4>2
    <3> QED BY <3>1, <3>2
  <2>13. Explored(new, layer, allowed, ef)
    BY <2>10, <2>12 DEF Explored
  <2> QED BY <2>11, <2>13 DEF new
<1> QED BY <1>2, <1>3, <1>4

\* R[i] has what i links lead to.
LinksLead(layer, from, R) ==
    /\ from \in R[0]
    /\ \A i \in 1 .. Len(vectors) :
          /\ R[i - 1] \subseteq R[i]
          /\ \A n \in R[i - 1] : ToSet(graph[layer][n]) \subseteq R[i]

\* What a beam search has visited in the end, and what of that it returns.
BeamVisits(visited, results, layer, from, ef, allowed, R) ==
    /\ visited \subseteq DOMAIN graph[layer] /\ from \in visited
    /\ visited \subseteq R[Len(vectors)]
    /\ results \subseteq allowed \cap visited /\ Cardinality(results) <= ef
    /\ \/ Cardinality(results) = ef
       \/ /\ results = allowed \cap visited
          /\ \A n \in visited : ToSet(graph[layer][n]) \subseteq visited

LEMMA BeamFinds ==
    ASSUME NEW layer, LayerLists(layer), NEW q \in Point, NEW ef \in Nat \ {0}, NEW allowed,
           NEW from \in DOMAIN graph[layer], NEW R, LinksLead(layer, from, R),
           Len(vectors) \in Nat, Cardinality(DOMAIN graph[layer]) <= Len(vectors)
    PROVE  \E visited : BeamVisits(visited, Beam(q, from, layer, ef, allowed), layer, from, ef, allowed, R)
<1> DEFINE D == DOMAIN graph[layer]
           N == Len(vectors)
           init == [candidates |-> {from}, visited |-> {from}, results |-> {from} \cap allowed]
           after == CHOOSE f : f = [i \in 0 .. N |->
                        IF i = 0 THEN init ELSE Expand(q, layer, ef, allowed, f[i - 1])]
           S == [i \in 0 .. N |-> {b \in BeamOf(D) :
                    /\ Explored(b, layer, allowed, ef) /\ from \in b.visited /\ b.visited \subseteq R[i]
                    /\ b.candidates = {} \/ Cardinality(b.visited \ b.candidates) >= i}]
<1>1. IsFiniteSet(D) /\ Numbered(D)
  BY DEF LayerLists, Numbered
<1>2. Beam(q, from, layer, ef, allowed) = after[N].results
  BY DEF Beam
<1>3. init \in S[0]
  <2>1. /\ init \in BeamOf(D) /\ init.candidates = {from} /\ init.visited = {from}
        /\ init.results = {from} \cap allowed
    BY DEF BeamOf
  <2> HIDE DEF init
  <2>2. Cardinality({from} \cap allowed) <= 1 /\ Cardinality({from} \cap allowed) \in Nat
    <3>1. {from} \cap allowed = {from} \/ {from} \cap allowed = {}
      OBVIOUS
    <3>2. Cardinality({from}) = 1 /\ Cardinality({}) = 0
      BY FS_Singleton, FS_EmptySet
    <3>3. Cardinality({from} \cap allowed) = 1 \/ Cardinality({from} \cap allowed) = 0
      BY <3>1, <3>2, Zenon
    <3> QED BY <3>3
  <2>3. Explored(init, layer, allowed, ef)
    BY <2>1, <2>2 DEF Explored
  <2>4. Cardinality(init.visited \ init.candidates) >= 0
    <3>1. init.visited \ init.candidates = {}
      BY <2>1
    <3>2. Cardinality(init.visited \ init.candidates) = 0
      BY <3>1, FS_EmptySet, Zenon
    <3> QED BY <3>2
  <2>5. init.visited \subseteq R[0]
    BY <2>1 DEF LinksLead
  <2>6. 0 \in 0 .. N /\ from \in init.visited
    BY <2>1
  <2> QED BY <2>1, <2>3, <2>4, <2>5, <2>6
<1>4. ASSUME NEW i \in 1 .. N, NEW b \in S[i - 1]
      PROVE  Expand(q, layer, ef, allowed, b) \in S[i]
  <2> DEFINE new == Expand(q, layer, ef, allowed, b)
  <2>1. i - 1 \in 0 .. N /\ i \in 0 .. N
    OBVIOUS
  <2>2. /\ b \in BeamOf(D) /\ Explored(b, layer, allowed, ef)
        /\ from \in b.visited /\ b.visited \subseteq R[i - 1]
        /\ b.candidates = {} \/ Cardinality(b.visited \ b.candidates) >= i - 1
    BY <1>4, <2>1
  <2>3. Explored(new, layer, allowed, ef) /\ ExpandKeeps(b, new, layer)
    BY <2>2, ExpandBeam
  <2>4. new \in BeamOf(D) /\ new.visited \in SUBSET D /\ new.candidates \in SUBSET D
    BY <2>3 DEF Explored, BeamOf
  <2> HIDE DEF new, S
  <2>5. from \in new.visited
    BY <2>2, <2>3 DEF ExpandKeeps
  <2>6. new.visited \subseteq R[i]
    <3>1. R[i - 1] \subseteq R[i] /\ \A n \in R[i - 1] : ToSet(graph[layer][n]) \subseteq R[i]
      BY DEF LinksLead
    <3> QED BY <2>2, <2>3, <3>1 DEF ExpandKeeps
  <2>7. new.candidates = {} \/ Cardinality(new.visited \ new.candidates) >= i
    <3>1. CASE new.candidates = {}
      BY <3>1
    <3>2. CASE new.candidates # {}
      <4>1. PICK c \in b.candidates :
                (b.visited \ b.candidates) \cup {c} \subseteq new.visited \ new.candidates
        BY <2>3, <3>2 DEF ExpandKeeps
      <4> DEFINE done == b.visited \ b.candidates
                 now == new.visited \ new.candidates
      <4>2. done \in SUBSET D /\ now \in SUBSET D /\ c \notin done
        BY <2>2, <2>4 DEF BeamOf
      <4> HIDE DEF done, now
      <4>3. IsFiniteSet(done) /\ IsFiniteSet(now)
        BY <1>1, <4>2, FS_Subset
      <4>4. Cardinality(done \cup {c}) = Cardinality(done) + 1
        BY <4>2, <4>3, FS_AddElement
      <4>5. Cardinality(done \cup {c}) <= Cardinality(now)
        BY <4>1, <4>3, FS_Subset DEF done, now
      <4>6. Cardinality(done) \in Nat /\ Cardinality(now) \in Nat
        BY <4>3, FS_CardinalityType
      <4>7. Cardinality(done) >= i - 1
        BY <2>2, <4>1 DEF done
      <4>8. Cardinality(now) >= i
        BY <4>4, <4>5, <4>6, <4>7
      <4> QED BY <4>8 DEF now
    <3> QED BY <3>1, <3>2
  <2> QED BY <2>1, <2>3, <2>4, <2>5, <2>6, <2>7 DEF S, new
<1> HIDE DEF S, init
<1>5. after = [i \in 0 .. N |-> IF i = 0 THEN init ELSE Expand(q, layer, ef, allowed, after[i - 1])]
  <2> DEFINE step == [i \in 1 .. N |-> [b \in S[i - 1] |-> Expand(q, layer, ef, allowed, b)]]
  <2>1. \A i \in 1 .. N : \A b \in S[i - 1] :
            step[i][b] = Expand(q, layer, ef, allowed, b) /\ step[i][b] \in S[i]
    BY <1>4
  <2> HIDE DEF step, N
  <2>2. \E f : StepFunction(f, N, S, init, step)
    <3>1. \A i \in 1 .. N : \A b \in S[i - 1] : step[i][b] \in S[i]
      BY <2>1
    <3>2. N \in Nat
      BY DEF N
    <3> QED BY <1>3, <3>1, <3>2, StepsExist
  <2>3. PICK f : /\ f = [i \in 0 .. N |-> f[i]] /\ f[0] = init
                 /\ \A i \in 1 .. N : f[i] = step[i][f[i - 1]]
                 /\ \A i \in 0 .. N : f[i] \in S[i]
    BY <2>2 DEF StepFunction
  <2>4. f = [i \in 0 .. N |-> IF i = 0 THEN init ELSE Expand(q, layer, ef, allowed, f[i - 1])]
    <3>1. \A i \in 0 .. N : i # 0 => i \in 1 .. N /\ i - 1 \in 0 .. N
      BY DEF N
    <3>2. \A i \in 0 .. N : f[i] = IF i = 0 THEN init ELSE Expand(q, layer, ef, allowed, f[i - 1])
      BY <2>1, <2>3, <3>1
    <3> QED BY <2>3, <3>2
  <2> QED BY <2>4, Zenon
<1>6. after[0] = init /\ \A i \in 1 .. N : after[i] = Expand(q, layer, ef, allowed, after[i - 1])
  <2> HIDE DEF after
  <2>1. 0 \in 0 .. N /\ \A i \in 1 .. N : i \in 0 .. N /\ i # 0
    OBVIOUS
  <2> QED BY <1>5, <2>1
<1> HIDE DEF after
<1>7. after[N] \in S[N]
  <2>1. after[0] \in S[0] /\ \A i \in 1 .. N : after[i - 1] \in S[i - 1] => after[i] \in S[i]
    BY <1>3, <1>4, <1>6
  <2>2. \A i \in 0 .. N : after[i] \in S[i]
    BY <2>1, StepsStay
  <2> QED BY <2>2
<1> DEFINE b == after[N]
<1>8. /\ b \in BeamOf(D) /\ Explored(b, layer, allowed, ef) /\ from \in b.visited
      /\ b.visited \subseteq R[N] /\ b.candidates \subseteq b.visited /\ b.visited \in SUBSET D
      /\ b.candidates = {} \/ Cardinality(b.visited \ b.candidates) >= N
  <2>1. N \in 0 .. N
    OBVIOUS
  <2> QED BY <1>7, <2>1 DEF S, Explored, BeamOf
<1> HIDE DEF b
<1>9. b.candidates = {}
  <2> SUFFICES ASSUME Cardinality(b.visited \ b.candidates) >= N PROVE b.candidates = {}
    BY <1>8
  <2> DEFINE done == b.visited \ b.candidates
  <2>1. done \in SUBSET D
    BY <1>8
  <2>2. IsFiniteSet(done) /\ Cardinality(done) <= Cardinality(D)
        /\ (Cardinality(D) = Cardinality(done) => D = done)
    BY <1>1, <2>1, FS_Subset
  <2>3. Cardinality(D) \in Nat /\ Cardinality(done) \in Nat /\ Cardinality(done) >= N
    BY <1>1, <2>2, FS_CardinalityType
  <2> HIDE DEF done
  <2>4. D = done
    BY <2>2, <2>3
  <2> QED BY <1>8, <2>4 DEF done
<1>10. BeamVisits(b.visited, b.results, layer, from, ef, allowed, R)
  <2>1. /\ b.results \subseteq allowed \cap b.visited /\ Cardinality(b.results) <= ef
        /\ \/ Cardinality(b.results) = ef
           \/ /\ b.results = allowed \cap b.visited
              /\ \A n \in b.visited : ToSet(graph[layer][n]) \subseteq b.visited
    BY <1>8, <1>9 DEF Explored
  <2> QED BY <1>8, <2>1 DEF BeamVisits
<1> QED BY <1>2, <1>10 DEF b

-----------------------------------------------------------------------------
(***************************************************************************)
(* Going down: greedily through the layers above, and by a beam through    *)
(* those a new node gets links in.                                         *)
(***************************************************************************)
\* No neighbor of n is closer to q than n is.
Settled(q, layer, n) == \A i \in DOMAIN graph[layer][n] : Dist(q, graph[layer][n][i]) >= Dist(q, n)

\* A hop leads to a node of the layer that is closer, unless there is none.
LEMMA HopStays ==
    ASSUME NEW layer, LayerLists(layer), NEW q \in Point, NEW n \in DOMAIN graph[layer]
    PROVE  /\ Hop(q, graph[layer], n) \in DOMAIN graph[layer]
           /\ IF Settled(q, layer, n) THEN Hop(q, graph[layer], n) = n
              ELSE Dist(q, Hop(q, graph[layer], n)) < Dist(q, n)
<1> DEFINE D == DOMAIN graph[layer]
           ns == graph[layer][n]
           T == DOMAIN ns
           Below == {e \in T \X T : \/ Dist(q, ns[e[1]]) < Dist(q, ns[e[2]])
                                    \/ Dist(q, ns[e[1]]) = Dist(q, ns[e[2]]) /\ e[1] < e[2]}
           IsFirst(i) == \A j \in DOMAIN ns : \/ Dist(q, ns[i]) < Dist(q, ns[j])
                                              \/ Dist(q, ns[i]) = Dist(q, ns[j]) /\ i <= j
           first == ns[CHOOSE i \in DOMAIN ns : IsFirst(i)]
<1>1. /\ Numbered(D) /\ ns \in Seq(D) /\ Len(ns) \in Nat /\ T = 1 .. Len(ns)
      /\ \A i \in T : ns[i] \in D /\ i \in Nat
  BY DEF LayerLists, ListOf
<1>2. CASE \A i \in DOMAIN ns : Dist(q, ns[i]) >= Dist(q, n)
  <2>1. Hop(q, graph[layer], n) = n
    BY <1>2 DEF Hop
  <2> QED BY <1>2, <2>1 DEF Settled
<1>3. CASE ~(\A i \in DOMAIN ns : Dist(q, ns[i]) >= Dist(q, n))
  <2>1. Hop(q, graph[layer], n) = first
    BY <1>3 DEF Hop
  <2>2. IsFiniteSet(T) /\ T # {}
    <3>1. 1 \in Int /\ Len(ns) \in Int
      BY <1>1
    <3>2. IsFiniteSet(1 .. Len(ns))
      BY <3>1, FS_Interval
    <3> QED BY <1>1, <1>3, <3>2
  <2>3. \A i \in T : Dist(q, ns[i]) \in Int
    <3>1. \A m \in D : Dist(q, m) \in Int
      BY <1>1, NumberedDist
    <3> HIDE DEF D, ns, T
    <3> QED BY <1>1, <3>1
  <2>4. \A i, j \in T : <<i, j>> \in Below <=> \/ Dist(q, ns[i]) < Dist(q, ns[j])
                                               \/ Dist(q, ns[i]) = Dist(q, ns[j]) /\ i < j
    OBVIOUS
  <2> HIDE DEF Below
  <2>5. \E i \in T : \A j \in T : <<j, i>> \notin Below
    <3> HIDE DEF T, ns
    <3>1. \A i \in T : <<i, i>> \notin Below
      BY <1>1, <2>3, <2>4
    <3>2. \A i, j, k \in T : <<i, j>> \in Below /\ <<j, k>> \in Below => <<i, k>> \in Below
      <4> SUFFICES ASSUME NEW i \in T, NEW j \in T, NEW k \in T,
                          <<i, j>> \in Below, <<j, k>> \in Below
                   PROVE  <<i, k>> \in Below
        OBVIOUS
      <4>1. i \in Nat /\ j \in Nat /\ k \in Nat
        BY <1>1
      <4> QED BY <2>3, <2>4, <4>1
    <3> QED BY <2>2, <3>1, <3>2, Minimal
  <2>6. PICK i \in T : \A j \in T : <<j, i>> \notin Below
    BY <2>5
  <2>7. IsFirst(i)
    <3> SUFFICES ASSUME NEW j \in T PROVE \/ Dist(q, ns[i]) < Dist(q, ns[j])
                                          \/ Dist(q, ns[i]) = Dist(q, ns[j]) /\ i <= j
      OBVIOUS
    <3>1. i \in Nat /\ j \in Nat /\ Dist(q, ns[i]) \in Int /\ Dist(q, ns[j]) \in Int
      BY <1>1, <2>3
    <3>2. ~(\/ Dist(q, ns[j]) < Dist(q, ns[i])
            \/ Dist(q, ns[j]) = Dist(q, ns[i]) /\ j < i)
      BY <2>4, <2>6
    <3> QED BY <3>1, <3>2
  <2> DEFINE best == CHOOSE k \in DOMAIN ns : IsFirst(k)
  <2>8. best \in DOMAIN ns /\ IsFirst(best)
    <3> HIDE DEF IsFirst
    <3> QED BY <2>7, Zenon
  <2>9. first \in D
    <3> HIDE DEF IsFirst, D, ns
    <3> QED BY <1>1, <2>8
  <2>10. Dist(q, first) < Dist(q, n)
    <3>1. Dist(q, n) \in Int
      BY <1>1, NumberedDist
    <3>2. PICK j \in T : ~(Dist(q, ns[j]) >= Dist(q, n))
      BY <1>3
    <3>3. \/ Dist(q, ns[best]) < Dist(q, ns[j])
          \/ Dist(q, ns[best]) = Dist(q, ns[j])
      BY <2>8, <3>2
    <3>4. Dist(q, ns[j]) \in Int /\ Dist(q, ns[best]) \in Int
      BY <2>3, <2>8, <3>2
    <3> HIDE DEF best, ns
    <3>5. Dist(q, ns[best]) < Dist(q, n)
      BY <3>1, <3>2, <3>3, <3>4
    <3> QED BY <3>5 DEF best
  <2> QED BY <1>3, <2>1, <2>9, <2>10 DEF Settled
<1> QED BY <1>2, <1>3

\* The walk ends in its layer, where no neighbor is closer: every hop leaves one more
\* node behind that is farther away, so there are enough hops.
LEMMA GreedyStays ==
    ASSUME NEW layer, LayerLists(layer), NEW q \in Point, NEW from \in DOMAIN graph[layer]
    PROVE  /\ Greedy(q, from, layer) \in DOMAIN graph[layer]
           /\ Settled(q, layer, Greedy(q, from, layer))
<1> DEFINE D == DOMAIN graph[layer]
           links == graph[layer]
           N == Cardinality(DOMAIN links)
           at == CHOOSE f : f = [i \in 0 .. N |-> IF i = 0 THEN from ELSE Hop(q, links, f[i - 1])]
           Farther(n) == {m \in D : Dist(q, n) < Dist(q, m)}
           S == [i \in 0 .. N |-> {n \in D : Settled(q, layer, n) \/ Cardinality(Farther(n)) >= i}]
<1>1. Greedy(q, from, layer) = at[N]
  BY DEF Greedy
<1>2. N \in Nat
  BY FS_CardinalityType DEF LayerLists, Numbered
<1>3. \A n \in D : /\ Hop(q, links, n) \in D
                   /\ IF Settled(q, layer, n) THEN Hop(q, links, n) = n
                      ELSE Dist(q, Hop(q, links, n)) < Dist(q, n)
  BY HopStays
<1>4. /\ IsFiniteSet(D) /\ N = Cardinality(D)
      /\ \A n \in D : Dist(q, n) \in Int
      /\ \A n \in D : Farther(n) \in SUBSET D /\ IsFiniteSet(Farther(n)) /\ Cardinality(Farther(n)) \in Nat
      /\ from \in D
  <2>1. Numbered(D)
    BY DEF LayerLists
  <2>2. IsFiniteSet(D) /\ \A n \in D : Farther(n) \in SUBSET D
    BY <2>1 DEF Numbered
  <2>3. \A n \in D : IsFiniteSet(Farther(n))
    <3> HIDE DEF Farther
    <3> QED BY <2>2, FS_Subset
  <2>4. \A n \in D : Cardinality(Farther(n)) \in Nat
    <3> HIDE DEF Farther
    <3> QED BY <2>3, FS_CardinalityType
  <2> QED BY <2>1, <2>2, <2>3, <2>4, NumberedDist
<1> HIDE DEF D, links, N
<1>5. from \in S[0]
  <2>1. 0 \in 0 .. N
    BY <1>2
  <2>2. Cardinality(Farther(from)) >= 0
    <3> HIDE DEF Farther
    <3> QED BY <1>4
  <2> HIDE DEF Farther
  <2> QED BY <1>4, <2>1, <2>2
<1>6. ASSUME NEW i \in 1 .. N, NEW n \in S[i - 1] PROVE Hop(q, links, n) \in S[i]
  <2> DEFINE m == Hop(q, links, n)
  <2>1. i \in 0 .. N /\ i - 1 \in 0 .. N
    BY <1>2
  <2>2. n \in D /\ (Settled(q, layer, n) \/ Cardinality(Farther(n)) >= i - 1)
    <3> HIDE DEF Farther
    <3> QED BY <1>6, <2>1
  <2>3. m \in D /\ (IF Settled(q, layer, n) THEN m = n ELSE Dist(q, m) < Dist(q, n))
    BY <1>3, <2>2
  <2> HIDE DEF m
  <2>4. Settled(q, layer, m) \/ Cardinality(Farther(m)) >= i
    <3>1. CASE Settled(q, layer, n)
      BY <2>3, <3>1
    <3>2. CASE ~Settled(q, layer, n)
      <4>1. Farther(n) \cup {n} \subseteq Farther(m) /\ n \notin Farther(n)
        BY <1>4, <2>2, <2>3, <3>2
      <4> HIDE DEF Farther
      <4>2. Cardinality(Farther(n) \cup {n}) = Cardinality(Farther(n)) + 1
        BY <1>4, <2>2, <4>1, FS_AddElement
      <4>3. Cardinality(Farther(n) \cup {n}) <= Cardinality(Farther(m))
        BY <1>4, <2>3, <4>1, FS_Subset
      <4>4. Cardinality(Farther(n)) \in Nat /\ Cardinality(Farther(m)) \in Nat
        BY <1>4, <2>2, <2>3
      <4>5. Cardinality(Farther(n)) >= i - 1
        BY <2>2, <3>2
      <4> QED BY <4>2, <4>3, <4>4, <4>5
    <3> QED BY <3>1, <3>2
  <2> HIDE DEF Farther
  <2>5. m \in S[i]
    BY <2>1, <2>3, <2>4
  <2> QED BY <2>5 DEF m
<1> HIDE DEF S
<1>7. at = [i \in 0 .. N |-> IF i = 0 THEN from ELSE Hop(q, links, at[i - 1])]
  <2> DEFINE step == [i \in 1 .. N |-> [n \in S[i - 1] |-> Hop(q, links, n)]]
  <2>1. \A i \in 1 .. N : \A n \in S[i - 1] : step[i][n] = Hop(q, links, n) /\ step[i][n] \in S[i]
    BY <1>6
  <2> HIDE DEF step
  <2>2. \E f : StepFunction(f, N, S, from, step)
    <3>1. from \in S[0] /\ \A i \in 1 .. N : \A n \in S[i - 1] : step[i][n] \in S[i]
      BY <1>5, <2>1
    <3> QED BY <1>2, <3>1, StepsExist
  <2>3. PICK f : /\ f = [i \in 0 .. N |-> f[i]] /\ f[0] = from
                 /\ \A i \in 1 .. N : f[i] = step[i][f[i - 1]]
                 /\ \A i \in 0 .. N : f[i] \in S[i]
    BY <2>2 DEF StepFunction
  <2>4. f = [i \in 0 .. N |-> IF i = 0 THEN from ELSE Hop(q, links, f[i - 1])]
    <3>1. \A i \in 0 .. N : i # 0 => i \in 1 .. N /\ i - 1 \in 0 .. N
      BY <1>2
    <3>2. \A i \in 0 .. N : f[i] = IF i = 0 THEN from ELSE Hop(q, links, f[i - 1])
      BY <2>1, <2>3, <3>1
    <3> QED BY <2>3, <3>2
  <2> QED BY <2>4, Zenon
<1>8. at[0] = from /\ \A i \in 1 .. N : at[i] = Hop(q, links, at[i - 1])
  <2> HIDE DEF at
  <2>1. 0 \in 0 .. N /\ \A i \in 1 .. N : i \in 0 .. N /\ i # 0
    BY <1>2
  <2> QED BY <1>7, <2>1
<1> HIDE DEF at
<1>9. \A i \in 0 .. N : at[i] \in S[i]
  <2>1. at[0] \in S[0] /\ \A i \in 1 .. N : at[i - 1] \in S[i - 1] => at[i] \in S[i]
    BY <1>5, <1>6, <1>8
  <2> QED BY <1>2, <2>1, StepsStay
<1>10. at[N] \in D /\ (Settled(q, layer, at[N]) \/ Cardinality(Farther(at[N])) >= N)
  <2>1. N \in 0 .. N /\ at[N] \in S[N]
    BY <1>2, <1>9
  <2> HIDE DEF Farther
  <2> QED BY <2>1 DEF S
<1>11. Settled(q, layer, at[N])
  <2> DEFINE far == Farther(at[N])
  <2>1. far \in SUBSET D /\ at[N] \notin far
    BY <1>4, <1>10
  <2>2. Cardinality(far) \in Nat
    <3> HIDE DEF Farther
    <3> QED BY <1>4, <1>10
  <2> HIDE DEF far
  <2>3. Cardinality(far) <= N /\ (N = Cardinality(far) => D = far)
    BY <1>4, <2>1, FS_Subset
  <2>4. ~(Cardinality(far) >= N)
    BY <1>2, <1>10, <2>1, <2>2, <2>3
  <2> QED BY <1>10, <2>4 DEF far
<1> QED BY <1>1, <1>10, <1>11 DEF D

\* The links of every node: to others of its layer, to each once, no more than the layer
\* allows, and none only where it is alone.
LinksInv ==
    \A l \in Layer : \A n \in DOMAIN graph[l] :
        /\ graph[l][n] \in ListOf(DOMAIN graph[l] \ {n})
        /\ Len(graph[l][n]) <= MaxConn(l)
        /\ DOMAIN graph[l] = {n} \/ graph[l][n] # <<>>

LEMMA NodeNumbered ==
    ASSUME vectors \in Seq(Point)
    PROVE  Numbered(Node) /\ Cardinality(Node) = Len(vectors)
<1> DEFINE I == 1 .. Len(vectors)
           node == [i \in I |-> <<i, vectors[i]>>]
<1>1. /\ Len(vectors) \in Nat /\ DOMAIN vectors = I
      /\ \A i \in I : vectors[i] \in Point
  <2>1. Len(vectors) \in Nat /\ DOMAIN vectors = I /\ \A i \in I : vectors[i] \in Point
    BY LenProperties
  <2> QED BY <2>1, ConstantsAssumption
<1>2. Node = {node[i] : i \in I}
  BY <1>1 DEF Node
<1>3. IsFiniteSet(I) /\ Cardinality(I) = Len(vectors)
  <2>1. 1 \in Int /\ Len(vectors) \in Int
    BY <1>1
  <2>2. IsFiniteSet(I) /\ Cardinality(I) = IF 1 > Len(vectors) THEN 0 ELSE Len(vectors) - 1 + 1
    BY <2>1, FS_Interval
  <2> QED BY <1>1, <2>2
<1>4. node \in Bijection(I, Node)
  <2>1. \A i \in I : node[i] \in Node /\ node[i][1] = i
    BY <1>2
  <2>2. node \in [I -> Node]
    BY <2>1
  <2>3. \A i, j \in I : node[i] = node[j] => i = j
    BY <2>1
  <2>4. \A n \in Node : \E i \in I : node[i] = n
    BY <1>2
  <2> HIDE DEF node
  <2> QED BY <2>2, <2>3, <2>4 DEF Bijection, Injection, Surjection, IsInjective
<1>5. IsFiniteSet(Node) /\ Cardinality(Node) = Len(vectors)
  BY <1>3, <1>4, FS_Bijection DEF ExistsBijection
<1>6. Node \subseteq Nat \X Point /\ \A m, n \in Node : m[1] = n[1] => m = n
  BY <1>1, <1>2
<1> QED BY <1>5, <1>6 DEF Numbered

\* What the walks through a layer may rely on.
LEMMA LayerFacts ==
    ASSUME LayersInv, LinksInv, NEW l \in 0 .. top_layer
    PROVE  /\ l \in Layer /\ LayerLists(l)
           /\ DOMAIN graph[l] \subseteq Node /\ Numbered(Node)
           /\ Len(vectors) \in Nat /\ Cardinality(DOMAIN graph[l]) <= Len(vectors)
<1> DEFINE Good == {i \in 0 .. top_layer : DOMAIN graph[i] \subseteq Node}
<1>1. /\ vectors \in Seq(Point) /\ Len(vectors) \in Nat /\ top_layer \in Nat /\ Layer = 0 .. top_layer
      /\ vectors # <<>> /\ DOMAIN graph[0] = Node
      /\ \A i \in Layer \ {0} : DOMAIN graph[i] \subseteq DOMAIN graph[i - 1]
  <2>1. vectors \in Seq(Point) /\ top_layer \in Nat
    BY DEF LayersInv
  <2>2. vectors # <<>>
    BY <2>1 DEF LayersInv
  <2> QED BY <2>1, <2>2, LenProperties DEF LayersInv, LayersNest
<1>2. Good = 0 .. top_layer
  <2>1. Good \in SUBSET (0 .. top_layer) /\ 0 \in Good
    BY <1>1
  <2>2. \A i \in 1 .. top_layer : i - 1 \in Good => i \in Good
    BY <1>1
  <2> HIDE DEF Good
  <2> QED BY <1>1, <2>1, <2>2, Rounds
<1>3. DOMAIN graph[l] \subseteq Node
  BY <1>2
<1>4. Numbered(Node) /\ Cardinality(Node) = Len(vectors)
  BY <1>1, NodeNumbered
<1>5. Numbered(DOMAIN graph[l])
  BY <1>3, <1>4, NumberedSubset
<1>6. Cardinality(DOMAIN graph[l]) <= Len(vectors)
  BY <1>3, <1>4, FS_Subset DEF Numbered
<1>7. \A n \in DOMAIN graph[l] : graph[l][n] \in ListOf(DOMAIN graph[l])
  <2> SUFFICES ASSUME NEW n \in DOMAIN graph[l] PROVE graph[l][n] \in ListOf(DOMAIN graph[l])
    OBVIOUS
  <2>1. graph[l][n] \in ListOf(DOMAIN graph[l] \ {n})
    BY <1>1 DEF LinksInv
  <2> QED BY <2>1 DEF ListOf
<1> QED BY <1>1, <1>3, <1>4, <1>5, <1>6, <1>7 DEF LayerLists

\* Every search comes down to a node of layer 0.
LEMMA EntryArrives ==
    ASSUME LayersInv, LinksInv, vectors # <<>>, NEW q \in Point
    PROVE  EntryTo(q) \in DOMAIN graph[0]
<1> DEFINE N == top_layer
           S == [l \in 0 .. N |-> DOMAIN graph[l]]
           from == CHOOSE f : f = [l \in 0 .. N |->
                       IF l = N THEN entry_point ELSE Greedy(q, f[l + 1], l + 1)]
<1>1. EntryTo(q) = from[0]
  BY DEF EntryTo
<1>2. /\ N \in Nat /\ entry_point \in DOMAIN graph[N]
      /\ \A l \in (0 .. N) \ {0} : DOMAIN graph[l] \subseteq DOMAIN graph[l - 1]
  <2>1. Layer = 0 .. N /\ 0 \in Layer /\ entry_point \in DOMAIN graph[N]
        /\ \A l \in Layer \ {0} : DOMAIN graph[l] \subseteq DOMAIN graph[l - 1]
    BY DEF LayersInv, LayersNest
  <2>2. N \in Nat
    BY <2>1 DEF LayersInv
  <2> QED BY <2>1, <2>2
<1>3. \A l \in 0 .. N : LayerLists(l)
  BY LayerFacts
<1> HIDE DEF N
<1>4. entry_point \in S[N]
  BY <1>2
<1>5. ASSUME NEW l \in 0 .. N - 1, NEW n \in S[l + 1]
      PROVE  Greedy(q, n, l + 1) \in S[l]
  <2>1. l \in 0 .. N /\ l + 1 \in (0 .. N) \ {0} /\ (l + 1) - 1 = l
    BY <1>2
  <2>2. Greedy(q, n, l + 1) \in DOMAIN graph[l + 1]
    BY <1>3, <1>5, <2>1, GreedyStays
  <2> QED BY <1>2, <2>1, <2>2
<1> HIDE DEF S
<1>6. from = [l \in 0 .. N |-> IF l = N THEN entry_point ELSE Greedy(q, from[l + 1], l + 1)]
  <2> DEFINE step == [l \in 0 .. N - 1 |-> [n \in S[l + 1] |-> Greedy(q, n, l + 1)]]
  <2>1. \A l \in 0 .. N - 1 : \A n \in S[l + 1] :
            step[l][n] = Greedy(q, n, l + 1) /\ step[l][n] \in S[l]
    BY <1>5
  <2> HIDE DEF step
  <2>2. \E f : DownFunction(f, N, S, entry_point, step)
    <3>1. \A l \in 0 .. N - 1 : \A n \in S[l + 1] : step[l][n] \in S[l]
      BY <2>1
    <3> QED BY <1>2, <1>4, <3>1, StepsDownExist
  <2>3. PICK f : /\ f = [l \in 0 .. N |-> f[l]] /\ f[N] = entry_point
                 /\ \A l \in 0 .. N - 1 : f[l] = step[l][f[l + 1]]
                 /\ \A l \in 0 .. N : f[l] \in S[l]
    BY <2>2 DEF DownFunction
  <2>4. f = [l \in 0 .. N |-> IF l = N THEN entry_point ELSE Greedy(q, f[l + 1], l + 1)]
    <3>1. \A l \in 0 .. N : l # N => l \in 0 .. N - 1 /\ l + 1 \in 0 .. N
      BY <1>2
    <3>2. \A l \in 0 .. N : f[l] = IF l = N THEN entry_point ELSE Greedy(q, f[l + 1], l + 1)
      BY <2>1, <2>3, <3>1
    <3> QED BY <2>3, <3>2
  <2> QED BY <2>4, Zenon
<1>7. from[N] = entry_point /\ \A l \in 0 .. N - 1 : from[l] = Greedy(q, from[l + 1], l + 1)
  <2> HIDE DEF from
  <2>1. N \in 0 .. N /\ \A l \in 0 .. N - 1 : l \in 0 .. N /\ l # N
    BY <1>2
  <2> QED BY <1>6, <2>1
<1> HIDE DEF from
<1>8. \A l \in 0 .. N : from[l] \in S[l]
  <2>1. from[N] \in S[N] /\ \A l \in 0 .. N - 1 : from[l + 1] \in S[l + 1] => from[l] \in S[l]
    BY <1>4, <1>5, <1>7
  <2> QED BY <1>2, <2>1, StepsDownStay
<1>9. from[0] \in DOMAIN graph[0]
  BY <1>2, <1>8 DEF S
<1> QED BY <1>1, <1>9

-----------------------------------------------------------------------------
(***************************************************************************)
(* Inserting: a new node is linked, and those it is linked to link back.   *)
(***************************************************************************)
\* The candidates that insert finds in layer l, walking from a node of it.
Candidates(q, from, l, rank) == Scored(q, Beam(q, from, l, EfConstruction, DOMAIN graph[l]), rank)

LEMMA CandidatesFound ==
    ASSUME LayersInv, LinksInv, NEW l \in 0 .. top_layer, NEW q \in Point,
           NEW from \in DOMAIN graph[l], NEW rank, Ranking(rank)
    PROVE  /\ Candidates(q, from, l, rank) \in ListOf(DOMAIN graph[l])
           /\ Candidates(q, from, l, rank) # <<>>
           /\ Head(Candidates(q, from, l, rank)) \in DOMAIN graph[l]
<1> DEFINE D == DOMAIN graph[l]
           found == Beam(q, from, l, EfConstruction, D)
           R == [i \in 0 .. Len(vectors) |-> D]
<1>1. LayerLists(l) /\ Len(vectors) \in Nat /\ Cardinality(D) <= Len(vectors) /\ Numbered(D)
  BY LayerFacts DEF LayerLists
<1>2. LinksLead(l, from, R)
  <2>1. \A n \in D : ToSet(graph[l][n]) \subseteq D
    BY <1>1 DEF LayerLists, ListOf, ToSet
  <2>2. 0 \in 0 .. Len(vectors)
        /\ \A i \in 1 .. Len(vectors) : i \in 0 .. Len(vectors) /\ i - 1 \in 0 .. Len(vectors)
    BY <1>1
  <2> QED BY <2>1, <2>2 DEF LinksLead
<1> HIDE DEF R
<1>3. \E visited : BeamVisits(visited, found, l, from, EfConstruction, D, R)
  BY <1>1, <1>2, ConstantsAssumption, BeamFinds
<1>4. found \in SUBSET D /\ found # {}
  <2>1. PICK visited : BeamVisits(visited, found, l, from, EfConstruction, D, R)
    BY <1>3
  <2> HIDE DEF found
  <2>2. found \in SUBSET D
    BY <2>1 DEF BeamVisits
  <2>3. CASE Cardinality(found) = EfConstruction
    <3>1. EfConstruction # 0
      BY ConstantsAssumption
    <3> QED BY <2>2, <2>3, <3>1, FS_EmptySet
  <2>4. CASE Cardinality(found) # EfConstruction
    BY <2>1, <2>4 DEF BeamVisits
  <2> QED BY <2>2, <2>3, <2>4
<1> HIDE DEF found
<1> DEFINE list == Scored(q, found, rank)
<1>5. Numbered(found) /\ IsFiniteSet(found)
  BY <1>1, <1>4, NumberedSubset DEF Numbered
<1>6. list \in ListOf(found) /\ Len(list) = Cardinality(found)
  BY <1>5, ScoredList
<1>7. Candidates(q, from, l, rank) = list
  BY DEF Candidates, found
<1> HIDE DEF list
<1>8. Len(list) # 0
  BY <1>4, <1>5, <1>6, FS_EmptySet
<1>9. list \in Seq(found) /\ list # <<>> /\ Head(list) \in found
  BY <1>6, <1>8, EmptySeq, HeadTailProperties DEF ListOf
<1>10. list \in ListOf(D)
  BY <1>4, <1>6 DEF ListOf
<1> QED BY <1>4, <1>7, <1>9, <1>10

\* Layer l with a new node that has the links ns, each of which is made mutual.
Relinked(l, node, ns) ==
    [n \in DOMAIN graph[l] \cup {node} |->
        IF n = node THEN ns
        ELSE IF n \notin ToSet(ns) THEN graph[l][n]
        ELSE IF Len(Append(graph[l][n], node)) > MaxConn(l)
             THEN SelectNeighbors(Append(graph[l][n], node), n[2], MaxConn(l))
             ELSE Append(graph[l][n], node)]

LEMMA LinkedByNeighbors ==
    ASSUME LayersInv, LinksInv, NEW node, node[2] \in Point, NEW level \in Nat, NEW rank, Ranking(rank),
           NEW l \in 0 .. top_layer, l <= level
    PROVE  \E ns \in ListOf(DOMAIN graph[l]) :
               /\ Len(ns) <= M /\ ns # <<>>
               /\ Linked(node, level, rank)[l] = Relinked(l, node, ns)
<1> DEFINE q == node[2]
           N == top_layer
           S == [i \in 0 .. N |-> DOMAIN graph[i]]
           Down(i, at) == IF i + 1 > level THEN Greedy(q, at, i + 1)
                          ELSE Head(Candidates(q, at, i + 1, rank))
           from == CHOOSE f : f = [i \in 0 .. N |-> IF i = N THEN entry_point
                                     ELSE IF i + 1 > level THEN Greedy(q, f[i + 1], i + 1)
                                     ELSE Head(Candidates(q, f[i + 1], i + 1, rank))]
           ns == SelectNeighbors(Candidates(q, from[l], l, rank), q, M)
<1>1. Linked(node, level, rank)[l] = Relinked(l, node, ns)
  <2>1. l \in 0 .. Larger(top_layer, level) /\ ~(l > level) /\ ~(l > top_layer)
    BY DEF Larger, LayersInv
  <2> QED BY <2>1 DEF Linked, Relinked, Candidates
<1>2. /\ N \in Nat /\ entry_point \in DOMAIN graph[N]
      /\ \A i \in (0 .. N) \ {0} : DOMAIN graph[i] \subseteq DOMAIN graph[i - 1]
  <2>1. N \in Nat /\ vectors # <<>>
    BY DEF LayersInv
  <2>2. Layer = 0 .. N /\ entry_point \in DOMAIN graph[N]
        /\ \A i \in Layer \ {0} : DOMAIN graph[i] \subseteq DOMAIN graph[i - 1]
    BY <2>1 DEF LayersInv, LayersNest
  <2> QED BY <2>1, <2>2
<1>3. \A i \in 0 .. N : LayerLists(i)
  BY LayerFacts
<1>4. entry_point \in S[N]
  BY <1>2
<1>5. ASSUME NEW i \in 0 .. N - 1, NEW at \in S[i + 1]
      PROVE  Down(i, at) \in S[i]
  <2>1. i \in 0 .. N /\ i + 1 \in (0 .. N) \ {0} /\ (i + 1) - 1 = i
    BY <1>2
  <2>2. at \in DOMAIN graph[i + 1]
    BY <1>5, <2>1
  <2>3. Greedy(q, at, i + 1) \in DOMAIN graph[i + 1]
    BY <1>3, <2>1, <2>2, GreedyStays
  <2>4. Head(Candidates(q, at, i + 1, rank)) \in DOMAIN graph[i + 1]
    BY <2>1, <2>2, CandidatesFound
  <2> QED BY <1>2, <2>1, <2>3, <2>4
<1> HIDE DEF S, N, q
<1>6. from = [i \in 0 .. N |-> IF i = N THEN entry_point
                                     ELSE IF i + 1 > level THEN Greedy(q, from[i + 1], i + 1)
                                     ELSE Head(Candidates(q, from[i + 1], i + 1, rank))]
  <2> DEFINE step == [i \in 0 .. N - 1 |-> [at \in S[i + 1] |-> Down(i, at)]]
  <2>1. \A i \in 0 .. N - 1 : \A at \in S[i + 1] : step[i][at] = Down(i, at) /\ step[i][at] \in S[i]
    BY <1>5
  <2> HIDE DEF step
  <2>2. \E f : DownFunction(f, N, S, entry_point, step)
    <3>1. \A i \in 0 .. N - 1 : \A at \in S[i + 1] : step[i][at] \in S[i]
      BY <2>1
    <3> QED BY <1>2, <1>4, <3>1, StepsDownExist
  <2>3. PICK f : /\ f = [i \in 0 .. N |-> f[i]] /\ f[N] = entry_point
                 /\ \A i \in 0 .. N - 1 : f[i] = step[i][f[i + 1]]
                 /\ \A i \in 0 .. N : f[i] \in S[i]
    BY <2>2 DEF DownFunction
  <2>4. f = [i \in 0 .. N |-> IF i = N THEN entry_point
                                     ELSE IF i + 1 > level THEN Greedy(q, f[i + 1], i + 1)
                                     ELSE Head(Candidates(q, f[i + 1], i + 1, rank))]
    <3>1. \A i \in 0 .. N : i # N => i \in 0 .. N - 1 /\ i + 1 \in 0 .. N
      BY <1>2
    <3>2. \A i \in 0 .. N : f[i] = IF i = N THEN entry_point ELSE Down(i, f[i + 1])
      <4> HIDE DEF Down
      <4> QED BY <2>1, <2>3, <3>1
    <3> QED BY <2>3, <3>2
  <2> QED BY <2>4, Zenon
<1>7. from[N] = entry_point /\ \A i \in 0 .. N - 1 : from[i] = Down(i, from[i + 1])
  <2> HIDE DEF from
  <2>1. N \in 0 .. N /\ \A i \in 0 .. N - 1 : i \in 0 .. N /\ i # N
    BY <1>2
  <2> QED BY <1>6, <2>1
<1> HIDE DEF from, Down
<1>8. \A i \in 0 .. N : from[i] \in S[i]
  <2>1. from[N] \in S[N] /\ \A i \in 0 .. N - 1 : from[i + 1] \in S[i + 1] => from[i] \in S[i]
    BY <1>4, <1>5, <1>7
  <2> QED BY <1>2, <2>1, StepsDownStay
<1>9. from[l] \in DOMAIN graph[l]
  BY <1>2, <1>8 DEF S, N
<1>10. /\ Candidates(q, from[l], l, rank) \in ListOf(DOMAIN graph[l])
       /\ Candidates(q, from[l], l, rank) # <<>>
  BY <1>9, CandidatesFound DEF q
<1>11. Numbered(DOMAIN graph[l]) /\ q \in Point /\ M \in Nat \ {0}
  BY LayerFacts, ConstantsAssumption DEF LayerLists, q
<1>12. ns \in ListOf(DOMAIN graph[l]) /\ Len(ns) <= M /\ ns # <<>>
  BY <1>10, <1>11, SelectedList
<1> QED BY <1>1, <1>12

LEMMA ListOfMore ==
    ASSUME NEW F, NEW E \in SUBSET F, NEW list \in ListOf(E)
    PROVE  list \in ListOf(F)
BY DEF ListOf

LEMMA ListOfAppend ==
    ASSUME NEW F, NEW list \in ListOf(F), NEW n \in F, \A i \in 1 .. Len(list) : list[i] # n
    PROVE  Append(list, n) \in ListOf(F) /\ Append(list, n) # <<>>
<1> DEFINE longer == Append(list, n)
<1>1. list \in Seq(F) /\ Len(list) \in Nat /\ \A i, j \in 1 .. Len(list) : list[i] = list[j] => i = j
  BY DEF ListOf
<1>2. /\ longer \in Seq(F) /\ Len(longer) = Len(list) + 1 /\ longer[Len(list) + 1] = n
      /\ \A i \in 1 .. Len(list) : longer[i] = list[i]
  BY <1>1, AppendProperties
<1> HIDE DEF longer
<1>3. \A i \in 1 .. Len(longer) : i \in 1 .. Len(list) \/ i = Len(list) + 1
  BY <1>1, <1>2
<1>4. \A i, j \in 1 .. Len(longer) : longer[i] = longer[j] => i = j
  BY <1>1, <1>2, <1>3
<1>5. longer # <<>>
  BY <1>1, <1>2, EmptySeq
<1> QED BY <1>2, <1>4, <1>5 DEF ListOf, longer

LEMMA MaxConnType ==
    ASSUME NEW l
    PROVE  MaxConn(l) \in Nat \ {0} /\ M <= MaxConn(l)
BY ConstantsAssumption DEF MaxConn

\* The links of n in a layer of the nodes D.
LinksGood(list, n, D, l) ==
    /\ list \in ListOf(D \ {n})
    /\ Len(list) <= MaxConn(l)
    /\ D = {n} \/ list # <<>>

LEMMA RelinkedGood ==
    ASSUME LayersInv, LinksInv, NEW l \in 0 .. top_layer, NEW node,
           node \notin DOMAIN graph[l], Numbered(DOMAIN graph[l] \cup {node}),
           NEW ns \in ListOf(DOMAIN graph[l]), Len(ns) <= M, ns # <<>>
    PROVE  \A n \in DOMAIN graph[l] \cup {node} :
               LinksGood(Relinked(l, node, ns)[n], n, DOMAIN graph[l] \cup {node}, l)
<1> DEFINE D == DOMAIN graph[l]
           more == D \cup {node}
<1>1. l \in Layer /\ MaxConn(l) \in Nat \ {0} /\ M <= MaxConn(l) /\ M \in Nat /\ Len(ns) \in Nat
  BY LayerFacts, MaxConnType, ConstantsAssumption DEF ListOf
<1>2. \A n \in D : LinksGood(graph[l][n], n, D, l)
  BY <1>1 DEF LinksInv, LinksGood
<1>3. LinksGood(Relinked(l, node, ns)[node], node, more, l)
  <2>1. Relinked(l, node, ns)[node] = ns
    BY DEF Relinked
  <2>2. D \in SUBSET (more \ {node})
    OBVIOUS
  <2>3. ns \in ListOf(more \ {node})
    BY <2>2, ListOfMore
  <2> QED BY <1>1, <2>1, <2>3 DEF LinksGood
<1>4. ASSUME NEW n \in D PROVE LinksGood(Relinked(l, node, ns)[n], n, more, l)
  <2>1. n # node
    OBVIOUS
  <2>2. graph[l][n] \in ListOf(D \ {n}) /\ Len(graph[l][n]) <= MaxConn(l)
        /\ (D = {n} \/ graph[l][n] # <<>>)
    BY <1>2 DEF LinksGood
  <2>3. graph[l][n] \in ListOf(more \ {n})
    <3>1. D \ {n} \in SUBSET (more \ {n})
      OBVIOUS
    <3> HIDE DEF D, more
    <3> QED BY <2>2, <3>1, ListOfMore
  <2>4. CASE n \notin ToSet(ns)
    <3>1. Relinked(l, node, ns)[n] = graph[l][n]
      BY <2>1, <2>4 DEF Relinked
    <3>2. D # {n}
      <4>1. ns \in Seq(D) /\ 1 \in DOMAIN ns
        BY EmptySeq DEF ListOf
      <4>2. ns[1] \in ToSet(ns) /\ ns[1] \in D
        BY <4>1 DEF ToSet
      <4> QED BY <2>4, <4>2
    <3> QED BY <2>2, <2>3, <3>1, <3>2 DEF LinksGood
  <2>5. CASE n \in ToSet(ns)
    <3> DEFINE links == Append(graph[l][n], node)
    <3>1. Relinked(l, node, ns)[n] = IF Len(links) > MaxConn(l)
                                     THEN SelectNeighbors(links, n[2], MaxConn(l)) ELSE links
      BY <2>1, <2>5 DEF Relinked
    <3>2. links \in ListOf(more \ {n}) /\ links # <<>>
      <4>1. \A i \in 1 .. Len(graph[l][n]) : graph[l][n][i] # node
        <5>1. \A i \in 1 .. Len(graph[l][n]) : graph[l][n][i] \in D \ {n}
          BY <2>2 DEF ListOf
        <5> QED BY <5>1
      <4>2. node \in more \ {n}
        BY <2>1
      <4> HIDE DEF more
      <4> QED BY <2>3, <4>1, <4>2, ListOfAppend
    <3>3. Len(links) \in Nat
      BY <3>2 DEF ListOf
    <3> HIDE DEF links
    <3>4. CASE ~(Len(links) > MaxConn(l))
      BY <1>1, <3>1, <3>2, <3>3, <3>4 DEF LinksGood
    <3>5. CASE Len(links) > MaxConn(l)
      <4>1. Numbered(more \ {n})
        BY NumberedSubset
      <4>2. n[2] \in Point
        BY DEF Numbered
      <4> HIDE DEF more
      <4>3. /\ SelectNeighbors(links, n[2], MaxConn(l)) \in ListOf(more \ {n})
            /\ Len(SelectNeighbors(links, n[2], MaxConn(l))) <= MaxConn(l)
            /\ SelectNeighbors(links, n[2], MaxConn(l)) # <<>>
        BY <1>1, <3>2, <4>1, <4>2, SelectedList
      <4> QED BY <3>1, <3>5, <4>3 DEF LinksGood
    <3> QED BY <3>4, <3>5
  <2> QED BY <2>4, <2>5
<1> QED BY <1>3, <1>4

LEMMA LinkedGood ==
    ASSUME LayersInv, LinksInv, NEW p \in Point, NEW level \in Nat, NEW rank, Ranking(rank),
           NEW new, new = Linked(<<Len(vectors) + 1, p>>, level, rank)
    PROVE  \A l \in DOMAIN new : \A n \in DOMAIN new[l] : LinksGood(new[l][n], n, DOMAIN new[l], l)
<1> DEFINE node == <<Len(vectors) + 1, p>>
<1>1. /\ vectors \in Seq(Point) /\ Len(vectors) \in Nat /\ top_layer \in Nat \cup {-1}
      /\ Layer = 0 .. top_layer
  BY LenProperties DEF LayersInv, LayersNest
<1>2. Numbered(Node \cup {node}) /\ node \notin Node /\ node[2] \in Point
  <2>1. Node \subseteq Nat \X Point /\ IsFiniteSet(Node) /\ \A m, n \in Node : m[1] = n[1] => m = n
    BY <1>1, NodeNumbered DEF Numbered
  <2>2. node \in Nat \X Point /\ node[1] = Len(vectors) + 1 /\ node[2] \in Point
    BY <1>1, ConstantsAssumption
  <2>3. \A n \in Node : n[1] # Len(vectors) + 1
    <3>1. DOMAIN vectors = 1 .. Len(vectors)
      BY <1>1, LenProperties
    <3> QED BY <1>1, <3>1 DEF Node
  <2>4. IsFiniteSet(Node \cup {node})
    BY <2>1, FS_AddElement
  <2> HIDE DEF node
  <2> QED BY <2>1, <2>2, <2>3, <2>4 DEF Numbered
<1>3. /\ DOMAIN new = 0 .. Larger(top_layer, level)
      /\ \A l \in DOMAIN new : /\ l > level => new[l] = graph[l]
                               /\ l <= level /\ l > top_layer => new[l] = [n \in {node} |-> <<>>]
  <2>1. Larger(top_layer, level) \in Int
    BY <1>1 DEF Larger
  <2> QED BY <1>1, <2>1 DEF Linked
<1> HIDE DEF node
<1> SUFFICES ASSUME NEW l \in DOMAIN new, NEW n \in DOMAIN new[l]
             PROVE  LinksGood(new[l][n], n, DOMAIN new[l], l)
  OBVIOUS
<1>4. l \in Nat /\ (l <= level \/ l <= top_layer)
  BY <1>1, <1>3 DEF Larger
<1>5. CASE l > level
  <2>1. l \in Layer
    BY <1>1, <1>4, <1>5
  <2>2. new[l] = graph[l]
    BY <1>3, <1>5
  <2>3. LinksGood(graph[l][n], n, DOMAIN graph[l], l)
    BY <2>1, <2>2 DEF LinksInv, LinksGood
  <2> QED BY <2>2, <2>3
<1>6. CASE l <= level /\ l > top_layer
  <2>1. new[l] = [m \in {node} |-> <<>>]
    BY <1>3, <1>6
  <2>5. n = node /\ DOMAIN new[l] = {node} /\ new[l][n] = <<>>
    BY <2>1
  <2>2. <<>> \in Seq({node} \ {node}) /\ Len(<<>>) = 0
    BY EmptySeq
  <2>3. <<>> \in ListOf({node} \ {node})
    BY <2>2 DEF ListOf
  <2>4. MaxConn(l) \in Nat
    BY MaxConnType
  <2>6. LinksGood(<<>>, node, {node}, l)
    BY <2>2, <2>3, <2>4 DEF LinksGood
  <2> QED BY <2>5, <2>6
<1>7. CASE l <= level /\ l <= top_layer
  <2>1. l \in 0 .. top_layer
    BY <1>1, <1>4, <1>7
  <2>2. PICK ns \in ListOf(DOMAIN graph[l]) :
            Len(ns) <= M /\ ns # <<>> /\ Linked(node, level, rank)[l] = Relinked(l, node, ns)
    BY <1>2, <1>7, <2>1, LinkedByNeighbors
  <2>3. new[l] = Relinked(l, node, ns)
    BY <2>2 DEF node
  <2>4. DOMAIN new[l] = DOMAIN graph[l] \cup {node}
    BY <2>3 DEF Relinked
  <2>5. DOMAIN graph[l] \subseteq Node
    BY <2>1, LayerFacts
  <2>6. node \notin DOMAIN graph[l] /\ Numbered(DOMAIN graph[l] \cup {node})
    BY <1>2, <2>5, NumberedSubset
  <2> QED BY <2>1, <2>2, <2>3, <2>4, <2>6, RelinkedGood
<1> QED BY <1>1, <1>4, <1>5, <1>6, <1>7

LEMMA LinksInit == Init => LinksInv
<1> SUFFICES ASSUME Init PROVE LinksInv
  OBVIOUS
<1>1. graph = <<>> /\ DOMAIN <<>> = {}
  BY EmptySeq DEF Init
<1> QED BY <1>1 DEF LinksInv, Layer

LEMMA LinksStep == LayersInv /\ LinksInv /\ [Next]_vars => LinksInv'
<1> SUFFICES ASSUME LayersInv, LinksInv, [Next]_vars PROVE LinksInv'
  OBVIOUS
<1>1. ASSUME NEW p \in Point, NEW level \in 0 .. MaxLevel, NEW rank \in [Tied(p) -> TieRanks],
             Add(p, level, rank) \/ Replace(p, level, rank)
      PROVE  LinksInv'
  <2>1. graph' = Linked(<<Len(vectors) + 1, p>>, level, rank) /\ level \in Nat
    BY <1>1, ConstantsAssumption DEF Add, Replace, Insert
  <2>2. \A l \in DOMAIN graph' : \A n \in DOMAIN graph'[l] :
            LinksGood(graph'[l][n], n, DOMAIN graph'[l], l)
    <3>1. Ranking(rank)
      BY <1>1, ConstantsAssumption DEF Ranking
    <3> QED BY <2>1, <3>1, LinkedGood
  <2> QED BY <2>2 DEF LinksInv, LinksGood, Layer, MaxConn
<1>2. CASE CatchUp \/ UNCHANGED vars
  BY <1>2 DEF CatchUp, vars, LinksInv, Layer, MaxConn
<1> QED BY <1>1, <1>2 DEF Next

\* However many vectors are added and whichever neighbors are pruned, links stay inside
\* their layer, lead to others, to each once, and are no more than the layer allows
\* (insert, _select_neighbors).
THEOREM GraphStaysOK == Spec => []GraphOK
<1>1. LinksInv /\ IndexInv => GraphOK
  <2> SUFFICES ASSUME LinksInv, IndexInv, NEW l \in Layer, NEW n \in DOMAIN graph[l]
               PROVE  /\ ToSet(graph[l][n]) \subseteq DOMAIN graph[l] \ {n}
                      /\ IsInjective(graph[l][n])
                      /\ Len(graph[l][n]) <= (IF l = 0 THEN 2 * M ELSE M)
    BY DEF GraphOK, IndexInv
  <2> DEFINE list == graph[l][n]
             D == DOMAIN graph[l] \ {n}
  <2>1. list \in ListOf(D) /\ Len(list) <= MaxConn(l)
    BY DEF LinksInv
  <2> HIDE DEF list, D
  <2>2. ToSet(list) \subseteq D /\ IsInjective(list)
    BY <2>1 DEF ListOf, ToSet, IsInjective
  <2> QED BY <2>1, <2>2 DEF MaxConn, list, D
<1> QED BY <1>1, IndexInit, IndexStep, LayersInit, LayersStep, LinksInit, LinksStep, PTL DEF Spec

\* And a walk never comes to a node without a link, where there is more than one node.
THEOREM NoDeadEnds == Spec => []NoDeadEnd
<1>1. LinksInv => NoDeadEnd
  <2> SUFFICES ASSUME LinksInv, NEW l \in Layer, Cardinality(DOMAIN graph[l]) > 1,
                      NEW n \in DOMAIN graph[l]
               PROVE  graph[l][n] # <<>>
    BY DEF NoDeadEnd
  <2>1. DOMAIN graph[l] # {n}
    <3>1. Cardinality({n}) = 1
      BY FS_Singleton
    <3> QED BY <3>1
  <2> QED BY <2>1 DEF LinksInv
<1> QED BY <1>1, LayersInit, LayersStep, LinksInit, LinksStep, PTL DEF Spec

\* Wherever a greedy walk starts, it ends at a node none of whose neighbors is closer: the
\* loop of _greedy_descend, which has no bound, stops within as many hops as nodes.
GreedyEnds ==
    \A q \in Point, l \in Layer : \A n \in DOMAIN graph[l] : Settled(q, l, Greedy(q, n, l))

THEOREM GreedyAlwaysEnds == Spec => []GreedyEnds
<1>1. LayersInv /\ LinksInv => GreedyEnds
  <2> SUFFICES ASSUME LayersInv, LinksInv, NEW q \in Point, NEW l \in Layer, NEW n \in DOMAIN graph[l]
               PROVE  Settled(q, l, Greedy(q, n, l))
    BY DEF GreedyEnds
  <2>1. l \in 0 .. top_layer /\ q \in Point
    BY ConstantsAssumption DEF LayersInv, LayersNest
  <2>2. LayerLists(l)
    BY <2>1, LayerFacts
  <2> QED BY <2>1, <2>2, GreedyStays
<1> QED BY <1>1, LayersInit, LayersStep, LinksInit, LinksStep, PTL DEF Spec

-----------------------------------------------------------------------------
(***************************************************************************)
(* Searching with a filter.                                                *)
(***************************************************************************)
\* A filtered search starts at a node of layer 0, and Reachable is where links lead.
LEMMA ReachableFunction ==
    ASSUME LayersInv, LinksInv, vectors # <<>>, NEW from \in DOMAIN graph[0]
    PROVE  \E R : /\ Reachable(from) = R[Len(vectors)] /\ R[0] = {from}
                  /\ \A i \in 1 .. Len(vectors) :
                        /\ R[i] = R[i - 1] \cup UNION {ToSet(graph[0][n]) : n \in R[i - 1]}
                        /\ R[i] \in SUBSET DOMAIN graph[0]
<1> DEFINE D == DOMAIN graph[0]
           N == Len(vectors)
           Lead(x) == x \cup UNION {ToSet(graph[0][n]) : n \in x}
           R == CHOOSE f : f = [i \in 0 .. N |-> IF i = 0 THEN {from}
                                  ELSE f[i - 1] \cup UNION {ToSet(graph[0][n]) : n \in f[i - 1]}]
           S == [i \in 0 .. N |-> SUBSET D]
<1>1. Reachable(from) = R[N]
  BY DEF Reachable
<1>2. N \in Nat /\ \A n \in D : ToSet(graph[0][n]) \in SUBSET D
  <2>1. 0 \in 0 .. top_layer
    BY DEF LayersInv, LayersNest
  <2>2. LayerLists(0) /\ N \in Nat
    BY <2>1, LayerFacts
  <2> QED BY <2>2 DEF LayerLists, ListOf, ToSet
<1>3. {from} \in S[0] /\ \A i \in 1 .. N : \A x \in S[i - 1] : Lead(x) \in S[i]
  <2>1. 0 \in 0 .. N /\ \A i \in 1 .. N : i \in 0 .. N /\ i - 1 \in 0 .. N
    BY <1>2
  <2>2. \A x \in SUBSET D : Lead(x) \in SUBSET D
    BY <1>2
  <2> HIDE DEF Lead, D
  <2>3. {from} \in SUBSET D
    BY DEF D
  <2> QED BY <2>1, <2>2, <2>3
<1> HIDE DEF S, N, D
<1>4. R = [i \in 0 .. N |-> IF i = 0 THEN {from}
                            ELSE R[i - 1] \cup UNION {ToSet(graph[0][n]) : n \in R[i - 1]}]
  <2> DEFINE step == [i \in 1 .. N |-> [x \in S[i - 1] |-> Lead(x)]]
             init == {from}
  <2>1. \A i \in 1 .. N : \A x \in S[i - 1] : step[i][x] = Lead(x) /\ step[i][x] \in S[i]
    BY <1>3
  <2> HIDE DEF step, init
  <2>2. \E f : StepFunction(f, N, S, init, step)
    <3>1. init \in S[0] /\ \A i \in 1 .. N : \A x \in S[i - 1] : step[i][x] \in S[i]
      BY <1>3, <2>1 DEF init
    <3> QED BY <1>2, <3>1, StepsExist
  <2>3. PICK f : /\ f = [i \in 0 .. N |-> f[i]] /\ f[0] = init
                 /\ \A i \in 1 .. N : f[i] = step[i][f[i - 1]]
                 /\ \A i \in 0 .. N : f[i] \in S[i]
    BY <2>2 DEF StepFunction
  <2>4. f = [i \in 0 .. N |-> IF i = 0 THEN {from}
                              ELSE f[i - 1] \cup UNION {ToSet(graph[0][n]) : n \in f[i - 1]}]
    <3>1. \A i \in 0 .. N : i # 0 => i \in 1 .. N /\ i - 1 \in 0 .. N
      BY <1>2
    <3>2. \A i \in 0 .. N : f[i] = IF i = 0 THEN {from} ELSE Lead(f[i - 1])
      <4> HIDE DEF Lead
      <4> QED BY <2>1, <2>3, <3>1 DEF init
    <3> QED BY <2>3, <3>2
  <2> QED BY <2>4, Zenon
<1>5. R[0] = {from} /\ \A i \in 1 .. N : R[i] = Lead(R[i - 1])
  <2> HIDE DEF R
  <2>1. 0 \in 0 .. N /\ \A i \in 1 .. N : i \in 0 .. N /\ i # 0
    BY <1>2
  <2> QED BY <1>4, <2>1
<1> HIDE DEF R
<1>6. \A i \in 0 .. N : R[i] \in S[i]
  <2> HIDE DEF Lead
  <2>1. R[0] \in S[0] /\ \A i \in 1 .. N : R[i - 1] \in S[i - 1] => R[i] \in S[i]
    BY <1>3, <1>5
  <2> QED BY <1>2, <2>1, StepsStay
<1>7. \A i \in 1 .. N : R[i] \in SUBSET D
  BY <1>2, <1>6 DEF S
<1> QED BY <1>1, <1>5, <1>7 DEF N, D

LEMMA BeamReaches ==
    ASSUME LayersInv, LinksInv, vectors # <<>>, NEW q \in Point, NEW ef \in Nat \ {0}, NEW allowed,
           NEW from \in DOMAIN graph[0]
    PROVE  /\ Reachable(from) \subseteq Node
           /\ Beam(q, from, 0, ef, allowed) \subseteq allowed \cap Reachable(from)
           /\ \/ Cardinality(Beam(q, from, 0, ef, allowed)) = ef
              \/ Beam(q, from, 0, ef, allowed) = allowed \cap Reachable(from)
<1> DEFINE N == Len(vectors)
           found == Beam(q, from, 0, ef, allowed)
<1>1. PICK R : /\ Reachable(from) = R[N] /\ R[0] = {from}
               /\ \A i \in 1 .. N :
                     /\ R[i] = R[i - 1] \cup UNION {ToSet(graph[0][n]) : n \in R[i - 1]}
                     /\ R[i] \in SUBSET DOMAIN graph[0]
  BY ReachableFunction
<1>2. /\ LayerLists(0) /\ N \in Nat /\ N # 0 /\ Cardinality(DOMAIN graph[0]) <= N
      /\ DOMAIN graph[0] \subseteq Node
  <2>1. 0 \in 0 .. top_layer
    BY DEF LayersInv, LayersNest
  <2>2. N # 0
    BY EmptySeq DEF LayersInv
  <2> QED BY <2>1, <2>2, LayerFacts
<1>3. LinksLead(0, from, R)
  BY <1>1 DEF LinksLead
<1>4. PICK visited : BeamVisits(visited, found, 0, from, ef, allowed, R)
  <2> HIDE DEF found
  <2>1. \E visited : BeamVisits(visited, found, 0, from, ef, allowed, R)
    BY <1>2, <1>3, BeamFinds DEF found
  <2> QED BY <2>1
<1> HIDE DEF found
<1>5. /\ visited \subseteq Reachable(from) /\ from \in visited /\ found \subseteq allowed \cap visited
      /\ \/ Cardinality(found) = ef
         \/ /\ found = allowed \cap visited
            /\ \A n \in visited : ToSet(graph[0][n]) \subseteq visited
  BY <1>1, <1>4 DEF BeamVisits
<1>6. Reachable(from) \subseteq Node
  <2>1. N \in 1 .. N
    BY <1>2
  <2> QED BY <1>1, <1>2, <2>1
<1>7. CASE Cardinality(found) # ef
  <2> DEFINE S == [i \in 0 .. N |-> SUBSET visited]
  <2>1. R[0] \in S[0]
    BY <1>1, <1>2, <1>5
  <2>2. ASSUME NEW i \in 1 .. N, R[i - 1] \in S[i - 1] PROVE R[i] \in S[i]
    <3>1. i \in 0 .. N /\ i - 1 \in 0 .. N
      BY <1>2
    <3>2. R[i - 1] \subseteq visited
      BY <2>2, <3>1
    <3>3. R[i] \subseteq visited
      BY <1>1, <1>5, <1>7, <3>2
    <3> QED BY <3>1, <3>3
  <2>3. \A i \in 0 .. N : R[i] \in S[i]
    <3> HIDE DEF S, N
    <3> QED BY <1>2, <2>1, <2>2, StepsStay
  <2>4. R[N] \subseteq visited
    BY <1>2, <2>3
  <2>5. found = allowed \cap Reachable(from)
    BY <1>1, <1>5, <1>7, <2>4
  <2> QED BY <1>6, <2>5 DEF found
<1>8. CASE Cardinality(found) = ef
  BY <1>5, <1>6, <1>8 DEF found
<1> QED BY <1>7, <1>8

\* The k nearest of some nodes are k nodes, or all of them.
LEMMA NearestCount ==
    ASSUME NEW D, Numbered(D), NEW q \in Point, NEW k \in Nat
    PROVE  /\ Cardinality(D) <= k => Nearest(q, k, D) = D
           /\ k <= Cardinality(D) => Cardinality(Nearest(q, k, D)) = k
<1> DEFINE Under == [n \in D |-> {m \in D : Before(q, m, n)}]
<1>1. \A n \in D : Dist(q, n) \in Int /\ n[1] \in Nat
  BY NumberedDist
<1>2. IsFiniteSet(D) /\ \A m, n \in D : m[1] = n[1] => m = n
  BY DEF Numbered
<1>3. /\ Under \in [D -> SUBSET D]
      /\ \A n \in D : Under[n] = {m \in D : Before(q, m, n)}
      /\ \A m, n \in D : m \in Under[n] <=>
             Dist(q, m) < Dist(q, n) \/ (Dist(q, m) = Dist(q, n) /\ m[1] < n[1])
  BY DEF Before
<1>4. /\ Nearest(q, k, D) \in SUBSET D
      /\ \A n \in D : n \in Nearest(q, k, D) <=> Cardinality(Under[n]) < k
  <2>1. Nearest(q, k, D) = {n \in D : Cardinality({m \in D : Before(q, m, n)}) < k}
    BY DEF Nearest
  <2> HIDE DEF Under
  <2> QED BY <1>3, <2>1
<1> HIDE DEF Under
<1>5. \A n \in D : n \notin Under[n]
  BY <1>1, <1>3
<1>6. \A l, m, n \in D : l \in Under[m] /\ m \in Under[n] => l \in Under[n]
  BY <1>1, <1>3
<1>7. \A m, n \in D : m = n \/ m \in Under[n] \/ n \in Under[m]
  BY <1>1, <1>2, <1>3
<1> DEFINE lowest == Nearest(q, k, D)
<1>8. lowest \in SUBSET D /\ \A n \in D : n \in lowest <=> Cardinality(Under[n]) < k
  BY <1>4
<1> HIDE DEF lowest
<1>9. (Cardinality(D) <= k => lowest = D) /\ (k <= Cardinality(D) => Cardinality(lowest) = k)
  BY <1>2, <1>3, <1>5, <1>6, <1>7, <1>8, LowestOnes
<1> QED BY <1>9 DEF lowest

LEMMA AllowedNodes ==
    ASSUME LayersInv, LinksInv, vectors # <<>>, NEW q \in Point, NEW where
    PROVE  /\ EntryTo(q) \in DOMAIN graph[0]
           /\ Numbered(Node) /\ Cardinality(Node) = Len(vectors) /\ Len(vectors) \in Nat \ {0}
           /\ Allowed(where) \in SUBSET Node
<1>1. EntryTo(q) \in DOMAIN graph[0]
  BY EntryArrives
<1>2. vectors \in Seq(Point)
  BY DEF LayersInv
<1>3. Len(vectors) \in Nat \ {0}
  BY <1>2, LenProperties, EmptySeq
<1> QED BY <1>1, <1>2, <1>3, NodeNumbered DEF Allowed

\* A beam that is as wide as there are vectors returns exactly the allowed nodes that links
\* lead to, through all that are not allowed (_search_layer_filtered).
THEOREM BeamFindsReachable == Spec => []FindsReachable
<1>1. LayersInv /\ LinksInv => FindsReachable
  <2> SUFFICES ASSUME LayersInv, LinksInv, vectors # <<>>, NEW q \in Point, NEW where \in Filter
               PROVE  Beam(q, EntryTo(q), 0, Len(vectors), Allowed(where))
                          = Allowed(where) \cap Reachable(EntryTo(q))
    BY DEF FindsReachable
  <2> DEFINE from == EntryTo(q)
             found == Beam(q, from, 0, Len(vectors), Allowed(where))
  <2>1. q \in Point
    BY ConstantsAssumption
  <2>2. /\ from \in DOMAIN graph[0] /\ Allowed(where) \in SUBSET Node
        /\ Numbered(Node) /\ Cardinality(Node) = Len(vectors) /\ Len(vectors) \in Nat \ {0}
    BY <2>1, AllowedNodes
  <2> HIDE DEF from
  <2>3. /\ Reachable(from) \subseteq Node /\ found \subseteq Allowed(where) \cap Reachable(from)
        /\ Cardinality(found) = Len(vectors) \/ found = Allowed(where) \cap Reachable(from)
    BY <2>1, <2>2, BeamReaches
  <2> HIDE DEF found
  <2>4. ASSUME Cardinality(found) = Len(vectors) PROVE found = Node
    <3>1. found \in SUBSET Node
      BY <2>2, <2>3
    <3> QED BY <2>2, <2>4, <3>1, FS_Subset DEF Numbered
  <2>5. found = Allowed(where) \cap Reachable(from)
    BY <2>2, <2>3, <2>4
  <2> QED BY <2>5 DEF found, from
<1> QED BY <1>1, LayersInit, LayersStep, LinksInit, LinksStep, PTL DEF Spec

\* A search with a filter has k results as long as links lead to so many, whichever of the
\* two ways is taken, also when k is larger than ef_search (search_with_distances).
THEOREM AnswersAreFull == Spec => []NoShortAnswer
<1>1. LayersInv /\ LinksInv => NoShortAnswer
  <2> SUFFICES ASSUME LayersInv, LinksInv, vectors # <<>>,
                      NEW q \in Point, NEW k \in 1 .. MaxK, NEW where \in Filter,
                      NEW there, there = Cardinality(Allowed(where) \cap Reachable(EntryTo(q)))
               PROVE  Cardinality(Hits(q, k, where)) >= (IF there < k THEN there ELSE k)
    BY DEF NoShortAnswer
  <2> DEFINE from == EntryTo(q)
             allowed == Allowed(where)
             reached == allowed \cap Reachable(from)
             ef == BeamWidth(k, TRUE)
             found == Beam(q, from, 0, ef, allowed)
  <2>1. q \in Point /\ k \in Nat
    BY ConstantsAssumption
  <2>2. /\ from \in DOMAIN graph[0] /\ allowed \in SUBSET Node /\ Numbered(Node)
    BY <2>1, AllowedNodes
  <2>3. ef \in Nat \ {0} /\ ef >= k
    BY <2>1, ConstantsAssumption DEF BeamWidth, Larger
  <2> HIDE DEF from, allowed, ef
  <2>4. /\ Reachable(from) \subseteq Node /\ found \subseteq reached
        /\ Cardinality(found) = ef \/ found = reached
    BY <2>1, <2>2, <2>3, BeamReaches
  <2>5. Hits(q, k, where) = Nearest(q, k, allowed) \/ Hits(q, k, where) = Nearest(q, k, found)
    BY DEF Hits, ByGraph, from, allowed, ef
  <2> HIDE DEF found, reached
  <2>6. Numbered(allowed) /\ Numbered(found) /\ found \in SUBSET reached /\ reached \in SUBSET allowed
    <3>1. reached \in SUBSET allowed
      BY DEF reached
    <3> QED BY <2>2, <2>4, <3>1, NumberedSubset
  <2>7. /\ Cardinality(allowed) \in Nat /\ Cardinality(found) \in Nat /\ Cardinality(reached) \in Nat
        /\ Cardinality(reached) <= Cardinality(allowed)
    <3>1. IsFiniteSet(allowed) /\ IsFiniteSet(found) /\ IsFiniteSet(reached)
      BY <2>6, FS_Subset DEF Numbered
    <3> QED BY <2>6, <3>1, FS_Subset, FS_CardinalityType
  <2>8. there = Cardinality(reached)
    BY DEF reached, allowed, from
  <2>9. CASE Hits(q, k, where) = Nearest(q, k, allowed)
    <3>1. \/ Cardinality(Hits(q, k, where)) = Cardinality(allowed)
          \/ Cardinality(Hits(q, k, where)) = k
      <4>1. Cardinality(allowed) <= k => Nearest(q, k, allowed) = allowed
        BY <2>1, <2>6, NearestCount
      <4>2. k <= Cardinality(allowed) => Cardinality(Nearest(q, k, allowed)) = k
        BY <2>1, <2>6, NearestCount
      <4> QED BY <2>1, <2>7, <2>9, <4>1, <4>2
    <3> QED BY <2>1, <2>7, <2>8, <3>1
  <2>10. CASE Hits(q, k, where) = Nearest(q, k, found)
    <3>1. Cardinality(found) <= k => Nearest(q, k, found) = found
      BY <2>1, <2>6, NearestCount
    <3>2. k <= Cardinality(found) => Cardinality(Nearest(q, k, found)) = k
      BY <2>1, <2>6, NearestCount
    <3>3. CASE found = reached
      <4>1. \/ Cardinality(Hits(q, k, where)) = Cardinality(reached)
            \/ Cardinality(Hits(q, k, where)) = k
        BY <2>1, <2>7, <2>10, <3>1, <3>2, <3>3
      <4> QED BY <2>1, <2>7, <2>8, <4>1
    <3>4. CASE Cardinality(found) = ef
      <4>1. Cardinality(Hits(q, k, where)) = k
        BY <2>1, <2>3, <2>10, <3>2, <3>4
      <4> QED BY <2>1, <2>7, <2>8, <4>1
    <3> QED BY <2>4, <3>3, <3>4
  <2> QED BY <2>5, <2>9, <2>10
<1> QED BY <1>1, LayersInit, LayersStep, LinksInit, LinksStep, PTL DEF Spec
=============================================================================
