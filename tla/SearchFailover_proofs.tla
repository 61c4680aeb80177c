------------------------ MODULE SearchFailover_proofs ------------------------
(***************************************************************************)
(* Proofs about SearchFailover that hold for all values of its constants:  *)
(* any number of shards, replicas, vectors and namespaces, any number of   *)
(* results asked for.                                                      *)
(***************************************************************************)
EXTENDS SearchFailover, FiniteOrders, FiniteSetTheorems, TLAPS

-----------------------------------------------------------------------------
(***************************************************************************)
(* The merge: the K nearest of some vectors are all that is needed of them *)
(* to find their K nearest.                                                *)
(***************************************************************************)

\* Closer is a strict order.
LEMMA CloserOrder ==
    ASSUME NEW q \in Nat
    PROVE  /\ \A v \in Nat : ~Closer(q, v, v)
           /\ \A u, v, w \in Nat : Closer(q, u, v) /\ Closer(q, v, w) => Closer(q, u, w)
BY DEF Closer, Distance

\* More candidates never bring a vector nearer.
LEMMA NearestInLarger ==
    ASSUME NEW q, NEW S \in SUBSET Vector, NEW P \in SUBSET S, NEW v \in P, v \in Nearest(q, K, S)
    PROVE  v \in Nearest(q, K, P)
<1> DEFINE CP == {w \in P : Closer(q, w, v)}
           CS == {w \in S : Closer(q, w, v)}
<1>1. IsFiniteSet(CS) /\ CP \subseteq CS
  BY ConstantsAssumption, FS_Subset
<1>2. Cardinality(CP) <= Cardinality(CS) /\ IsFiniteSet(CP)
  BY <1>1, FS_Subset
<1>3. Cardinality(CP) \in Nat /\ Cardinality(CS) \in Nat
  BY <1>1, <1>2, FS_CardinalityType
<1>4. Cardinality(CS) < K
  BY DEF Nearest
<1>5. Cardinality(CP) < K
  BY <1>2, <1>3, <1>4, ConstantsAssumption
<1> QED BY <1>5 DEF Nearest

\* Whatever is left out of S but its K nearest, the K nearest stay the same.
LEMMA NearestWithin ==
    ASSUME NEW q \in Query, NEW S \in SUBSET Vector, NEW U \in SUBSET S, Nearest(q, K, S) \subseteq U
    PROVE  Nearest(q, K, U) = Nearest(q, K, S)
<1>1. Nearest(q, K, S) \subseteq Nearest(q, K, U)
  <2>1. ASSUME NEW v \in Nearest(q, K, S) PROVE v \in Nearest(q, K, U)
    BY <2>1, NearestInLarger
  <2> QED BY <2>1
<1>2. ASSUME NEW v \in Nearest(q, K, U), v \notin Nearest(q, K, S)
      PROVE  FALSE
  <2> DEFINE Below(x, T) == {w \in T : Closer(q, w, x)}
  <2>1. /\ v \in U /\ v \in S /\ Cardinality(Below(v, U)) < K
        /\ ~(Cardinality(Below(v, S)) < K)
    BY <1>2 DEF Nearest
  <2>2. /\ q \in Nat /\ S \subseteq Nat /\ IsFiniteSet(S) /\ IsFiniteSet(U) /\ K \in Nat
    BY ConstantsAssumption, FS_Subset
  <2>3. \A x \in S : IsFiniteSet(Below(x, S)) /\ Cardinality(Below(x, S)) \in Nat
    BY <2>2, FS_Subset, FS_CardinalityType
  <2>4. IsFiniteSet(Below(v, U)) /\ Cardinality(Below(v, U)) \in Nat
    BY <2>2, FS_Subset, FS_CardinalityType
  <2> DEFINE Out == Below(v, S) \ U
             R   == {e \in S \X S : Closer(q, e[1], e[2])}
  <2>5. Out # {}
    <3>1. SUFFICES ASSUME Out = {} PROVE FALSE
      OBVIOUS
    <3>2. Below(v, S) = Below(v, U)
      BY <3>1
    <3> QED BY <3>2, <2>1
  <2>6. IsFiniteSet(Out)
    BY <2>1, <2>3, FS_Subset
  <2>7. PICK x \in Out : \A y \in Out : <<y, x>> \notin R
    <3>1. \A y \in Out : <<y, y>> \notin R
      BY <2>2, CloserOrder
    <3>2. ASSUME NEW a \in Out, NEW b \in Out, NEW c \in Out, <<a, b>> \in R, <<b, c>> \in R
          PROVE  <<a, c>> \in R
      <4>1. Closer(q, a, b) /\ Closer(q, b, c) /\ a \in S /\ b \in S /\ c \in S
        BY <3>2
      <4>2. Closer(q, a, c)
        BY <4>1, <2>2, CloserOrder
      <4> QED BY <4>1, <4>2
    <3> HIDE DEF Out, R
    <3> QED BY <3>1, <3>2, <2>5, <2>6, Minimal
  <2>8. x \in S /\ x \notin U /\ Closer(q, x, v) /\ \A y \in S \ U : Closer(q, y, v) => ~Closer(q, y, x)
    BY <2>7
  <2>9. ~(Cardinality(Below(x, S)) < K)
    BY <2>8 DEF Nearest
  <2>10. Below(x, S) \subseteq Below(v, U)
    <3>1. ASSUME NEW w \in S, Closer(q, w, x) PROVE w \in U /\ Closer(q, w, v)
      <4>1. Closer(q, w, v)
        BY <3>1, <2>8, <2>1, <2>2, CloserOrder
      <4> QED BY <4>1, <3>1, <2>8
    <3> QED BY <3>1
  <2>11. Cardinality(Below(x, S)) <= Cardinality(Below(v, U))
    BY <2>10, <2>4, FS_Subset
  <2>12. Cardinality(Below(x, S)) \in Nat
    BY <2>3, <2>8
  <2> HIDE DEF Below
  <2> QED BY <2>1, <2>2, <2>4, <2>9, <2>11, <2>12
<1> QED BY <1>1, <1>2

-----------------------------------------------------------------------------
(***************************************************************************)
(* The inductive invariant: what the coordinator knows of every shard.     *)
(***************************************************************************)
Places == UNION {[left -> Nat] : left \in (SUBSET Replica) \ {{}}}

InSearch == [kind : {"search"}, query : Query, ns : Namespace \cup {Nowhere}, partial : BOOLEAN,
             order : UNION {[T -> Places] : T \in SUBSET Shard}, pending : SUBSET Shard,
             hits : SUBSET Vector, missing : SUBSET Shard, failed : SUBSET Server]
Answered == [kind : {"answered"}, query : Query, ns : Namespace \cup {Nowhere},
             missing : SUBSET Shard, failed : SUBSET Server, result : SUBSET Vector]

\* A target is pending, missing or has answered: the hits are those of the last kind.
HasAnswered(c, s) == s \in Targets(c.ns) \ (c.pending \cup c.missing)
HitsOK(c) ==
    \A v \in Vector : v \in c.hits <=> /\ v \in Matches(c.ns) /\ HasAnswered(c, ShardOf(v))
                                       /\ v \in LocalTop(c.query, c.ns, ShardOf(v))

\* A replica that is no longer to be asked has failed in this search.
FailedOK(c) ==
    /\ \A s \in c.pending, r \in Replica : r \in DOMAIN c.order[s] \/ <<s, r>> \in c.failed
    /\ \A s \in c.missing, r \in Replica : <<s, r>> \in c.failed

SearchOK(c) ==
    /\ c \in InSearch /\ c.order \in [Targets(c.ns) -> Places]
    /\ c.pending \subseteq Targets(c.ns) /\ c.missing \subseteq Targets(c.ns)
    /\ c.pending \cap c.missing = {}
    /\ HitsOK(c) /\ FailedOK(c)

\* What an answer has to have.
Held(ns, missing) == {v \in Vector : /\ ns # Nowhere => tag[v] = ns
                                     /\ ShardOf(v) \notin missing}
AnswerOK(c) ==
    /\ c \in Answered /\ c.result = Nearest(c.query, K, Held(c.ns, c.missing))
    /\ \A s \in c.missing, r \in Replica : <<s, r>> \in c.failed

CallOK(c) == c = Idle \/ SearchOK(c) \/ AnswerOK(c)

IInv ==
    /\ tag \in [Vector -> Namespace \cup {Nowhere}]
    /\ next_replica \in [Shard -> Replica] /\ down \subseteq Server
    /\ CallOK(call)

-----------------------------------------------------------------------------
\* A search in a namespace asks the shard of each vector it can match.
LEMMA MatchesOnTargets ==
    ASSUME IInv, NEW ns \in Namespace \cup {Nowhere}
    PROVE  /\ \A v \in Matches(ns) : ShardOf(v) \in Targets(ns)
           /\ Targets(ns) \subseteq Shard /\ \A v \in Vector : ShardOf(v) \in Shard
<1>1. ASSUME NEW v \in Vector PROVE v % NumShards \in Shard
  BY ConstantsAssumption DEF Shard
<1>2. ASSUME NEW v \in Vector PROVE tag[v] \in Namespace \cup {Nowhere}
  BY DEF IInv
<1>3. ASSUME NEW n \in Namespace PROVE Home[n] \in Shard
  BY ConstantsAssumption
<1>4. \A v \in Vector : ShardOf(v) \in Shard
  BY <1>1, <1>2, <1>3 DEF ShardOf
<1>5. Targets(ns) \subseteq Shard
  BY <1>3 DEF Targets
<1>6. ASSUME NEW v \in Matches(ns) PROVE ShardOf(v) \in Targets(ns)
  BY <1>4, ConstantsAssumption DEF Targets, Matches, ShardOf
<1> QED BY <1>4, <1>5, <1>6

\* There is a first of the replicas that are left.
LEMMA FirstIsLeft ==
    ASSUME NEW order \in Places
    PROVE  First(order) \in DOMAIN order /\ First(order) \in Replica
<1>1. PICK left \in (SUBSET Replica) \ {{}} : order \in [left -> Nat]
  BY DEF Places
<1>2. IsFiniteSet(left)
  <2>1. IsFiniteSet(Replica)
    BY ConstantsAssumption, FS_Interval DEF Replica
  <2> QED BY <2>1, FS_Subset
<1>3. \E r \in left : \A q \in left : order[r] <= order[q]
  BY <1>1, <1>2, Least
<1> QED BY <1>1, <1>3 DEF First

LEMMA RestIsPlaces ==
    ASSUME NEW order \in Places, DOMAIN Rest(order) # {}
    PROVE  Rest(order) \in Places /\ DOMAIN Rest(order) = DOMAIN order \ {First(order)}
<1>1. PICK left \in (SUBSET Replica) \ {{}} : order \in [left -> Nat]
  BY DEF Places
<1>2. Rest(order) \in [left \ {First(order)} -> Nat] /\ left \ {First(order)} # {}
  BY <1>1 DEF Rest
<1> QED BY <1>1, <1>2 DEF Places

\* Every replica is in the order of its shard.
LEMMA OrderIsPlaces ==
    ASSUME IInv, NEW s \in Shard
    PROVE  Order(s) \in Places /\ DOMAIN Order(s) = Replica
<1>1. Replica # {} /\ Replica \subseteq Nat /\ NumReplicas \in Nat \ {0}
  <2>1. 0 \in Replica
    BY ConstantsAssumption DEF Replica
  <2>2. Replica \subseteq Nat /\ NumReplicas \in Nat \ {0}
    BY ConstantsAssumption DEF Replica
  <2> QED BY <2>1, <2>2
<1>2. next_replica[s] \in Nat
  BY <1>1 DEF IInv
<1>3. ASSUME NEW r \in Replica PROVE Turn(s, r) \in Nat /\ NumReplicas + Turn(s, r) \in Nat
  <2>1. r - next_replica[s] \in Int
    BY <1>1, <1>2
  <2>2. \A i \in Int : i % NumReplicas \in Nat
    BY <1>1
  <2>3. Turn(s, r) \in Nat
    BY <2>1, <2>2 DEF Turn
  <2> QED BY <2>3, <1>1
<1>4. Order(s) \in [Replica -> Nat]
  BY <1>3 DEF Order
<1> QED BY <1>1, <1>4 DEF Places

-----------------------------------------------------------------------------
(***************************************************************************)
(* Every step keeps it.                                                    *)
(***************************************************************************)

\* What is stored never changes, so neither does what is said of it.
LEMMA CallKept ==
    ASSUME UNCHANGED tag, NEW c, CallOK(c)
    PROVE  CallOK(c)'
<1>1. \A v : ShardOf(v)' = ShardOf(v)
  BY DEF ShardOf
<1>2. \A ns : Matches(ns)' = Matches(ns)
  BY DEF Matches
<1>3. \A q, ns, s : LocalTop(q, ns, s)' = LocalTop(q, ns, s)
  BY <1>1, <1>2 DEF LocalTop
<1>4. \A ns, missing : Held(ns, missing)' = Held(ns, missing)
  BY <1>1 DEF Held
<1>5. HitsOK(c)' <=> HitsOK(c)
  BY <1>1, <1>2, <1>3 DEF HitsOK, HasAnswered
<1>6. SearchOK(c)' <=> SearchOK(c)
  BY <1>5 DEF SearchOK, FailedOK
<1>7. AnswerOK(c)' <=> AnswerOK(c)
  BY <1>4 DEF AnswerOK
<1> QED BY <1>6, <1>7 DEF CallOK

\* With no shard pending, the merged hits are the K nearest of all that is held.
LEMMA FinishOK ==
    ASSUME IInv, NEW c, SearchOK(c)
    PROVE  CallOK(Finish(c))
<1>1. CASE c.pending # {}
  BY <1>1 DEF Finish, CallOK
<1>2. CASE c.pending = {} /\ c.missing # {} /\ ~c.partial
  BY <1>2 DEF Finish, CallOK
<1>3. CASE c.pending = {} /\ ~(c.missing # {} /\ ~c.partial)
  <2> DEFINE S == Held(c.ns, c.missing)
             a == [kind |-> "answered", query |-> c.query, ns |-> c.ns, missing |-> c.missing,
                   failed |-> c.failed, result |-> Nearest(c.query, K, c.hits)]
  <2>1. /\ c.query \in Query /\ c.ns \in Namespace \cup {Nowhere} /\ c.hits \subseteq Vector
        /\ c.missing \in SUBSET Shard /\ c.failed \in SUBSET Server
    BY DEF SearchOK, InSearch
  <2>2. /\ S \subseteq Vector /\ \A v \in S : v \in Matches(c.ns) /\ HasAnswered(c, ShardOf(v))
        /\ \A v \in Matches(c.ns) : ShardOf(v) \notin c.missing => v \in S
    BY <1>3, <2>1, MatchesOnTargets DEF Held, Matches, HasAnswered
  <2>3. \A v \in c.hits : v \in Matches(c.ns) /\ HasAnswered(c, ShardOf(v))
    BY <2>1 DEF SearchOK, HitsOK
  <2>4. c.hits \subseteq S
    BY <2>2, <2>3 DEF HasAnswered
  <2>5. ASSUME NEW v \in Nearest(c.query, K, S) PROVE v \in c.hits
    <3> DEFINE P == {w \in Matches(c.ns) : ShardOf(w) = ShardOf(v)}
    <3>1. v \in S
      BY <2>5 DEF Nearest
    <3>2. v \in P /\ P \subseteq S
      BY <3>1, <2>2 DEF Held
    <3>3. v \in Nearest(c.query, K, P)
      <4> HIDE DEF P, S
      <4> QED BY <3>2, <2>2, <2>5, NearestInLarger
    <3>4. v \in LocalTop(c.query, c.ns, ShardOf(v))
      BY <3>3 DEF LocalTop
    <3> QED BY <3>1, <3>4, <2>2 DEF SearchOK, HitsOK
  <2>6. Nearest(c.query, K, c.hits) = Nearest(c.query, K, S)
    <3> HIDE DEF S
    <3> QED BY <2>1, <2>2, <2>4, <2>5, NearestWithin
  <2>7. Nearest(c.query, K, c.hits) \subseteq Vector
    BY <2>1 DEF Nearest
  <2>8. a \in Answered
    BY <2>1, <2>7 DEF Answered
  <2>9. AnswerOK(a)
    BY <2>6, <2>8 DEF AnswerOK, SearchOK, FailedOK
  <2>10. Finish(c) = a
    BY <1>3 DEF Finish
  <2> QED BY <2>9, <2>10 DEF CallOK
<1> QED BY <1>1, <1>2, <1>3

LEMMA InitIInv == Init => IInv
<1> SUFFICES ASSUME Init PROVE IInv
  OBVIOUS
<1>1. 0 \in Replica
  BY ConstantsAssumption DEF Replica
<1> QED BY <1>1 DEF Init, IInv, CallOK

\* The rotation and the servers put aside stay in their domains.
LEMMA TypesKept ==
    ASSUME IInv, [Next]_vars
    PROVE  /\ (tag \in [Vector -> Namespace \cup {Nowhere}])'
           /\ (next_replica \in [Shard -> Replica] /\ down \subseteq Server)'
<1> USE DEF IInv
<1>1. ASSUME NEW q \in Query, NEW ns \in Namespace \cup {Nowhere}, NEW partial \in BOOLEAN,
             StartSearch(q, ns, partial)
      PROVE  next_replica' \in [Shard -> Replica]
  <2>1. \A i \in Nat : (i + 1) % NumReplicas \in Replica
    BY ConstantsAssumption DEF Replica
  <2>2. \A s \in Shard : next_replica[s] \in Nat /\ next_replica[s] \in Replica
    BY DEF Replica
  <2>3. \A s \in Shard : (next_replica[s] + 1) % NumReplicas \in Replica
    BY <2>1, <2>2
  <2> QED BY <1>1, <2>2, <2>3 DEF StartSearch
<1>2. ASSUME NEW s \in Shard, Searching(s) PROVE Asked(s) \in Server
  <2>1. SearchOK(call)
    BY <1>2 DEF CallOK, Searching, Idle, AnswerOK, Answered
  <2>2. call.order[s] \in Places
    BY <1>2, <2>1 DEF SearchOK, Searching
  <2> QED BY <2>2, FirstIsLeft DEF Asked, Server
<1>3. ASSUME NEW s \in Shard, Answer(s) PROVE down' \subseteq Server
  BY <1>3 DEF Answer
<1>4. ASSUME NEW s \in Shard, AskFails(s) PROVE down' \subseteq Server
  BY <1>2, <1>4 DEF AskFails
<1> QED BY <1>1, <1>3, <1>4 DEF Next, StartSearch, Answer, AskFails, SearchRaises, RetryAfter, vars

\* A search starts with nothing found, nothing missing and every replica to ask.
LEMMA StartKeeps ==
    ASSUME IInv, NEW q \in Query, NEW ns \in Namespace \cup {Nowhere}, NEW partial \in BOOLEAN
    PROVE  SearchOK([kind |-> "search", query |-> q, ns |-> ns, partial |-> partial,
                     order |-> [s \in Targets(ns) |-> Order(s)], pending |-> Targets(ns),
                     hits |-> {}, missing |-> {}, failed |-> {}])
<1> DEFINE order == [s \in Targets(ns) |-> Order(s)]
           c == [kind |-> "search", query |-> q, ns |-> ns, partial |-> partial,
                 order |-> order, pending |-> Targets(ns),
                 hits |-> {}, missing |-> {}, failed |-> {}]
<1>1. Targets(ns) \subseteq Shard
  BY MatchesOnTargets
<1>2. order \in [Targets(ns) -> Places] /\ \A s \in Targets(ns) : DOMAIN order[s] = Replica
  BY <1>1, OrderIsPlaces
<1> HIDE DEF order
<1>3. c \in InSearch
  <2>1. order \in UNION {[T -> Places] : T \in SUBSET Shard}
    BY <1>1, <1>2
  <2> QED BY <1>1, <2>1 DEF InSearch
<1>4. HitsOK(c)
  BY DEF HitsOK, HasAnswered
<1>5. FailedOK(c)
  BY <1>2 DEF FailedOK
<1>6. c.ns = ns /\ c.order = order /\ c.pending = Targets(ns) /\ c.missing = {}
  OBVIOUS
<1> HIDE DEF c
<1>7. SearchOK(c)
  BY <1>2, <1>3, <1>4, <1>5, <1>6 DEF SearchOK
<1> QED BY <1>7 DEF c, order

\* An answer adds the nearest of its shard.
LEMMA AnswerKeeps ==
    ASSUME IInv, NEW c, SearchOK(c), NEW s \in c.pending
    PROVE  SearchOK([c EXCEPT !.pending = @ \ {s},
                              !.hits = @ \cup LocalTop(c.query, c.ns, s)])
<1> DEFINE x == [c EXCEPT !.pending = @ \ {s}, !.hits = @ \cup LocalTop(c.query, c.ns, s)]
<1>1. c \in InSearch
  BY DEF SearchOK
<1>2. /\ x.kind = "search" /\ x.query = c.query /\ x.ns = c.ns /\ x.partial = c.partial
      /\ x.order = c.order /\ x.missing = c.missing /\ x.failed = c.failed
      /\ x.pending = c.pending \ {s} /\ x.hits = c.hits \cup LocalTop(c.query, c.ns, s)
  BY <1>1 DEF InSearch
<1>3. \A v \in LocalTop(c.query, c.ns, s) : v \in Vector /\ v \in Matches(c.ns) /\ ShardOf(v) = s
  BY DEF LocalTop, Nearest, Matches
<1>4. x \in InSearch
  BY <1>1, <1>3 DEF InSearch
<1> HIDE DEF x
<1>5. HitsOK(x)
  <2>1. /\ HasAnswered(x, s)
        /\ \A t : t # s => (HasAnswered(x, t) <=> HasAnswered(c, t))
        /\ ~HasAnswered(c, s)
    BY <1>2 DEF HasAnswered, SearchOK
  <2>2. ASSUME NEW v \in Vector
        PROVE  v \in x.hits <=> /\ v \in Matches(x.ns) /\ HasAnswered(x, ShardOf(v))
                                /\ v \in LocalTop(x.query, x.ns, ShardOf(v))
    <3>1. CASE ShardOf(v) = s
      BY <3>1, <2>1, <1>2, <1>3 DEF SearchOK, HitsOK
    <3>2. CASE ShardOf(v) # s
      BY <3>2, <2>1, <1>2, <1>3 DEF SearchOK, HitsOK
    <3> QED BY <3>1, <3>2
  <2> QED BY <2>2 DEF HitsOK
<1>6. FailedOK(x)
  BY <1>2 DEF FailedOK, SearchOK
<1>7. SearchOK(x)
  BY <1>2, <1>4, <1>5, <1>6 DEF SearchOK
<1> QED BY <1>7 DEF x

\* A failure leaves the replicas that have not failed; if there are none the shard
\* is missing, and all of them failed.
LEMMA FailureKeeps ==
    ASSUME IInv, NEW c, SearchOK(c), NEW s \in c.pending,
           NEW f \in InSearch,
           f = [c EXCEPT !.failed = @ \cup {<<s, First(c.order[s])>>}]
    PROVE  /\ DOMAIN Rest(c.order[s]) # {} => SearchOK([f EXCEPT !.order[s] = Rest(@)])
           /\ DOMAIN Rest(c.order[s]) = {} =>
                 SearchOK([f EXCEPT !.pending = @ \ {s}, !.missing = @ \cup {s}])
<1> DEFINE o == c.order[s]
<1>1. c \in InSearch /\ s \in Targets(c.ns) /\ s \in Shard /\ o \in Places
      /\ c.order \in [Targets(c.ns) -> Places] /\ Targets(c.ns) \subseteq Shard
  <2>1. c \in InSearch /\ c.ns \in Namespace \cup {Nowhere}
    BY DEF SearchOK, InSearch
  <2> QED BY <2>1, MatchesOnTargets DEF SearchOK
<1>2. /\ f.kind = "search" /\ f.query = c.query /\ f.ns = c.ns /\ f.partial = c.partial
      /\ f.order = c.order /\ f.missing = c.missing /\ f.hits = c.hits /\ f.pending = c.pending
      /\ f.failed = c.failed \cup {<<s, First(o)>>}
  BY <1>1 DEF InSearch
<1>3. DOMAIN Rest(o) = DOMAIN o \ {First(o)}
  BY DEF Rest
<1>4. ASSUME DOMAIN Rest(o) # {} PROVE SearchOK([f EXCEPT !.order[s] = Rest(@)])
  <2> DEFINE x == [f EXCEPT !.order[s] = Rest(@)]
             order == [c.order EXCEPT ![s] = Rest(o)]
  <2>1. /\ x.query = f.query /\ x.ns = f.ns /\ x.missing = f.missing /\ x.hits = f.hits
        /\ x.pending = f.pending /\ x.failed = f.failed /\ x.order = order
    BY <1>1, <1>2 DEF InSearch
  <2>2. Rest(o) \in Places
    BY <1>1, <1>4, RestIsPlaces
  <2>3. order \in [Targets(c.ns) -> Places] /\ order[s] = Rest(o)
        /\ \A t \in Targets(c.ns) : t # s => order[t] = c.order[t]
    BY <1>1, <2>2
  <2>4. order \in UNION {[T -> Places] : T \in SUBSET Shard}
    BY <1>1, <2>3
  <2>5. x \in InSearch
    <3>1. x = [f EXCEPT !.order = order]
      BY <1>1, <1>2 DEF InSearch
    <3> HIDE DEF order
    <3> QED BY <3>1, <2>4 DEF InSearch
  <2> HIDE DEF x, order
  <2>6. HitsOK(x)
    BY <1>2, <2>1 DEF HitsOK, HasAnswered, SearchOK
  <2>7. FailedOK(x)
    <3>1. ASSUME NEW t \in x.pending, NEW r \in Replica
          PROVE  r \in DOMAIN x.order[t] \/ <<t, r>> \in x.failed
      <4>1. t \in c.pending /\ t \in Targets(c.ns)
        BY <1>2, <2>1 DEF SearchOK
      <4>2. r \in DOMAIN c.order[t] \/ <<t, r>> \in c.failed
        BY <4>1 DEF SearchOK, FailedOK
      <4>3. CASE t = s
        BY <4>2, <4>3, <1>2, <1>3, <2>1, <2>3
      <4>4. CASE t # s
        BY <4>1, <4>2, <4>4, <1>2, <2>1, <2>3
      <4> QED BY <4>3, <4>4
    <3> QED BY <3>1, <1>2, <2>1 DEF FailedOK, SearchOK
  <2>8. SearchOK(x)
    BY <1>2, <2>1, <2>3, <2>5, <2>6, <2>7 DEF SearchOK
  <2> QED BY <2>8 DEF x
<1>5. ASSUME DOMAIN Rest(o) = {}
      PROVE  SearchOK([f EXCEPT !.pending = @ \ {s}, !.missing = @ \cup {s}])
  <2> DEFINE x == [f EXCEPT !.pending = @ \ {s}, !.missing = @ \cup {s}]
  <2>1. /\ x.query = f.query /\ x.ns = f.ns /\ x.order = f.order /\ x.hits = f.hits
        /\ x.failed = f.failed /\ x.pending = f.pending \ {s} /\ x.missing = f.missing \cup {s}
    BY <1>1, <1>2 DEF InSearch
  <2>2. x \in InSearch
    BY <1>1, <1>2 DEF InSearch
  <2> HIDE DEF x
  <2>3. \A t : HasAnswered(x, t) <=> HasAnswered(c, t)
    BY <1>2, <2>1 DEF HasAnswered
  <2>4. HitsOK(x)
    BY <1>2, <2>1, <2>3 DEF HitsOK, SearchOK
  <2>5. FailedOK(x)
    <3>1. \A r \in Replica : r \in DOMAIN o => r = First(o)
      BY <1>3, <1>5
    <3>2. \A r \in Replica : r \in DOMAIN o \/ <<s, r>> \in c.failed
      BY DEF SearchOK, FailedOK
    <3>3. \A r \in Replica : <<s, r>> \in f.failed
      BY <1>2, <3>1, <3>2
    <3> HIDE DEF o
    <3> QED BY <1>2, <2>1, <3>3 DEF FailedOK, SearchOK
  <2>6. SearchOK(x)
    BY <1>1, <1>2, <2>1, <2>2, <2>4, <2>5 DEF SearchOK
  <2> QED BY <2>6 DEF x
<1> QED BY <1>4, <1>5

LEMMA NextIInv == IInv /\ [Next]_vars => IInv'
<1> SUFFICES ASSUME IInv, [Next]_vars PROVE IInv'
  OBVIOUS
<1>1. PICK x : x = call'
  OBVIOUS
<1>2. UNCHANGED tag /\ CallOK(call)
  BY DEF IInv, Next, StartSearch, Answer, AskFails, SearchRaises, RetryAfter, vars
<1>3. ASSUME call.kind = "search" PROVE SearchOK(call) /\ call \in InSearch
  BY <1>2, <1>3 DEF CallOK, Idle, AnswerOK, Answered, SearchOK
<1>4. CallOK(x)
  <2>1. ASSUME NEW q \in Query, NEW ns \in Namespace \cup {Nowhere}, NEW partial \in BOOLEAN,
               StartSearch(q, ns, partial)
        PROVE  CallOK(x)
    BY <1>1, <2>1, StartKeeps DEF StartSearch, CallOK
  <2>2. ASSUME NEW s \in Shard, Answer(s) PROVE CallOK(x)
    <3>1. SearchOK(call) /\ s \in call.pending
      BY <1>3, <2>2 DEF Answer, Searching
    <3> DEFINE d == [call EXCEPT !.pending = @ \ {s},
                                 !.hits = @ \cup LocalTop(call.query, call.ns, s)]
    <3>2. SearchOK(d)
      BY <3>1, AnswerKeeps
    <3>3. x = Finish(d)
      BY <1>1, <2>2 DEF Answer
    <3> HIDE DEF d
    <3> QED BY <3>2, <3>3, FinishOK
  <2>3. ASSUME NEW s \in Shard, AskFails(s) PROVE CallOK(x)
    <3>1. SearchOK(call) /\ s \in call.pending /\ call \in InSearch
      BY <1>3, <2>3 DEF AskFails, Searching
    <3> DEFINE f == [call EXCEPT !.failed = @ \cup {Asked(s)}]
               g == [f EXCEPT !.order[s] = Rest(@)]
               h == [f EXCEPT !.pending = @ \ {s}, !.missing = @ \cup {s}]
    <3>2. f \in InSearch /\ f.order = call.order
      <4>1. call.order[s] \in Places
        BY <3>1 DEF SearchOK
      <4>2. Asked(s) \in Server
        BY <4>1, FirstIsLeft DEF Asked, Server
      <4> QED BY <3>1, <4>2 DEF InSearch
    <3>3. f = [call EXCEPT !.failed = @ \cup {<<s, First(call.order[s])>>}]
      BY DEF Asked
    <3>4. /\ DOMAIN Rest(call.order[s]) # {} => SearchOK(g)
          /\ DOMAIN Rest(call.order[s]) = {} => SearchOK(h)
      <4> HIDE DEF f
      <4> QED BY <3>1, <3>2, <3>3, FailureKeeps
    <3>5. x = IF DOMAIN Rest(f.order[s]) # {} THEN g ELSE Finish(h)
      BY <1>1, <2>3 DEF AskFails
    <3> HIDE DEF f, g, h
    <3>6. CASE DOMAIN Rest(call.order[s]) # {}
      BY <3>2, <3>4, <3>5, <3>6 DEF CallOK
    <3>7. CASE DOMAIN Rest(call.order[s]) = {}
      BY <3>2, <3>4, <3>5, <3>7, FinishOK
    <3> QED BY <3>6, <3>7
  <2>4. ASSUME SearchRaises PROVE CallOK(x)
    BY <1>1, <2>4 DEF SearchRaises, CallOK
  <2>5. ASSUME NEW t \in Server, RetryAfter(t) PROVE CallOK(x)
    BY <1>1, <1>2, <2>5 DEF RetryAfter
  <2>6. ASSUME UNCHANGED vars PROVE CallOK(x)
    BY <1>1, <1>2, <2>6 DEF vars
  <2> QED BY <2>1, <2>2, <2>3, <2>4, <2>5, <2>6 DEF Next
<1>5. CallOK(x)'
  BY <1>2, <1>4, CallKept
<1>6. CallOK(call)'
  BY <1>1, <1>5
<1> QED BY <1>6, TypesKept DEF IInv

LEMMA Invariant == Spec => []IInv
BY InitIInv, NextIInv, PTL DEF Spec

-----------------------------------------------------------------------------
(***************************************************************************)
(* What follows.                                                           *)
(***************************************************************************)

\* The state stays in its domains; in a search every shard keeps a replica to ask.
THEOREM TypeCorrect == Spec => []TypeOK
<1>1. IInv => TypeOK
  <2> SUFFICES ASSUME IInv PROVE TypeOK
    OBVIOUS
  <2>1. call.kind = "search" => SearchOK(call)
    BY DEF IInv, CallOK, Idle, AnswerOK, Answered
  <2>2. call.kind = "answered" => AnswerOK(call)
    BY DEF IInv, CallOK, Idle, SearchOK, InSearch
  <2>3. call = Idle \/ [f \in {"query", "ns", "missing", "failed"} |-> call[f]] \in Asking
    BY DEF IInv, CallOK, SearchOK, InSearch, AnswerOK, Answered, Asking
  <2>4. ASSUME call.kind = "search", NEW s \in Targets(call.ns)
        PROVE  \E left \in (SUBSET Replica) \ {{}} : call.order[s] \in [left -> Nat]
    BY <2>1, <2>4 DEF SearchOK, Places
  <2>5. call.kind = "search" => call.pending \subseteq Targets(call.ns) /\ call.hits \subseteq Vector
    BY <2>1 DEF SearchOK, InSearch
  <2>6. call.kind = "answered" => call.result \subseteq Vector
    BY <2>2 DEF AnswerOK, Answered
  <2> QED BY <2>3, <2>4, <2>5, <2>6 DEF IInv, TypeOK
<1> QED BY <1>1, Invariant, PTL

\* An answer has exactly the K nearest of all the vectors it could have held, on
\* however many shards they are and whichever replicas answered.
THEOREM AnswersAreNearest == Spec => []TopK
<1>1. IInv => TopK
  BY DEF IInv, CallOK, Idle, SearchOK, InSearch, AnswerOK, Held, TopK
<1> QED BY <1>1, Invariant, PTL

\* A shard is named missing only if every one of its replicas failed in this search.
THEOREM MissingMeansAllFailed == Spec => []MissingOnlyIfAllFailed
<1>1. IInv => MissingOnlyIfAllFailed
  BY DEF IInv, CallOK, Idle, SearchOK, InSearch, AnswerOK, MissingOnlyIfAllFailed
<1> QED BY <1>1, Invariant, PTL

=============================================================================
