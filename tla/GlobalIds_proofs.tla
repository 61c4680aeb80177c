--------------------------- MODULE GlobalIds_proofs ---------------------------
(***************************************************************************)
(* Proofs about GlobalIds that hold for all values of its constants: any   *)
(* number of shards, replicas, coordinators, adds, crashes and replaced    *)
(* clients, requests of any size.                                          *)
(***************************************************************************)
EXTENDS GlobalIds, FiniteOrders, FiniteSetTheorems, SequenceTheorems, TLAPS

-----------------------------------------------------------------------------
(***************************************************************************)
(* Lemmas about the operators of the model.                                *)
(***************************************************************************)

\* The greatest of a bounded set of numbers is one of them.
LEMMA MaxOfBounded ==
    ASSUME NEW b \in Nat, NEW S \in SUBSET ((-1)..b), S # {}
    PROVE  Max(S) \in S /\ \A x \in S : x <= Max(S)
<1> DEFINE Size == [x \in S |-> x + 1]
<1>1. IsFiniteSet(S)
  <2>1. -1 \in Int /\ b \in Int
    OBVIOUS
  <2>2. IsFiniteSet((-1)..b)
    BY <2>1, FS_Interval
  <2> QED BY <2>2, FS_Subset
<1>2. Size \in [S -> Nat]
  OBVIOUS
<1>3. \A x \in S : Size[x] = x + 1 /\ x \in Int
  OBVIOUS
<1> HIDE DEF Size
<1>4. PICK x \in S : \A y \in S : Size[y] <= Size[x]
  BY <1>1, <1>2, Greatest
<1>5. \A y \in S : x >= y
  BY <1>3, <1>4
<1> QED BY <1>5, <1>3 DEF Max

\* There is a first of the shards that are left to check.
LEMMA MinOfShards ==
    ASSUME NEW S \in SUBSET Shard, S # {}
    PROVE  Min(S) \in S
<1> DEFINE Size == [x \in S |-> x]
<1>1. IsFiniteSet(S)
  <2>1. IsFiniteSet(Shard)
    BY ConstantsAssumption, FS_Interval DEF Shard
  <2> QED BY <2>1, FS_Subset
<1>2. Size \in [S -> Nat] /\ \A x \in S : Size[x] = x /\ x \in Int
  BY ConstantsAssumption DEF Shard
<1> HIDE DEF Size
<1>3. PICK x \in S : \A y \in S : Size[x] <= Size[y]
  BY <1>1, <1>2, Least
<1>4. \A y \in S : x =< y
  BY <1>2, <1>3
<1> QED BY <1>4 DEF Min

LEMMA CopiesOfShard ==
    /\ \A s \in Shard : Copies(s) \subseteq Server /\ <<s, 0>> \in Copies(s)
    /\ \A s \in Shard, t \in Server : t \in Copies(s) <=> t[1] = s
    /\ \A t \in Server : t[1] \in Shard /\ t \in Copies(t[1])
<1>1. 0 \in Replica
  BY ConstantsAssumption DEF Replica
<1> QED BY <1>1 DEF Copies, Server

-----------------------------------------------------------------------------
(***************************************************************************)
(* What holds whoever writes: the domains, bounded ids, one writer at a    *)
(* time, and what a coordinator has checked before it sends.               *)
(***************************************************************************)
Checking == [kind : {"check"}, n : 1..MaxVectors, ns : Shard \cup {AllShards}]
Sending  == [kind : {"send"}, all : SUBSET Vector, left : [Shard -> SUBSET Nat]]

\* Every stored id is below some number.
Bounded == \E b \in Nat : \A t \in Server : \A v \in Vectors(t) : v.id < b

OneWriter ==
    \A c, d \in Coordinator :
        op[c].kind \in {"check", "send"} /\ op[d].kind \in {"check", "send"} => c = d

\* An add that is not numbered yet has a number left, a numbered one knows every shard
\* and has ids that its coordinator counted.
AddOK(c) ==
    /\ op[c].kind = "check" => adds < MaxAdds
    /\ op[c].kind = "send" => /\ \A s \in Shard : last_seqs[c][s] # Unknown
                              /\ \A v \in op[c].all : v.id < size[c]

BaseInv ==
    /\ TypeOK /\ op = [c \in Coordinator |-> op[c]]
    /\ Bounded /\ OneWriter /\ \A c \in Coordinator : AddOK(c)

LEMMA OpFacts ==
    ASSUME BaseInv, NEW c \in Coordinator
    PROVE  /\ op[c].kind = "check" => op[c] \in Checking
           /\ op[c].kind = "send" => op[c] \in Sending
           /\ op[c].kind = "repair" => op[c].shard \in Shard
           /\ size[c] \in Nat /\ last_seqs[c] \in [Shard -> {Unknown, Unchecked} \cup Nat]
BY DEF BaseInv, TypeOK, OpOK, Idle, Checking, Sending

\* What servers hold are sets of vectors.
LEMMA HeldFacts ==
    ASSUME BaseInv, NEW t \in Server
    PROVE  /\ held[t] \in Seq(SUBSET Vector) /\ Vectors(t) \subseteq Vector
           /\ LastSeq(t) \in Nat
<1>1. held[t] \in Seq(SUBSET Vector)
  BY DEF BaseInv, TypeOK
<1>2. \A i \in DOMAIN held[t] : held[t][i] \in SUBSET Vector
  BY <1>1, ElementOfSeq, LenProperties
<1> QED BY <1>1, <1>2, LenProperties DEF Vectors, LastSeq

\* A status call: the next free id is above all that are stored.
LEMMA NextGlobalIdFacts ==
    ASSUME BaseInv, NEW t \in Server,
           NEW b \in Nat, \A v \in Vectors(t) : v.id < b
    PROVE  /\ NextGlobalId(t) \in 0..b
           /\ \A v \in Vectors(t) : v.id < NextGlobalId(t)
<1> DEFINE S == {-1} \cup Ids(Vectors(t))
<1>1. \A v \in Vectors(t) : v.id \in Nat
  BY HeldFacts DEF Vector
<1>2. S \in SUBSET ((-1)..(b - 1)) /\ S # {}
  BY <1>1 DEF Ids
<1>3. S \in SUBSET ((-1)..b) /\ S # {}
  BY <1>2
<1>4. \A v \in Vectors(t) : v.id \in S
  BY DEF Ids
<1>5. NextGlobalId(t) = Max(S) + 1
  BY DEF NextGlobalId
<1> HIDE DEF S
<1>6. Max(S) \in S /\ \A x \in S : x <= Max(S)
  BY <1>3, MaxOfBounded
<1>7. Max(S) \in (-1)..(b - 1)
  BY <1>2, <1>6
<1>8. NextGlobalId(t) \in 0..b
  BY <1>5, <1>7
<1> QED BY <1>1, <1>4, <1>5, <1>6, <1>7, <1>8

\* What the status calls of a shard teach: all ids that it holds are counted.
LEMMA CheckedSize ==
    ASSUME BaseInv, NEW c \in Coordinator, NEW s \in Shard, NEW z,
           z = Max({size[c]} \cup {NextGlobalId(t) : t \in Copies(s)})
    PROVE  /\ z \in Nat /\ size[c] <= z
           /\ \A t \in Copies(s) : \A v \in Vectors(t) : v.id < z
<1> DEFINE N == {NextGlobalId(t) : t \in Copies(s)}
           S == {size[c]} \cup N
<1>1. PICK b \in Nat : \A t \in Server : \A v \in Vectors(t) : v.id < b
  BY DEF BaseInv, Bounded
<1>2. \A t \in Copies(s) : /\ NextGlobalId(t) \in 0..b
                           /\ \A v \in Vectors(t) : v.id < NextGlobalId(t) /\ v.id \in Nat
  <2>1. ASSUME NEW t \in Copies(s)
        PROVE  /\ NextGlobalId(t) \in 0..b
               /\ \A v \in Vectors(t) : v.id < NextGlobalId(t) /\ v.id \in Nat
    <3>1. t \in Server
      BY CopiesOfShard
    <3>2. NextGlobalId(t) \in 0..b /\ \A v \in Vectors(t) : v.id < NextGlobalId(t)
      BY <1>1, <3>1, NextGlobalIdFacts
    <3>3. \A v \in Vectors(t) : v.id \in Nat
      BY <3>1, HeldFacts DEF Vector
    <3> QED BY <3>2, <3>3
  <2> QED BY <2>1
<1>3. size[c] \in Nat
  BY OpFacts
<1>4. PICK m \in Nat : b <= m /\ size[c] <= m
  BY <1>3
<1>5. S \in SUBSET ((-1)..m) /\ S # {}
  BY <1>2, <1>3, <1>4
<1>6. size[c] \in S /\ \A t \in Copies(s) : NextGlobalId(t) \in S
  OBVIOUS
<1>7. z = Max(S) /\ S \subseteq Nat
  BY <1>2, <1>3
<1> HIDE DEF S
<1>8. z \in S /\ \A x \in S : x <= z
  BY <1>5, <1>7, MaxOfBounded
<1>9. z \in Nat /\ size[c] <= z /\ \A t \in Copies(s) : NextGlobalId(t) <= z
  BY <1>6, <1>7, <1>8
<1>10. ASSUME NEW t \in Copies(s), NEW v \in Vectors(t) PROVE v.id < z
  <2>1. NextGlobalId(t) \in Nat /\ v.id \in Nat /\ v.id < NextGlobalId(t) /\ NextGlobalId(t) <= z
    BY <1>2, <1>9
  <2> QED BY <2>1, <1>9
<1> QED BY <1>9, <1>10

-----------------------------------------------------------------------------
(***************************************************************************)
(* The two ways in which what servers hold changes: a round of Add calls,  *)
(* and everything else, which never brings a shard anything it has not.    *)
(***************************************************************************)
Added(c, s) == {v \in op[c].all : v.id \in Chunk(c, s)}

Contents(chunks) == UNION {chunks[i] : i \in DOMAIN chunks}

LEMMA AppendVectors ==
    ASSUME NEW q \in Seq(SUBSET Vector), NEW X \in SUBSET Vector, NEW p, p = Append(q, X)
    PROVE  /\ p \in Seq(SUBSET Vector) /\ Len(p) = Len(q) + 1 /\ Len(q) \in Nat
           /\ Contents(p) = Contents(q) \cup X
<1>1. /\ p \in Seq(SUBSET Vector) /\ Len(p) = Len(q) + 1 /\ Len(q) \in Nat
      /\ \A i \in 1..Len(q) : p[i] = q[i]
      /\ p[Len(q) + 1] = X
  BY AppendProperties, LenProperties
<1> DEFINE n == Len(q)
<1>2. DOMAIN p = 1..(n + 1) /\ DOMAIN q = 1..n /\ n \in Nat
  BY <1>1, LenProperties
<1>3. 1..(n + 1) = (1..n) \cup {n + 1}
  BY <1>2
<1>4. (\A i \in 1..n : p[i] = q[i]) /\ p[n + 1] = X
  BY <1>1
<1> HIDE DEF n
<1>5. ASSUME NEW x, x \in Contents(p) PROVE x \in Contents(q) \cup X
  <2>1. PICK i \in (1..n) \cup {n + 1} : x \in p[i]
    BY <1>2, <1>3, <1>5 DEF Contents
  <2>2. CASE i = n + 1
    BY <1>4, <2>1, <2>2
  <2>3. CASE i \in 1..n
    BY <1>2, <1>4, <2>1, <2>3 DEF Contents
  <2> QED BY <2>2, <2>3
<1>6. ASSUME NEW x, x \in Contents(q) PROVE x \in Contents(p)
  <2>1. PICK i \in 1..n : x \in q[i]
    BY <1>2, <1>6 DEF Contents
  <2> QED BY <1>2, <1>3, <1>4, <2>1 DEF Contents
<1>7. X \subseteq Contents(p)
  BY <1>2, <1>3, <1>4 DEF Contents
<1> QED BY <1>1, <1>5, <1>6, <1>7

LEMMA ApplyFacts ==
    ASSUME BaseInv, NEW c \in Coordinator, op[c].kind = "send",
           NEW ts \in SUBSET Server, Apply(c, ts)
    PROVE  /\ held' \in [Server -> Seq(SUBSET Vector)]
           /\ \A t \in ts : /\ Vectors(t)' = Vectors(t) \cup Added(c, t[1])
                            /\ LastSeq(t)' = LastSeq(t) + 1
                            /\ held'[t] = Append(held[t], Added(c, t[1]))
           /\ \A t \in Server \ ts : /\ held'[t] = held[t] /\ Vectors(t)' = Vectors(t)
                                     /\ LastSeq(t)' = LastSeq(t)
<1>1. op[c].all \subseteq Vector
  BY OpFacts DEF Sending
<1>2. \A t \in Server : held'[t] = IF t \in ts THEN Append(held[t], Added(c, t[1])) ELSE held[t]
  BY DEF Apply, Added
<1>3. \A s : Added(c, s) \in SUBSET Vector
  BY <1>1 DEF Added
<1>4. ASSUME NEW t \in ts
      PROVE  /\ Vectors(t)' = Vectors(t) \cup Added(c, t[1]) /\ LastSeq(t)' = LastSeq(t) + 1
             /\ held'[t] = Append(held[t], Added(c, t[1])) /\ held'[t] \in Seq(SUBSET Vector)
  <2>1. held[t] \in Seq(SUBSET Vector) /\ held'[t] = Append(held[t], Added(c, t[1]))
    BY <1>2, HeldFacts
  <2>2. /\ held'[t] \in Seq(SUBSET Vector) /\ Len(held'[t]) = Len(held[t]) + 1
        /\ Contents(held'[t]) = Contents(held[t]) \cup Added(c, t[1])
    <3>1. PICK q, X, p : q = held[t] /\ X = Added(c, t[1]) /\ p = held'[t]
      OBVIOUS
    <3>2. q \in Seq(SUBSET Vector) /\ X \in SUBSET Vector /\ p = Append(q, X)
      BY <2>1, <3>1, <1>3
    <3>3. p \in Seq(SUBSET Vector) /\ Len(p) = Len(q) + 1 /\ Contents(p) = Contents(q) \cup X
      BY <3>2, AppendVectors
    <3> QED BY <3>1, <3>3
  <2> QED BY <2>1, <2>2 DEF Vectors, LastSeq, Contents
<1>5. ASSUME NEW t \in Server \ ts
      PROVE  /\ held'[t] = held[t] /\ Vectors(t)' = Vectors(t) /\ LastSeq(t)' = LastSeq(t)
             /\ held'[t] \in Seq(SUBSET Vector)
  BY <1>2, HeldFacts DEF Vectors, LastSeq
<1>6. held' \in [Server -> Seq(SUBSET Vector)]
  BY <1>4, <1>5 DEF Apply
<1> QED BY <1>4, <1>5, <1>6

\* Some copies of a shard take over what another one has.
Copied(s) ==
    /\ held' \in [Server -> Seq(SUBSET Vector)]
    /\ \E t \in Copies(s) : \A u \in Server :
          held'[u] = held[u] \/ (u \in Copies(s) /\ held'[u] = held[t])

\* A server without a --data-dir comes back.
Emptied == ~durable /\ \E t \in Server : held' = [held EXCEPT ![t] = <<>>]

Quiet == UNCHANGED held \/ Emptied \/ \E s \in Shard : Copied(s)

OnlyOn(v, s) == \A t \in Server : v \in Vectors(t) <=> t[1] = s

SameLength ==
    durable => \A s \in Shard : \A t, u \in Copies(s) :
                  LastSeq(t) = LastSeq(u) => held[t] = held[u]

LEMMA QuietFacts ==
    ASSUME BaseInv, Quiet
    PROVE  /\ held' \in [Server -> Seq(SUBSET Vector)]
           /\ \A u \in Server : \/ \E t \in Copies(u[1]) :
                                      /\ held'[u] = held[t] /\ Vectors(u)' = Vectors(t)
                                      /\ LastSeq(u)' = LastSeq(t)
                                \/ ~durable /\ Vectors(u)' = {}
<1>1. CASE UNCHANGED held
  <2>1. held' \in [Server -> Seq(SUBSET Vector)]
    BY <1>1 DEF BaseInv, TypeOK
  <2>2. \A u \in Server : /\ u \in Copies(u[1]) /\ held'[u] = held[u]
                          /\ Vectors(u)' = Vectors(u) /\ LastSeq(u)' = LastSeq(u)
    BY <1>1, CopiesOfShard DEF Vectors, LastSeq
  <2> QED BY <2>1, <2>2
<1>2. CASE Emptied
  <2>1. PICK t \in Server : held' = [held EXCEPT ![t] = <<>>]
    BY <1>2 DEF Emptied
  <2>2. <<>> \in Seq(SUBSET Vector) /\ DOMAIN <<>> = {}
    BY EmptySeq, LenProperties
  <2>3. held \in [Server -> Seq(SUBSET Vector)]
    BY DEF BaseInv, TypeOK
  <2>4. \A u \in Server : IF u = t THEN held'[u] = <<>> ELSE held'[u] = held[u]
    BY <2>1, <2>3
  <2>5. Vectors(t)' = {}
    BY <2>2, <2>4 DEF Vectors
  <2>6. \A u \in Server : u # t => /\ u \in Copies(u[1]) /\ held'[u] = held[u]
                                   /\ Vectors(u)' = Vectors(u) /\ LastSeq(u)' = LastSeq(u)
    BY <2>4, CopiesOfShard DEF Vectors, LastSeq
  <2>7. held' \in [Server -> Seq(SUBSET Vector)]
    BY <2>1, <2>2, <2>3
  <2> QED BY <1>2, <2>5, <2>6, <2>7 DEF Emptied
<1>3. ASSUME NEW s \in Shard, Copied(s)
      PROVE  /\ held' \in [Server -> Seq(SUBSET Vector)]
             /\ \A u \in Server : \E t \in Copies(u[1]) :
                   held'[u] = held[t] /\ Vectors(u)' = Vectors(t) /\ LastSeq(u)' = LastSeq(t)
  <2>1. PICK t \in Copies(s) : \A u \in Server :
                                  held'[u] = held[u] \/ (u \in Copies(s) /\ held'[u] = held[t])
    BY <1>3 DEF Copied
  <2>2. ASSUME NEW u \in Server
        PROVE  \E x \in Copies(u[1]) :
                   held'[u] = held[x] /\ Vectors(u)' = Vectors(x) /\ LastSeq(u)' = LastSeq(x)
    <3>1. \E x \in Copies(u[1]) : held'[u] = held[x]
      BY <2>1, CopiesOfShard
    <3> QED BY <3>1 DEF Vectors, LastSeq
  <2> QED BY <1>3, <2>2 DEF Copied
<1> QED BY <1>1, <1>2, <1>3 DEF Quiet

\* Which steps are which.
LEMMA QuietSteps ==
    ASSUME BaseInv
    PROVE  /\ \A c \in Coordinator : RepairShard(c) \/ RepairFails(c) => Quiet
           /\ \A t \in Server : Crash(t) \/ Restart(t) => Quiet
<1>1. ASSUME NEW s \in Shard, NEW answered \in SUBSET (Copies(s) \cap up),
             NEW done \in SUBSET answered, CatchUp(answered, done)
      PROVE  Quiet
  <2>1. PICK t \in answered : held' = [u \in Server |-> IF u \in done THEN held[t] ELSE held[u]]
    BY <1>1 DEF CatchUp
  <2>2. t \in Copies(s) /\ t \in Server /\ done \subseteq Copies(s)
    BY CopiesOfShard
  <2>3. held \in [Server -> Seq(SUBSET Vector)]
    BY DEF BaseInv, TypeOK
  <2>4. held' \in [Server -> Seq(SUBSET Vector)]
    BY <2>1, <2>2, <2>3
  <2>5. \A u \in Server : held'[u] = held[u] \/ (u \in Copies(s) /\ held'[u] = held[t])
    BY <2>1, <2>2
  <2> QED BY <2>2, <2>4, <2>5 DEF Quiet, Copied
<1>2. ASSUME NEW c \in Coordinator, RepairShard(c) PROVE Quiet
  <2>1. op[c].shard \in Shard
    BY <1>2, OpFacts DEF RepairShard
  <2> QED BY <1>1, <1>2, <2>1 DEF RepairShard, Quiet
<1>3. ASSUME NEW c \in Coordinator, RepairFails(c) PROVE Quiet
  <2>1. op[c].shard \in Shard
    BY <1>3, OpFacts DEF RepairFails
  <2> QED BY <1>1, <1>3, <2>1 DEF RepairFails, Quiet
<1>4. ASSUME NEW t \in Server, Crash(t) \/ Restart(t) PROVE Quiet
  BY <1>4 DEF Crash, Restart, Quiet, Emptied
<1> QED BY <1>2, <1>3, <1>4

-----------------------------------------------------------------------------
(***************************************************************************)
(* Steps keep the domains.                                                 *)
(***************************************************************************)
SomeSends(c, ts) == op[c].kind = "send" /\ ts \subseteq {t \in Addressed(c) : Accepts(c, t)}

Sends(c) == \E ts \in SUBSET Server : SomeSends(c, ts) /\ Apply(c, ts)

StepOf(c) ==
    \/ \E n \in 1..MaxVectors, ns \in Shard \cup {AllShards} : StartAdd(c, n, ns)
    \/ CheckShard(c) \/ CheckFails(c) \/ Route(c) \/ ChunkFails(c) \/ ChunkDone(c)
    \/ StartRepair(c) \/ RepairShard(c) \/ RepairFails(c) \/ Replace(c)

LEMMA NextIsStep ==
    ASSUME [Next]_vars
    PROVE  \/ \E c \in Coordinator : StepOf(c)
           \/ \E t \in Server : Crash(t) \/ Restart(t)
           \/ UNCHANGED vars
BY DEF Next, StepOf

\* Only rounds of Add calls bring a shard something new.
LEMMA HeldSteps ==
    ASSUME BaseInv, NEW c \in Coordinator, StepOf(c)
    PROVE  Quiet \/ Sends(c)
<1>1. Addressed(c) \subseteq Server
  BY DEF Addressed
<1>2. ASSUME ChunkFails(c) PROVE Sends(c)
  BY <1>1, <1>2 DEF ChunkFails, Sends, SomeSends
<1>3. ASSUME ChunkDone(c) PROVE Sends(c)
  BY <1>1, <1>3 DEF ChunkDone, Sends, SomeSends
<1>4. ASSUME Replace(c) PROVE Sends(c) \/ Quiet
  <2>1. CASE op[c].kind = "send"
    <3>1. PICK done \in SUBSET {t \in Addressed(c) : Accepts(c, t)} : Apply(c, done)
      BY <1>4, <2>1 DEF Replace
    <3> QED BY <1>1, <2>1, <3>1 DEF Sends, SomeSends
  <2>2. CASE op[c].kind # "send"
    BY <1>4, <2>2 DEF Replace, Quiet
  <2> QED BY <2>1, <2>2
<1>5. ASSUME RepairShard(c) \/ RepairFails(c) PROVE Quiet
  BY <1>5, QuietSteps
<1>6. ASSUME \/ \E n \in 1..MaxVectors, ns \in Shard \cup {AllShards} : StartAdd(c, n, ns)
             \/ CheckShard(c) \/ CheckFails(c) \/ Route(c) \/ StartRepair(c)
      PROVE  Quiet
  BY <1>6 DEF StartAdd, CheckShard, CheckFails, Route, StartRepair, servers, Quiet
<1> QED BY <1>2, <1>3, <1>4, <1>5, <1>6 DEF StepOf

\* A coordinator changes its own variables; it begins an add only if no one is in one.
LEMMA OwnVariables ==
    ASSUME BaseInv, NEW c \in Coordinator, StepOf(c)
    PROVE  /\ \A d \in Coordinator : d # c =>
                 op'[d] = op[d] /\ size'[d] = size[d] /\ last_seqs'[d] = last_seqs[d]
           /\ op' = [d \in Coordinator |-> op'[d]]
           /\ durable' = durable
<1>1. /\ op = [d \in Coordinator |-> op[d]] /\ size \in [Coordinator -> Nat]
      /\ last_seqs \in [Coordinator -> [Shard -> {Unknown, Unchecked} \cup Nat]]
  BY DEF BaseInv, TypeOK
<1>2. \/ UNCHANGED op
      \/ op' = [op EXCEPT ![c] = op'[c]]
  BY <1>1 DEF StepOf, StartAdd, CheckShard, CheckFails, Route, ChunkFails, ChunkDone,
         StartRepair, RepairShard, RepairFails, Replace, Leave
<1>3. \/ UNCHANGED size
      \/ size' = [size EXCEPT ![c] = size'[c]]
  BY <1>1 DEF StepOf, StartAdd, CheckShard, CheckFails, Route, ChunkFails, ChunkDone,
         StartRepair, RepairShard, RepairFails, Replace, positions
<1>4. \/ UNCHANGED last_seqs
      \/ last_seqs' = [last_seqs EXCEPT ![c] = last_seqs'[c]]
  BY <1>1 DEF StepOf, StartAdd, CheckShard, CheckFails, Route, ChunkFails, ChunkDone,
         StartRepair, RepairShard, RepairFails, Replace, positions
<1>5. durable' = durable
  BY DEF StepOf, StartAdd, CheckShard, CheckFails, Route, ChunkFails, ChunkDone,
         StartRepair, RepairShard, RepairFails, Replace, servers
<1> QED BY <1>1, <1>2, <1>3, <1>4, <1>5

\* Before sending, a coordinator knows every shard.
LEMMA CheckedFacts ==
    ASSUME BaseInv, NEW c \in Coordinator, ToCheck(c) = {}
    PROVE  \A s \in Shard : last_seqs[c][s] # Unknown
BY DEF ToCheck

LEMMA RouteFacts ==
    ASSUME BaseInv, NEW c \in Coordinator, Route(c)
    PROVE  /\ op'[c] \in Sending
           /\ op'[c].kind = "send" /\ size'[c] \in Nat /\ size[c] <= size'[c]
           /\ \A v \in op'[c].all : v.add = adds /\ size[c] <= v.id /\ v.id < size'[c]
           /\ \A s \in Shard : op'[c].left[s] = {i \in Ids(op'[c].all) :
                 (IF op[c].ns = AllShards THEN i % NumShards ELSE op[c].ns) = s}
           /\ \A v, w \in op'[c].all : v.id = w.id => v = w
           /\ adds' = adds + 1 /\ adds < MaxAdds /\ adds \in Nat
<1> DEFINE z == size[c]
           n == op[c].n
           new == z..(z + n - 1)
           home(i) == IF op[c].ns = AllShards THEN i % NumShards ELSE op[c].ns
           all == {[add |-> adds, id |-> i] : i \in new}
           left == [s \in Shard |-> {i \in new : home(i) = s}]
<1>1. op[c] \in Checking /\ z \in Nat /\ n \in 1..MaxVectors /\ adds < MaxAdds /\ adds \in Nat
  BY OpFacts DEF Route, Checking, BaseInv, AddOK, TypeOK
<1>2. op'[c] = [kind |-> "send", all |-> all, left |-> left]
  BY DEF Route, BaseInv
<1>3. size'[c] = z + n /\ adds' = adds + 1
  BY DEF Route, BaseInv, TypeOK
<1>4. n \in Nat /\ MaxAdds \in Nat
  BY <1>1, ConstantsAssumption
<1>5. \A i \in new : i \in Nat /\ z <= i /\ i < z + n
  BY <1>1, <1>4
<1> HIDE DEF new
<1>6. \A v \in all : v.add = adds /\ v.id \in new
  OBVIOUS
<1>7. all \subseteq Vector
  BY <1>1, <1>4, <1>5 DEF Vector
<1>8. left \in [Shard -> SUBSET Nat]
  BY <1>5
<1>9. op'[c] \in Sending
  BY <1>2, <1>7, <1>8 DEF Sending
<1>10. Ids(all) = new
  <2>1. \A i \in new : [add |-> adds, id |-> i].id = i
    OBVIOUS
  <2> QED BY <1>6, <2>1 DEF Ids
<1>11. \A v, w \in all : v.id = w.id => v = w
  OBVIOUS
<1>12. \A s \in Shard : left[s] = {i \in Ids(all) : home(i) = s}
  BY <1>10
<1>13. op'[c].all = all /\ op'[c].left = left /\ op'[c].kind = "send"
  BY <1>2
<1> HIDE DEF all, left
<1> QED BY <1>1, <1>3, <1>4, <1>5, <1>6, <1>9, <1>11, <1>12, <1>13

LEMMA ChunkDoneFacts ==
    ASSUME BaseInv, NEW c \in Coordinator, ChunkDone(c)
    PROVE  /\ op[c] \in Sending
           /\ op'[c] = Idle \/ op'[c] = [op[c] EXCEPT !.left =
                                             [s \in Shard |-> op[c].left[s] \ Chunk(c, s)]]
           /\ op'[c] # Idle => op'[c] \in Sending
           /\ \A s \in Shard : \/ last_seqs'[c][s] = last_seqs[c][s]
                               \/ /\ last_seqs'[c][s] = last_seqs[c][s] + 1
                                  /\ last_seqs[c][s] \in Nat
           /\ DOMAIN last_seqs'[c] = Shard
           /\ last_seqs' \in [Coordinator -> [Shard -> {Unknown, Unchecked} \cup Nat]]
<1>1. op[c] \in Sending /\ \A s \in Shard : last_seqs[c][s] # Unknown
  BY OpFacts DEF ChunkDone, BaseInv, AddOK
<1> DEFINE left == [s \in Shard |-> op[c].left[s] \ Chunk(c, s)]
<1>2. left \in [Shard -> SUBSET Nat]
  BY <1>1 DEF Sending
<1>3. op'[c] = Idle \/ op'[c] = [op[c] EXCEPT !.left = left]
  BY DEF ChunkDone, Leave, BaseInv
<1>4. [op[c] EXCEPT !.left = left] \in Sending
  <2> HIDE DEF left
  <2> QED BY <1>1, <1>2 DEF Sending
<1>5. last_seqs \in [Coordinator -> [Shard -> {Unknown, Unchecked} \cup Nat]]
  BY DEF BaseInv, TypeOK
<1>6. PICK good : last_seqs' = [last_seqs EXCEPT ![c] = [s \in Shard |->
              IF s \in good /\ @[s] # Unchecked THEN @[s] + 1 ELSE @[s]]]
  BY DEF ChunkDone
<1>7. last_seqs'[c] = [s \in Shard |-> IF s \in good /\ last_seqs[c][s] # Unchecked
                                         THEN last_seqs[c][s] + 1 ELSE last_seqs[c][s]]
  BY <1>5, <1>6
<1>8. \A s \in Shard : last_seqs[c][s] \in Nat \/ last_seqs[c][s] = Unchecked
  BY <1>1, <1>5
<1>9. last_seqs'[c] \in [Shard -> {Unknown, Unchecked} \cup Nat]
  BY <1>7, <1>8
<1>10. last_seqs' \in [Coordinator -> [Shard -> {Unknown, Unchecked} \cup Nat]]
  BY <1>5, <1>6, <1>7, <1>9
<1>11. \A s \in Shard : \/ last_seqs'[c][s] = last_seqs[c][s]
                       \/ /\ last_seqs'[c][s] = last_seqs[c][s] + 1
                          /\ last_seqs[c][s] \in Nat
  BY <1>7, <1>8
<1> QED BY <1>1, <1>3, <1>4, <1>9, <1>10, <1>11

\* What a coordinator knows stays in its domain.
LEMMA PositionsKept ==
    ASSUME BaseInv, NEW c \in Coordinator, StepOf(c)
    PROVE  /\ size' \in [Coordinator -> Nat]
           /\ last_seqs' \in [Coordinator -> [Shard -> {Unknown, Unchecked} \cup Nat]]
<1>1. /\ size \in [Coordinator -> Nat]
      /\ last_seqs \in [Coordinator -> [Shard -> {Unknown, Unchecked} \cup Nat]]
      /\ Forgotten \in [Shard -> {Unknown, Unchecked} \cup Nat]
  BY DEF BaseInv, TypeOK, Forgotten
<1>2. CASE CheckShard(c)
  <2> DEFINE s == Min(ToCheck(c))
             z == Max({size[c]} \cup {NextGlobalId(t) : t \in Copies(s)})
             p == IF durable THEN LastSeq(<<s, 0>>) ELSE Unchecked
  <2>1. s \in Shard
    BY <1>2, MinOfShards DEF CheckShard, ToCheck
  <2>2. size' = [size EXCEPT ![c] = z]
    BY <1>2 DEF CheckShard
  <2>3. UNCHANGED last_seqs \/ last_seqs' = [last_seqs EXCEPT ![c][s] = p]
    BY <1>2 DEF CheckShard
  <2>4. p \in {Unknown, Unchecked} \cup Nat
    BY <2>1, CopiesOfShard, HeldFacts
  <2> HIDE DEF s
  <2>5. z \in Nat
    BY <2>1, CheckedSize
  <2> HIDE DEF z, p
  <2>6. size' \in [Coordinator -> Nat]
    BY <1>1, <2>2, <2>5
  <2>7. [last_seqs EXCEPT ![c][s] = p] \in [Coordinator -> [Shard -> {Unknown, Unchecked} \cup Nat]]
    <3>1. [last_seqs[c] EXCEPT ![s] = p] \in [Shard -> {Unknown, Unchecked} \cup Nat]
      BY <1>1, <2>1, <2>4
    <3> QED BY <1>1, <3>1
  <2> QED BY <1>1, <2>3, <2>6, <2>7
<1>3. CASE Route(c)
  <2>1. size'[c] \in Nat
    BY <1>3, RouteFacts
  <2>2. \A d \in Coordinator : d # c => size'[d] = size[d]
    BY OwnVariables
  <2>3. size' = [size EXCEPT ![c] = size'[c]] /\ UNCHANGED last_seqs
    BY <1>1, <1>3 DEF Route
  <2> QED BY <1>1, <2>1, <2>3
<1>4. CASE ChunkDone(c)
  BY <1>1, <1>4, ChunkDoneFacts DEF ChunkDone
<1>5. CASE Replace(c)
  BY <1>1, <1>5 DEF Replace
<1>6. CASE \/ \E n \in 1..MaxVectors, ns \in Shard \cup {AllShards} : StartAdd(c, n, ns)
           \/ CheckFails(c) \/ ChunkFails(c) \/ StartRepair(c) \/ RepairShard(c) \/ RepairFails(c)
  BY <1>1, <1>6 DEF StartAdd, CheckFails, ChunkFails, StartRepair, RepairShard, RepairFails, positions
<1> QED BY <1>2, <1>3, <1>4, <1>5, <1>6 DEF StepOf

\* So does the call it is in, and an add has been checked before it sends.
LEMMA OpKept ==
    ASSUME BaseInv, NEW c \in Coordinator, StepOf(c)
    PROVE  /\ OpOK(op'[c])
           /\ op'[c].kind \in {"check", "send"} => \A d \in Coordinator :
                 op[d].kind \in {"check", "send"} => d = c
           /\ op'[c].kind = "check" => adds' < MaxAdds
           /\ op'[c].kind = "send" => /\ \A s \in Shard : last_seqs'[c][s] # Unknown
                                      /\ \A v \in op'[c].all : v.id < size'[c]
<1> DEFINE Goal == /\ OpOK(op'[c])
                   /\ op'[c].kind \in {"check", "send"} => \A d \in Coordinator :
                         op[d].kind \in {"check", "send"} => d = c
                   /\ op'[c].kind = "check" => adds' < MaxAdds
                   /\ op'[c].kind = "send" => /\ \A s \in Shard : last_seqs'[c][s] # Unknown
                                              /\ \A v \in op'[c].all : v.id < size'[c]
<1>1. op = [d \in Coordinator |-> op[d]] /\ OpOK(op[c]) /\ AddOK(c)
  BY DEF BaseInv, TypeOK
<1>2. op[c].kind \in {"check", "send"} =>
         \A d \in Coordinator : op[d].kind \in {"check", "send"} => d = c
  BY DEF BaseInv, OneWriter
<1>3. ASSUME NEW n \in 1..MaxVectors, NEW ns \in Shard \cup {AllShards}, StartAdd(c, n, ns)
      PROVE  Goal
  <2>1. op'[c] = [kind |-> "check", n |-> n, ns |-> ns]
    BY <1>1, <1>3 DEF StartAdd
  <2>2. adds' = adds /\ adds < MaxAdds /\ \A d \in Coordinator : op[d].kind \notin {"check", "send"}
    BY <1>3 DEF StartAdd, history
  <2> QED BY <2>1, <2>2 DEF OpOK
<1>4. ASSUME op'[c] = Idle PROVE Goal
  BY <1>4 DEF OpOK, Idle
<1>5. ASSUME CheckShard(c) PROVE Goal
  <2>1. op'[c] = Idle \/ (op'[c] = op[c] /\ op[c].kind = "check")
    BY <1>1, <1>5 DEF CheckShard, Leave
  <2>2. adds' = adds
    BY <1>5 DEF CheckShard, history
  <2> QED BY <1>1, <1>2, <1>4, <2>1, <2>2 DEF AddOK
<1>6. ASSUME Route(c) PROVE Goal
  <2>1. op[c].kind = "check" /\ ToCheck(c) = {} /\ UNCHANGED last_seqs
    BY <1>6 DEF Route
  <2>2. \A s \in Shard : last_seqs'[c][s] # Unknown
    BY <2>1, CheckedFacts
  <2>3. OpOK(op'[c])
    BY <1>6, RouteFacts DEF OpOK, Sending
  <2> QED BY <1>2, <1>6, <2>1, <2>2, <2>3, RouteFacts
<1>7. ASSUME ChunkDone(c) PROVE Goal
  <2>1. CASE op'[c] = Idle
    BY <1>4, <2>1
  <2>2. CASE op'[c] # Idle
    <3>1. /\ op'[c] \in Sending /\ op[c].kind = "send" /\ op'[c].all = op[c].all
          /\ size' = size
      <4>1. /\ op'[c] \in Sending /\ op[c] \in Sending /\ op[c].kind = "send" /\ size' = size
            /\ op'[c] = [op[c] EXCEPT !.left = [s \in Shard |-> op[c].left[s] \ Chunk(c, s)]]
        BY <1>7, <2>2, ChunkDoneFacts DEF ChunkDone
      <4> QED BY <4>1 DEF Sending
    <3>2. \A s \in Shard : last_seqs'[c][s] # Unknown
      <4>1. ASSUME NEW s \in Shard PROVE last_seqs'[c][s] # Unknown
        <5>1. last_seqs[c][s] # Unknown
          BY <1>1, <3>1 DEF AddOK
        <5>2. \/ last_seqs'[c][s] = last_seqs[c][s]
              \/ /\ last_seqs'[c][s] = last_seqs[c][s] + 1
                 /\ last_seqs[c][s] \in Nat
          BY <1>7, ChunkDoneFacts
        <5>3. Unknown \notin Nat
          BY DEF Unknown
        <5> QED BY <5>1, <5>2, <5>3
      <4> QED BY <4>1
    <3>3. op'[c].kind = "send" /\ OpOK(op'[c])
      BY <3>1 DEF Sending, OpOK
    <3> QED BY <1>1, <1>2, <3>1, <3>2, <3>3 DEF AddOK
  <2> QED BY <2>1, <2>2
<1>8. ASSUME StartRepair(c) PROVE Goal
  <2>1. 0 \in Shard
    BY ConstantsAssumption DEF Shard
  <2>2. op'[c] = [kind |-> "repair", shard |-> 0]
    BY <1>1, <1>8 DEF StartRepair
  <2> QED BY <2>1, <2>2 DEF OpOK
<1>9. ASSUME RepairShard(c) PROVE Goal
  <2>1. op[c].kind = "repair" /\ op[c] \in [kind : {"repair"}, shard : Shard]
    BY <1>1, <1>9 DEF RepairShard, OpOK, Idle
  <2>2. \/ op'[c] = Idle
        \/ op'[c] = [op[c] EXCEPT !.shard = op[c].shard + 1] /\ ~IsLast(op[c].shard)
    BY <1>1, <1>9 DEF RepairShard
  <2>3. ~IsLast(op[c].shard) => op[c].shard + 1 \in Shard
    BY <2>1, ConstantsAssumption DEF IsLast, Shard
  <2>4. op'[c] = Idle \/ (op'[c] \in [kind : {"repair"}, shard : Shard] /\ op'[c].kind = "repair")
    BY <2>1, <2>2, <2>3
  <2> QED BY <1>4, <2>4 DEF OpOK
<1>10. ASSUME CheckFails(c) \/ ChunkFails(c) \/ RepairFails(c) \/ Replace(c) PROVE op'[c] = Idle
  BY <1>1, <1>10 DEF CheckFails, ChunkFails, RepairFails, Replace, Leave
<1> HIDE DEF Goal
<1>11. Goal
  BY <1>3, <1>4, <1>5, <1>6, <1>7, <1>8, <1>9, <1>10 DEF StepOf
<1> QED BY <1>11 DEF Goal

\* Ids stay bounded: a coordinator has counted the ones it sends.
LEMMA BoundedKept ==
    ASSUME BaseInv, Quiet \/ \E c \in Coordinator : Sends(c)
    PROVE  Bounded'
<1>1. PICK b \in Nat : \A t \in Server : \A v \in Vectors(t) : v.id < b
  BY DEF BaseInv, Bounded
<1>2. CASE Quiet
  <2>1. \A u \in Server : \A v \in Vectors(u)' : v.id < b
    <3>1. ASSUME NEW u \in Server
          PROVE  Vectors(u)' = {} \/ \E t \in Server : Vectors(u)' = Vectors(t)
      BY <1>2, QuietFacts, CopiesOfShard
    <3> QED BY <1>1, <3>1
  <2> QED BY <2>1 DEF Bounded
<1>3. ASSUME NEW c \in Coordinator, Sends(c) PROVE Bounded'
  <2>1. PICK ts \in SUBSET Server : op[c].kind = "send" /\ Apply(c, ts)
    BY <1>3 DEF Sends, SomeSends
  <2>2. size[c] \in Nat /\ op[c].all \subseteq Vector /\ \A v \in op[c].all : v.id < size[c]
    BY <2>1, OpFacts DEF BaseInv, AddOK, Sending
  <2>3. PICK m \in Nat : b <= m /\ size[c] <= m
    BY <2>2
  <2>4. \A s : Added(c, s) \subseteq op[c].all
    BY DEF Added
  <2>5. \A u \in Server : \A v \in Vectors(u)' : v \in Vectors(u) \/ v \in op[c].all
    BY <2>1, <2>4, ApplyFacts
  <2>6. ASSUME NEW u \in Server, NEW v \in Vectors(u)' PROVE v.id < m
    <3>1. v \in Vector /\ (v.id < b \/ v.id < size[c])
      BY <1>1, <2>2, <2>5, HeldFacts
    <3>2. v.id \in Nat
      BY <3>1 DEF Vector
    <3> QED BY <2>2, <2>3, <3>1, <3>2
  <2> QED BY <2>6 DEF Bounded
<1> QED BY <1>2, <1>3

LEMMA InitBase == Init => BaseInv
<1> SUFFICES ASSUME Init PROVE BaseInv
  OBVIOUS
<1>1. TypeOK
  BY ConstantsAssumption, EmptySeq DEF Init, TypeOK, OpOK, Forgotten
<1>2. Bounded
  <2>1. \A t \in Server : Vectors(t) = {}
    BY EmptySeq, LenProperties DEF Init, Vectors
  <2> QED BY <2>1 DEF Bounded
<1> QED BY <1>1, <1>2 DEF Init, BaseInv, OneWriter, AddOK, Idle

\* The rest of the state stays in its domains.
LEMMA HistoryKept ==
    ASSUME BaseInv, [Next]_vars
    PROVE  /\ durable' \in BOOLEAN /\ up' \subseteq Server
           /\ adds' \in 0..MaxAdds /\ writer' \in Coordinator /\ acked' \subseteq Vector
           /\ crashes' \in 0..MaxCrashes /\ deaths' \in 0..MaxDeaths
<1>1. /\ durable \in BOOLEAN /\ up \subseteq Server
      /\ adds \in 0..MaxAdds /\ writer \in Coordinator /\ acked \subseteq Vector
      /\ crashes \in 0..MaxCrashes /\ deaths \in 0..MaxDeaths
      /\ MaxAdds \in Nat /\ MaxCrashes \in Nat /\ MaxDeaths \in Nat
  BY ConstantsAssumption DEF BaseInv, TypeOK
<1>2. ASSUME NEW c \in Coordinator, StepOf(c)
      PROVE  /\ durable' = durable /\ up' = up /\ crashes' = crashes
             /\ adds' \in 0..MaxAdds /\ writer' \in Coordinator /\ acked' \subseteq Vector
             /\ deaths' \in 0..MaxDeaths
  <2>1. CASE Route(c)
    <3>1. adds' = adds + 1 /\ adds < MaxAdds
      BY <2>1, RouteFacts
    <3>2. adds' \in 0..MaxAdds
      BY <1>1, <3>1
    <3> QED BY <1>1, <2>1, <3>2 DEF Route, servers
  <2>2. CASE ChunkDone(c)
    <3>1. op[c].all \subseteq Vector
      BY <2>2, ChunkDoneFacts DEF Sending
    <3> QED BY <1>1, <2>2, <3>1 DEF ChunkDone
  <2>3. CASE Replace(c)
    BY <1>1, <2>3 DEF Replace
  <2>4. CASE \/ \E n \in 1..MaxVectors, ns \in Shard \cup {AllShards} : StartAdd(c, n, ns)
             \/ CheckShard(c) \/ CheckFails(c) \/ ChunkFails(c)
             \/ StartRepair(c) \/ RepairShard(c) \/ RepairFails(c)
    BY <1>1, <2>4 DEF StartAdd, CheckShard, CheckFails, ChunkFails, StartRepair, RepairShard,
           RepairFails, servers, history
  <2> QED BY <1>2, <2>1, <2>2, <2>3, <2>4 DEF StepOf
<1>3. ASSUME NEW t \in Server, Crash(t) \/ Restart(t)
      PROVE  /\ durable' = durable /\ up' \subseteq Server /\ crashes' \in 0..MaxCrashes
             /\ UNCHANGED <<adds, writer, acked, deaths>>
  BY <1>1, <1>3 DEF Crash, Restart, history
<1> QED BY <1>1, <1>2, <1>3, NextIsStep DEF vars

LEMMA NextBase == BaseInv /\ [Next]_vars => BaseInv'
<1> SUFFICES ASSUME BaseInv, [Next]_vars PROVE BaseInv'
  OBVIOUS
<1> DEFINE Goal == /\ held' \in [Server -> Seq(SUBSET Vector)]
                   /\ size' \in [Coordinator -> Nat]
                   /\ last_seqs' \in [Coordinator -> [Shard -> {Unknown, Unchecked} \cup Nat]]
                   /\ \A d \in Coordinator : OpOK(op'[d])
                   /\ op' = [d \in Coordinator |-> op'[d]]
                   /\ Bounded' /\ OneWriter' /\ \A d \in Coordinator : AddOK(d)'
<1>1. ASSUME NEW c \in Coordinator, StepOf(c) PROVE Goal
  <2>1. Quiet \/ Sends(c)
    BY <1>1, HeldSteps
  <2>2. held' \in [Server -> Seq(SUBSET Vector)]
    BY <2>1, QuietFacts, ApplyFacts DEF Sends, SomeSends
  <2>3. Bounded'
    BY <2>1, BoundedKept
  <2>4. \A d \in Coordinator : OpOK(op'[d])
    BY <1>1, OpKept, OwnVariables DEF BaseInv, TypeOK
  <2>5. OneWriter'
    BY <1>1, OpKept, OwnVariables DEF BaseInv, OneWriter
  <2>6. ASSUME NEW d \in Coordinator PROVE AddOK(d)'
    <3>1. CASE d = c
      BY <1>1, <3>1, OpKept DEF AddOK
    <3>2. CASE d # c
      <4>1. op'[d] = op[d] /\ size'[d] = size[d] /\ last_seqs'[d] = last_seqs[d] /\ AddOK(d)
        BY <1>1, <3>2, OwnVariables DEF BaseInv
      <4>2. op[d].kind = "check" => adds' = adds
        <5>1. CASE Route(c)
          BY <3>2, <5>1 DEF Route, BaseInv, OneWriter
        <5>2. CASE ~Route(c)
          BY <1>1, <5>2 DEF StepOf, StartAdd, CheckShard, CheckFails, ChunkFails, ChunkDone,
                 StartRepair, RepairShard, RepairFails, Replace, history
        <5> QED BY <5>1, <5>2
      <4> QED BY <4>1, <4>2 DEF AddOK
    <3> QED BY <3>1, <3>2
  <2>7. op' = [d \in Coordinator |-> op'[d]]
    BY <1>1, OwnVariables
  <2> QED BY <1>1, <2>2, <2>3, <2>4, <2>5, <2>6, <2>7, PositionsKept
<1>2. ASSUME UNCHANGED <<size, last_seqs, op, adds>>, Quiet PROVE Goal
  <2>1. held' \in [Server -> Seq(SUBSET Vector)] /\ Bounded'
    BY <1>2, QuietFacts, BoundedKept
  <2> QED BY <1>2, <2>1 DEF BaseInv, TypeOK, OneWriter, AddOK
<1>3. ASSUME NEW t \in Server, Crash(t) \/ Restart(t) PROVE Goal
  <2>1. UNCHANGED <<size, last_seqs, op, adds>>
    BY <1>3 DEF Crash, Restart, positions, history
  <2> HIDE DEF Goal
  <2> QED BY <1>2, <1>3, <2>1, QuietSteps
<1>4. ASSUME UNCHANGED vars PROVE Goal
  <2>1. Quiet /\ UNCHANGED <<size, last_seqs, op, adds>>
    BY <1>4 DEF vars, Quiet
  <2> HIDE DEF Goal
  <2> QED BY <1>2, <2>1
<1>5. Goal
  <2> HIDE DEF Goal
  <2> QED BY <1>1, <1>3, <1>4, NextIsStep
<1>6. TypeOK'
  BY <1>5, HistoryKept DEF TypeOK
<1> QED BY <1>5, <1>6 DEF BaseInv

LEMMA BaseInvariant == Spec => []BaseInv
BY InitBase, NextBase, PTL DEF Spec

\* The state stays in its domains, whatever the callers do.
THEOREM TypeCorrect == Spec => []TypeOK
<1>1. BaseInv => TypeOK
  BY DEF BaseInv
<1> QED BY <1>1, BaseInvariant, PTL

-----------------------------------------------------------------------------
(***************************************************************************)
(* What holds if a coordinator refreshes once another one may have         *)
(* written, or is the only one: what it knows of a shard is true.          *)
(***************************************************************************)
Safe == CallersRefresh \/ \E c : Coordinator = {c}

\* A coordinator's knowledge counts if it wrote last or has just begun an add.
Trusted(c) == writer = c \/ op[c].kind = "check"

\* What it knows: all ids of the shard are counted, and every copy is where it says.
KnownOK(c, s) ==
    last_seqs[c][s] # Unknown =>
        /\ \A t \in Copies(s) : \A v \in Vectors(t) : v.id < size[c]
        /\ durable => \A t \in Copies(s) : LastSeq(t) = last_seqs[c][s]
        /\ ~durable => last_seqs[c][s] = Unchecked

NotStored(v) == \A t \in Server : v \notin Vectors(t)

\* A vector of an add() is still to be sent to one shard, or on all its copies.
Placed(c, v) ==
    \/ \E s \in Shard : v.id \in op[c].left[s] /\ NotStored(v)
    \/ (\A s \in Shard : v.id \notin op[c].left[s]) /\ \E s \in Shard : OnlyOn(v, s)

\* An add() under way: its ids are its own.
SendOK(c) ==
    /\ writer = c
    /\ \A v \in op[c].all : v.add < adds /\ v \notin acked
    /\ \A v, w \in op[c].all : v.id = w.id => v = w
    /\ \A t \in Server : \A v \in Vectors(t) : \A w \in op[c].all : v.id = w.id => v = w
    /\ \A s \in Shard : op[c].left[s] \subseteq Ids(op[c].all)
    /\ \A s, r \in Shard : s # r => op[c].left[s] \cap op[c].left[r] = {}
    /\ durable => \A v \in op[c].all : Placed(c, v)

CoordOK(c) ==
    /\ Trusted(c) => \A s \in Shard : KnownOK(c, s)
    /\ op[c].kind = "send" => SendOK(c)

AckedAdds == \A v \in acked : v.add < adds
UniqueIds ==
    \A t, u \in Server : \A v \in Vectors(t), w \in Vectors(u) : v.id = w.id => v = w

IInv ==
    /\ Safe /\ BaseInv /\ SameLength /\ AckedAdds /\ UniqueIds /\ AckedOnEveryCopy
    /\ \A c \in Coordinator : CoordOK(c)

-----------------------------------------------------------------------------
(***************************************************************************)
(* Steps that bring a shard nothing new.                                   *)
(***************************************************************************)
LEMMA QuietKeeps ==
    ASSUME IInv, Quiet, durable' = durable, BaseInv'
    PROVE  /\ SameLength' /\ UniqueIds'
           /\ durable => \A s \in Shard : \A v : OnlyOn(v, s) => OnlyOn(v, s)'
           /\ \A v : NotStored(v) => NotStored(v)'
           /\ \A t \in Server : \A v \in Vectors(t)' : \E u \in Copies(t[1]) : v \in Vectors(u)
           /\ durable => \A s \in Shard, n \in Nat : (\A t \in Copies(s) : LastSeq(t) = n)
                            => \A t \in Copies(s) : LastSeq(t)' = n
<1>1. \A u \in Server : \/ \E t \in Copies(u[1]) :
                              /\ held'[u] = held[t] /\ Vectors(u)' = Vectors(t)
                              /\ LastSeq(u)' = LastSeq(t)
                        \/ ~durable /\ Vectors(u)' = {}
  BY QuietFacts DEF IInv
<1>2. \A u \in Server : Copies(u[1]) \subseteq Server /\ \A t \in Copies(u[1]) : t[1] = u[1]
  BY CopiesOfShard
<1>3. \A t \in Server : \A v \in Vectors(t)' : \E u \in Copies(t[1]) : v \in Vectors(u)
  BY <1>1
<1>4. UniqueIds'
  <2>1. ASSUME NEW t \in Server, NEW u \in Server, NEW v \in Vectors(t)', NEW w \in Vectors(u)',
               v.id = w.id
        PROVE  v = w
    <3>1. (\E x \in Server : v \in Vectors(x)) /\ \E y \in Server : w \in Vectors(y)
      BY <1>2, <1>3
    <3> QED BY <2>1, <3>1 DEF IInv, UniqueIds
  <2> QED BY <2>1 DEF UniqueIds
<1>5. ASSUME durable, NEW s \in Shard, NEW v, OnlyOn(v, s) PROVE OnlyOn(v, s)'
  <2>1. ASSUME NEW t \in Server PROVE v \in Vectors(t)' <=> t[1] = s
    <3>1. PICK u \in Copies(t[1]) : Vectors(t)' = Vectors(u)
      BY <1>1, <1>5
    <3>2. u \in Server /\ u[1] = t[1]
      BY <1>2, <3>1
    <3> QED BY <1>5, <3>1, <3>2 DEF OnlyOn
  <2> QED BY <2>1 DEF OnlyOn
<1>6. ASSUME NEW v, NotStored(v) PROVE NotStored(v)'
  BY <1>2, <1>3, <1>6 DEF NotStored
<1>7. ASSUME durable, NEW s \in Shard, NEW t \in Copies(s)
      PROVE  \E u \in Copies(s) : held'[t] = held[u] /\ LastSeq(t)' = LastSeq(u)
  <2>1. t \in Server /\ t[1] = s
    BY CopiesOfShard
  <2> QED BY <1>1, <1>7, <2>1
<1>8. SameLength'
  BY <1>7 DEF IInv, SameLength
<1>9. ASSUME durable, NEW s \in Shard, NEW n \in Nat, \A t \in Copies(s) : LastSeq(t) = n,
             NEW t \in Copies(s)
      PROVE  LastSeq(t)' = n
  BY <1>7, <1>9
<1> QED BY <1>3, <1>4, <1>5, <1>6, <1>8, <1>9

\* A coordinator that learns nothing, or forgets everything.
LEMMA QuietCoord ==
    ASSUME IInv, Quiet, durable' = durable, BaseInv', UNCHANGED <<adds, writer, acked>>,
           NEW d \in Coordinator,
           \/ last_seqs'[d] = Forgotten
           \/ last_seqs'[d] = last_seqs[d] /\ size'[d] = size[d],
           op'[d].kind = "check" => Trusted(d) \/ last_seqs'[d] = Forgotten,
           op'[d].kind = "send" => op'[d] = op[d]
    PROVE  CoordOK(d)'
<1>1. ASSUME Trusted(d)', NEW s \in Shard PROVE KnownOK(d, s)'
  <2>1. CASE last_seqs'[d] = Forgotten
    BY <2>1 DEF KnownOK, Forgotten
  <2>2. CASE last_seqs'[d] # Forgotten
    <3>1. last_seqs'[d] = last_seqs[d] /\ size'[d] = size[d] /\ Trusted(d)
      BY <1>1, <2>2 DEF Trusted
    <3>2. KnownOK(d, s)
      BY <3>1 DEF IInv, CoordOK
    <3>3. ASSUME last_seqs[d][s] # Unknown
          PROVE  /\ \A t \in Copies(s) : \A v \in Vectors(t)' : v.id < size[d]
                 /\ durable => \A t \in Copies(s) : LastSeq(t)' = last_seqs[d][s]
                 /\ ~durable => last_seqs[d][s] = Unchecked
      <4>1. \A t \in Copies(s) : \A v \in Vectors(t)' : v.id < size[d]
        <5>1. ASSUME NEW t \in Copies(s), NEW v \in Vectors(t)' PROVE v.id < size[d]
          <6>1. t \in Server /\ t[1] = s
            BY CopiesOfShard
          <6>2. \E u \in Copies(s) : v \in Vectors(u)
            BY <6>1, QuietKeeps
          <6> QED BY <3>2, <3>3, <6>2 DEF KnownOK
        <5> QED BY <5>1
      <4>2. ASSUME durable, NEW t \in Copies(s) PROVE LastSeq(t)' = last_seqs[d][s]
        <5>1. \A u \in Copies(s) : LastSeq(u) = last_seqs[d][s]
          BY <3>2, <3>3, <4>2 DEF KnownOK
        <5>2. last_seqs[d][s] \in Nat
          BY <4>2, <5>1, HeldFacts, CopiesOfShard DEF IInv
        <5> QED BY <4>2, <5>1, <5>2, QuietKeeps
      <4> QED BY <3>2, <3>3, <4>1, <4>2 DEF KnownOK
    <3> QED BY <3>1, <3>3 DEF KnownOK
  <2> QED BY <2>1, <2>2
<1>2. ASSUME op'[d].kind = "send" PROVE SendOK(d)'
  <2>1. op'[d] = op[d] /\ SendOK(d)
    BY <1>2 DEF IInv, CoordOK
  <2>2. ASSUME NEW t \in Server, NEW v \in Vectors(t)', NEW w \in op[d].all, v.id = w.id PROVE v = w
    <3>1. \E u \in Server : v \in Vectors(u)
      BY QuietKeeps, CopiesOfShard
    <3> QED BY <2>1, <2>2, <3>1 DEF SendOK
  <2>3. ASSUME durable, NEW v \in op[d].all PROVE Placed(d, v)'
    <3>1. Placed(d, v)
      BY <2>1, <2>3 DEF SendOK
    <3> QED BY <2>1, <2>3, <3>1, QuietKeeps DEF Placed
  <2> QED BY <2>1, <2>2, <2>3 DEF SendOK
<1> QED BY <1>1, <1>2 DEF CoordOK

-----------------------------------------------------------------------------
(***************************************************************************)
(* Rounds of Add calls.                                                    *)
(***************************************************************************)

\* On durable servers, all copies of a shard are the same before a round.
LEMMA CopiesAgree ==
    ASSUME IInv, durable, NEW c \in Coordinator, op[c].kind = "send", NEW s \in Shard
    PROVE  /\ last_seqs[c][s] \in Nat
           /\ \A t, u \in Copies(s) : LastSeq(t) = last_seqs[c][s] /\ held[t] = held[u]
<1>1. KnownOK(c, s) /\ last_seqs[c][s] # Unknown
  <2>1. SendOK(c)
    BY DEF IInv, CoordOK
  <2>2. Trusted(c)
    BY <2>1 DEF SendOK, Trusted
  <2> QED BY <2>2 DEF IInv, CoordOK, BaseInv, AddOK
<1>2. \A t \in Copies(s) : LastSeq(t) = last_seqs[c][s]
  BY <1>1 DEF KnownOK
<1>3. last_seqs[c][s] \in Nat
  BY <1>2, HeldFacts, CopiesOfShard DEF IInv
<1> QED BY <1>2, <1>3 DEF IInv, SameLength

\* Some servers take the next request of their shard.
LEMMA SendKeeps ==
    ASSUME IInv, NEW c \in Coordinator, NEW ts \in SUBSET Server,
           SomeSends(c, ts), Apply(c, ts), durable' = durable
    PROVE  /\ SameLength' /\ UniqueIds'
           /\ \A t \in Server : \A v \in Vectors(t)' : v \in Vectors(t) \/ v \in op[c].all
           /\ durable => \A s \in Shard : \A v : v \notin op[c].all /\ OnlyOn(v, s) => OnlyOn(v, s)'
<1>1. op[c].kind = "send" /\ SendOK(c) /\ BaseInv
  BY DEF IInv, CoordOK, SomeSends
<1>2. \A s : Added(c, s) \subseteq op[c].all
  BY DEF Added
<1>3. /\ \A t \in ts : /\ Vectors(t)' = Vectors(t) \cup Added(c, t[1])
                       /\ LastSeq(t)' = LastSeq(t) + 1
                       /\ held'[t] = Append(held[t], Added(c, t[1]))
      /\ \A t \in Server \ ts : /\ held'[t] = held[t] /\ Vectors(t)' = Vectors(t)
                                /\ LastSeq(t)' = LastSeq(t)
  BY <1>1, ApplyFacts
<1>4. \A t \in Server : \A v \in Vectors(t)' : v \in Vectors(t) \/ v \in op[c].all
  BY <1>2, <1>3
<1>5. UniqueIds'
  <2>1. ASSUME NEW t \in Server, NEW u \in Server, NEW v \in Vectors(t)', NEW w \in Vectors(u)',
               v.id = w.id
        PROVE  v = w
    BY <1>1, <1>4, <2>1 DEF SendOK, IInv, UniqueIds
  <2> QED BY <2>1 DEF UniqueIds
<1>6. ASSUME durable, NEW s \in Shard, NEW t \in Copies(s), NEW u \in Copies(s), LastSeq(t)' = LastSeq(u)'
      PROVE  held'[t] = held'[u]
  <2>1. last_seqs[c][s] \in Nat /\ LastSeq(t) = last_seqs[c][s] /\ LastSeq(u) = last_seqs[c][s]
        /\ held[t] = held[u]
    BY <1>1, <1>6, CopiesAgree
  <2>2. t \in Server /\ u \in Server /\ t[1] = s /\ u[1] = s
    BY CopiesOfShard
  <2>3. t \in ts <=> u \in ts
    BY <1>3, <1>6, <2>1, <2>2
  <2> QED BY <1>3, <2>1, <2>2, <2>3
<1>7. SameLength'
  BY <1>6 DEF SameLength
<1>8. ASSUME durable, NEW s \in Shard, NEW v, v \notin op[c].all, OnlyOn(v, s) PROVE OnlyOn(v, s)'
  <2>1. ASSUME NEW t \in Server PROVE v \in Vectors(t)' <=> v \in Vectors(t)
    BY <1>2, <1>3, <1>8
  <2> QED BY <1>8, <2>1 DEF OnlyOn
<1> QED BY <1>4, <1>5, <1>7, <1>8

\* When every call of a round succeeds the request is on all copies of its shard.
LEMMA RoundPlaces ==
    ASSUME IInv, NEW c \in Coordinator, ChunkDone(c), durable, NEW v \in op[c].all
    PROVE  \/ \E s \in Shard : v.id \in op[c].left[s] \ Chunk(c, s) /\ NotStored(v)'
           \/ /\ \A s \in Shard : v.id \notin op[c].left[s] \ Chunk(c, s)
              /\ \E s \in Shard : OnlyOn(v, s)'
<1>1. op[c].kind = "send" /\ SendOK(c) /\ Placed(c, v) /\ BaseInv
  BY DEF IInv, CoordOK, ChunkDone, SendOK
<1>2. Addressed(c) \subseteq Server /\ Apply(c, Addressed(c))
  BY DEF Addressed, ChunkDone
<1>3. \A t \in Server : v \in Vectors(t)' <=> v \in Vectors(t) \/ v.id \in Chunk(c, t[1])
  <2>1. ASSUME NEW t \in Server PROVE v \in Vectors(t)' <=> v \in Vectors(t) \/ v.id \in Chunk(c, t[1])
    <3>1. CASE t \in Addressed(c)
      <4>1. Vectors(t)' = Vectors(t) \cup Added(c, t[1])
        BY <1>1, <1>2, <3>1, ApplyFacts
      <4>2. v \in Added(c, t[1]) <=> v.id \in Chunk(c, t[1])
        BY DEF Added
      <4> QED BY <4>1, <4>2
    <3>2. CASE t \notin Addressed(c)
      <4>1. Vectors(t)' = Vectors(t)
        BY <1>1, <1>2, <3>2, ApplyFacts
      <4>2. Chunk(c, t[1]) = {}
        BY <3>2 DEF Addressed
      <4> QED BY <4>1, <4>2
    <3> QED BY <3>1, <3>2
  <2> QED BY <2>1
<1>4. \A s : Chunk(c, s) \subseteq op[c].left[s]
  BY DEF Chunk
<1>5. \A t \in Server : t[1] \in Shard
  BY CopiesOfShard
<1>6. ASSUME NEW s \in Shard, v.id \in op[c].left[s], NotStored(v)
      PROVE  \/ v.id \in op[c].left[s] \ Chunk(c, s) /\ NotStored(v)'
             \/ /\ \A r \in Shard : v.id \notin op[c].left[r] \ Chunk(c, r)
                /\ OnlyOn(v, s)'
  <2>1. \A r \in Shard : r # s => v.id \notin op[c].left[r]
    BY <1>1, <1>6 DEF SendOK
  <2>2. \A t \in Server : v \in Vectors(t)' <=> t[1] = s /\ v.id \in Chunk(c, s)
    BY <1>3, <1>4, <1>5, <1>6, <2>1 DEF NotStored
  <2>3. CASE v.id \in Chunk(c, s)
    BY <2>1, <2>2, <2>3 DEF OnlyOn
  <2>4. CASE v.id \notin Chunk(c, s)
    BY <1>6, <2>2, <2>4 DEF NotStored
  <2> QED BY <2>3, <2>4
<1>7. ASSUME \A r \in Shard : v.id \notin op[c].left[r], NEW s \in Shard, OnlyOn(v, s)
      PROVE  (\A r \in Shard : v.id \notin op[c].left[r] \ Chunk(c, r)) /\ OnlyOn(v, s)'
  BY <1>3, <1>4, <1>5, <1>7 DEF OnlyOn
<1>8. CASE \E s \in Shard : v.id \in op[c].left[s] /\ NotStored(v)
  BY <1>6, <1>8
<1>9. CASE (\A s \in Shard : v.id \notin op[c].left[s]) /\ \E s \in Shard : OnlyOn(v, s)
  BY <1>7, <1>9
<1> QED BY <1>1, <1>8, <1>9 DEF Placed

\* On durable servers the reports of a round agree, and the positions are right again.
LEMMA RoundAgrees ==
    ASSUME IInv, NEW c \in Coordinator, ChunkDone(c), durable, NEW s \in Shard
    PROVE  ~Diverged(c, s)
<1>1. op[c].kind = "send" /\ BaseInv /\ Addressed(c) \subseteq Server /\ Apply(c, Addressed(c))
  BY DEF IInv, ChunkDone, Addressed
<1>2. ASSUME NEW t \in Addressed(c), NEW u \in Addressed(c), t[1] = s, u[1] = s
      PROVE  Vectors(t)' = Vectors(u)'
  <2>1. t \in Copies(s) /\ u \in Copies(s)
    BY <1>1, <1>2, CopiesOfShard
  <2>2. held[t] = held[u]
    BY <1>1, <2>1, CopiesAgree
  <2>3. held'[t] = Append(held[t], Added(c, s)) /\ held'[u] = Append(held[u], Added(c, s))
    BY <1>1, <1>2, ApplyFacts
  <2> QED BY <2>2, <2>3 DEF Vectors
<1> QED BY <1>2 DEF Diverged

LEMMA RoundPositions ==
    ASSUME IInv, NEW c \in Coordinator, ChunkDone(c), durable, NEW s \in Shard,
           NEW t \in Copies(s)
    PROVE  LastSeq(t)' = last_seqs'[c][s]
<1> DEFINE shards == {u[1] : u \in Addressed(c)}
           wrong  == {r \in shards : Diverged(c, r)}
           good   == {r \in shards : \A d \in wrong : r < d}
<1>1. op[c].kind = "send" /\ BaseInv /\ Addressed(c) \subseteq Server /\ Apply(c, Addressed(c))
  BY DEF IInv, ChunkDone, Addressed
<1>2. shards \subseteq Shard
  BY <1>1, CopiesOfShard
<1>3. wrong = {}
  BY <1>2, RoundAgrees
<1>4. good = shards
  BY <1>3
<1>5. last_seqs \in [Coordinator -> [Shard -> {Unknown, Unchecked} \cup Nat]]
  BY DEF IInv, BaseInv, TypeOK
<1>6. last_seqs' = [last_seqs EXCEPT ![c] = [r \in Shard |->
          IF r \in good /\ @[r] # Unchecked THEN @[r] + 1 ELSE @[r]]]
  BY DEF ChunkDone
<1>7. last_seqs'[c][s] = IF s \in good /\ last_seqs[c][s] # Unchecked
                           THEN last_seqs[c][s] + 1 ELSE last_seqs[c][s]
  <2> HIDE DEF good
  <2> QED BY <1>5, <1>6
<1>8. last_seqs[c][s] \in Nat /\ LastSeq(t) = last_seqs[c][s] /\ t \in Server /\ t[1] = s
  <2>1. t \in Server /\ t[1] = s
    BY CopiesOfShard
  <2>2. last_seqs[c][s] \in Nat /\ LastSeq(t) = last_seqs[c][s]
    BY <1>1, CopiesAgree
  <2> QED BY <2>1, <2>2
<1>9. last_seqs[c][s] # Unchecked
  BY <1>8 DEF Unchecked
<1>10. s \in shards <=> t \in Addressed(c)
  <2>1. \A u \in Server : u \in Addressed(c) <=> Chunk(c, u[1]) # {}
    BY DEF Addressed
  <2> QED BY <1>1, <1>8, <2>1
<1>11. CASE t \in Addressed(c)
  <2>1. LastSeq(t)' = LastSeq(t) + 1
    BY <1>1, <1>11, ApplyFacts
  <2>2. s \in good
    BY <1>4, <1>10, <1>11
  <2> QED BY <1>7, <1>8, <1>9, <2>1, <2>2
<1>12. CASE t \notin Addressed(c)
  <2>1. LastSeq(t)' = LastSeq(t)
    BY <1>1, <1>8, <1>12, ApplyFacts
  <2>2. s \notin good
    BY <1>10, <1>12
  <2> QED BY <1>7, <1>8, <2>1, <2>2
<1> QED BY <1>11, <1>12

\* What the coordinator knows after a round, and of its add.
LEMMA RoundCoord ==
    ASSUME IInv, NEW c \in Coordinator, ChunkDone(c), BaseInv'
    PROVE  CoordOK(c)'
<1>1. /\ op[c].kind = "send" /\ SendOK(c) /\ BaseInv /\ op[c] \in Sending
      /\ Addressed(c) \subseteq Server /\ Apply(c, Addressed(c)) /\ SomeSends(c, Addressed(c))
      /\ durable' = durable /\ size' = size /\ adds' = adds /\ writer' = writer
      /\ size[c] \in Nat
  BY ChunkDoneFacts, OpFacts DEF IInv, CoordOK, ChunkDone, Addressed, SomeSends
<1>2. \A t \in Server : \A v \in Vectors(t)' : v \in Vectors(t) \/ v \in op[c].all
  BY <1>1, SendKeeps
<1>3. ASSUME NEW s \in Shard PROVE KnownOK(c, s)'
  <2>1. KnownOK(c, s) /\ last_seqs[c][s] # Unknown /\ \A v \in op[c].all : v.id < size[c]
    BY <1>1 DEF IInv, CoordOK, SendOK, Trusted, BaseInv, AddOK
  <2>2. ASSUME NEW t \in Copies(s), NEW v \in Vectors(t)' PROVE v.id < size[c]
    <3>1. t \in Server
      BY CopiesOfShard
    <3> QED BY <1>2, <2>1, <2>2, <3>1 DEF KnownOK
  <2>3. ASSUME durable, NEW t \in Copies(s) PROVE LastSeq(t)' = last_seqs'[c][s]
    BY <2>3, RoundPositions
  <2>4. ASSUME ~durable PROVE last_seqs'[c][s] = Unchecked
    <3>1. last_seqs[c][s] = Unchecked
      BY <2>1, <2>4 DEF KnownOK
    <3>2. \/ last_seqs'[c][s] = last_seqs[c][s]
          \/ last_seqs[c][s] \in Nat
      BY <1>1, ChunkDoneFacts
    <3>3. Unchecked \notin Nat
      BY DEF Unchecked
    <3> QED BY <3>1, <3>2, <3>3
  <2> QED BY <1>1, <2>2, <2>3, <2>4 DEF KnownOK
<1>4. ASSUME op'[c].kind = "send" PROVE SendOK(c)'
  <2> DEFINE left == [s \in Shard |-> op[c].left[s] \ Chunk(c, s)]
  <2>1. op'[c] = [op[c] EXCEPT !.left = left]
    <3>1. op'[c] # Idle
      BY <1>4 DEF Idle
    <3> QED BY <1>1, <3>1, ChunkDoneFacts
  <2>2. op'[c].all = op[c].all /\ op'[c].left = left
    BY <1>1, <2>1 DEF Sending
  <2>3. \A s \in Shard : left[s] = op[c].left[s] \ Chunk(c, s)
    OBVIOUS
  <2> HIDE DEF left
  <2>4. acked' = acked
    BY <1>1, <1>4 DEF ChunkDone, Leave, Idle, BaseInv
  <2>5. ASSUME NEW t \in Server, NEW v \in Vectors(t)', NEW w \in op[c].all, v.id = w.id PROVE v = w
    BY <1>1, <1>2, <2>5 DEF SendOK
  <2>6. ASSUME durable, NEW v \in op[c].all PROVE Placed(c, v)'
    BY <2>2, <2>3, <2>6, RoundPlaces DEF Placed
  <2>7. /\ \A v \in op'[c].all : v.add < adds' /\ v \notin acked'
        /\ \A v, w \in op'[c].all : v.id = w.id => v = w
        /\ \A s \in Shard : op'[c].left[s] \subseteq Ids(op'[c].all)
        /\ \A s, r \in Shard : s # r => op'[c].left[s] \cap op'[c].left[r] = {}
        /\ writer' = c
    BY <1>1, <2>2, <2>3, <2>4 DEF SendOK
  <2>8. \A t \in Server : \A v \in Vectors(t)' : \A w \in op'[c].all : v.id = w.id => v = w
    BY <2>2, <2>5
  <2>9. durable' => \A v \in op'[c].all : Placed(c, v)'
    BY <1>1, <2>2, <2>6
  <2> QED BY <2>7, <2>8, <2>9 DEF SendOK
<1> QED BY <1>3, <1>4 DEF CoordOK

\* An add returns when all its vectors are on all copies of their shard.
LEMMA RoundAcks ==
    ASSUME IInv, NEW c \in Coordinator, ChunkDone(c)
    PROVE  AckedAdds' /\ AckedOnEveryCopy'
<1>1. /\ op[c].kind = "send" /\ SendOK(c) /\ SomeSends(c, Addressed(c))
      /\ Addressed(c) \subseteq Server /\ Apply(c, Addressed(c))
      /\ durable' = durable /\ adds' = adds
  BY DEF IInv, CoordOK, ChunkDone, Addressed, SomeSends
<1>2. \/ acked' = acked
      \/ /\ acked' = acked \cup op[c].all
         /\ \A s \in Shard : op[c].left[s] \ Chunk(c, s) = {}
  BY DEF ChunkDone
<1>3. AckedAdds'
  BY <1>1, <1>2 DEF AckedAdds, SendOK, IInv
<1>4. ASSUME durable, NEW v \in acked' PROVE \E s \in Shard : OnlyOn(v, s)'
  <2>1. CASE v \in acked
    <3>1. v \notin op[c].all /\ \E s \in Shard : OnlyOn(v, s)
      BY <1>1, <1>4, <2>1 DEF SendOK, IInv, AckedOnEveryCopy, OnlyOn
    <3> QED BY <1>1, <1>4, <3>1, SendKeeps
  <2>2. CASE v \notin acked
    BY <1>2, <1>4, <2>2, RoundPlaces
  <2> QED BY <2>1, <2>2
<1> QED BY <1>1, <1>3, <1>4 DEF AckedOnEveryCopy, OnlyOn

-----------------------------------------------------------------------------
(***************************************************************************)
(* The check, and the ids of an add.                                       *)
(***************************************************************************)
LEMMA CheckCoord ==
    ASSUME IInv, NEW c \in Coordinator, CheckShard(c)
    PROVE  CoordOK(c)'
<1> DEFINE s == Min(ToCheck(c))
           z == Max({size[c]} \cup {NextGlobalId(t) : t \in Copies(s)})
           p == IF durable THEN LastSeq(<<s, 0>>) ELSE Unchecked
<1>1. /\ op[c].kind = "check" /\ s \in Shard /\ BaseInv
      /\ UNCHANGED <<durable, held, up, adds, writer, acked>>
  BY MinOfShards DEF CheckShard, ToCheck, IInv, servers, history
<1>2. /\ size \in [Coordinator -> Nat] /\ op = [d \in Coordinator |-> op[d]]
      /\ last_seqs \in [Coordinator -> [Shard -> {Unknown, Unchecked} \cup Nat]]
  BY <1>1 DEF BaseInv, TypeOK
<1>3. size'[c] = z
  BY <1>2 DEF CheckShard
<1>4. \/ last_seqs'[c] = last_seqs[c]
      \/ /\ last_seqs'[c] = [last_seqs[c] EXCEPT ![s] = p]
         /\ durable => \A t, u \in Copies(s) : LastSeq(t) = LastSeq(u)
  BY <1>2 DEF CheckShard
<1>5. op'[c] = Idle \/ op'[c] = op[c]
  BY <1>2 DEF CheckShard, Leave
<1> HIDE DEF s
<1>6. /\ z \in Nat /\ size[c] <= z /\ size[c] \in Nat
      /\ \A t \in Copies(s) : \A v \in Vectors(t) : v.id < z
  BY <1>1, <1>2, CheckedSize
<1> HIDE DEF z
<1>7. Trusted(c)
  BY <1>1 DEF Trusted
<1>8. ASSUME NEW r \in Shard PROVE KnownOK(c, r)'
  <2>1. \A t \in Server : Vectors(t)' = Vectors(t) /\ LastSeq(t)' = LastSeq(t)
    BY <1>1 DEF Vectors, LastSeq
  <2>2. Copies(r) \subseteq Server
    BY CopiesOfShard
  <2>3. CASE last_seqs'[c][r] = last_seqs[c][r] /\ last_seqs[c][r] # Unknown
    <3>1. KnownOK(c, r)
      BY <1>7 DEF IInv, CoordOK
    <3>2. ASSUME NEW t \in Copies(r), NEW v \in Vectors(t) PROVE v.id < z
      <4>1. v.id \in Nat /\ v.id < size[c]
        BY <1>1, <2>2, <2>3, <3>1, HeldFacts DEF KnownOK, Vector
      <4> QED BY <4>1, <1>6
    <3> QED BY <1>1, <1>3, <2>1, <2>2, <2>3, <3>1, <3>2 DEF KnownOK
  <2>4. CASE r = s /\ last_seqs'[c] = [last_seqs[c] EXCEPT ![s] = p]
                   /\ (durable => \A t, u \in Copies(s) : LastSeq(t) = LastSeq(u))
    <3>1. last_seqs'[c][r] = p
      BY <1>1, <1>2, <2>4
    <3>2. durable => \A t \in Copies(r) : LastSeq(t) = p
      BY <1>1, <2>4, CopiesOfShard
    <3> QED BY <1>1, <1>3, <1>6, <2>1, <2>2, <2>4, <3>1, <3>2 DEF KnownOK
  <2>5. CASE last_seqs'[c][r] = Unknown
    BY <2>5 DEF KnownOK
  <2>6. \/ last_seqs'[c][r] = last_seqs[c][r]
        \/ r = s /\ last_seqs'[c] = [last_seqs[c] EXCEPT ![s] = p]
                 /\ (durable => \A t, u \in Copies(s) : LastSeq(t) = LastSeq(u))
    <3> HIDE DEF p
    <3> QED BY <1>1, <1>2, <1>4
  <2> HIDE DEF p
  <2> QED BY <2>3, <2>4, <2>5, <2>6
<1>9. op'[c].kind # "send"
  BY <1>1, <1>5 DEF Idle
<1> QED BY <1>8, <1>9 DEF CoordOK

LEMMA RouteCoord ==
    ASSUME IInv, NEW c \in Coordinator, Route(c)
    PROVE  CoordOK(c)'
<1>1. /\ op[c].kind = "check" /\ BaseInv /\ op[c] \in Checking /\ Trusted(c)
      /\ UNCHANGED <<durable, held, up, last_seqs, acked>> /\ writer' = c
      /\ \A s \in Shard : last_seqs[c][s] # Unknown
  <2>1. /\ op[c].kind = "check" /\ BaseInv /\ ToCheck(c) = {} /\ writer' = c
        /\ UNCHANGED <<durable, held, up, last_seqs, acked>>
    BY DEF Route, IInv, servers
  <2> QED BY <2>1, OpFacts, CheckedFacts DEF Trusted
<1>2. /\ op'[c] \in Sending
      /\ op'[c].kind = "send" /\ size'[c] \in Nat /\ size[c] <= size'[c]
      /\ \A v \in op'[c].all : v.add = adds /\ size[c] <= v.id /\ v.id < size'[c]
      /\ \A s \in Shard : op'[c].left[s] = {i \in Ids(op'[c].all) :
            (IF op[c].ns = AllShards THEN i % NumShards ELSE op[c].ns) = s}
      /\ \A v, w \in op'[c].all : v.id = w.id => v = w
      /\ adds' = adds + 1 /\ adds < MaxAdds /\ adds \in Nat /\ size[c] \in Nat
  BY <1>1, RouteFacts, OpFacts
<1> DEFINE home(i) == IF op[c].ns = AllShards THEN i % NumShards ELSE op[c].ns
<1>3. \A t \in Server : Vectors(t)' = Vectors(t) /\ LastSeq(t)' = LastSeq(t)
  BY <1>1 DEF Vectors, LastSeq
<1>4. ASSUME NEW t \in Server, NEW v \in Vectors(t) PROVE v.id < size[c] /\ v.id \in Nat
  <2>1. KnownOK(c, t[1]) /\ last_seqs[c][t[1]] # Unknown /\ t \in Copies(t[1])
    BY <1>1, CopiesOfShard DEF IInv, CoordOK
  <2>2. v.id \in Nat
    BY <1>1, HeldFacts DEF Vector
  <2> QED BY <2>1, <2>2 DEF KnownOK
<1>5. ASSUME NEW s \in Shard PROVE KnownOK(c, s)'
  <2>1. KnownOK(c, s)
    BY <1>1 DEF IInv, CoordOK
  <2>2. \A t \in Copies(s) : t \in Server /\ \A v \in Vectors(t)' : v.id < size'[c]
    <3>1. ASSUME NEW t \in Copies(s), NEW v \in Vectors(t)'
          PROVE  t \in Server /\ v.id < size'[c]
      <4>1. t \in Server
        BY CopiesOfShard
      <4>2. v.id \in Nat /\ v.id < size[c]
        BY <1>3, <1>4, <3>1, <4>1
      <4> QED BY <1>2, <4>1, <4>2
    <3> QED BY <3>1, CopiesOfShard
  <2> QED BY <1>1, <1>3, <2>1, <2>2 DEF KnownOK
<1>6. ASSUME NEW v \in op'[c].all PROVE NotStored(v)
  <2>1. ASSUME NEW t \in Server, v \in Vectors(t) PROVE FALSE
    BY <1>2, <1>4, <2>1
  <2> QED BY <2>1 DEF NotStored
<1>7. \A v \in op'[c].all : v.add < adds' /\ v \notin acked
  <2>1. \A v \in acked : v.add < adds
    BY DEF IInv, AckedAdds
  <2> QED BY <1>2, <2>1
<1>8. ASSUME NEW t \in Server, NEW v \in Vectors(t)', NEW w \in op'[c].all, v.id = w.id PROVE FALSE
  BY <1>2, <1>3, <1>4, <1>8
<1>9. /\ \A s \in Shard : op'[c].left[s] \subseteq Ids(op'[c].all)
      /\ \A s, r \in Shard : s # r => op'[c].left[s] \cap op'[c].left[r] = {}
  BY <1>2
<1>10. ASSUME NEW v \in op'[c].all PROVE Placed(c, v)'
  <2>1. v \in Vector /\ v.id \in Ids(op'[c].all)
    BY <1>2 DEF Sending, Ids
  <2>2. v.id \in Nat
    BY <2>1 DEF Vector
  <2>3. home(v.id) \in Shard
    <3>1. v.id % NumShards \in Shard
      BY <2>2, ConstantsAssumption DEF Shard
    <3> QED BY <1>1, <3>1 DEF Checking
  <2>4. v.id \in op'[c].left[home(v.id)]
    BY <1>2, <2>1, <2>3
  <2>5. NotStored(v)'
    BY <1>3, <1>6 DEF NotStored
  <2> HIDE DEF home
  <2> QED BY <2>3, <2>4, <2>5 DEF Placed
<1>11. SendOK(c)'
  BY <1>1, <1>2, <1>7, <1>8, <1>9, <1>10 DEF SendOK
<1> QED BY <1>5, <1>11 DEF CoordOK

-----------------------------------------------------------------------------
(***************************************************************************)
(* Every step keeps the invariant.                                         *)
(***************************************************************************)
LEMMA InitIInv == Safe /\ Init => IInv
<1> SUFFICES ASSUME Safe, Init PROVE IInv
  OBVIOUS
<1>1. \A t \in Server : held[t] = <<>> /\ Vectors(t) = {}
  BY EmptySeq, LenProperties DEF Init, Vectors
<1>2. SameLength
  BY <1>1, CopiesOfShard DEF SameLength
<1>3. UniqueIds
  BY <1>1 DEF UniqueIds
<1>4. AckedAdds /\ AckedOnEveryCopy
  BY DEF Init, AckedAdds, AckedOnEveryCopy
<1>5. \A c \in Coordinator : CoordOK(c)
  BY DEF Init, CoordOK, KnownOK, Forgotten, Idle
<1> QED BY <1>2, <1>3, <1>4, <1>5, InitBase DEF IInv

\* A coordinator that does not see another one write keeps what it knows.
LEMMA OtherCoord ==
    ASSUME IInv, NEW c \in Coordinator, NEW d \in Coordinator, d # c,
           op'[d] = op[d], writer' = c, op[c].kind \in {"check", "send"}
    PROVE  CoordOK(d)'
<1>1. op[d].kind \notin {"check", "send"}
  BY DEF IInv, BaseInv, OneWriter
<1> QED BY <1>1 DEF CoordOK, Trusted

LEMMA QuietStep ==
    ASSUME IInv, BaseInv', Quiet, UNCHANGED <<durable, adds, writer, acked>>,
           \A d \in Coordinator : CoordOK(d)'
    PROVE  IInv'
<1>1. Safe'
  BY DEF IInv, Safe
<1>2. AckedAdds'
  BY DEF IInv, AckedAdds
<1>3. ASSUME durable', NEW v \in acked' PROVE \E s \in Shard : OnlyOn(v, s)'
  <2>1. \E s \in Shard : OnlyOn(v, s)
    BY <1>3 DEF IInv, AckedOnEveryCopy, OnlyOn
  <2> QED BY <1>3, <2>1, QuietKeeps
<1>4. AckedOnEveryCopy'
  BY <1>3 DEF AckedOnEveryCopy, OnlyOn
<1> QED BY <1>1, <1>2, <1>4, QuietKeeps DEF IInv

\* The beginning of an add: whoever did not write last has refreshed.
LEMMA StartCoord ==
    ASSUME IInv, BaseInv', NEW c \in Coordinator, NEW d \in Coordinator,
           NEW n \in 1..MaxVectors, NEW ns \in Shard \cup {AllShards}, StartAdd(c, n, ns)
    PROVE  CoordOK(d)'
<1>1. /\ op = [e \in Coordinator |-> op[e]] /\ writer \in Coordinator
      /\ last_seqs \in [Coordinator -> [Shard -> {Unknown, Unchecked} \cup Nat]]
  BY DEF IInv, BaseInv, TypeOK
<1>2. /\ Quiet /\ durable' = durable /\ UNCHANGED <<adds, writer, acked>> /\ size' = size
      /\ op' = [op EXCEPT ![c] = [kind |-> "check", n |-> n, ns |-> ns]]
      /\ last_seqs' = IF MustRefresh(c) THEN [last_seqs EXCEPT ![c] = Forgotten] ELSE last_seqs
  BY DEF StartAdd, Quiet, servers, history
<1>3. CASE d # c
  <2>1. op'[d] = op[d] /\ last_seqs'[d] = last_seqs[d] /\ size'[d] = size[d]
    BY <1>1, <1>2, <1>3
  <2>2. op[d].kind = "check" => Trusted(d)
    BY DEF Trusted
  <2> QED BY <1>2, <2>1, <2>2, QuietCoord
<1>4. CASE d = c
  <2>1. op'[c].kind = "check"
    BY <1>1, <1>2
  <2>2. MustRefresh(c) => last_seqs'[c] = Forgotten
    BY <1>1, <1>2
  <2>3. ~MustRefresh(c) => Trusted(c) /\ last_seqs'[c] = last_seqs[c]
    BY <1>1, <1>2 DEF MustRefresh, Trusted, IInv, Safe
  <2>4. size'[c] = size[c]
    BY <1>2
  <2> QED BY <1>2, <1>4, <2>1, <2>2, <2>3, <2>4, QuietCoord
<1> QED BY <1>3, <1>4

\* A round of calls that is interrupted: the coordinator forgets all positions.
LEMMA InterruptedSend ==
    ASSUME IInv, BaseInv', NEW c \in Coordinator, Sends(c), UNCHANGED <<durable, adds, writer, acked>>,
           op'[c] = Idle, last_seqs'[c] = Forgotten,
           \A d \in Coordinator : d # c => op'[d] = op[d]
    PROVE  IInv'
<1>1. PICK ts \in SUBSET Server : SomeSends(c, ts) /\ Apply(c, ts)
  BY DEF Sends
<1>2. op[c].kind = "send" /\ SendOK(c)
  BY <1>1 DEF SomeSends, IInv, CoordOK
<1>3. Safe' /\ AckedAdds'
  BY DEF IInv, Safe, AckedAdds
<1>4. ASSUME durable', NEW v \in acked' PROVE \E s \in Shard : OnlyOn(v, s)'
  <2>1. v \notin op[c].all /\ \E s \in Shard : OnlyOn(v, s)
    BY <1>2, <1>4 DEF SendOK, IInv, AckedOnEveryCopy, OnlyOn
  <2> QED BY <1>1, <1>4, <2>1, SendKeeps
<1>5. AckedOnEveryCopy'
  BY <1>4 DEF AckedOnEveryCopy, OnlyOn
<1>6. CoordOK(c)'
  BY DEF CoordOK, KnownOK, Forgotten, Idle
<1>7. writer' = c
  BY <1>2 DEF SendOK
<1>8. ASSUME NEW d \in Coordinator, d # c PROVE CoordOK(d)'
  BY <1>2, <1>7, <1>8, OtherCoord
<1>9. SameLength' /\ UniqueIds'
  BY <1>1, SendKeeps
<1> QED BY <1>3, <1>5, <1>6, <1>8, <1>9 DEF IInv

LEMMA NextIInv == IInv /\ [Next]_vars => IInv'
<1> SUFFICES ASSUME IInv, [Next]_vars PROVE IInv'
  OBVIOUS
<1>1. BaseInv' /\ BaseInv /\ op = [e \in Coordinator |-> op[e]]
      /\ last_seqs \in [Coordinator -> [Shard -> {Unknown, Unchecked} \cup Nat]]
  BY NextBase DEF IInv, BaseInv, TypeOK
<1>2. ASSUME NEW c \in Coordinator, NEW n \in 1..MaxVectors, NEW ns \in Shard \cup {AllShards},
             StartAdd(c, n, ns)
      PROVE  IInv'
  <2>1. UNCHANGED <<durable, held, adds, writer, acked>>
    BY <1>2 DEF StartAdd, servers, history
  <2>2. \A d \in Coordinator : CoordOK(d)'
    BY <1>1, <1>2, StartCoord
  <2> QED BY <1>1, <2>1, <2>2, QuietStep DEF Quiet
<1>3. ASSUME NEW c \in Coordinator, CheckShard(c) PROVE IInv'
  <2>1. UNCHANGED <<durable, held, adds, writer, acked>> /\ Quiet
    BY <1>3 DEF CheckShard, servers, history, Quiet
  <2>2. StepOf(c)
    BY <1>3 DEF StepOf
  <2>3. ASSUME NEW d \in Coordinator, d # c PROVE CoordOK(d)'
    <3>1. op'[d] = op[d] /\ last_seqs'[d] = last_seqs[d] /\ size'[d] = size[d]
      BY <1>1, <2>2, <2>3, OwnVariables
    <3>2. op[d].kind = "check" => Trusted(d)
      BY DEF Trusted
    <3> QED BY <1>1, <2>1, <3>1, <3>2, QuietCoord
  <2>4. \A d \in Coordinator : CoordOK(d)'
    BY <1>3, <2>3, CheckCoord
  <2> QED BY <1>1, <2>1, <2>4, QuietStep
<1>4. ASSUME NEW c \in Coordinator, Route(c) PROVE IInv'
  <2>1. UNCHANGED <<durable, held, acked>> /\ writer' = c /\ op[c].kind = "check" /\ StepOf(c)
        /\ adds' = adds + 1 /\ adds \in Nat
    <3>1. adds \in Nat
      BY <1>1 DEF BaseInv, TypeOK
    <3> QED BY <1>4, <3>1 DEF Route, servers, StepOf
  <2>2. ASSUME NEW d \in Coordinator, d # c PROVE CoordOK(d)'
    <3>1. op'[d] = op[d]
      BY <1>1, <2>1, <2>2, OwnVariables
    <3> QED BY <2>1, <2>2, <3>1, OtherCoord
  <2>3. \A d \in Coordinator : CoordOK(d)'
    BY <1>4, <2>2, RouteCoord
  <2>4. AckedAdds'
    <3>1. \A v \in acked : v.add < adds /\ v.add \in Nat
      BY <1>1 DEF IInv, AckedAdds, BaseInv, TypeOK, Vector
    <3> QED BY <2>1, <3>1 DEF AckedAdds
  <2>5. Safe' /\ SameLength' /\ UniqueIds' /\ AckedOnEveryCopy'
    <3>1. Safe'
      BY DEF IInv, Safe
    <3>2. SameLength'
      BY <2>1 DEF IInv, SameLength, LastSeq
    <3>3. \A t : Vectors(t)' = Vectors(t)
      BY <2>1 DEF Vectors
    <3>4. UniqueIds'
      BY <3>3 DEF IInv, UniqueIds
    <3>5. AckedOnEveryCopy'
      BY <2>1, <3>3 DEF IInv, AckedOnEveryCopy
    <3> QED BY <3>1, <3>2, <3>4, <3>5
  <2> QED BY <1>1, <2>3, <2>4, <2>5 DEF IInv
<1>5. ASSUME NEW c \in Coordinator, ChunkDone(c) PROVE IInv'
  <2>1. /\ StepOf(c) /\ op[c].kind = "send" /\ SendOK(c) /\ durable' = durable /\ writer' = writer
        /\ Apply(c, Addressed(c)) /\ SomeSends(c, Addressed(c)) /\ Addressed(c) \in SUBSET Server
    BY <1>5 DEF ChunkDone, StepOf, IInv, CoordOK, SomeSends, Addressed
  <2>2. ASSUME NEW d \in Coordinator, d # c PROVE CoordOK(d)'
    <3>1. op'[d] = op[d] /\ writer' = c
      BY <1>1, <2>1, <2>2, OwnVariables DEF SendOK
    <3> QED BY <2>1, <2>2, <3>1, OtherCoord
  <2>3. \A d \in Coordinator : CoordOK(d)'
    BY <1>1, <1>5, <2>2, RoundCoord
  <2>4. SameLength' /\ UniqueIds'
    BY <2>1, SendKeeps
  <2>5. Safe'
    BY DEF IInv, Safe
  <2> QED BY <1>1, <1>5, <2>3, <2>4, <2>5, RoundAcks DEF IInv
<1>6. ASSUME NEW c \in Coordinator, ChunkFails(c) PROVE IInv'
  <2>1. StepOf(c) /\ Sends(c) /\ UNCHANGED <<durable, adds, writer, acked>>
        /\ op'[c] = Idle /\ last_seqs'[c] = Forgotten
    <3>1. Addressed(c) \subseteq Server
      BY DEF Addressed
    <3> QED BY <1>1, <1>6, <3>1 DEF ChunkFails, StepOf, Sends, SomeSends, history, Leave
  <2>2. \A d \in Coordinator : d # c => op'[d] = op[d]
    BY <1>1, <2>1, OwnVariables
  <2> QED BY <1>1, <2>1, <2>2, InterruptedSend
<1>7. ASSUME NEW c \in Coordinator,
             CheckFails(c) \/ StartRepair(c) \/ RepairShard(c) \/ RepairFails(c)
      PROVE  IInv'
  <2>1. UNCHANGED <<durable, adds, writer, acked>> /\ Quiet /\ StepOf(c)
    BY <1>1, <1>7, QuietSteps DEF CheckFails, StartRepair, RepairShard, RepairFails, servers, history,
           Quiet, StepOf
  <2>2. ASSUME NEW d \in Coordinator PROVE CoordOK(d)'
    <3>1. CASE d # c
      <4>1. op'[d] = op[d] /\ last_seqs'[d] = last_seqs[d] /\ size'[d] = size[d]
        BY <1>1, <2>1, <3>1, OwnVariables
      <4>2. op[d].kind = "check" => Trusted(d)
        BY DEF Trusted
      <4> QED BY <1>1, <2>1, <4>1, <4>2, QuietCoord
    <3>2. CASE d = c
      <4>1. size' = size /\ (last_seqs' = last_seqs \/ last_seqs'[c] = Forgotten)
        BY <1>1, <1>7 DEF CheckFails, StartRepair, RepairShard, RepairFails, positions
      <4>2. op'[c] = Idle \/ op'[c].kind = "repair"
        <5>1. CASE RepairShard(c)
          <6>1. OpOK(op[c]) /\ op[c].kind = "repair"
            BY <1>1, <5>1 DEF RepairShard, BaseInv, TypeOK
          <6>2. op[c] \in [kind : {"repair"}, shard : Shard]
            BY <6>1 DEF OpOK, Idle
          <6>3. op'[c] = Idle \/ op'[c] = [op[c] EXCEPT !.shard = op[c].shard + 1]
            BY <1>1, <5>1 DEF RepairShard
          <6> QED BY <6>2, <6>3
        <5>2. CASE CheckFails(c) \/ StartRepair(c) \/ RepairFails(c)
          BY <1>1, <5>2 DEF CheckFails, StartRepair, RepairFails, Leave
        <5> QED BY <1>7, <5>1, <5>2
      <4>3. op'[c].kind \notin {"check", "send"}
        BY <4>2 DEF Idle
      <4> QED BY <1>1, <2>1, <3>2, <4>1, <4>3, QuietCoord
    <3> QED BY <3>1, <3>2
  <2> QED BY <1>1, <2>1, <2>2, QuietStep
<1>8. ASSUME NEW c \in Coordinator, Replace(c) PROVE IInv'
  <2>1. UNCHANGED <<durable, adds, writer, acked>> /\ StepOf(c)
        /\ op'[c] = Idle /\ last_seqs'[c] = Forgotten
    BY <1>1, <1>8 DEF Replace, StepOf, Leave
  <2>2. \A d \in Coordinator : d # c =>
           op'[d] = op[d] /\ last_seqs'[d] = last_seqs[d] /\ size'[d] = size[d]
    BY <1>1, <2>1, OwnVariables
  <2>3. CASE Sends(c)
    BY <1>1, <2>1, <2>2, <2>3, InterruptedSend
  <2>4. CASE Quiet
    <3>1. \A d \in Coordinator : CoordOK(d)'
      <4>1. ASSUME NEW d \in Coordinator PROVE CoordOK(d)'
        <5>1. op'[d].kind = "check" => Trusted(d)
          BY <2>1, <2>2 DEF Trusted, Idle
        <5>2. op'[d].kind = "send" => op'[d] = op[d]
          BY <2>1, <2>2 DEF Idle
        <5> QED BY <1>1, <2>1, <2>2, <2>4, <5>1, <5>2, QuietCoord
      <4> QED BY <4>1
    <3> QED BY <1>1, <2>1, <2>4, <3>1, QuietStep
  <2> QED BY <1>1, <2>1, <2>3, <2>4, HeldSteps
<1>9. ASSUME Quiet, UNCHANGED <<durable, adds, writer, acked, op, size, last_seqs>> PROVE IInv'
  <2>1. ASSUME NEW d \in Coordinator PROVE CoordOK(d)'
    <3>1. op[d].kind = "check" => Trusted(d)
      BY DEF Trusted
    <3> QED BY <1>1, <1>9, <3>1, QuietCoord
  <2> QED BY <1>1, <1>9, <2>1, QuietStep
<1>10. ASSUME NEW t \in Server, Crash(t) \/ Restart(t) PROVE IInv'
  <2>1. UNCHANGED <<durable, adds, writer, acked, op, size, last_seqs>> /\ Quiet
    BY <1>1, <1>10, QuietSteps DEF Crash, Restart, positions, history
  <2> QED BY <1>9, <2>1
<1>11. ASSUME UNCHANGED vars PROVE IInv'
  <2>1. UNCHANGED <<durable, adds, writer, acked, op, size, last_seqs>> /\ Quiet
    BY <1>11 DEF vars, Quiet
  <2> QED BY <1>9, <2>1
<1> QED BY <1>2, <1>3, <1>4, <1>5, <1>6, <1>7, <1>8, <1>10, <1>11, NextIsStep DEF StepOf

\* Under Safe, what a coordinator knows is true in every state of a behaviour.
THEOREM KnowledgeIsTrue == Safe /\ Spec => []IInv
BY InitIInv, NextIInv, PTL DEF Spec

-----------------------------------------------------------------------------
(***************************************************************************)
(* What follows.                                                           *)
(***************************************************************************)

\* No global id is given twice, on no server, durable or not.
THEOREM IdsAreUnique == Safe /\ Spec => []NoIdTwice
<1>1. IInv => NoIdTwice
  <2> SUFFICES ASSUME IInv, NEW v \in UNION {Vectors(t) : t \in Server},
                      NEW w \in UNION {Vectors(t) : t \in Server}, v.id = w.id
               PROVE  v = w
    BY DEF NoIdTwice
  <2> QED BY DEF IInv, UniqueIds
<1> QED BY <1>1, KnowledgeIsTrue, PTL

\* What an add() returned for is on every copy of one shard, for good.
THEOREM AckedStaysEverywhere == Safe /\ Spec => []AckedOnEveryCopy
<1>1. IInv => AckedOnEveryCopy
  BY DEF IInv
<1> QED BY <1>1, KnowledgeIsTrue, PTL

\* No server that is up refuses what a coordinator numbers after its check.
THEOREM NumbersFit == Safe /\ Spec => []NextNumberFits
<1>1. IInv => NextNumberFits
  <2> SUFFICES ASSUME IInv, NEW c \in Coordinator, op[c].kind = "send",
                      NEW t \in Addressed(c) \cap up
               PROVE  Accepts(c, t)
    BY DEF NextNumberFits
  <2>1. t \in Server /\ t[1] \in Shard /\ t \in Copies(t[1])
    BY CopiesOfShard DEF Addressed
  <2>2. KnownOK(c, t[1]) /\ last_seqs[c][t[1]] # Unknown
    BY <2>1 DEF IInv, CoordOK, SendOK, Trusted, BaseInv, AddOK
  <2>3. last_seqs[c][t[1]] \in {Unchecked, LastSeq(t)}
    BY <2>1, <2>2 DEF KnownOK, IInv, BaseInv, TypeOK
  <2> QED BY <2>3 DEF Accepts
<1> QED BY <1>1, KnowledgeIsTrue, PTL

=============================================================================
