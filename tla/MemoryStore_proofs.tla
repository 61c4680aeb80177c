------------------------- MODULE MemoryStore_proofs -------------------------
(***************************************************************************)
(* Proofs about MemoryStore that hold for all values of its constants: any *)
(* number of stores, replicas, facts and failed writes, any distances.     *)
(***************************************************************************)
EXTENDS MemoryStore, FiniteOrders, FiniteSetTheorems, SequenceTheorems, TLAPS

-----------------------------------------------------------------------------
(***************************************************************************)
(* The inductive invariant.                                                *)
(***************************************************************************)
Kind == {"memory", "forget"}

LogRecord == [kind : Kind, fact : Fact \cup {"none"}, replaces : SUBSET Nat, seen : Nat]

Writer == [kind : Kind, fact : Fact \cup {"none"}, replaces : SUBSET Nat, seen : Nat,
           phase : {"live", "check", "write"}, same : SUBSET Nat]
Reader == [kind : {"recall"}, query : Fact, stored : SUBSET Nat, hits : SUBSET Nat]
Call   == {Idle} \cup Writer \cup Reader

Types ==
    /\ log \in Seq(LogRecord) /\ size \in [Replica -> Nat] /\ acked \subseteq Record
    /\ call \in [Store -> Call]
    /\ \A i \in Record : log[i].kind = "memory" => log[i].fact \in Fact

Twin(f, i) == log[i].kind = "memory" /\ Distance[f][log[i].fact] <= SameWithin

\* What a call that looked for the nearest memory still knows: it was the nearest one
\* of the records it saw, and if it did not stop the call, a record names it.
SawNearest(c) ==
    /\ c.phase # "live" /\ c.same \subseteq 1..c.seen
    /\ \A d, e \in c.same : d = e
    /\ \A i \in acked : i <= c.seen /\ Twin(c.fact, i)
                          => \E d \in c.same : d = i \/ Closer(c.fact, d, i)
    /\ c.phase = "write" => c.same \subseteq Dead

WriterOK(c) ==
    /\ c.seen <= Len(log) /\ c.replaces \subseteq {j \in Record : log[j].kind = "memory"}
    /\ c.kind = "memory" => c.fact \in Fact
    /\ c.kind = "memory" /\ c.replaces = {} => SawNearest(c)

\* What a recall has found: every memory that was stored when it began, unless there
\* were as many candidates as it looks at.
ReaderOK(c) ==
    /\ c.stored \subseteq acked /\ c.hits \subseteq {j \in Record : log[j].kind = "memory"}
    /\ \A i \in c.stored : log[i].kind = "memory" =>
                             i \in c.hits \/ Cardinality(c.hits) = Candidates

CallOK(c) == (c \in Writer => WriterOK(c)) /\ (c \in Reader => ReaderOK(c))

CallsOK == \A w \in Store : CallOK(call[w])

IInv == Types /\ TypeOK /\ CallsOK /\ StoredTwiceOnlyIf

-----------------------------------------------------------------------------
LEMMA RecordInterval ==
    ASSUME Types
    PROVE  /\ Len(log) \in Nat /\ Record = 1..Len(log)
           /\ \A i \in Record : log[i] \in LogRecord
BY LenProperties, ElementOfSeq DEF Types, Record

LEMMA RecordFinite ==
    ASSUME Types, NEW S \in SUBSET Record
    PROVE  IsFiniteSet(S)
<1>1. IsFiniteSet(1..Len(log))
  <2>1. 1 \in Int /\ Len(log) \in Int
    BY RecordInterval
  <2> QED BY <2>1, FS_Interval
<1> QED BY <1>1, RecordInterval, FS_Subset

\* A lookup returns some of the records that match, and all of them if they are no
\* more than it may return.
LEMMA LookupFinds ==
    ASSUME Types, NEW matches \in SUBSET Record
    PROVE  /\ Lookup(matches) \subseteq matches
           /\ Cardinality(matches) <= MaxLookup => Lookup(matches) = matches
<1>1. Lookup(matches) \subseteq matches
  BY DEF Lookup
<1>2. ASSUME Cardinality(matches) <= MaxLookup, NEW i \in matches PROVE i \in Lookup(matches)
  <2> DEFINE earlier == {j \in matches : Before(j, i)}
  <2>1. log[i].fact \in Fact \cup {"none"}
    BY RecordInterval DEF LogRecord
  <2>2. FromOnes[log[i].fact] \in Nat /\ i \in Nat
    BY <2>1, RecordInterval, ConstantsAssumption
  <2>3. i \notin earlier
    BY <2>2 DEF Before
  <2>4. IsFiniteSet(matches) /\ earlier \in SUBSET matches
    BY RecordFinite
  <2> HIDE DEF earlier
  <2>5. /\ IsFiniteSet(earlier) /\ Cardinality(earlier) <= Cardinality(matches)
        /\ Cardinality(earlier) = Cardinality(matches) => earlier = matches
    BY <2>4, FS_Subset
  <2>6. Cardinality(earlier) \in Nat /\ Cardinality(matches) \in Nat
    BY <2>4, <2>5, FS_CardinalityType
  <2>7. Cardinality(earlier) # Cardinality(matches)
    BY <1>2, <2>3, <2>5
  <2>8. Cardinality(earlier) < MaxLookup
    BY <1>2, <2>5, <2>6, <2>7, ConstantsAssumption
  <2> USE DEF earlier
  <2> QED BY <1>2, <2>8 DEF Lookup
<1> QED BY <1>1, <1>2

LEMMA InitIInv == Init => IInv
<1> SUFFICES ASSUME Init PROVE IInv
  OBVIOUS
<1>1. log \in Seq(LogRecord) /\ Len(log) = 0 /\ Record = {}
  BY EmptySeq DEF Init, Record
<1>2. Idle \in Call /\ Idle \notin Writer /\ Idle \notin Reader
  BY DEF Call, Idle, Writer, Reader, Kind
<1>3. Types /\ TypeOK /\ StoredTwiceOnlyIf
  BY <1>1, <1>2 DEF Init, Types, TypeOK, StoredTwiceOnlyIf
<1>4. CallsOK
  BY <1>2 DEF Init, CallsOK, CallOK
<1> QED BY <1>3, <1>4 DEF IInv

-----------------------------------------------------------------------------
(***************************************************************************)
(* Steps that leave the records alone.                                     *)
(***************************************************************************)
\* Only one call changes, or none: the invariant needs only the new one.
LEMMA CallStep ==
    ASSUME IInv, UNCHANGED <<log, acked>>,
           NEW w \in Store, NEW c \in Call, CallOK(c), call' = [call EXCEPT ![w] = c],
           size' \in [Replica -> Nat],
           \A r \in Replica : size'[r] \in size[r]..Len(log)
    PROVE  IInv'
<1> USE DEF IInv
<1>1. Types'
  BY DEF Types, Record
<1>2. TypeOK'
  BY DEF TypeOK, Record, Types
<1>3. /\ log' = log /\ acked' = acked /\ Record' = Record /\ Dead' = Dead
      /\ \A f, i, j : (Closer(f, i, j)' <=> Closer(f, i, j)) /\ (Twin(f, i)' <=> Twin(f, i))
  BY DEF Record, Dead, Closer, Twin
<1>4. StoredTwiceOnlyIf'
  BY <1>3 DEF StoredTwiceOnlyIf
<1>6. \A d : SawNearest(d)' <=> SawNearest(d)
  BY <1>3 DEF SawNearest
<1>7. \A d \in Call : CallOK(d) => CallOK(d)'
  BY <1>3, <1>6 DEF CallOK, WriterOK, ReaderOK, Candidates
<1>5. CallsOK'
  <2>1. SUFFICES ASSUME NEW v \in Store PROVE CallOK(call[v])'
    BY DEF CallsOK
  <2>2. call[v] \in Call /\ CallOK(call[v]) /\ call'[v] \in {call[v], c}
    BY DEF Types, CallsOK
  <2> QED BY <1>7, <2>2 DEF CallOK
<1> QED BY <1>1, <1>2, <1>4, <1>5

-----------------------------------------------------------------------------
\* The nearest memory of a namespace that has one: no other is closer, there is only
\* one, and every other one is farther away or younger.
LEMMA NearestMemory ==
    ASSUME Types, TypeOK, NEW f \in Fact, NEW r \in Replica
    PROVE  /\ Memories(r) \subseteq Record /\ Memories(r) \subseteq 1..size[r]
           /\ Hits(f, 1, r) \subseteq Memories(r)
           /\ \A d, e \in Hits(f, 1, r) : d = e
           /\ \A i \in Memories(r) : \E d \in Hits(f, 1, r) : d = i \/ Closer(f, d, i)
<1> DEFINE M == Memories(r)
<1>1. /\ size[r] \in 0..Len(log) /\ M \subseteq 1..size[r] /\ M \subseteq Record
      /\ \A i \in M : log[i].kind = "memory"
  BY RecordInterval DEF Types, TypeOK, Memories
<1>2. IsFiniteSet(M)
  <2>1. Len(log) \in Nat /\ M \in SUBSET (1..Len(log))
    BY <1>1, RecordInterval
  <2>2. IsFiniteSet(1..Len(log))
    BY <2>1, FS_Interval
  <2> QED BY <2>1, <2>2, FS_Subset
<1>3. \A i \in M : Distance[f][log[i].fact] \in Nat /\ i \in Nat
  <2>1. \A i \in M : log[i].fact \in Fact /\ i \in Nat
    BY <1>1 DEF Types
  <2> QED BY <2>1, ConstantsAssumption
<1>4. Hits(f, 1, r) = {i \in M : \A j \in M : ~Closer(f, j, i)}
  <2>1. ASSUME NEW i \in M
        PROVE Cardinality({j \in M : Closer(f, j, i)}) < 1 <=> \A j \in M : ~Closer(f, j, i)
    <3>1. IsFiniteSet({j \in M : Closer(f, j, i)})
      BY <1>2, FS_Subset
    <3>2. /\ Cardinality({j \in M : Closer(f, j, i)}) \in Nat
          /\ Cardinality({j \in M : Closer(f, j, i)}) = 0 <=> {j \in M : Closer(f, j, i)} = {}
      BY <3>1, FS_CardinalityType, FS_EmptySet
    <3> QED BY <3>2
  <2> QED BY <2>1 DEF Hits
<1>5. \A d, e \in M : d = e \/ Closer(f, d, e) \/ Closer(f, e, d)
  BY <1>3 DEF Closer
<1>6. ASSUME NEW i \in M
      PROVE  \E d \in Hits(f, 1, r) : d = i \/ Closer(f, d, i)
  <2> DEFINE T == {j \in M : j = i \/ Closer(f, j, i)}
             Below == {p \in M \X M : Closer(f, p[1], p[2])}
  <2>1. IsFiniteSet(T) /\ T # {} /\ T \subseteq M
    <3>1. T \in SUBSET M /\ i \in T
      OBVIOUS
    <3> QED BY <1>2, <3>1, FS_Subset
  <2>2. \A x, y \in M : <<x, y>> \in Below <=> Closer(f, x, y)
    OBVIOUS
  <2>3. \A x \in M : ~Closer(f, x, x)
    BY <1>3 DEF Closer
  <2>4. \A x, y, z \in M : Closer(f, x, y) /\ Closer(f, y, z) => Closer(f, x, z)
    BY <1>3 DEF Closer
  <2>5. PICK d \in T : \A y \in T : <<y, d>> \notin Below
    <3> HIDE DEF T, Below
    <3>1. \A x \in T : <<x, x>> \notin Below
      BY <2>1, <2>2, <2>3
    <3>2. \A x, y, z \in T : <<x, y>> \in Below /\ <<y, z>> \in Below => <<x, z>> \in Below
      BY <2>1, <2>2, <2>4
    <3> QED BY <2>1, <3>1, <3>2, Minimal
  <2>6. \A j \in M : ~Closer(f, j, d)
    BY <2>1, <2>2, <2>4, <2>5
  <2> QED BY <1>4, <2>1, <2>6
<1> QED BY <1>1, <1>4, <1>5, <1>6

LEMMA NearIInv ==
    ASSUME IInv, NEW w \in Store, NEW f \in Fact, NEW r \in Replica, Near(w, f, r)
    PROVE  IInv'
<1> DEFINE near == {i \in Hits(f, 1, r) : Same(f, i)}
           c == [kind |-> "memory", fact |-> f, replaces |-> {}, seen |-> size[r],
                 phase |-> IF near = {} THEN "write" ELSE "check", same |-> near]
<1>1. /\ Types /\ TypeOK /\ UNCHANGED <<log, size, acked>> /\ call' = [call EXCEPT ![w] = c]
  BY DEF IInv, Near
<1>2. /\ near \subseteq Memories(r)
      /\ Memories(r) \subseteq Record /\ Memories(r) \subseteq 1..size[r]
      /\ \A d, e \in near : d = e
      /\ \A i \in Memories(r) : \E d \in Hits(f, 1, r) : d = i \/ Closer(f, d, i)
  BY <1>1, NearestMemory
<1>3. size[r] \in 0..Len(log) /\ Len(log) \in Nat /\ Record = 1..Len(log)
  BY <1>1, RecordInterval DEF TypeOK
<1>4. c \in Writer /\ c \in Call
  <2>1. near \in SUBSET Nat
    BY <1>2, <1>3
  <2> QED BY <1>3, <2>1 DEF Writer, Call, Kind
<1>5. ASSUME NEW i \in acked, i <= size[r], Twin(f, i)
      PROVE  \E d \in near : d = i \/ Closer(f, d, i)
  <2>1. i \in Record /\ i \in Memories(r)
    BY <1>1, <1>3, <1>5 DEF Types, Memories, Twin
  <2>2. PICK d \in Hits(f, 1, r) : d = i \/ Closer(f, d, i)
    BY <1>2, <2>1
  <2>3. d \in Memories(r)
    BY <1>1, NearestMemory
  <2>4. \A j \in Memories(r) : Distance[f][log[j].fact] \in Nat
    <3>1. \A j \in Memories(r) : log[j].fact \in Fact
      BY <1>1, <1>2 DEF Memories, Types
    <3> QED BY <3>1, ConstantsAssumption
  <2>5. Same(f, d)
    BY <1>5, <2>1, <2>2, <2>3, <2>4, ConstantsAssumption DEF Same, Closer, Twin
  <2> QED BY <2>2, <2>5
<1>6. SawNearest(c)
  <2>1. c.phase # "live" /\ c.same \subseteq 1..c.seen /\ \A d, e \in c.same : d = e
    BY <1>2
  <2>2. \A i \in acked : i <= c.seen /\ Twin(c.fact, i)
                          => \E d \in c.same : d = i \/ Closer(c.fact, d, i)
    BY <1>5
  <2>3. c.phase = "write" => c.same \subseteq Dead
    OBVIOUS
  <2> HIDE DEF c
  <2> QED BY <2>1, <2>2, <2>3 DEF SawNearest
<1>7. CallOK(c)
  <2>1. c.seen <= Len(log) /\ c.replaces = {} /\ c.fact = f /\ c.kind # "recall"
    BY <1>3
  <2> HIDE DEF c
  <2> QED BY <1>6, <2>1 DEF CallOK, WriterOK, Reader
<1>8. size' \in [Replica -> Nat] /\ \A q \in Replica : size'[q] \in size[q]..Len(log)
  BY <1>1, RecordInterval DEF Types, TypeOK
<1> HIDE DEF c
<1> QED BY <1>1, <1>4, <1>7, <1>8, CallStep

LEMMA CheckIInv ==
    ASSUME IInv, NEW w \in Store, NEW r \in Replica, Check(w, r)
    PROVE  IInv'
<1> DEFINE c == [call[w] EXCEPT !.phase = "write"]
<1>1. /\ Types /\ TypeOK /\ UNCHANGED <<log, size, acked>> /\ Writing(w, "check")
      /\ call[w] \in Writer /\ WriterOK(call[w])
  BY DEF IInv, Check, Writing, Types, Call, Idle, Reader, CallsOK, CallOK
<1>2. size' \in [Replica -> Nat] /\ \A q \in Replica : size'[q] \in size[q]..Len(log)
  BY <1>1, RecordInterval DEF Types, TypeOK
<1>3. CASE Return(w)
  <2>1. Idle \in Call /\ CallOK(Idle)
    BY DEF Call, CallOK, Idle, Writer, Reader, Kind
  <2> QED BY <1>1, <1>2, <1>3, <2>1, CallStep DEF Return
<1>4. CASE Replaced(call[w].same, r) # {} /\ GoOn(w, "write")
  <2>1. c \in Writer /\ c \in Call /\ call' = [call EXCEPT ![w] = c]
    BY <1>1, <1>4 DEF Writer, Call, GoOn, Types
  <2>2. /\ c.kind = call[w].kind /\ c.fact = call[w].fact /\ c.replaces = call[w].replaces
        /\ c.seen = call[w].seen /\ c.same = call[w].same /\ c.phase = "write"
    BY <1>1 DEF Writer
  <2>3. ASSUME SawNearest(call[w]) PROVE SawNearest(c)
    <3>1. PICK i \in 1..size[r] : call[w].same \cap log[i].replaces # {}
      BY <1>4 DEF Replaced, Lookup, NameOneOf
    <3>2. i \in Record
      BY <1>1, RecordInterval DEF TypeOK
    <3>3. call[w].same \cap Dead # {}
      BY <3>1, <3>2 DEF Dead
    <3>4. c.same \subseteq Dead
      BY <2>2, <2>3, <3>3 DEF SawNearest
    <3> HIDE DEF c
    <3> QED BY <2>2, <2>3, <3>4 DEF SawNearest
  <2> HIDE DEF c
  <2>4. CallOK(c)
    BY <1>1, <2>1, <2>2, <2>3 DEF CallOK, WriterOK, Reader, Writer, Kind
  <2> QED BY <1>1, <1>2, <2>1, <2>4, CallStep
<1> QED BY <1>3, <1>4 DEF Check

LEMMA LiveIInv ==
    ASSUME IInv, NEW w \in Store, NEW r \in Replica, Live(w, r)
    PROVE  IInv'
<1> DEFINE c == [call[w] EXCEPT !.phase = "write"]
<1>1. /\ Types /\ TypeOK /\ UNCHANGED <<log, size, acked>> /\ Writing(w, "live")
      /\ call[w] \in Writer /\ WriterOK(call[w])
  BY DEF IInv, Live, Writing, Types, Call, Idle, Reader, CallsOK, CallOK
<1>2. size' \in [Replica -> Nat] /\ \A q \in Replica : size'[q] \in size[q]..Len(log)
  BY <1>1, RecordInterval DEF Types, TypeOK
<1>3. CASE Return(w)
  <2>1. Idle \in Call /\ CallOK(Idle)
    BY DEF Call, CallOK, Idle, Writer, Reader, Kind
  <2> QED BY <1>1, <1>2, <1>3, <2>1, CallStep DEF Return
<1>4. CASE GoOn(w, "write")
  <2>1. c \in Writer /\ c \in Call /\ call' = [call EXCEPT ![w] = c]
    BY <1>1, <1>4 DEF Writer, Call, GoOn, Types
  <2>2. /\ c.kind = call[w].kind /\ c.fact = call[w].fact /\ c.replaces = call[w].replaces
        /\ c.seen = call[w].seen
    BY <1>1 DEF Writer
  <2>3. ~SawNearest(call[w])
    BY <1>1 DEF Writing, SawNearest
  <2> HIDE DEF c
  <2>4. CallOK(c)
    BY <1>1, <2>1, <2>2, <2>3 DEF CallOK, WriterOK, Reader, Writer, Kind
  <2> QED BY <1>1, <1>2, <2>1, <2>4, CallStep
<1> QED BY <1>3, <1>4 DEF Live

LEMMA FindIInv ==
    ASSUME IInv, NEW w \in Store, NEW r \in Replica,
           NEW targets \in (SUBSET Record) \ {{}}, NEW new \in Naming(targets), Find(w, new, r)
    PROVE  IInv'
<1>1. Types /\ TypeOK /\ UNCHANGED <<log, size, acked>> /\ call' = [call EXCEPT ![w] = new]
  BY DEF IInv, Find
<1>2. size[r] \in 0..Len(log) /\ Len(log) \in Nat /\ Record = 1..Len(log)
  BY <1>1, RecordInterval DEF TypeOK
<1>3. /\ new \in Writer /\ new.replaces # {} /\ new.seen = 0
      /\ new.kind = "memory" => new.fact \in Fact
  <2>1. targets \subseteq Nat /\ targets # {}
    BY <1>2
  <2>2. CASE new \in [kind : {"memory"}, fact : Fact, replaces : {targets}, seen : {0},
                     phase : {"live"}, same : {{}}]
    <3>1. /\ new.kind = "memory" /\ new.fact \in Fact /\ new.replaces = targets
          /\ new.seen = 0 /\ new.phase = "live" /\ new.same = {}
          /\ new = [kind |-> new.kind, fact |-> new.fact, replaces |-> new.replaces,
                    seen |-> new.seen, phase |-> new.phase, same |-> new.same]
      BY <2>2
    <3> QED BY <2>1, <3>1 DEF Writer, Kind
  <2>3. CASE \E t \in targets : new = [kind |-> "forget", fact |-> "none", replaces |-> {t},
                                      seen |-> 0, phase |-> "live", same |-> {}]
    BY <2>1, <2>3 DEF Writer, Kind
  <2> QED BY <2>2, <2>3 DEF Naming
<1>4. new.replaces \subseteq {j \in Record : log[j].kind = "memory"}
  <2>1. new.replaces \subseteq Memories(r)
    BY DEF Find, Lookup
  <2> QED BY <1>2, <2>1 DEF Memories
<1>5. CallOK(new) /\ new \in Call
  BY <1>2, <1>3, <1>4 DEF CallOK, WriterOK, Writer, Reader, Call, Kind
<1>6. size' \in [Replica -> Nat] /\ \A q \in Replica : size'[q] \in size[q]..Len(log)
  BY <1>1, RecordInterval DEF Types, TypeOK
<1> QED BY <1>1, <1>5, <1>6, CallStep

-----------------------------------------------------------------------------
\* Nat is closed under multiplication; the provers are given it once.
LEMMA CandidatesNat == Candidates \in Nat /\ K \in Nat
BY ConstantsAssumption DEF Candidates

\* A search finds all memories of a replica, or as many as it looks at.
LEMMA CandidatesFound ==
    ASSUME Types, TypeOK, NEW q \in Fact, NEW r \in Replica
    PROVE  /\ Hits(q, Candidates, r) \subseteq Memories(r)
           /\ Memories(r) \subseteq {j \in Record : log[j].kind = "memory"}
           /\ Hits(q, Candidates, r) = Memories(r)
                 \/ Cardinality(Hits(q, Candidates, r)) = Candidates
<1> DEFINE M == Memories(r)
           Under == [x \in M |-> {y \in M : Closer(q, y, x)}]
<1>1. /\ M \subseteq {j \in Record : log[j].kind = "memory"} /\ Len(log) \in Nat
      /\ M \subseteq 1..Len(log)
  BY RecordInterval DEF Types, TypeOK, Memories
<1>2. IsFiniteSet(M)
  BY <1>1, RecordFinite
<1>3. \A i \in M : Distance[q][log[i].fact] \in Nat /\ i \in Nat
  <2>1. \A i \in M : log[i].fact \in Fact /\ i \in Nat
    BY <1>1 DEF Types
  <2> QED BY <2>1, ConstantsAssumption
<1>4. /\ \A x \in M : ~Closer(q, x, x)
      /\ \A x, y, z \in M : Closer(q, x, y) /\ Closer(q, y, z) => Closer(q, x, z)
      /\ \A x, y \in M : x = y \/ Closer(q, x, y) \/ Closer(q, y, x)
  BY <1>3 DEF Closer
<1>5. /\ Hits(q, Candidates, r) \in SUBSET M
      /\ \A x \in M : x \in Hits(q, Candidates, r) <=> Cardinality(Under[x]) < Candidates
  BY DEF Hits
<1>6. /\ Under \in [M -> SUBSET M] /\ \A x \in M : x \notin Under[x]
      /\ \A x, y, z \in M : x \in Under[y] /\ y \in Under[z] => x \in Under[z]
      /\ \A x, y \in M : x = y \/ x \in Under[y] \/ y \in Under[x]
  BY <1>4
<1> HIDE DEF Under, M
<1>7. /\ Cardinality(M) <= Candidates => Hits(q, Candidates, r) = M
      /\ Candidates <= Cardinality(M) => Cardinality(Hits(q, Candidates, r)) = Candidates
  BY <1>2, <1>5, <1>6, CandidatesNat, LowestOnes
<1>8. Cardinality(M) \in Nat
  BY <1>2, FS_CardinalityType
<1> QED BY <1>1, <1>5, <1>7, <1>8, CandidatesNat DEF M

LEMMA SearchIInv ==
    ASSUME IInv, NEW w \in Store, NEW q \in Fact, NEW r \in Replica, Search(w, q, r)
    PROVE  IInv'
<1> DEFINE c == [kind |-> "recall", query |-> q, stored |-> acked, hits |-> Hits(q, Candidates, r)]
<1>1. Types /\ TypeOK /\ UNCHANGED <<log, size, acked>> /\ call' = [call EXCEPT ![w] = c]
  BY DEF IInv, Search
<1>2. acked \subseteq Nat /\ Hits(q, Candidates, r) \subseteq Nat
  BY <1>1, RecordInterval DEF Types, TypeOK, Hits, Memories
<1>3. ReaderOK(c)
  <2>1. /\ Hits(q, Candidates, r) \subseteq Memories(r)
        /\ Memories(r) \subseteq {j \in Record : log[j].kind = "memory"}
        /\ Hits(q, Candidates, r) = Memories(r)
              \/ Cardinality(Hits(q, Candidates, r)) = Candidates
    BY <1>1, CandidatesFound
  <2>2. \A i \in acked : log[i].kind = "memory" => i \in Memories(r)
    BY <1>1 DEF TypeOK, Memories
  <2>3. c.stored = acked /\ c.hits = Hits(q, Candidates, r)
    OBVIOUS
  <2> HIDE DEF c
  <2> QED BY <2>1, <2>2, <2>3 DEF ReaderOK
<1>5. c \in Reader /\ c \in Call /\ CallOK(c)
  BY <1>2, <1>3 DEF Reader, Call, CallOK, Writer, Kind
<1>4. size' \in [Replica -> Nat] /\ \A p \in Replica : size'[p] \in size[p]..Len(log)
  BY <1>1, RecordInterval DEF Types, TypeOK
<1> HIDE DEF c
<1> QED BY <1>1, <1>4, <1>5, CallStep

LEMMA ReturnIInv ==
    ASSUME IInv, NEW w \in Store, Drop(w) \/ Raises(w)
    PROVE  IInv'
<1>1. UNCHANGED <<log, size, acked>> /\ call' = [call EXCEPT ![w] = Idle]
  BY DEF Drop, Raises, Return
<1>2. Idle \in Call /\ CallOK(Idle)
  BY DEF Call, CallOK, Idle, Writer, Reader, Kind
<1>3. size' \in [Replica -> Nat] /\ \A q \in Replica : size'[q] \in size[q]..Len(log)
  BY <1>1, RecordInterval DEF IInv, Types, TypeOK
<1> QED BY <1>1, <1>2, <1>3, CallStep

LEMMA RepairIInv == ASSUME IInv, Repair PROVE IInv'
<1>1. Types /\ TypeOK /\ UNCHANGED <<log, acked, call>> /\ size' = [r \in Replica |-> Len(log)]
  BY DEF IInv, Repair
<1>2. size' \in [Replica -> Nat] /\ \A q \in Replica : size'[q] \in size[q]..Len(log)
  BY <1>1, RecordInterval DEF Types, TypeOK
<1>3. CASE Store = {}
  <2>1. /\ log' = log /\ acked' = acked /\ Record' = Record /\ Dead' = Dead
        /\ \A f, i, j : Closer(f, i, j)' <=> Closer(f, i, j)
    BY <1>1 DEF Record, Dead, Closer
  <2>2. StoredTwiceOnlyIf'
    BY <2>1 DEF IInv, StoredTwiceOnlyIf
  <2>3. Types' /\ TypeOK' /\ CallsOK'
    BY <1>1, <1>2, <1>3, <2>1 DEF Types, TypeOK, CallsOK
  <2> QED BY <2>2, <2>3 DEF IInv
<1>4. ASSUME NEW w \in Store PROVE IInv'
  <2>1. call[w] \in Call /\ CallOK(call[w]) /\ call' = [call EXCEPT ![w] = call[w]]
    BY <1>1 DEF IInv, Types, CallsOK
  <2> QED BY <1>1, <1>2, <2>1, CallStep
<1> QED BY <1>3, <1>4

-----------------------------------------------------------------------------
(***************************************************************************)
(* A new record: the log grows by what the call had prepared.              *)
(***************************************************************************)
LEMMA NewRecordStep ==
    ASSUME IInv, NEW w \in Store, Writing(w, "write"),
           log' = Append(log, NewRecord(call[w])), Return(w),
           acked' \subseteq acked \cup {Len(log) + 1}, size' \in [Replica -> Nat],
           \A r \in Replica : size'[r] \in 0..Len(log) + 1 /\ acked' \subseteq 1..size'[r],
           acked \subseteq acked'
    PROVE  IInv'
<1> DEFINE n == Len(log)
           c == call[w]
<1>1. /\ Types /\ TypeOK /\ CallsOK /\ StoredTwiceOnlyIf /\ n \in Nat /\ Record = 1..n
      /\ c \in Writer /\ WriterOK(c) /\ c.phase = "write"
  <2>1. c \in Call /\ CallOK(c) /\ c.kind \in {"memory", "forget"} /\ c.phase = "write"
    BY DEF IInv, Writing, Types, CallsOK
  <2>2. c \in Writer
    BY <2>1 DEF Call, Idle, Reader
  <2> QED BY <2>1, <2>2, RecordInterval DEF IInv, CallOK
<1>2. /\ NewRecord(c) \in LogRecord
      /\ NewRecord(c).kind = c.kind /\ NewRecord(c).fact = c.fact
      /\ NewRecord(c).replaces = c.replaces /\ NewRecord(c).seen = c.seen
  BY <1>1 DEF NewRecord, LogRecord, Writer
<1>3. /\ log' \in Seq(LogRecord) /\ Len(log') = n + 1 /\ Record' = 1..n + 1
      /\ \A i \in 1..n : log'[i] = log[i]
      /\ log'[n + 1] = NewRecord(c)
  <2>1. log \in Seq(LogRecord)
    BY <1>1 DEF Types
  <2>2. /\ log' \in Seq(LogRecord) /\ Len(log') = n + 1
        /\ \A i \in 1..n : log'[i] = log[i]
        /\ log'[n + 1] = NewRecord(c)
    BY <1>2, <2>1, AppendProperties
  <2>3. DOMAIN log' = 1..Len(log')
    BY <2>2, LenProperties
  <2> QED BY <2>2, <2>3 DEF Record
<1> HIDE DEF n
<1>4. Dead \subseteq Dead'
  BY <1>1, <1>3 DEF Dead
<1>5. /\ \A f : \A i, j \in 1..n : Closer(f, i, j) => Closer(f, i, j)'
      /\ \A f : \A i \in 1..n : Twin(f, i)' => Twin(f, i)
  BY <1>1, <1>3 DEF Closer, Twin
<1>6. acked \subseteq 1..n /\ acked' \subseteq 1..n + 1 /\ \A i \in acked' : i <= n => i \in acked
  BY <1>1, n + 1 \notin 1..n DEF Types, n
<1>7. Types'
  <2>1. Idle \in Call /\ call' \in [Store -> Call]
    BY <1>1 DEF Types, Call, Return
  <2>2. \A i \in 1..n + 1 : log'[i].kind = "memory" => log'[i].fact \in Fact
    BY <1>1, <1>2, <1>3 DEF Types, WriterOK
  <2> QED BY <1>3, <1>6, <2>1, <2>2 DEF Types
<1>8. TypeOK'
  <2>1. /\ c.seen \in 0..n /\ c.kind \in Kind
        /\ c.replaces \subseteq {j \in 1..n : log[j].kind = "memory"}
    BY <1>1 DEF WriterOK, Writer, n
  <2>2. ASSUME NEW i \in 1..n + 1
        PROVE  /\ log'[i].kind \in {"memory", "forget"} /\ log'[i].seen \in 0..i - 1
               /\ log'[i].replaces \subseteq {j \in 1..i - 1 : log'[j].kind = "memory"}
    <3>1. CASE i = n + 1
      BY <1>1, <1>2, <1>3, <2>1, <3>1 DEF Kind
    <3>2. CASE i \in 1..n
      BY <1>1, <1>3, <3>2 DEF TypeOK
    <3>3. i = n + 1 \/ i \in 1..n
      BY <1>1
    <3> QED BY <3>1, <3>2, <3>3
  <2> QED BY <1>3, <2>2 DEF TypeOK, n
<1>9. ASSUME NEW d \in Call, CallOK(d) PROVE CallOK(d)'
  <2>1. ASSUME d \in Writer, SawNearest(d), d.seen <= n PROVE SawNearest(d)'
    <3>1. d.seen \in Nat /\ d.same \subseteq 1..n
      BY <1>1, <2>1 DEF Writer, SawNearest
    <3>2. \A i \in acked' : i <= d.seen => i \in acked /\ i \in 1..n
      BY <1>1, <1>6, <2>1, <3>1
    <3>3. ASSUME NEW i \in acked', i <= d.seen, Twin(d.fact, i)'
          PROVE  \E e \in d.same : e = i \/ Closer(d.fact, e, i)'
      <4>1. i \in acked /\ i \in 1..n /\ Twin(d.fact, i)
        BY <1>5, <3>2, <3>3
      <4>2. PICK e \in d.same : e = i \/ Closer(d.fact, e, i)
        BY <2>1, <3>3, <4>1 DEF SawNearest
      <4> QED BY <1>5, <3>1, <4>1, <4>2
    <3> QED BY <1>4, <2>1, <3>3 DEF SawNearest
  <2>2. ASSUME d \in Writer, WriterOK(d) PROVE WriterOK(d)'
    <3>1. /\ d.seen <= n /\ d.seen \in Nat
          /\ d.replaces \subseteq {j \in 1..n : log[j].kind = "memory"}
      BY <1>1, <2>2 DEF WriterOK, Writer, n
    <3>2. d.replaces \subseteq {j \in 1..n + 1 : log'[j].kind = "memory"}
      BY <1>1, <1>3, <3>1
    <3>3. d.seen <= Len(log')
      BY <1>1, <1>3, <3>1
    <3> QED BY <1>3, <2>1, <2>2, <3>1, <3>2, <3>3 DEF WriterOK
  <2>3. ASSUME d \in Reader, ReaderOK(d) PROVE ReaderOK(d)'
    <3>1. /\ d.stored \subseteq acked /\ d.stored \subseteq 1..n
          /\ d.hits \subseteq {j \in 1..n : log[j].kind = "memory"}
      BY <1>1, <1>6, <2>3 DEF ReaderOK
    <3>2. d.hits \subseteq {j \in 1..n + 1 : log'[j].kind = "memory"}
      BY <1>1, <1>3, <3>1
    <3>3. \A i \in d.stored : log'[i] = log[i]
      BY <1>3, <3>1
    <3> QED BY <1>3, <2>3, <3>1, <3>2, <3>3 DEF ReaderOK, Candidates
  <2> QED BY <1>9, <2>2, <2>3 DEF CallOK
<1>10. CallsOK'
  <2>1. SUFFICES ASSUME NEW v \in Store PROVE CallOK(call[v])'
    BY DEF CallsOK
  <2>2. CASE v = w
    <3>1. call'[v] = Idle
      BY <1>1, <2>2 DEF Return, Types
    <3>2. Idle \notin Writer /\ Idle \notin Reader
      BY DEF Idle, Writer, Reader, Kind
    <3> QED BY <3>1, <3>2 DEF CallOK
  <2>3. CASE v # w
    <3>1. call[v] \in Call /\ CallOK(call[v]) /\ call'[v] = call[v]
      BY <1>1, <2>3 DEF CallsOK, Return, Types
    <3> QED BY <1>9, <3>1 DEF CallOK
  <2> QED BY <2>2, <2>3
<1>11. StoredTwiceOnlyIf'
  <2> DEFINE Nearer(f, d, i) == \/ Distance[f][log'[d].fact] < Distance[f][log'[i].fact]
                                \/ Distance[f][log'[d].fact] = Distance[f][log'[i].fact] /\ d < i
  <2>1. ASSUME NEW i \in acked', NEW j \in 1..n + 1, NEW f, f = log'[j].fact, i < j,
               log'[j].kind = "memory", log'[j].replaces = {}, Twin(f, i)', ~(i > log'[j].seen)
        PROVE  \E d \in Dead' : d <= log'[j].seen /\ (d = i \/ Closer(f, d, i)')
    <3>1. i \in 1..n /\ i \in acked
      BY <1>1, <1>6, <2>1
    <3>2. Twin(f, i)
      BY <1>5, <2>1, <3>1
    <3>3. CASE j \in 1..n
      <4>1. log'[j] = log[j] /\ j \in Record
        BY <1>1, <1>3, <3>3
      <4>2. PICK d \in Dead : d <= log[j].seen /\ (d = i \/ Closer(f, d, i))
        BY <1>1, <2>1, <3>1, <3>2, <4>1 DEF StoredTwiceOnlyIf, Twin
      <4>3. d \in 1..n
        BY <1>1, <4>2 DEF Dead, TypeOK
      <4> QED BY <1>4, <1>5, <3>1, <4>1, <4>2, <4>3
    <3>4. CASE j = n + 1
      <4>1. f = c.fact /\ log'[j].seen = c.seen /\ c.replaces = {} /\ c.kind = "memory"
        BY <1>2, <1>3, <2>1, <3>4
      <4>2. SawNearest(c) /\ c.seen \in Nat /\ c.same \subseteq Nat
        BY <1>1, <4>1 DEF WriterOK, Writer
      <4>3. i <= c.seen
        BY <1>1, <2>1, <3>1, <4>1, <4>2
      <4>4. PICK d \in c.same : d = i \/ Closer(f, d, i)
        BY <3>1, <3>2, <4>1, <4>2, <4>3 DEF SawNearest
      <4>5. d \in Dead /\ d <= c.seen /\ d \in 1..n
        BY <1>1, <4>2, <4>4 DEF SawNearest, WriterOK, n
      <4> QED BY <1>4, <1>5, <3>1, <4>1, <4>4, <4>5
    <3>5. j = n + 1 \/ j \in 1..n
      BY <1>1
    <3> QED BY <3>3, <3>4, <3>5
  <2>2. ASSUME NEW i \in acked', NEW j \in 1..n + 1, i < j,
               log'[i].kind = "memory", log'[j].kind = "memory",
               log'[j].replaces = {}, Distance[log'[j].fact][log'[i].fact] <= SameWithin,
               ~(i > log'[j].seen)
        PROVE  \E d \in Dead' : d <= log'[j].seen /\ (d = i \/ Nearer(log'[j].fact, d, i))
    <3>1. PICK f : f = log'[j].fact
      OBVIOUS
    <3>2. Twin(f, i)'
      BY <2>2, <3>1 DEF Twin
    <3>3. PICK d \in Dead' : d <= log'[j].seen /\ (d = i \/ Closer(f, d, i)')
      BY <2>1, <2>2, <3>1, <3>2
    <3> QED BY <3>1, <3>3 DEF Closer
  <2> QED BY <1>3, <2>2 DEF StoredTwiceOnlyIf, Closer
<1> QED BY <1>7, <1>8, <1>10, <1>11 DEF IInv

LEMMA WriteIInv ==
    ASSUME IInv, NEW w \in Store, Write(w)
    PROVE  IInv'
<1>1. Len(log) \in Nat /\ acked \subseteq 1..Len(log)
  BY RecordInterval DEF IInv, Types
<1>2. /\ Writing(w, "write") /\ log' = Append(log, NewRecord(call[w])) /\ Return(w)
      /\ acked' = acked \cup {Len(log) + 1} /\ size' = [r \in Replica |-> Len(log) + 1]
  BY DEF Write
<1>3. acked' \subseteq 1..Len(log) + 1
  <2>1. 1..Len(log) \subseteq 1..Len(log) + 1 /\ Len(log) + 1 \in 1..Len(log) + 1
    BY <1>1
  <2>2. acked' = acked \cup {Len(log) + 1}
    BY <1>2
  <2> QED BY <1>1, <2>1, <2>2, Zenon
<1>4. size' \in [Replica -> Nat]
  BY <1>1, <1>2
<1>5. \A r \in Replica : size'[r] \in 0..Len(log) + 1 /\ acked' \subseteq 1..size'[r]
  BY <1>1, <1>2, <1>3
<1> QED BY <1>2, <1>4, <1>5, NewRecordStep

LEMMA WriteFailsIInv ==
    ASSUME IInv, NEW w \in Store, NEW reached \in SUBSET Replica, WriteFails(w, reached)
    PROVE  IInv'
<1>1. /\ Types /\ Len(log) \in Nat /\ acked \subseteq 1..Len(log)
  BY RecordInterval DEF IInv, Types
<1>2. /\ Writing(w, "write") /\ log' = Append(log, NewRecord(call[w])) /\ Return(w)
      /\ acked' = acked /\ \A r \in Replica : size[r] = Len(log)
      /\ size' = [r \in Replica |-> size[r] + (IF r \in reached THEN 1 ELSE 0)]
  BY DEF WriteFails, InSync
<1>3. \A r \in Replica : size'[r] \in {Len(log), Len(log) + 1}
  <2> TAKE r \in Replica
  <2>1. size'[r] = size[r] + (IF r \in reached THEN 1 ELSE 0) /\ size[r] = Len(log)
    BY <1>2
  <2> QED BY <1>1, <2>1
<1>4. size' \in [Replica -> Nat]
  <2>1. \A r \in Replica : size[r] + (IF r \in reached THEN 1 ELSE 0) \in Nat
    BY <1>1, <1>2
  <2> QED BY <1>2, <2>1
<1>5. \A r \in Replica : size'[r] \in 0..Len(log) + 1 /\ acked' \subseteq 1..size'[r]
  BY <1>1, <1>2, <1>3
<1> QED BY <1>2, <1>4, <1>5, NewRecordStep

-----------------------------------------------------------------------------
LEMMA StepIInv == IInv /\ [Next]_vars => IInv'
<1> SUFFICES ASSUME IInv, [Next]_vars PROVE IInv'
  OBVIOUS
<1>1. ASSUME NEW w \in Store, NEW r \in Replica, NEW f \in Fact, Near(w, f, r) \/ Search(w, f, r)
      PROVE  IInv'
  BY <1>1, NearIInv, SearchIInv
<1>2. ASSUME NEW w \in Store, NEW r \in Replica, NEW targets \in (SUBSET Record) \ {{}},
             NEW new \in Naming(targets), Find(w, new, r)
      PROVE  IInv'
  BY <1>2, FindIInv
<1>3. ASSUME NEW w \in Store, NEW r \in Replica, Live(w, r) \/ Check(w, r)
      PROVE  IInv'
  BY <1>3, LiveIInv, CheckIInv
<1>4. ASSUME NEW w \in Store, Write(w) \/ Drop(w) \/ Raises(w)
      PROVE  IInv'
  BY <1>4, WriteIInv, ReturnIInv
<1>5. ASSUME NEW w \in Store, NEW reached \in SUBSET Replica, WriteFails(w, reached)
      PROVE  IInv'
  BY <1>5, WriteFailsIInv
<1>6. CASE UNCHANGED vars
  <2>1. /\ log' = log /\ acked' = acked /\ size' = size /\ call' = call
        /\ Record' = Record /\ Dead' = Dead
        /\ \A f, i, j : (Closer(f, i, j)' <=> Closer(f, i, j)) /\ (Twin(f, i)' <=> Twin(f, i))
    BY <1>6 DEF vars, Record, Dead, Closer, Twin
  <2>2. StoredTwiceOnlyIf'
    BY <2>1 DEF IInv, StoredTwiceOnlyIf
  <2>3. Types' /\ TypeOK'
    BY <2>1 DEF IInv, Types, TypeOK
  <2>4. \A d : SawNearest(d)' <=> SawNearest(d)
    BY <2>1 DEF SawNearest
  <2>5. CallsOK'
    BY <2>1, <2>4 DEF IInv, CallsOK, CallOK, WriterOK, ReaderOK, Candidates
  <2> QED BY <2>2, <2>3, <2>5 DEF IInv
<1> QED BY <1>1, <1>2, <1>3, <1>4, <1>5, <1>6, RepairIInv DEF Next

\* What the theorems below rest on, whatever the calls of the stores interleave.
THEOREM InvariantIInv == Spec => []IInv
BY InitIInv, StepIInv, PTL DEF Spec

\* TypeOK: records name only memories written before them, and an acknowledged record
\* is on every replica, however writes failed (remember, forget).
THEOREM TypeCorrect == Spec => []TypeOK
<1>1. IInv => TypeOK
  BY DEF IInv
<1> QED BY <1>1, InvariantIInv, PTL

\* OutOfUseIsNotRecalled: what was replaced or forgotten before a recall began is not
\* in its answer, whichever store asks and whichever replica answers, as long as
\* one lookup can return all the records that name a candidate (_replaced, MAX_LOOKUP).
THEOREM OutOfUseNotRecalled == Spec => []OutOfUseIsNotRecalled
<1>1. IInv => OutOfUseIsNotRecalled
  <2> SUFFICES ASSUME IInv, NEW w \in Store, NEW r \in Replica, Recalling(w),
                      Cardinality(NameOneOf(call[w].hits, r)) <= MaxLookup,
                      NEW i \in call[w].stored
               PROVE  Answer(w, r) \cap log[i].replaces = {}
    BY DEF OutOfUseIsNotRecalled
  <2> DEFINE naming == NameOneOf(call[w].hits, r)
  <2>1. call[w] \in Reader /\ i \in acked
    BY DEF IInv, Types, Call, Idle, Writer, Kind, Recalling, CallsOK, CallOK, ReaderOK
  <2>2. i \in 1..size[r]
    BY <2>1 DEF IInv, TypeOK
  <2>3. call[w].hits \cap log[i].replaces \subseteq Replaced(call[w].hits, r)
    <3>1. naming \in SUBSET Record /\ Types
      BY RecordInterval DEF NameOneOf, IInv, TypeOK
    <3>2. Lookup(naming) = naming
      <4> HIDE DEF naming
      <4>1. Cardinality(naming) <= MaxLookup
        BY DEF naming
      <4> QED BY <3>1, <4>1, LookupFinds
    <3> QED BY <2>2, <3>2 DEF Replaced, NameOneOf
  <2>4. Answer(w, r) \subseteq call[w].hits \ Replaced(call[w].hits, r)
    BY DEF Answer, Best
  <2> QED BY <2>3, <2>4
<1> QED BY <1>1, InvariantIInv, PTL

\* StoredTwiceOnlyIf: remember stores a fact it has already only if the calls overlapped
\* or a memory out of use hid it (remember, DUPLICATE_SIMILARITY).
THEOREM StoredTwiceOnlyThen == Spec => []StoredTwiceOnlyIf
<1>1. IInv => StoredTwiceOnlyIf
  BY DEF IInv
<1> QED BY <1>1, InvariantIInv, PTL

-----------------------------------------------------------------------------
\* Of what is left of the candidates, the answer has the K most similar, or all.
LEMMA BestOnes ==
    ASSUME Types, NEW q \in Fact, NEW ids \in SUBSET {j \in Record : log[j].kind = "memory"}
    PROVE  /\ Cardinality(ids) <= K => Best(q, ids) = ids
           /\ K <= Cardinality(ids) => Cardinality(Best(q, ids)) = K
<1> DEFINE Ahead(j, i) == \/ Distance[q][log[j].fact] < Distance[q][log[i].fact]
                          \/ Distance[q][log[j].fact] = Distance[q][log[i].fact] /\ j > i
           Under == [x \in ids |-> {y \in ids : Ahead(y, x)}]
<1>1. IsFiniteSet(ids)
  BY RecordFinite
<1>2. \A i \in ids : Distance[q][log[i].fact] \in Nat /\ i \in Nat
  <2>1. \A i \in ids : log[i].fact \in Fact /\ i \in Nat
    BY RecordInterval DEF Types
  <2> QED BY <2>1, ConstantsAssumption
<1>3. /\ \A x \in ids : ~Ahead(x, x)
      /\ \A x, y, z \in ids : Ahead(x, y) /\ Ahead(y, z) => Ahead(x, z)
      /\ \A x, y \in ids : x = y \/ Ahead(x, y) \/ Ahead(y, x)
  BY <1>2
<1>4. /\ Best(q, ids) \in SUBSET ids
      /\ \A x \in ids : x \in Best(q, ids) <=> Cardinality(Under[x]) < K
  BY DEF Best
<1> HIDE DEF Ahead
<1>5. /\ Under \in [ids -> SUBSET ids] /\ \A x \in ids : x \notin Under[x]
      /\ \A x, y, z \in ids : x \in Under[y] /\ y \in Under[z] => x \in Under[z]
      /\ \A x, y \in ids : x = y \/ x \in Under[y] \/ y \in Under[x]
  BY <1>3
<1> HIDE DEF Under
<1> QED BY <1>1, <1>4, <1>5, CandidatesNat, LowestOnes

\* KeptIsRecalled: a memory in use is returned, or K others are, unless so many are out
\* of use that they may have taken all the places among the candidates, however
\* many memories, stores and calls there are (recall, "4 x k candidates").
THEOREM KeptAreRecalled == Spec => []KeptIsRecalled
<1>1. IInv => KeptIsRecalled
  <2> SUFFICES ASSUME IInv, NEW w \in Store, NEW r \in Replica, Recalling(w),
                      NEW i \in call[w].stored, log[i].kind = "memory", i \notin Dead,
                      ~(Cardinality(Dead) > K * (CANDIDATES - 1))
               PROVE  i \in Answer(w, r) \/ Cardinality(Answer(w, r)) = K
    BY DEF KeptIsRecalled, Recalling
  <2> DEFINE c == call[w]
             out  == Replaced(c.hits, r)
             left == c.hits \ out
  <2>1. /\ c \in Reader /\ c.hits \in SUBSET {j \in Record : log[j].kind = "memory"}
        /\ i \in Record /\ (i \in c.hits \/ Cardinality(c.hits) = Candidates) /\ Types /\ TypeOK
    BY DEF IInv, Types, Call, Idle, Writer, Kind, Recalling, CallsOK, CallOK, ReaderOK
  <2>2. out \subseteq Dead /\ Dead \subseteq Record
    <3>1. Lookup(NameOneOf(c.hits, r)) \subseteq 1..size[r]
      BY DEF Lookup, NameOneOf
    <3> QED BY <2>1, <3>1, RecordInterval DEF Replaced, Dead, TypeOK
  <2>3. /\ IsFiniteSet(Dead) /\ IsFiniteSet(c.hits) /\ IsFiniteSet(left)
        /\ Cardinality(left) = Cardinality(c.hits) - Cardinality(c.hits \cap out)
    BY <2>1, <2>2, RecordFinite, FS_Difference
  <2>4. Answer(w, r) = Best(c.query, left) /\ c.query \in Fact
    BY <2>1 DEF Answer, Reader
  <2>5. /\ Cardinality(left) <= K => Best(c.query, left) = left
        /\ K <= Cardinality(left) => Cardinality(Best(c.query, left)) = K
    <3>1. left \in SUBSET {j \in Record : log[j].kind = "memory"}
      BY <2>1
    <3> QED BY <2>1, <2>4, <3>1, BestOnes
  <2>6. CASE i \in c.hits
    <3>1. i \in left
      BY <2>2, <2>6
    <3>2. Cardinality(left) \in Nat
      BY <2>3, FS_CardinalityType
    <3> HIDE DEF left
    <3>3. i \in Best(c.query, left) \/ Cardinality(Best(c.query, left)) = K
      BY <2>5, <3>1, <3>2, CandidatesNat
    <3> QED BY <2>4, <3>3
  <2>7. CASE Cardinality(c.hits) = Candidates
    <3>1. Cardinality(c.hits \cap out) <= Cardinality(Dead)
      BY <2>2, <2>3, c.hits \cap out \in SUBSET Dead, FS_Subset
    <3>2. Cardinality(Dead) \in Nat /\ Cardinality(c.hits \cap out) \in Nat
      BY <2>3, FS_Intersection, FS_CardinalityType
    <3>3. K * (CANDIDATES - 1) = Candidates - K
      BY ConstantsAssumption DEF Candidates
    <3>4. K <= Cardinality(left)
      BY <2>3, <2>7, <3>1, <3>2, <3>3, CandidatesNat
    <3> QED BY <2>4, <2>5, <3>4
  <2> QED BY <2>1, <2>6, <2>7
<1> QED BY <1>1, InvariantIInv, PTL
=============================================================================
