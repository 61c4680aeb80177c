---------------------------- MODULE MemoryStore ----------------------------
(***************************************************************************)
(* The memories of one owner (vsearch/memory.py): facts are stored in the  *)
(* owner's namespace, and taken out of use by records that name them,      *)
(* because the engine cannot delete.                                       *)
(*                                                                         *)
(* Several stores serve the owner at once, and each call is several calls  *)
(* of the cluster: a search, a lookup of what was replaced, a write.  The  *)
(* steps of two stores interleave; the writes themselves do not overlap    *)
(* (one coordinator at a time), and a write that fails may have reached    *)
(* some of the replicas, after which writes are refused until a repair.    *)
(* Distances are in units of 0.03: a recency bonus is less than one unit.  *)
(***************************************************************************)
EXTENDS Integers, Sequences, FiniteSets

CONSTANTS
    Store,          \* the stores that serve the owner
    Replica,        \* the replicas of the owner's shard
    Fact, Distance, \* Distance[f][g]: how far apart the vectors of two facts are
    FromOnes,       \* FromOnes[f]: how far the vector of a record is from the vector of ones
    SameWithin,     \* DUPLICATE_SIMILARITY, as a distance
    MaxLookup,      \* MAX_LOOKUP: how many records one lookup returns
    K, CANDIDATES,  \* how many facts a recall returns, and how many times more it looks at
    MaxRecords, MaxFailures     \* bounds

ASSUME ConstantsAssumption ==
    /\ Distance \in [Fact -> [Fact -> Nat]] /\ SameWithin \in Nat
    /\ FromOnes \in [Fact \cup {"none"} -> Nat] /\ MaxLookup \in Nat \ {0}
    /\ K \in Nat \ {0} /\ CANDIDATES \in Nat \ {0}
    /\ MaxRecords \in Nat /\ MaxFailures \in Nat

VARIABLES
    log,     \* the records, in the order they were written
    size,    \* size[r]: how many of them replica r has
    acked,   \* records whose write was acknowledged
    call     \* call[w]: what store w is doing

vars == <<log, size, acked, call>>

Idle   == [kind |-> "idle"]
Record == DOMAIN log

Init ==
    /\ log = <<>> /\ size = [r \in Replica |-> 0] /\ acked = {}
    /\ call = [w \in Store |-> Idle]

-----------------------------------------------------------------------------
(***************************************************************************)
(* What one search of the owner's namespace returns, on replica r.         *)
(***************************************************************************)
Memories(r) == {i \in 1..size[r] : log[i].kind = "memory"}

\* By distance, then the older one (the smaller global id).
Closer(f, i, j) == \/ Distance[f][log[i].fact] < Distance[f][log[j].fact]
                   \/ Distance[f][log[i].fact] = Distance[f][log[j].fact] /\ i < j

\* search_hits with the filter {"type": "memory"}.
Hits(f, k, r) == {i \in Memories(r) : Cardinality({j \in Memories(r) : Closer(f, j, i)}) < k}

\* By distance from the vector of ones, then the older one.
Before(i, j) == \/ FromOnes[log[i].fact] < FromOnes[log[j].fact]
                \/ FromOnes[log[i].fact] = FromOnes[log[j].fact] /\ i < j

\* Mutant: a lookup returns no more records than a recall returns facts.
LookupFew(matches) == {i \in matches : Cardinality({j \in matches : Before(j, i)}) < K}

\* _lookup: of the records that match, as many as one lookup returns.
Lookup(matches) == {i \in matches : Cardinality({j \in matches : Before(j, i)}) < MaxLookup}

\* The records that name one of the ids.
NameOneOf(ids, r) == {i \in 1..size[r] : log[i].replaces \cap ids # {}}

\* _replaced: which of the ids one of the records that are returned names.
Replaced(ids, r) == ids \cap UNION {log[i].replaces : i \in Lookup(NameOneOf(ids, r))}

\* Mutant: the limit itself counts as another fact.
SameBelow(f, i) == Distance[f][log[i].fact] < SameWithin

Same(f, i) == Distance[f][log[i].fact] <= SameWithin

-----------------------------------------------------------------------------
(***************************************************************************)
(* Every action is one call of the cluster; what a store does by itself    *)
(* before its first call is part of it.                                    *)
(***************************************************************************)
Writing(w, phase) == call[w].kind \in {"memory", "forget"} /\ call[w].phase = phase

GoOn(w, phase) == call' = [call EXCEPT ![w].phase = phase]
Return(w)      == call' = [call EXCEPT ![w] = Idle]

\* remember without memories to replace: the one nearest memory may be the same fact.
Near(w, f, r) ==
    /\ call[w] = Idle /\ Len(log) < MaxRecords
    /\ LET same == {i \in Hits(f, 1, r) : Same(f, i)} IN
       call' = [call EXCEPT ![w] =
           [kind |-> "memory", fact |-> f, replaces |-> {}, seen |-> size[r],
            phase |-> IF same = {} THEN "write" ELSE "check", same |-> same]]
    /\ UNCHANGED <<log, size, acked>>

\* Has it been replaced?  If not, its id is returned and nothing is stored.
Check(w, r) ==
    /\ Writing(w, "check")
    /\ IF Replaced(call[w].same, r) = {} THEN Return(w) ELSE GoOn(w, "write")
    /\ UNCHANGED <<log, size, acked>>

\* The calls that name memories: remember with some to replace, and forget, whose
\* record is stored just anywhere.
Naming(targets) ==
    [kind : {"memory"}, fact : Fact, replaces : {targets}, seen : {0}, phase : {"live"}, same : {{}}]
    \cup {[kind |-> "forget", fact |-> "none", replaces |-> {t}, seen |-> 0, phase |-> "live",
           same |-> {}] : t \in {u \in targets : targets = {u}}}

\* _live_ids looks the ids up, and finds each of them ...
Find(w, new, r) ==
    /\ call[w] = Idle /\ Len(log) < MaxRecords
    /\ new.replaces \subseteq Lookup(new.replaces \cap Memories(r))
    /\ call' = [call EXCEPT ![w] = new]
    /\ UNCHANGED <<log, size, acked>>

\* ... that nothing replaces (second lookup).
Live(w, r) ==
    /\ Writing(w, "live")
    /\ IF Replaced(call[w].replaces, r) = {} THEN GoOn(w, "write") ELSE Return(w)
    /\ UNCHANGED <<log, size, acked>>

\* seen is history: how many records there were when the nearest was looked for.
NewRecord(c) == [kind |-> c.kind, fact |-> c.fact, replaces |-> c.replaces, seen |-> c.seen]

InSync == \A r \in Replica : size[r] = Len(log)

\* _write: the record goes to every replica, or to none if they differ.
Write(w) ==
    /\ Writing(w, "write") /\ InSync /\ Len(log) < MaxRecords
    /\ log' = Append(log, NewRecord(call[w]))
    /\ size' = [r \in Replica |-> Len(log) + 1]
    /\ acked' = acked \cup {Len(log) + 1}
    /\ Return(w)

\* Mutant: a write is acknowledged as soon as one replica has it.
WriteFailsAcked(w, reached) ==
    /\ Writing(w, "write") /\ InSync /\ Len(log) < MaxRecords
    /\ Cardinality(Record \ acked) < MaxFailures
    /\ log' = Append(log, NewRecord(call[w]))
    /\ size' = [r \in Replica |-> size[r] + (IF r \in reached THEN 1 ELSE 0)]
    /\ acked' = acked \cup {Len(log) + 1}
    /\ Return(w)

\* It fails after it has reached some of them, perhaps all.
WriteFails(w, reached) ==
    /\ Writing(w, "write") /\ InSync /\ Len(log) < MaxRecords
    /\ Cardinality(Record \ acked) < MaxFailures
    /\ log' = Append(log, NewRecord(call[w]))
    /\ size' = [r \in Replica |-> size[r] + (IF r \in reached THEN 1 ELSE 0)]
    /\ Return(w) /\ UNCHANGED acked

-----------------------------------------------------------------------------
\* Mutant: only as many candidates as facts are wanted.
CandidatesOnce == K

Candidates == K * CANDIDATES

\* recall.  stored is history: what had been acknowledged when the call began.
\* A recall changes nothing, so one at a time is enough.
Search(w, q, r) ==
    /\ call[w] = Idle /\ \A v \in Store : call[v].kind # "recall"
    /\ call' = [call EXCEPT ![w] = [kind |-> "recall", query |-> q, stored |-> acked,
                                    hits |-> Hits(q, Candidates, r)]]
    /\ UNCHANGED <<log, size, acked>>

\* The best by similarity; the bonus decides between those that are equally similar.
Best(q, ids) ==
    {i \in ids : Cardinality({j \in ids :
        \/ Distance[q][log[j].fact] < Distance[q][log[i].fact]
        \/ Distance[q][log[j].fact] = Distance[q][log[i].fact] /\ j > i}) < K}

Recalling(w) == call[w].kind = "recall"

\* What is returned: without those that were replaced, as it is by now.
Answer(w, r) == Best(call[w].query, call[w].hits \ Replaced(call[w].hits, r))

Drop(w) ==
    /\ Recalling(w) /\ Return(w)
    /\ UNCHANGED <<log, size, acked>>

\* Every replica of the shard fails, or the write is refused because they differ.
Raises(w) ==
    /\ call[w] # Idle /\ Return(w)
    /\ UNCHANGED <<log, size, acked>>

\* vsearch repair: the replicas that are behind catch up.
Repair ==
    /\ ~InSync
    /\ size' = [r \in Replica |-> Len(log)]
    /\ UNCHANGED <<log, acked, call>>

Next ==
    \/ \E w \in Store :
          \/ \E r \in Replica :
                \/ \E f \in Fact : Near(w, f, r) \/ Search(w, f, r)
                \/ \E targets \in (SUBSET Record) \ {{}} :
                      \E new \in Naming(targets) : Find(w, new, r)
                \/ Live(w, r) \/ Check(w, r)
          \/ Write(w) \/ Drop(w) \/ Raises(w)
          \/ \E reached \in SUBSET Replica : reached # {} /\ WriteFails(w, reached)
    \/ Repair

Spec == Init /\ [][Next]_vars

-----------------------------------------------------------------------------
Dead == UNION {log[i].replaces : i \in Record}

\* Only what had been written is ever named by a record, and only memories are
\* returned; an acknowledged record is on every replica (remember, forget).
TypeOK ==
    /\ \A i \in Record :
          /\ log[i].kind \in {"memory", "forget"} /\ log[i].seen \in 0..i - 1
          /\ log[i].replaces \subseteq {j \in 1..i - 1 : log[j].kind = "memory"}
    /\ \A r \in Replica : size[r] \in 0..Len(log) /\ acked \subseteq 1..size[r]

\* A memory whose replacing or forgetting was acknowledged before a recall began is not
\* returned by it, by any store and whichever replica answers, unless more records
\* name a candidate than one lookup returns (_replaced, MAX_LOOKUP).
OutOfUseIsNotRecalled ==
    \A w \in Store, r \in Replica :
        Recalling(w) /\ Cardinality(NameOneOf(call[w].hits, r)) <= MaxLookup =>
            \A i \in call[w].stored : Answer(w, r) \cap log[i].replaces = {}

\* A memory that was stored when the recall began and is still in use is returned,
\* or K others are, unless so many are out of use that they may have taken all
\* the places among the candidates (recall).
KeptIsRecalled ==
    \A w \in Store, r \in Replica : Recalling(w) =>
        \A i \in call[w].stored :
            \/ i \in Answer(w, r) \/ Cardinality(Answer(w, r)) = K
            \/ log[i].kind # "memory" \/ i \in Dead
            \/ Cardinality(Dead) > K * (CANDIDATES - 1)

\* A fact that is already remembered is stored again only if the two calls overlapped,
\* or a memory no farther away that is out of use hides the first one: only
\* the nearest one is looked at (remember).
StoredTwiceOnlyIf ==
    \A i \in acked, j \in Record :
        (/\ log[i].kind = "memory" /\ log[j].kind = "memory" /\ i < j
         /\ log[j].replaces = {} /\ Distance[log[j].fact][log[i].fact] <= SameWithin)
        => \/ i > log[j].seen
           \/ \E d \in Dead : d <= log[j].seen /\ (d = i \/ Closer(log[j].fact, d, i))
=============================================================================
