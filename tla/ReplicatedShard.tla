--------------------------- MODULE ReplicatedShard ---------------------------
(***************************************************************************)
(* The replicas of one shard and the coordinators that write to it and     *)
(* repair it (vsearch/client.py, and SyncFrom in vsearch/server.py), at    *)
(* the granularity of remote calls.                                        *)
(*                                                                         *)
(* A replica is a durable log (module DurableLog, implemented by           *)
(* DurableShard with its files): the sequence of writes it has applied,    *)
(* which a crash of its server leaves as it is.  A write is one chunk of   *)
(* one add(); chunks are numbered in the order they are first sent, so a   *)
(* caller's second attempt is another write, with ids of its own.          *)
(***************************************************************************)
EXTENDS Integers, Sequences, FiniteSets

CONSTANTS
    Replica,        \* the replicas of the shard
    Nobody,         \* not a replica
    Coordinator,    \* client processes: a CLI command, an MCP server, ...
    CallersRefresh, \* is refresh() called before every add()?
    Stragglers,     \* may a request outlive the call that sent it?
    MaxWrites,      \* bound on the number of chunks sent
    MaxLosses       \* bound on the number of disks lost

ASSUME ConstantsAssumption ==
    /\ Replica # {} /\ Coordinator # {}
    /\ IsFiniteSet(Replica) /\ Nobody \notin Replica
    /\ CallersRefresh \in BOOLEAN /\ Stragglers \in BOOLEAN
    /\ MaxWrites \in Nat /\ MaxLosses \in Nat

VARIABLES
    \* Replicas.
    log,        \* log[r]: the writes r has applied; r's last_seq is its length
    base,       \* base[r]: snapshot_seq, how far r's log is folded into its snapshot
    up,         \* the set of replicas whose server runs
    losses,     \* disks lost so far
    \* The SyncFrom handler of a replica, which holds the replica's lock.
    step,       \* "idle", or the next call of catch_up: "log", "apply", "snapshot"
    peer,       \* the replica it copies from
    pending,    \* records received and not yet applied
    attempts,   \* attempts left
    \* Coordinators.
    phase,      \* what the coordinator is doing
    last_seqs,  \* last write all replicas agree on, or Unknown
    seen,       \* the last_seq each replica reported to it, or Unknown, or Settled
    request,    \* the Add request it is waiting for
    calls,      \* the state of that request's call to each replica
    syncing,    \* the replica whose SyncFrom it waits for, if any
    \* The network and the history.
    requests,   \* Add requests on their way, or waiting for a replica's lock
    sent,       \* number of writes sent so far
    acked       \* the writes whose add() went on to the next chunk or returned

replicas     == <<log, base>>
handlers     == <<step, peer, pending, attempts>>
coordinators == <<phase, last_seqs, seen, request, calls, syncing>>
vars         == <<replicas, up, losses, handlers, coordinators, requests, sent, acked>>

Unknown == -1      \* None in _last_seqs; no answer to Status yet
Settled == -2      \* repair() passes over it: not reachable, or level by now

NoRequest == [seq |-> 0, write |-> 0]
NoCalls   == [r \in Replica |-> "none"]
NoAnswers == [r \in Replica |-> Unknown]

Init ==
    /\ log = [r \in Replica |-> <<>>] /\ base = [r \in Replica |-> 0]
    /\ up = Replica /\ losses = 0
    /\ step = [r \in Replica |-> "idle"] /\ peer = [r \in Replica |-> Nobody]
    /\ pending = [r \in Replica |-> <<>>] /\ attempts = [r \in Replica |-> 0]
    /\ phase = [c \in Coordinator |-> "idle"]
    /\ last_seqs = [c \in Coordinator |-> Unknown]
    /\ seen = [c \in Coordinator |-> NoAnswers]
    /\ request = [c \in Coordinator |-> NoRequest]
    /\ calls = [c \in Coordinator |-> NoCalls]
    /\ syncing = [c \in Coordinator |-> Nobody]
    /\ requests = {} /\ sent = 0 /\ acked = {}

-----------------------------------------------------------------------------
(***************************************************************************)
(* Replicas: Add and Status.                                               *)
(***************************************************************************)
\* A request is served when the server runs and nobody holds the lock.
Serves(r) == r \in up /\ step[r] = "idle"

\* add_batch: one more write; it may checkpoint, which empties the log file.
Extend(r, w) ==
    /\ log' = [log EXCEPT ![r] = Append(@, w)]
    /\ base' \in {base, [base EXCEPT ![r] = Len(log[r]) + 1]}

\* Mutant: a replica takes any write it is sent as its own next one.
AcceptsAny(r, m) == Serves(r)

\* Exactly the next number is accepted.
Accepts(r, m) == Serves(r) /\ m.seq = Len(log[r]) + 1

\* The caller learns the outcome, if it is still waiting.
Answer(m, outcome) ==
    calls' = [c \in Coordinator |->
                 IF request[c].write = m.write /\ calls[c][m.replica] = "sent"
                   THEN [calls[c] EXCEPT ![m.replica] = outcome] ELSE calls[c]]

\* The reply may be lost with the connection, or come after the deadline.
HandleAdd(m) ==
    /\ Accepts(m.replica, m)
    /\ Extend(m.replica, m.write)
    /\ \E outcome \in {"ok", "failed"} : Answer(m, outcome)
    /\ requests' = requests \ {m}
    /\ UNCHANGED <<up, losses, handlers, phase, last_seqs, seen, request, syncing,
                   sent, acked>>

\* OutOfOrderWrite.
RejectAdd(m) ==
    /\ Serves(m.replica) /\ ~Accepts(m.replica, m)
    /\ Answer(m, "failed")
    /\ requests' = requests \ {m}
    /\ UNCHANGED <<replicas, up, losses, handlers, phase, last_seqs, seen, request,
                   syncing, sent, acked>>

Sent(c, r) == [replica |-> r, seq |-> request[c].seq, write |-> request[c].write]

\* The calls of c to these replicas end without an answer.  A server that
\* runs may still have the request, waiting for the lock.
Abandon(c, given_up) ==
    \E kept \in SUBSET given_up :
        /\ kept # {} => Stragglers /\ kept \subseteq up
        /\ requests' = requests \ {Sent(c, r) : r \in given_up \ kept}

CallFails(c, r) ==
    /\ calls[c][r] = "sent"
    /\ calls' = [calls EXCEPT ![c][r] = "failed"]
    /\ Abandon(c, {r})
    /\ UNCHANGED <<replicas, up, losses, handlers, phase, last_seqs, seen, request,
                   syncing, sent, acked>>

-----------------------------------------------------------------------------
(***************************************************************************)
(* add(): check the positions, then send chunk after chunk to every        *)
(* replica and wait for all of them.                                       *)
(***************************************************************************)
Writing == {"check", "send", "wait"}

\* One coordinator writes at a time.
StartAdd(c) ==
    /\ phase[c] = "idle" /\ sent < MaxWrites
    /\ \A d \in Coordinator : phase[d] \notin Writing
    /\ last_seqs' = IF CallersRefresh THEN [last_seqs EXCEPT ![c] = Unknown] ELSE last_seqs
    /\ phase' = [phase EXCEPT ![c] = IF last_seqs'[c] = Unknown THEN "check" ELSE "send"]
    /\ seen' = [seen EXCEPT ![c] = NoAnswers]
    /\ UNCHANGED <<replicas, up, losses, handlers, request, calls, syncing,
                   requests, sent, acked>>

\* A Status call, of _check_shards or of repair.
Status(c, r) ==
    /\ phase[c] \in {"check", "poll"} /\ seen[c][r] = Unknown
    /\ Serves(r)
    /\ seen' = [seen EXCEPT ![c][r] = Len(log[r])]
    /\ UNCHANGED <<replicas, up, losses, handlers, phase, last_seqs, request, calls,
                   syncing, requests, sent, acked>>

\* The method returns or raises; its local variables are gone.
Leave(c) ==
    /\ phase' = [phase EXCEPT ![c] = "idle"]
    /\ seen' = [seen EXCEPT ![c] = NoAnswers]
    /\ request' = [request EXCEPT ![c] = NoRequest]
    /\ calls' = [calls EXCEPT ![c] = NoCalls]
    /\ syncing' = [syncing EXCEPT ![c] = Nobody]

\* A replica does not answer Status: the write fails before anything is sent.
CheckFails(c) ==
    /\ phase[c] = "check" /\ \E r \in Replica : seen[c][r] = Unknown
    /\ Leave(c)
    /\ UNCHANGED <<replicas, up, losses, handlers, last_seqs, requests, sent, acked>>

Agree(c) == \A q, r \in Replica : seen[c][q] = seen[c][r]

\* Mutant: one replica's answer is taken without comparing it to the others'.
CheckedUncompared(c) ==
    /\ phase[c] = "check" /\ \A r \in Replica : seen[c][r] # Unknown
    /\ \E r \in Replica : last_seqs' = [last_seqs EXCEPT ![c] = seen[c][r]]
    /\ phase' = [phase EXCEPT ![c] = "send"]
    /\ seen' = [seen EXCEPT ![c] = NoAnswers]
    /\ UNCHANGED <<replicas, up, losses, handlers, request, calls, syncing,
                   requests, sent, acked>>

\* All have answered: go on if they agree ...
Checked(c) ==
    /\ phase[c] = "check" /\ \A r \in Replica : seen[c][r] # Unknown
    /\ Agree(c)
    /\ \E r \in Replica : last_seqs' = [last_seqs EXCEPT ![c] = seen[c][r]]
    /\ phase' = [phase EXCEPT ![c] = "send"]
    /\ seen' = [seen EXCEPT ![c] = NoAnswers]
    /\ UNCHANGED <<replicas, up, losses, handlers, request, calls, syncing,
                   requests, sent, acked>>

\* ... else ReplicasOutOfSyncError.
OutOfSync(c) ==
    /\ phase[c] = "check" /\ \A r \in Replica : seen[c][r] # Unknown
    /\ ~Agree(c)
    /\ Leave(c)
    /\ UNCHANGED <<replicas, up, losses, handlers, last_seqs, requests, sent, acked>>

SendChunk(c) ==
    /\ phase[c] = "send" /\ sent < MaxWrites
    /\ sent' = sent + 1
    /\ request' = [request EXCEPT ![c] = [seq |-> last_seqs[c] + 1, write |-> sent']]
    /\ calls' = [calls EXCEPT ![c] = [r \in Replica |-> "sent"]]
    /\ requests' = requests \cup {[replica |-> r, seq |-> last_seqs[c] + 1, write |-> sent'] :
                                    r \in Replica}
    /\ phase' = [phase EXCEPT ![c] = "wait"]
    /\ UNCHANGED <<replicas, up, losses, handlers, last_seqs, seen, syncing, acked>>

AllAnswered(c) == phase[c] = "wait" /\ \A r \in Replica : calls[c][r] # "sent"

\* Mutant: one replica's answer is enough.
ChunkOkSomewhere(c) == \E r \in Replica : calls[c][r] = "ok"

ChunkOk(c) == \A r \in Replica : calls[c][r] = "ok"

\* Every replica has the chunk: send the next one, or return.
ChunkDone(c) ==
    /\ AllAnswered(c) /\ ChunkOk(c)
    /\ acked' = acked \cup {request[c]}
    /\ last_seqs' = [last_seqs EXCEPT ![c] = @ + 1]
    /\ \/ Leave(c)
       \/ /\ sent < MaxWrites
          /\ phase' = [phase EXCEPT ![c] = "send"]
          /\ UNCHANGED <<seen, request, calls, syncing>>
    /\ UNCHANGED <<replicas, up, losses, handlers, requests, sent>>

\* Some may have it, some not: forget the positions and raise.
ChunkFails(c) ==
    /\ AllAnswered(c) /\ ~ChunkOk(c)
    /\ last_seqs' = [last_seqs EXCEPT ![c] = Unknown]
    /\ Leave(c)
    /\ UNCHANGED <<replicas, up, losses, handlers, requests, sent, acked>>

-----------------------------------------------------------------------------
(***************************************************************************)
(* repair(): poll the replicas, then let those that are behind copy from   *)
(* the most advanced one, one after the other.                             *)
(***************************************************************************)
StartRepair(c) ==
    /\ phase[c] = "idle"
    /\ phase' = [phase EXCEPT ![c] = "poll"]
    /\ seen' = [seen EXCEPT ![c] = NoAnswers]
    /\ UNCHANGED <<replicas, up, losses, handlers, last_seqs, request, calls, syncing,
                   requests, sent, acked>>

Skip(c, r) ==
    /\ phase[c] = "poll" /\ seen[c][r] = Unknown
    /\ seen' = [seen EXCEPT ![c][r] = Settled]
    /\ UNCHANGED <<replicas, up, losses, handlers, phase, last_seqs, request, calls,
                   syncing, requests, sent, acked>>

Polled(c) ==
    /\ phase[c] = "poll" /\ \A r \in Replica : seen[c][r] # Unknown
    /\ phase' = [phase EXCEPT ![c] = "repair"]
    /\ UNCHANGED <<replicas, up, losses, handlers, last_seqs, seen, request, calls,
                   syncing, requests, sent, acked>>

\* The most advanced replica that answered.
IsSource(c, r) == seen[c][r] # Settled /\ \A q \in Replica : seen[c][q] <= seen[c][r]

IsBehind(c, r) == seen[c][r] # Settled /\ \E q \in Replica : seen[c][q] > seen[c][r]

\* SyncFrom(peer) gets the lock of r.
StartSync(c, r) ==
    /\ phase[c] = "repair" /\ IsBehind(c, r)
    /\ Serves(r)
    /\ \E p \in Replica :
          /\ IsSource(c, p)
          /\ peer' = [peer EXCEPT ![r] = p]
    /\ step' = [step EXCEPT ![r] = "log"]
    /\ attempts' = [attempts EXCEPT ![r] = 3]
    /\ phase' = [phase EXCEPT ![c] = "sync"]
    /\ syncing' = [syncing EXCEPT ![c] = r]
    /\ UNCHANGED <<replicas, up, losses, pending, last_seqs, seen, request, calls,
                   requests, sent, acked>>

\* Status answers an error that is not RETRYABLE, or SyncFrom fails or its deadline
\* passes: repair raises, and leaves _last_seqs as it is.  The handler, if it
\* has started, goes on.
RepairFails(c) ==
    /\ \/ phase[c] = "poll" /\ \E r \in Replica : seen[c][r] = Unknown
       \/ phase[c] = "repair" /\ \E r \in Replica : IsBehind(c, r)
       \/ phase[c] = "sync"
    /\ Leave(c)
    /\ UNCHANGED <<replicas, up, losses, handlers, last_seqs, requests, sent, acked>>

RepairDone(c) ==
    /\ phase[c] = "repair" /\ \A r \in Replica : ~IsBehind(c, r)
    /\ Leave(c)
    /\ last_seqs' = [last_seqs EXCEPT ![c] = Unknown]
    /\ UNCHANGED <<replicas, up, losses, handlers, requests, sent, acked>>

-----------------------------------------------------------------------------
(***************************************************************************)
(* The SyncFrom handler of replica r: catch_up from its peer.              *)
(***************************************************************************)
\* Mutant: a log that begins right after r's last write is refused.
RefusesNext(p, after) == after <= base[p]

\* FetchLog: refused when the peer's log no longer reaches back to r's last
\* write, else the records after it.
Refuses(p, after) == after < base[p]

Bigger(m, n) == IF m > n THEN m ELSE n

\* The records the peer's log file holds above a number.
RecordsAbove(p, first) ==
    [i \in 1 .. Len(log[p]) - first |-> [seq |-> first + i, write |-> log[p][first + i]]]

\* Mutant: r's last write is sent once more.
RecordsFrom(p, after) == RecordsAbove(p, Bigger(after - 1, base[p]))

\* Those after r's last write.
RecordsAfter(p, after) == RecordsAbove(p, Bigger(after, base[p]))

\* Mutant: a refusal is an error like any other.
FetchLogOrFail(r) ==
    /\ step[r] = "log" /\ attempts[r] > 0 /\ Serves(peer[r])
    /\ ~Refuses(peer[r], Len(log[r]))
    /\ step' = [step EXCEPT ![r] = "apply"]
    /\ pending' = [pending EXCEPT ![r] = RecordsAfter(peer[r], Len(log[r]))]
    /\ UNCHANGED <<replicas, up, losses, peer, attempts, coordinators, requests, sent, acked>>

FetchLog(r) ==
    /\ step[r] = "log" /\ attempts[r] > 0 /\ Serves(peer[r])
    /\ IF Refuses(peer[r], Len(log[r]))
         THEN step' = [step EXCEPT ![r] = "snapshot"] /\ UNCHANGED pending
         ELSE /\ step' = [step EXCEPT ![r] = "apply"]
              /\ pending' = [pending EXCEPT ![r] = RecordsAfter(peer[r], Len(log[r]))]
    /\ UNCHANGED <<replicas, up, losses, peer, attempts, coordinators, requests, sent, acked>>

\* add_batch with the record's number, which must be the next one.
ApplyRecord(r) ==
    /\ step[r] = "apply" /\ pending[r] # <<>>
    /\ Head(pending[r]).seq = Len(log[r]) + 1
    /\ Extend(r, Head(pending[r]).write)
    /\ pending' = [pending EXCEPT ![r] = Tail(@)]
    /\ UNCHANGED <<up, losses, step, peer, attempts, coordinators, requests, sent, acked>>

\* Copy the peer's snapshot, which it takes now if it has none.
InstallFrom(r, p) ==
    LET top == IF base[p] = 0 THEN Len(log[p]) ELSE base[p]
    IN  /\ step[r] = "snapshot" /\ Serves(p)
        /\ log' = [log EXCEPT ![r] = SubSeq(log[p], 1, top)]
        /\ base' = [base EXCEPT ![r] = top, ![p] = top]
        /\ UNCHANGED <<up, losses, peer, pending, coordinators, requests, sent, acked>>

\* Mutant: the attempts are counted the wrong way.
FetchSnapshotCountsUp(r) ==
    /\ InstallFrom(r, peer[r])
    /\ attempts' = [attempts EXCEPT ![r] = @ + 1]
    /\ step' = [step EXCEPT ![r] = "log"]

\* Mutant: the records written since the snapshot are not asked for.
FetchSnapshotOnly(r) ==
    /\ InstallFrom(r, peer[r])
    /\ attempts' = [attempts EXCEPT ![r] = @ - 1]
    /\ step' = [step EXCEPT ![r] = "apply"]

\* Then ask for the log again.
FetchSnapshot(r) ==
    /\ InstallFrom(r, peer[r])
    /\ attempts' = [attempts EXCEPT ![r] = @ - 1]
    /\ step' = [step EXCEPT ![r] = "log"]

\* The handler ends; a coordinator that waits for it learns how.
Return(r, ok) ==
    /\ step' = [step EXCEPT ![r] = "idle"]
    /\ peer' = [peer EXCEPT ![r] = Nobody]
    /\ pending' = [pending EXCEPT ![r] = <<>>]
    /\ attempts' = [attempts EXCEPT ![r] = 0]
    /\ syncing' = [c \in Coordinator |-> IF syncing[c] = r THEN Nobody ELSE syncing[c]]
    /\ phase' = [c \in Coordinator |->
                    IF syncing[c] # r THEN phase[c] ELSE IF ok THEN "repair" ELSE "idle"]
    /\ seen' = [c \in Coordinator |->
                    IF syncing[c] # r THEN seen[c]
                    ELSE IF ok THEN [seen[c] EXCEPT ![r] = Settled] ELSE NoAnswers]

SyncDone(r) ==
    /\ step[r] = "apply" /\ pending[r] = <<>>
    /\ Return(r, TRUE)
    /\ UNCHANGED <<replicas, up, losses, last_seqs, request, calls, requests, sent, acked>>

\* The peer does not answer (SYNC_TIMEOUT bounds the wait), or dies while it
\* streams, or the attempts are used up.
SyncFails(r) ==
    /\ step[r] # "idle"
    /\ Return(r, FALSE)
    /\ UNCHANGED <<replicas, up, losses, last_seqs, request, calls, requests, sent, acked>>

-----------------------------------------------------------------------------
(***************************************************************************)
(* Failures.                                                               *)
(***************************************************************************)
\* A server dies: its log stays, its calls fail.
Crash(r) ==
    /\ r \in up
    /\ up' = up \ {r}
    /\ Return(r, FALSE)
    /\ calls' = [c \in Coordinator |->
                    IF calls[c][r] = "sent" THEN [calls[c] EXCEPT ![r] = "failed"] ELSE calls[c]]
    /\ requests' = {m \in requests : m.replica # r}
    /\ UNCHANGED <<replicas, losses, last_seqs, request, sent, acked>>

Restart(r) ==
    /\ r \notin up
    /\ up' = up \cup {r}
    /\ UNCHANGED <<replicas, losses, handlers, coordinators, requests, sent, acked>>

\* A stopped replica's disk is lost: it will come back empty.  The others
\* keep theirs, and none is in the middle of copying from it.
LoseDisk(r) ==
    /\ r \notin up /\ losses < MaxLosses
    /\ \A q \in Replica : peer[q] # r
    /\ log' = [log EXCEPT ![r] = <<>>] /\ base' = [base EXCEPT ![r] = 0]
    /\ losses' = losses + 1
    /\ UNCHANGED <<up, handlers, coordinators, requests, sent, acked>>

\* A client process ends in the middle of what it was doing.  Its next
\* incarnation knows nothing.
CoordinatorDies(c) ==
    /\ phase[c] # "idle" \/ last_seqs[c] # Unknown
    /\ Leave(c)
    /\ last_seqs' = [last_seqs EXCEPT ![c] = Unknown]
    /\ Abandon(c, {r \in Replica : calls[c][r] = "sent"})
    /\ UNCHANGED <<replicas, up, losses, handlers, sent, acked>>

-----------------------------------------------------------------------------
Answering(c, r) == Status(c, r) \/ StartSync(c, r)

Handling(r) == \E m \in requests : m.replica = r /\ (HandleAdd(m) \/ RejectAdd(m))

Starting(c) == StartAdd(c) \/ StartRepair(c)

Proceeding(c) == \/ Checked(c) \/ OutOfSync(c) \/ SendChunk(c) \/ ChunkDone(c)
                 \/ ChunkFails(c) \/ Polled(c) \/ RepairDone(c)

CatchingUp(r) == FetchLog(r) \/ ApplyRecord(r) \/ FetchSnapshot(r) \/ SyncDone(r)

\* What goes wrong: processes and disks, and calls that end without an answer.
Failing == \/ \E r \in Replica : Crash(r) \/ LoseDisk(r) \/ SyncFails(r)
           \/ \E c \in Coordinator :
                 \/ CheckFails(c) \/ RepairFails(c) \/ CoordinatorDies(c)
                 \/ \E r \in Replica : CallFails(c, r) \/ Skip(c, r)

Next == \/ \E c \in Coordinator : Starting(c) \/ Proceeding(c)
        \/ \E c \in Coordinator, r \in Replica : Answering(c, r)
        \/ \E r \in Replica : Handling(r) \/ CatchingUp(r) \/ Restart(r)
        \/ Failing

Spec == Init /\ [][Next]_vars

\* Handlers and coordinators keep running, and a stopped server is started
\* again.  Nothing makes a caller add or repair.
FairSpec ==
    /\ Spec
    /\ \A c \in Coordinator : WF_vars(Proceeding(c))
    /\ \A c \in Coordinator, r \in Replica : WF_vars(Answering(c, r))
    /\ \A r \in Replica : WF_vars(Handling(r)) /\ WF_vars(CatchingUp(r)) /\ WF_vars(Restart(r))

-----------------------------------------------------------------------------
(***************************************************************************)
(* Properties.                                                             *)
(***************************************************************************)
Write == 1 .. MaxWrites

Numbered == [seq : Nat, write : Write]

\* Every variable keeps its type.
TypeOK ==
    /\ log \in [Replica -> Seq(Write)] /\ base \in [Replica -> Nat]
    /\ up \subseteq Replica /\ losses \in 0 .. MaxLosses
    /\ step \in [Replica -> {"idle", "log", "apply", "snapshot"}]
    /\ peer \in [Replica -> Replica \cup {Nobody}]
    /\ pending \in [Replica -> Seq(Numbered)] /\ attempts \in [Replica -> 0 .. 3]
    /\ phase \in [Coordinator -> Writing \cup {"idle", "poll", "repair", "sync"}]
    /\ last_seqs \in [Coordinator -> Nat \cup {Unknown}]
    /\ seen \in [Coordinator -> [Replica -> Nat \cup {Unknown, Settled}]]
    /\ request \in [Coordinator -> [seq : Nat, write : Nat]]
    /\ calls \in [Coordinator -> [Replica -> {"none", "sent", "ok", "failed"}]]
    /\ syncing \in [Coordinator -> Replica \cup {Nobody}]
    /\ requests \subseteq [replica : Replica, seq : Nat, write : Write]
    /\ sent \in 0 .. MaxWrites /\ acked \subseteq Numbered

\* "The same write gets the same number on every replica": as long as no disk
\* is lost and no Add outlives its call, the histories of two replicas never
\* differ in a write, one is only longer than the other, in whatever order
\* writes, repairs and crashes come (add, catch_up).
SameNumberSameWrite ==
    \A q, r \in Replica : \A s \in 1 .. Len(log[q]) :
        s <= Len(log[r]) => log[q][s] = log[r][s]

Holds(r, a) == a.seq \in 1 .. Len(log[r]) /\ log[r][a.seq] = a.write

MostAdvanced(r) == \A q \in Replica : Len(log[q]) <= Len(log[r])

\* The copy repair() would take as its source has every acknowledged write,
\* also after the disk of another replica was lost.
SourceHasAcked == \A r \in Replica : MostAdvanced(r) => \A a \in acked : Holds(r, a)

\* A catch-up never meets OutOfOrderWrite: what FetchLog sends continues the
\* replica's own history, whatever the peer folds into its snapshot meanwhile.
RecordsFollow ==
    \A r \in Replica : pending[r] # <<>> =>
        /\ Head(pending[r]).seq = Len(log[r]) + 1
        /\ \A i \in 1 .. Len(pending[r]) - 1 : pending[r][i + 1].seq = pending[r][i].seq + 1

Prefix(l, longer) == Len(l) <= Len(longer) /\ SubSeq(longer, 1, Len(l)) = l

\* A snapshot that is installed is ahead of the replica and continues what
\* the replica holds: InstallSnapshot in DurableShard takes this for granted.
InstallsAhead ==
    [][\A r \in Replica :
          FetchSnapshot(r) => Len(log[r]) < Len(log'[r]) /\ Prefix(log[r], log'[r])]_vars

\* A sync that reports success has brought the replica up to everything the
\* repair had seen on any replica, unless the copy it took as its source has
\* lost its disk since.
SyncLevels ==
    [][\A c \in Coordinator, r \in Replica :
          /\ syncing[c] = r /\ SyncDone(r)
          /\ Len(log[peer[r]]) >= seen[c][peer[r]]
          => \A q \in Replica : seen[c][q] <= Len(log[r])]_vars

\* repair() rolls forward: when nothing fails any more and nobody adds, and
\* repairs keep being run, all replicas end up with the same writes, also
\* those whose callers were told of an error.
Quiet == ~Failing /\ ~\E c \in Coordinator : StartAdd(c)

Converges ==
    /\ <>[][Quiet]_vars
    /\ \A c \in Coordinator : WF_vars(StartRepair(c))
    => <>[](\A q, r \in Replica : log[q] = log[r])

\* The shard as a whole, its most advanced copy, is a durable log.
ShardLog == log[CHOOSE r \in Replica : MostAdvanced(r)]

DurableLog == INSTANCE DurableLog WITH log <- ShardLog

\* Replication implements what one durable shard promises, as long as no disk is
\* lost and no Add outlives its call: the most advanced copy only grows, and a
\* write is acknowledged only once it is there (add, repair).
ImplementsDurableLog == DurableLog!Spec
=============================================================================
