# TLA+ models of the distributed vector search engine

This directory holds a TLA+ development of the engine in `src/`: modules that
model its parts, TLC configurations that check them on small instances, and
proofs checked by TLAPS. `PROJECT.json` maps every definition to the lines it
models, lists the runs, the hazards and the theorems.

## 1. The system

A *cluster* is a set of shard servers, each a process that owns one *shard* (a
partition of the vectors) or a replica of one. Clients (a command line, an MCP
server that an AI application calls, an operations agent) create a
*coordinator*, which splits writes over the shards, sends every write to every
replica, and answers a query by asking one replica of each shard and merging
the results.

    cli / mcp_server / memory / documents / ops / agent      (client processes)
            |  read_state, write_state        cluster.json   (one per home)
            v
    GrpcCoordinator  --Add, Search, Status, SyncFrom-->  ShardServicer (one lock)
                                                            |         ^
                                       FetchLog, FetchSnapshot of a peer
                                                            v
                                         DurableShard: Shard + wal.log + snapshot.npz
                                                            v
                                         Shard: HNSW graph, ids, payloads, filters

### Components

| component | state | operations | what is hard | what makes it correct |
|---|---|---|---|---|
| Durable shard (`storage.py`) | `wal.log`, `snapshot.npz`, its `.tmp`; in memory the index, `last_seq`, `snapshot_seq`, `vectors_since_snapshot` | open and replay, `add_batch`, `checkpoint`, `records_after`, `snapshot_bytes`, `install_snapshot` | the process or the machine stops between any two file-system calls; a call raises half-way | an acknowledged write is never lost nor applied twice; what is on disk can always be opened; a lagging replica gets everything it lacks |
| Replication (`client.py`, `server.py`) | per coordinator `_last_seqs`; per server its durable shard and one lock; `SyncFrom` and its three attempts | `add` (check positions, send chunks, wait for all), `refresh`, `repair`; `Add`, `Status`, `FetchLog`, `FetchSnapshot`, `SyncFrom` | several clients, lost answers, servers that die in the middle of a write or of a copy, positions that are cached | one number means one write on every replica; repair rolls forward to equal replicas and never loses an acknowledged write |
| Search (`client.py`) | per replica `down_until`; per shard the round-robin position; `failovers` | `_replica_order`, `_scatter_gather`, `search`, `search_partial` | timeouts, failover, replicas that come back, errors that may not be retried | a shard is reported missing only when every replica of it has failed this query; the merge is the global top k of what answered |
| In-process coordinator (`cluster.py`) | one pipe per worker process, the pool of threads, `size` | `add`, `search`, `close` in three modes | replies are matched to requests only by their order in the pipe | an answer belongs to the query that asked for it |
| HNSW index (`hnsw.py`) | `_data`, `graph`, `entry_point`, `top_layer`, the random generator | `insert`, `search_with_distances`, `exact_among` | pruning removes links that were the only way to a node; capacity doubling | degrees are bounded, links stay in their layer, a search returns what it should and ends |
| Payload filters (`filtering.py`) | `PayloadIndex`: ids per value, `indexed` | `catch_up`, `matching`, `normalize_filter` | the index is filled late, after snapshots and replays | `matching` is exactly the set of payloads that match |
| Agent memory (`memory.py`) | records in the cluster, `cluster.json` | `remember`, `recall`, `forget` | reads before writes, with several agents; records can only be added | a fact that was replaced or forgotten is not recalled |
| Operations agent (`ops.py`, `health.py`, `processes.py`, `state.py`) | `cluster.json`, pids, restart counters, the journal | `restart_server`, `repair`, `run_runbook` | the state file is read, the world changes, the file is written | no server is started twice or restarted more often than allowed; the report is true |
| Agent loop and MCP (`agent.py`, `mcp.py`, `mcp_server.py`) | the conversation, pending tool calls | `run_agent`, `handle`, `serve` | tools that raise, malformed calls, batches, the step limit | every request is answered once; a failing tool ends no session |
| Ingestion (`documents.py`, `ingest.py`, `chunking.py`) | the `sources` in `cluster.json` | `ingest_files` | a crash, or another process, between storing passages and recording the file | a file's passages are stored once |
| Command line, models, data sets, generated protocol code | none of their own | | | see section 13 |

### How the components interact

* A client calls a server over gRPC. A call that fails tells the client nothing
  about whether the request was, or still will be, carried out.
* A server runs its requests under one lock per shard (`ShardServicer.lock`).
  `SyncFrom` holds that lock while it calls `FetchLog` and `FetchSnapshot` of a
  peer, which need the peer's lock.
* Coordinators do not know of each other. `DECISIONS.md:174` asks that one of
  them write at a time; any of them may repair.
* Command line, MCP servers and the operations agent share `cluster.json` of
  the cluster's home: each reads it, acts, and writes it as a whole.

## 2. The modules

| module | what it is |
|---|---|
| `DurableLog` | abstract: a log of writes that only grows at its end, and of which a crash may take away an end that nobody was told is safe |
| `DurableShard` | one durable shard at the granularity of its file-system calls; implements `DurableLog` with what a restart would rebuild from its files |
| `ReplicatedShard` | the replicas of one shard, the coordinators that write and repair, and the catch-up between servers, at the granularity of remote calls; implements `DurableLog` with the most advanced replica |
| `GlobalIds` | `add` and `repair` of several coordinators over several shards, a round of calls at a time: ids, routing, positions |
| `SearchFailover` | a coordinator's searches: rotation, failover, replicas set aside, the merge |
| `ShardIndex` | one shard in memory: the HNSW graph under inserts, the payload index, filtered searches |
| `Home` | a local cluster as its `cluster.json` knows it: commands, server processes, ingestion, the watch and its operator |
| `MemoryStore` | the memories of one owner, with several stores that remember, recall and forget |
| `MC*` | small instances for TLC, one for each module above but `DurableLog` |
| `DurableShard_proofs`, `ReplicatedShard_proofs`, `GlobalIds_proofs`, `SearchFailover_proofs`, `ShardIndex_proofs`, `Home_proofs`, `MemoryStore_proofs` | theorems about the module of that name, for all values of its constants |
| `FiniteOrders` | lemmas the proofs share: least and greatest elements of finite sets, functions defined step by step |

The two levels compose. In `ReplicatedShard` a replica is a sequence of writes
that a crash of its server leaves alone: that is what `DurableShard` shows of a
process crash (`OnlyPowerFailuresLose`). In `DurableShard` a snapshot that is
installed is ahead of the shard and extends what the shard holds: that is
`InstallsAhead` of `ReplicatedShard`. `GlobalIds` takes one step for what
`ReplicatedShard` does in many: there a round of `Add` calls reaches each
replica or does not, and a replica takes exactly its next number.
`SearchFailover` asks shards that answer exactly; how exact one is, `ShardIndex`
says. `MemoryStore` and `Home` use a cluster whose writes reach all replicas or
fail, maybe half-way, and whose repair makes replicas equal.

## 3. DurableShard

**State.** `wal`, `snapshot`, `tmp` are the files as a process that opens them
now would read them. `walOnDisk`, `snapshotOnDisk` and `logLinked` are the part
of them that is known to be on the disk: the log at its last fsync, the file
the synced directory calls `snapshot.npz`, and whether the directory entry of
`wal.log` has been synced. The process has `shard` (the batches in the order of
their insertion; the random generator is saved with the snapshot, so equal
sequences are equal graphs), `last_seq`, `snapshot_seq`,
`vectors_since_snapshot`. The server's lock admits one request, so a single
`pc` says which file-system call comes next and `op` for which request. `acked`
is a history: the writes whose `Add` has returned.

**Actions.** One per file-system call or per change to memory between two of
them.

| code | actions |
|---|---|
| `DurableShard.__init__` | `Open` (load the snapshot, cut off a torn tail), `SyncCut`, then per record `ReplaySkip`, `ReplayApply` or `ReplayRefused`, `ReplayDone` |
| `add_batch` | `AppendRecord`, `SyncRecord`, `Apply` (or `ApplyFails` when the insert raises), the checkpoint if it is due, `Reply` |
| `checkpoint` | `SaveTmp`, `SyncTmp`, `Rename`, `SyncDir`, `Truncate`, `SyncLog`, `FinishCheckpoint` |
| `snapshot_bytes` | `FetchSnapshot`, then the steps of `checkpoint` when there is no file yet |
| `install_snapshot` | `InstallSnapshot`, the same file-system calls, `FinishInstall` |
| an `OSError` | `AppendFails` (what the buffered writer still has of the record may follow with the next one, `Flushed`), `SaveFails`, `ResetFails`, `InstallFails`: the request ends, the server goes on |
| the end of the process, of the machine | `Crash`, `CrashInAppend`, `PowerFailure` |

**The file system.** A process that dies loses nothing it has handed to the
system, except that it may die inside a write. After a power failure the log is
what was synced, followed by some of what was not, the last record possibly
torn; a file that was never synced is empty; a rename that was not synced may be
undone. `DirectoryOrdered` says whether an fsync of a file also makes the
earlier changes of its directory durable, as ext4 and XFS do and POSIX does not
promise.

**Abstractions.** Ids, vectors and payloads of a batch are one value; what
distinguishes batches is how many vectors they have (when a snapshot is due) and
their dimension (whether they can be inserted: `Fits`). A record is intact or
not. Searches change nothing and are not here.

**Properties.**

* `AckedSurvive`: "zero loss of acknowledged writes" (`DECISIONS.md:126`): at
  every moment, a restart from the files would find each acknowledged write
  under its number. `PowerFailure` is an action, so the invariant covers what
  is left after one.
* `NeverRefused`: no crash leaves files the constructor refuses.
* `RestartRebuildsMemory`: between two requests a restart would rebuild exactly
  the index in memory. A record replayed twice, or one too many, breaks it.
  And the snapshot file, which `FetchSnapshot` serves, is a prefix of the index.
* `FetchLogComplete`: `FetchLog` sends either everything that a replica lacks
  or a refusal. It relates `snapshot_seq` in memory to the log file.
* `SnapshotReachesLog`: the snapshot file bridges what the log no longer has.
* `MemoryOnlyGrows`: no failing call removes anything from the index.
* `ImplementsDurableLog`, `OnlyPowerFailuresLose`: the refinement, and that
  nothing but a power failure shortens what a restart would rebuild. TLC checks
  the second with fsync on, the theorem has it with fsync off as well.
* `PowerFailureTakesTheEnd`: a power failure may leave the log and the snapshot
  of different moments; what is left opens, and rebuilds a beginning of what
  there was. With `--fsync off` acknowledged writes may be among what it takes,
  but none from the middle. TLC checks it with fsync on; with `Fsync = FALSE` in
  the same cfg, and only this property and `OnlyPowerFailuresLose` in it, TLC
  finds no violation either, and the theorem has it for both values.

## 4. ReplicatedShard

**State.** `log[r]` is what replica `r` holds; its `last_seq` is the length.
`base[r]` is its `snapshot_seq`. A `SyncFrom` handler has `step`, `peer`, the
records it received and has not applied, and its remaining `attempts`; while
`step[r] # "idle"` it holds the lock of `r`, so `Serves(r)` is false and every
other request waits or times out. A coordinator has the `_last_seqs` entry of
this shard, the answers to `Status` it has, the chunk it is sending and the
state of the call to each replica. `requests` holds the `Add` requests that no
server has handled yet; with `Stragglers`, one whose caller has given up stays. `sent` numbers the writes in the order they are first sent;
`acked` is a history.

**Actions.** `StartAdd`, `Status`, `Checked`, `OutOfSync`, `CheckFails`,
`SendChunk`, `ChunkDone`, `ChunkFails` are `add` and `_check_shards`.
`StartRepair`, `Status`, `Skip` (a `Status` that fails in a way that is retried),
`Polled`, `StartSync`, `RepairFails`, `RepairDone` are `repair`. `HandleAdd` and `RejectAdd` are `Add` on the
server. `FetchLog`, `ApplyRecord`, `FetchSnapshot`, `SyncDone`, `SyncFails`
are `SyncFrom` with `catch_up`. `Crash`, `Restart`, `LoseDisk` and
`CoordinatorDies` are what happens to the processes. `Extend` covers the
checkpoint that a write may trigger: `base` may move to the new end.

**What callers are held to.** One coordinator writes at a time
(`DECISIONS.md:174`), and with several coordinators `refresh()` comes before
`add()` (`CallersRefresh`), as `mcp_server.py:129` and `memory.py:184` do and the
docstring of `refresh` asks for. A lost disk is one of a stopped server that
nobody is copying from.

**Properties.**

* `SameNumberSameWrite`: two replicas' histories never differ in a write, one is
  only longer. It is what makes copying a suffix of a log sound. It is claimed, and
  checked, for replicas whose disks are not lost and Adds that do not outlive their
  calls; section 11 says what happens otherwise.
* `SourceHasAcked`: the replica `repair` copies from has every acknowledged
  write, also after another replica has lost its disk.
* `RecordsFollow`, `InstallsAhead`: catch-up continues the replica's own
  history, whatever the peer folds into its snapshot between the calls.
* `SyncLevels`: a sync that reports success has reached what the repair had
  seen on any replica, unless its source has lost its disk since the poll.
* `Converges`: when failures stop, nobody adds and repairs are run, the replicas
  become equal.
* `ImplementsDurableLog`: the shard as a whole is a durable log, under the same two
  conditions. Of lost disks only `SourceHasAcked`, `SyncLevels`, `RecordsFollow` and
  `Converges` speak.

## 5. GlobalIds

**State.** `held[s, r]` is the sequence of chunks a replica has applied, a chunk
a set of vectors, a vector the `add` it came from and its id. `durable` is chosen
once: servers with a data directory keep what they have and number their writes,
servers in memory come back empty and do not. Each coordinator has its `size`
and `_last_seqs` (`Unknown` for `None`, `Unchecked` for `_UNCHECKED`), and the
call it is in.

**Actions.** `StartAdd` (with `refresh` where callers use it), `CheckShard` and
`CheckFails` (`_check_shards`, one shard after the other), `Route`
(`route_round_robin`, `route_to_shard`), then for each round of chunks
`ChunkDone` or `ChunkFails`; `StartRepair`, `RepairShard`, `RepairFails`;
`Crash`, `Restart`, and `Replace` for a client that ends, maybe inside a round.

**Properties.** `NoIdTwice`: ids are never given out twice, though a write may
have reached only some shards and a coordinator's `size` may be old.
`AckedOnEveryCopy`: a vector whose `add` returned is on every copy of its shard
and nowhere else. `NextNumberFits`: what `_check_shards` concludes is still so
when the chunks are sent, so no running replica refuses one. It needs
`refresh()` where another coordinator may have written.

## 6. SearchFailover

**State.** Where the rotation of each shard stands, which replicas are set aside
(`down_until` in the future), and the search in progress with what is left of
each shard's order. Which vector was added in which namespace is chosen at the
start and does not change.

**Actions.** `StartSearch` (`plan_query`, `_replica_order`, one request per
shard), `Answer`, `AskFails` (set aside, on to the next or the shard is
missing), `SearchRaises` (an error that is not retryable), `RetryAfter` (time
passes). The coordinator reads the replies of one round in shard order; the
model lets them come in any order, which only adds behaviours.

**Properties.** `TopK`: the merge is exactly the k nearest of the shards that are
not reported missing, inside a namespace and outside. `MissingOnlyIfAllFailed`:
being set aside by an earlier search does not make a shard missing.
`ComesBack`: a replica is asked again as long as its shard is searched.

## 7. ShardIndex

**State.** The points in the order of their insertion, the graph, its entry
point and top layer, and the payload index with how far it has read. All that the
code does with vectors is to compare their distances, so `Distance` is a table of
numbers, of which the theorems assume nothing, not even symmetry; only that the
distance of two vectors is the same each time it is computed, which the model takes
for granted. TLC takes points on a line, which stand for
unit vectors of a half plane, whose cosine distances compare as their angles do. A
node's level is any level. In which order candidates at one distance come depends
on the heaps: `rank` puts each of them before or after the oldest of them, and with
enough `TieRanks` every order comes up (the theorems hold for any; TLC takes two, with
which all orders of two equal points are tried). One insert uses one order in all
its layers.

**Actions.** `Add` (`insert`), `Replace` (a snapshot of a peer that is ahead by
one vector is installed: the same graph, grown, and an empty payload index),
`CatchUp` (the first filtered search after new payloads). Searches change
nothing else and are operators: `Greedy`, `Beam`, `ByGraph`, `Hits`. A loop of the
code is a function of the number of rounds (`at[i]`, `after[i]`, `kept[i]`), and the
body of the loop an operator: `Hop`, `Expand` and `Consider`, `Keep`. `Greedy` takes as
many rounds as the layer has nodes; that the unbounded loop of `_greedy_descend` is
over by then is proved (`GreedyAlwaysEnds`).

**Properties.** `LayersNest` (whatever levels are drawn, a search can go down from
the entry point layer by layer), `GraphOK`, `NoDeadEnd`, `FilterMatches`,
`FindsReachable`, `NoShortAnswer`, each explained in the module. What is *not* promised:

* Not every node stays reachable. The docstring of `_select_neighbors`
  (`hnsw.py:203`) says of a rejected candidate that it "can be reached through a
  kept neighbor anyway"; in random behaviours of this model with ten and more
  nodes, M = 2 and equal points, pruning cuts nodes off, with either way to
  select neighbors. `FindsReachable` and `NoShortAnswer` therefore speak of
  what can be reached.
* A search *without* a filter is no wider than `ef_search`, so with k above it
  a shard returns fewer than k although `merge_top_k_scored` asks for its "full
  local top-k".

## 8. Home

**State.** `cluster.json` as the recorded pids and files; the processes that
exist for each server, `starting`, `serving` or `hung`; the last write on each
server's disk; how often each file's passages were stored; the watch with the
operator it runs, and one user's command. A command holds the state it read in
`copy` until it writes it back.

**Actions.** The commands `Up`, `Down`, `Kill`, `Restart`, `Repair` and
`WriteState`; `StartIngest`, `Store`, `Record`, `IngestEnds`, and their failures
`StoreFails` and `IngestKilled`; `Down` and `Kill` wait 10 s and may leave processes
behind that have not ended (`Stop`); `Round` of the watch, `RestartServer`,
`RestartRecorded`, `RepairTool` in any order and number up to `MaxCalls`, then
`Report`, which looks at the problems again; a process that starts to serve
(`Serves`), ends or hangs (`Fails`). `run_runbook` is one order of the
operator's tools, a model's turns (`run_agent`) are any.

**Properties.** `NoneLost`: no process of a server is ever unknown to
`cluster.json`, though pids are used again and servers start late or never.
`LosesOneAtMost`: what `documents.py:128` says. `Settles`: the watch comes to
rest, with a healthy cluster or with problems it has given up on.

*Assumed:* commands and the operator do not overlap (`Overlap = FALSE`). With
`Overlap = TRUE` TLC breaks both `NoneLost` and `LosesOneAtMost` in a few steps:
`cluster.json` is written whole from a copy read earlier. So a server restarted
by the operator while a file is being ingested is forgotten, or the file is.
Also assumed: a command that starts servers is not killed between `spawn` and
`write_state`; it would leave servers nobody has recorded.

## 9. MemoryStore

**State.** `log`, the records in the owner's namespace, `size[r]`, how many of
them replica `r` has, and per store the call it is in. `seen` and `stored` are
histories.

**Actions.** One per call of the cluster: `Near` and `Check` (remember looks for
the same fact), `Find` and `Live` (`_live_ids`, for `replaces` and `forget`),
`Write`, `WriteFails` (it has reached some replicas; later writes are refused
until `Repair`), `Search` and `Drop` (recall), `Raises`. `Lookup` returns at most
`MaxLookup` of the records that match (`MAX_LOOKUP`), those nearest to the vector of
ones, in order; that a shard with more matches than that may walk the graph and
return others of them is left out.

**Properties.** `OutOfUseIsNotRecalled` (as long as a lookup can return every record
that names a candidate; without that condition it fails, section 11), `KeptIsRecalled` (the price of
"4 x k candidates", `DECISIONS.md`, made exact) and `StoredTwiceOnlyIf`. The last
one states what is true of "An almost identical fact is not stored twice"
(`mcp_server.py:261`): it is stored twice when two calls overlap, and also, with
one store and no overlap, after a fact has been forgotten or replaced and
remembered again. The nearest memory is then the old one, which is out of use,
and `remember` looks at no other: every further call stores another copy.

*Assumed:* the writes of two stores do not overlap (`DECISIONS.md:174`), while
the rest of their calls do.

## 10. Runs

| run | what it shows | bounds |
|---|---|---|
| `shard_crashes` | all safety properties of a shard, with crashes of the process and of the machine between any two calls, saves that fail, fsync on, ordered directories | two batches, of one and of two vectors, a snapshot after two vectors: so one is due after one write or after two; 3 numbers; a log of 4 records |
| `shard_failures` | failing appends, saves, resets, installs and inserts (two dimensions), fsync off: the index and the snapshot file | 2 numbers, a log of 2 records |
| `shard_poisoned` | *violation*, see findings | as `shard_crashes` |
| `shard_unordered` | *violation*, see findings | as `shard_crashes` |
| `replicas_safety` | the replicas' histories with two coordinators: one writes while either repairs, both may die, calls and servers fail | 2 replicas, 2 coordinators, 2 writes, symmetry |
| `replicas_repair` | a long-lived coordinator that caches positions, and one lost disk; liveness | 2 replicas, 1 coordinator, 3 writes, no symmetry |
| `replicas_stragglers` | *violation*, see findings | 2 replicas, 1 coordinator, 2 writes |
| `global_ids` | ids, routing and positions of two coordinators that take turns, on durable servers and in memory | 2 shards, 2 replicas, 2 adds of up to 2 vectors in requests of one, 1 crash, 1 client that ends; the coordinators are symmetric |
| `search_failover` | exact answers, missing shards, replicas that come back; liveness | 2 shards, 2 replicas, 3 vectors tagged in every way, k = 2, one namespace |
| `shard_index` | the graph, the payload index and filtered searches | up to 6 nodes on 3 points, M = 2, two layers, `ef_search` 2 and k up to 3 |
| `home` | the state file, server processes, ingestion, the watch; liveness | 2 servers, 3 pids, 2 files, 1 restart and 2 tool calls in a run of the operator, 4 commands, crashes or failures |
| `memories` | remember, recall and forget, interleaved | 2 stores, 2 replicas, 2 facts, 4 records, k = 1 with 2 candidates, 2 records in a lookup, 1 failing write; stores, replicas and facts are symmetric |

*Why the bounds are enough.* Three numbers in a shard give a snapshot, a record
beyond it and one more to write; the longest history a hazard of theirs needs
is a snapshot with one record behind it, a crash, and a write after the restart.
Four records are one more than the numbers in use, so that a log that was not
emptied is reached. Two replicas are the smallest set that can disagree, and in
a repair each replica talks to one peer only. With three writes a replica can be
behind by a snapshot and a record. In `global_ids` an add of two vectors takes
one round with one vector for each shard, or two rounds in a namespace, so a
round can fail on one shard only and in the middle of an add; the second add then
meets what the first one left. Two vectors too many in `search_failover` tell a
wrong merge. In `shard_index` five neighbors are one more than layer 0 allows
(2 M = 4), so with six nodes every list is pruned; k = 3 is above `ef_search`.
Three pids for two servers leave one that is free and was used before. Two
candidates for one result let one memory that is out of use be passed over and
two use the places up; with four records two of them can name one memory and a
third another, which is one more than a lookup returns.

*Symmetry* is used in `replicas_safety`, `global_ids` and `memories` only, which
have no liveness property; what is permuted is interchangeable there. In
`memories` the distance of two facts is 0 or 1, so facts are interchangeable too. The `CHOOSE` in `ShardLog`
picks among replicas of equal length, whose logs are equal by
`SameNumberSameWrite`, checked in the same run.

*Fairness.* Nothing is assumed of clients, of failures and of crashes. `Converges` assumes of
`FairSpec` that coordinators and handlers take their next step, that a server
answers what it can answer, and that a stopped server is started again
(`vsearch cluster restart`, the operations agent or Docker do it). That failures
end, that nobody adds and that repairs are run again and again are premises in
the property itself. `ComesBack` assumes that a search goes on (every call has a
deadline, so it is answered or fails) and that time passes. `Settles` assumes
that a command that was started and the watch go on; servers may serve or not.

*Mutants.* For every property of a passing run the module holds a variant of one
action that a plausible mistake would produce ("Mutant:" in its comment), and
`PROJECT.json` names it with the property it breaks.

## 11. Findings

* **A batch that cannot be inserted poisons the log** (`shard_poisoned`).
  `add_batch` logs before it inserts (`storage.py:274`). When the insert raises
  (vectors of another dimension), the record stays and its number is used again;
  the write that gets it is acknowledged, and a restart meets the first record
  of that number: it refuses to start or replays the wrong batch.
* **A new log's directory entry is not synced** (`shard_unordered`).
  `WriteAheadLog.__init__` creates `wal.log` and nothing syncs the directory
  before the first checkpoint. On a file system that does not order directory
  changes before an fsync of the file, a power failure takes the log away with
  the acknowledged writes in it. On ext4 and XFS this does not happen
  (`shard_crashes`).
* **A request that outlives its call** (`replicas_stragglers`). An `Add` that
  waits for the server's lock is not cancelled when its caller gives up. Applied
  later, it can take the number that the other replica gives to another write;
  `Status` then reports equal numbers and nothing notices. Without such requests
  (`replicas_safety`) it does not happen.

What the model also showed, and where it is an assumption of the runs:

* `_lookup` returns 1000 records at most (`memory.py:36`), and `_replaced` takes
  them for all that name the candidates, so "Replaced and forgotten facts are
  left out" (`memory.py:106-107`) ends there. The `-k` of `vsearch recall` is
  unbounded; a recall of more than 250 can have over 1000 candidates that are out
  of use, of which those beyond the limit are recalled. With the default k of 5,
  and the 20 at most that the MCP tool admits, more than 1000 records would have to
  name 80 candidates, which takes as many overlapping calls.
  `OutOfUseIsNotRecalled` therefore has the condition that one lookup suffices;
  with `MaxLookup = 1` and no such condition TLC finds a replaced memory recalled.
* With a failed append or a failed install, a server that goes on serving may
  lose an acknowledged write later: the next record follows a torn one, or takes
  a number that the snapshot file already has. Numbered writes are refused in
  the second case, because the coordinator finds the replica behind.
* After a reset whose fsync failed, `FetchLogComplete` does not hold until the
  next checkpoint: `snapshot_seq` promises records that the log no longer has.
* With two coordinators *and* a lost disk, a write may be numbered from `Status`
  answers of different moments, so `SameNumberSameWrite` and `SyncLevels` may
  fail; losses are in the one-coordinator run. With more than two replicas one
  coordinator is enough: a disk lost between two `Status` answers and a repair
  that is interrupted can leave two replicas with different *unacknowledged*
  writes under one number. Acknowledged ones survive this (`SourceHasAcked`).
* With two coordinators and no `refresh()`, positions cached before another
  process's partial failure may lay a write on different histories.

## 12. Proofs

Every theorem below is checked by TLAPS to the last leaf. None assumes anything
about the constants but the `ConstantsAssumption` of its module, which TLC
evaluates in every run; the conditions some theorems need are part of their
statement (`Careful`, `Safe`, `Recoverable`, `~Overlap`), so it can be seen which
ones do. All the invariants were first checked by TLC on the instances of
section 10.

### DurableShard_proofs

For any set of batches, any thresholds, with or without fsync, every kind of
crash and failure:

* `TypeCorrect`: `Spec => []TypeOK`.
* `MemoryGrows`: `Spec => MemoryOnlyGrows`.
* `SnapshotAlwaysReaches`: `Spec => []SnapshotReachesLog`.

They follow from the inductive invariant `BaseInv`. `TypeOK` alone is not
inductive: `Reply` reads `shard[last_seq]`, which is a batch only because the
index has `last_seq` members and the step cannot be reached with none (`Sized`).
`MemoryGrows` needs in addition that the snapshot being installed extends the
index (`SavingInv`), from the moment its temporary file is written until it is
loaded; `SnapshotAlwaysReaches`, that `snapshot_seq` is behind both the index and
the file (`Reached`).

What the shard exists for is proved under `Careful`: all vectors have one
dimension, no append and no install fails half-way (saves and resets may), and
if the machine itself may stop, the file system orders directory changes. The
runs `shard_poisoned` and `shard_unordered` show that the first and the last of
these conditions are needed; section 11 says why the second is. What is promised
of acknowledged writes needs `Synced` too: if the machine may stop, the log is
fsynced. The rest holds with `--fsync off`.

* `ZeroLoss`: `Careful /\ Synced /\ Spec => []AckedSurvive`.
* `ShardIsADurableLog`: `Careful /\ Synced /\ Spec => ImplementsDurableLog`.
* `AlwaysOpens`: `Careful /\ Spec => []NeverRefused`.
* `FilesAgree`: `Careful /\ Spec => []RestartRebuildsMemory`.
* `OnlyPowerLoses`: `Careful /\ Spec => OnlyPowerFailuresLose`.
* `PowerTakesOnlyTheEnd`: `Careful /\ Spec => PowerFailureTakesTheEnd`.
* `LogServesAll`: `Careful /\ "reset" \notin Failures /\ Spec => []FetchLogComplete`.

The safety theorems follow from one inductive invariant, `IInv`. It is stated of the
`Promised` writes: the acknowledged ones under `Synced`, none without. `AckedSurvive` speaks
of the present files only; what makes it inductive is what the files would be
worth after the next failure:

* `FilesInv`: numbers in the log increase, only the last record may be torn, and
  every record beyond the snapshot's reach follows its predecessor. This is why
  a replay meets no gap.
* `DiskInv`: a power failure may bring back an older log, an older snapshot or
  both, so the same is said of each pair that can survive. An older snapshot
  comes back only with a log that the newer one covers; hence `Chained`, which
  asks for predecessors only up to the newer snapshot's number. A log that is
  not fsynced may come back as anything between what was synced and what was
  written; `OnBoth` says that a promised write is in the snapshot or in the part that
  the log in the file and the log on the disk have in common (`KeepsCommon`), which every
  such log keeps.
* `MemoryInv`: the index holds, number by number, what the files would rebuild.
  It is why the checkpoint may drop the log: what is dropped is in the index,
  and the index is in the snapshot (`SavingInv`).
* `ReplayInv`: how far the replay has come.
* `ServingInv`: the index has every promised write, and all records but the
  one being added. `ReplayDone` establishes it from `FilesInv` and `MemoryInv`,
  because no two batches are rebuilt under one number (`RebuiltOnce`).

`LogOutcomes` says what a power failure leaves of a log, `FsyncSynchronizes` what
an fsync is worth; each of the five parts is then one lemma with a step per
action or group of actions.

For the refinement, `ContentsHold` shows that `Contents` is the one sequence of
everything a restart would rebuild. That it is a prefix of what it was after a
power failure needs one more invariant, `OlderInv`: what the disk holds is never
another history than what the files hold, a record that the snapshot covers
says the same as the snapshot (`Agrees`), and the older snapshot is a prefix of
the newer one. Without `Agrees` a log whose newer snapshot is gone could rebuild
a batch that was never in the index.

`LogServesAll` needs that the log has every number between `snapshot_seq` and
`last_seq` (`LogHeld`), also while a new snapshot has its name and the log is not
empty yet. That is what a failing reset breaks (section 11).

### ReplicatedShard_proofs

For any number of replicas, coordinators, writes, crashes and losses, with or
without Adds that outlive their calls:

* `TypeCorrect`: `Spec => []TypeOK`.
* `RecordsAlwaysFollow`: `Spec => []RecordsFollow`.

`BaseInv` adds what a handler and a coordinator know about their own call
(`HandlersOK`, `CoordinatorsOK`).

Under `Safe` (no disk is lost, no Add outlives its call, and there is one
coordinator or its callers refresh):

* `NumbersAgree`: `Safe /\ Spec => []SameNumberSameWrite`.
* `InstallsAlwaysAhead`: `Safe /\ Spec => InstallsAhead`.
* `SyncAlwaysLevels`: `Safe /\ Spec => SyncLevels`.
* `ReplicationIsADurableLog`: `Safe /\ Spec => ImplementsDurableLog`.

Two histories that agree today need not agree tomorrow: the invariant
(`HistoryInv`) says in addition that a coordinator that may send knows a position
at which all replicas are level (`PositionsOK`), or that the replicas beyond it
have just the chunk it is waiting for; that records on their way to a replica
are those of its peer (`PendingCopies`); that no replica forgets what it reported
(`SeenOK`); that an acknowledged write is on every replica; and what a handler
that has its records will end up with (`SyncingOK`). `NetworkInv` says that there
is one writer at a time and that a request in the network belongs to a call
that waits for it, which is what stragglers break.

Under `Recoverable` (fewer disks are lost than there are replicas; the rest of
`Safe`):

* `SourceAlwaysHasAcked`: `Recoverable /\ Spec => []SourceHasAcked`.

Here the histories may differ in unacknowledged writes, so nothing of `HistoryInv`
can be used. `LossInv` follows only the acknowledged ones: no replica has, or is
about to apply, another write under the number of an acknowledged one
(`AckedKept`); chunks get numbers above them (`AboveAcked`); a chunk that waits
for its answers is one that no replica holds another write for, or one that will
not be acknowledged (`ChunksOK`); and there are at most as many replicas that
lack an acknowledged write, or told of fewer, as disks were lost (`Bare`). So one
replica has them all, and the most advanced one has its numbers, hence its
writes.

*Why the code justifies the conditions.* One coordinator writes at a time by
`DECISIONS.md:174`; `StartAdd` has it as its guard. Coordinators that live long
beside others call `refresh()` (`mcp_server.py:129`, `memory.py:184`). Adds that
outlive their calls are a finding (section 11): without them is what the code
means, with them TLC shows what happens. Section 11 also says what disk losses
do to the first group.

### GlobalIds_proofs

For any number of shards, replicas, coordinators and adds, requests of any size:

* `TypeCorrect`: `Spec => []TypeOK`.

Under `Safe` (callers refresh, or there is one coordinator):

* `IdsAreUnique`: `Safe /\ Spec => []NoIdTwice`.
* `AckedStaysEverywhere`: `Safe /\ Spec => []AckedOnEveryCopy`.
* `NumbersFit`: `Safe /\ Spec => []NextNumberFits`.

`NoIdTwice` holds because of what a coordinator *knows* being true, and that is
the invariant (`IInv`): of a shard whose position it has, every stored id is
below its `size` and every copy is at that position (`KnownOK`). It holds for the
coordinator that wrote last or is about to check (`Trusted`), others refresh
before they write. Of an add under way: its ids are its own, each vector is still
to be sent to one shard and on no server, or on all copies of one shard
(`Placed`), and a shard that failed half-way is unknown, so the next check reads
it again. That ids are bounded at all (`Bounded`) lets the check take the greatest
one.

### SearchFailover_proofs

For any number of shards, replicas and vectors and any distances, unconditional:

* `TypeCorrect`, `AnswersAreNearest` (`Spec => []TopK`) and
  `MissingMeansAllFailed` (`Spec => []MissingOnlyIfAllFailed`).

The lemma that carries `TopK` is that the k nearest of a set stay the same
whatever else is left out of it (`NearestWithin`); each shard's own k nearest have
all of the k nearest that it holds. The invariant says which vectors the hits of
a search in progress are (`HitsOK`), and that each replica of a pending shard is
still to be asked or has failed in this search (`FailedOK`).

### Home_proofs

* `TypeCorrect`: `Spec => []TypeOK`, also when commands overlap.
* `ProcessesAreFound`: `~Overlap /\ Spec => []NoneLost`.
* `IngestRepeatsOneAtMost`: `~Overlap /\ Spec => []LosesOneAtMost`.

The invariant for `NoneLost`: the watch rests while a command runs (`Exclusive`);
a server has one process at most and it is recorded, or in the copy that a
command is going to write (`Single`, `Found`). For the ingest: the difference of
what was stored and what is recorded is one for each ingest that was cut short,
plus the file it is at (`IngestInv`). `~Overlap` is needed; section 8 says what
happens without.

### ShardIndex_proofs

For any points with any distances, any payloads and filters, and every draw of
levels, unconditional:

* `FilterSelectsMatches`: `Spec => []FilterMatches`, from `IndexInv`: the index has
  exactly the values of the payloads it has read.
* `LayersAlwaysNest`: `Spec => []LayersNest`.
* `GraphStaysOK`: `Spec => []GraphOK`, and `NoDeadEnds`: `Spec => []NoDeadEnd`.
* `BeamFindsReachable`: `Spec => []FindsReachable`.
* `AnswersAreFull`: `Spec => []NoShortAnswer`.
* `GreedyAlwaysEnds`: `Spec => []GreedyEnds`. A greedy walk ends within as many hops
  as the layer has nodes, at a node none of whose neighbors is closer.

The inductive invariant about the graph is `LinksInv`, together with `LayersInv`
(the layers nest, nodes are numbered): the links of a node are a list without
repetition of other nodes of its layer, no longer than the layer allows, and empty
only if the node is alone. An insert keeps it because of what its parts return:

* `Hop` and `Greedy` stay in the layer (`HopStays`, `GreedyStays`), and so does the
  beam; from a node it finds at least one candidate (`CandidatesFound`), so a new
  node gets a neighbor;
* what `SelectNeighbors` returns is a list of some of the candidates without
  repetition, no longer than m, and not empty if they are not (`SelectedList`): the
  first candidate is always kept. `NoDeadEnd` fails exactly without this;
* a list that grew by the new node is pruned by the same operator
  (`RelinkedGood`, `LinkedGood`).

For the search, a round of the beam keeps this (`ExpandBeam`): all results are allowed
and visited, there are no more than `ef`; and either there are `ef` of them or
everything allowed that was visited is a result, and the neighbors of every visited
node that is no candidate are visited. After as many rounds as there are vectors no
candidate is left, because every round takes one that was never a candidate
before (`BeamFinds`). So the beam is full or has all that links lead to
(`BeamReaches`). `AnswersAreFull` follows as a filtered beam is never narrower than k;
`BeamFindsReachable` as a beam as wide as there are vectors drops nothing.

What holds after every round is an induction over a loop. It is done once, in
`FiniteOrders`, with a set `S[i]` of the values allowed after i rounds as the
parameter: `StepsExist` and `StepsStay` say that a function defined step by step
exists and that its values are in these sets, if each step leads from one to the next.
Both rest on `Rounds`: a set of round numbers that has 0 and, with every number, the
next one has all of them.

### MemoryStore_proofs

For any number of stores, replicas, facts, records and failed writes, and any
distances, unconditional:

* `TypeCorrect`: `Spec => []TypeOK`, which includes that an acknowledged record
  is on every replica.
* `OutOfUseNotRecalled`: `Spec => []OutOfUseIsNotRecalled`. The condition on the number
  of records that name a candidate is part of the property.
* `StoredTwiceOnlyThen`: `Spec => []StoredTwiceOnlyIf`.
* `KeptAreRecalled`: `Spec => []KeptIsRecalled`.

The inductive invariant, `IInv` of that module, adds what a call remembers
between two requests. A recall's `stored` records are acknowledged, so every
replica has them, and `_replaced` finds them all if no more match than a lookup
returns (`LookupFinds`). A writer still knows what it saw
(`SawNearest`): its `same` is the nearest of the memories it saw or nothing, no
acknowledged record of that time was nearer, and if the call goes on to write
although `same` is there, some record names it. This outlives the steps of the
other stores because the log only grows and a record that was acknowledged
later has a greater number (`NewRecordStep`). `KeptAreRecalled` counts: if a memory
in use is not among the candidates, there are as many nearer ones as a search
returns, of which those in use fill the answer unless too many are not
(`CandidatesFound`, `BestOnes`). Both rest on `LowestOnes` of `FiniteOrders`: in a
finite total order exactly k elements have fewer than k below them.

### Only model-checked

* Liveness: `Converges`, `ComesBack`, `Settles`. The prover has no
  rules for fairness and ENABLED that reach them.

Every invariant and every action property that a passing run checks is also stated
by a theorem, some under the conditions named there. What a search over the graph
does not promise is in section 7.

## 13. Not modelled

* The pipes of the in-process coordinator (`cluster.py:231-316`, mode
  "processes"), which tests and benchmarks use. Replies are matched to requests
  by their order only: when one worker has died, the replies of the others to
  that search stay in their pipes, and a later search inside a namespace is
  answered with them.
* Clusters run by something else (`cluster attach`), `--wipe`, dry runs, `load
  glove`; files that change after they were ingested (they are skipped).
* The choice of embedder and its record in `cluster.json`, tags, and the age of
  memories beyond which of two is newer.
* The wire formats of MCP and of the model APIs. `serve` answers one request at
  a time; what a tool call does to the cluster is in `Home` and `MemoryStore`.
* Which values a payload index holds (`_key`), and how text is cut into passages:
  functions of one value.
* Parsing and printing in `cli.py`; downloads and numerical code in
  `embedding.py`, `dataset.py`, `brute_force.py`: no state of their own.
* The generated protocol code; benchmarks, evaluations and tests.
* Distances outside `ShardIndex`, and the bytes of records, snapshots and messages. A record's
  checksum is modelled by what it does: a torn record is not intact. Blocks of a
  record that reach the disk out of order make it not intact, as a torn one is.
* What Python's buffered writer still holds of a failed append when the process ends
  in an orderly way, and flushes then; at the next append it is modelled (`Flushed`).

## 14. Plan

| module | next |
|---|---|
| `DurableShard` | how much of `FetchLogComplete` is left when `reset` fails half-way: it should hold again from the next checkpoint on |
| `ReplicatedShard` | `SyncLevels` and the refinement with losses, for the histories of acknowledged writes only |
| `ShardIndex` | when a node stays reachable after pruning: under which conditions on distances and M |
| a module for the pipes of `cluster.py` | workers that die, replies that stay in their pipes |
| `MemoryStore`, `Home` | the choice of embedder, and what overlapping commands may still do |
