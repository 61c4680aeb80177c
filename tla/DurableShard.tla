---------------------------- MODULE DurableShard ----------------------------
(***************************************************************************)
(* One durable shard of the search engine (vsearch/storage.py): a write-   *)
(* ahead log, a snapshot file, and the index in memory, at the granularity *)
(* of the file-system calls between which the process or the machine may   *)
(* stop.                                                                   *)
(*                                                                         *)
(* The server runs every request under one lock per shard, so at most one  *)
(* request is between two of its file-system calls; pc says which call     *)
(* comes next.  An index is the sequence of batches inserted into it: the  *)
(* random generator is part of the snapshot, so equal sequences build      *)
(* equal graphs.                                                           *)
(***************************************************************************)
EXTENDS Naturals, Sequences, FiniteSets

CONSTANTS
    Write,          \* the batches clients send (ids, vectors, payloads)
    Vectors,        \* Vectors[w]: number of vectors in batch w
    Dim,            \* Dim[w]: dimension of the vectors of batch w
    SnapshotEvery,  \* --snapshot-every; 0 means never
    Fsync,          \* --fsync always (TRUE) or off (FALSE)
    Crashes,        \* what may stop: the "process", the whole machine ("power")
    DirectoryOrdered, \* does an fsync of a file make the earlier changes of its
                    \* directory durable too (ext4, XFS)?  POSIX does not say so
    Failures,       \* which calls may raise an OSError (see FailureKind)
    MaxSeq,         \* bound: no write beyond this sequence number
    MaxLog          \* bound: no append to a log of this many records

FailureKind == {"append", "save", "reset", "install"}

ASSUME ConstantsAssumption ==
    /\ Vectors \in [Write -> Nat \ {0}]
    /\ Dim \in [Write -> Nat \ {0, 1}]   \* numpy spreads a single number over any row
    /\ SnapshotEvery \in Nat
    /\ Fsync \in BOOLEAN
    /\ Crashes \subseteq {"process", "power"}
    /\ DirectoryOrdered \in BOOLEAN
    /\ Failures \subseteq FailureKind
    /\ MaxSeq \in Nat /\ MaxLog \in Nat

VARIABLES
    \* The files, as a process that opens them now reads them ...
    wal,                      \* wal.log: a sequence of records
    snapshot,                 \* snapshot.npz
    tmp,                      \* snapshot.npz.tmp
    \* ... and the part of them that is known to be on the disk itself.
    walOnDisk,                \* contents of wal.log at its last fsync
    snapshotOnDisk,           \* what the synced directory names snapshot.npz
    logLinked,                \* has the directory entry of wal.log been synced?
    \* The process.
    pc,                       \* the next step of the lock holder
    op,                       \* the request whose snapshot is being written
    replayed,                 \* records of the log consumed by the replay
    shard,                    \* the index: batches in insertion order
    last_seq,
    snapshot_seq,
    vectors_since_snapshot,
    \* History.
    acked                     \* writes whose Add has returned without error

logs      == <<wal, walOnDisk>>
directory == <<snapshotOnDisk, logLinked>>
files     == <<logs, snapshot, tmp, directory>>
memory    == <<shard, last_seq, snapshot_seq, vectors_since_snapshot>>
vars      == <<files, pc, op, replayed, memory, acked>>

(***************************************************************************)
(* Log records.  A record the crash cut short is one that is not intact:   *)
(* its length or its checksum does not match.                              *)
(***************************************************************************)
Record == [seq : Nat, write : Write, intact : BOOLEAN]

Rec(s, w) == [seq |-> s, write |-> w, intact |-> TRUE]
Torn(s, w) == [seq |-> s, write |-> w, intact |-> FALSE]

\* _read_records: everything before the first record that is not intact.
IntactLen(l) == Cardinality({n \in 1 .. Len(l) : \A i \in 1 .. n : l[i].intact})

\* Mutant: the checksum is not verified.
ReadRecordsUnchecked(l) == l

ReadRecords(l) == SubSeq(l, 1, IntactLen(l))

(***************************************************************************)
(* Snapshot files.  A file whose contents were never fsynced may be empty  *)
(* after a power failure.                                                  *)
(***************************************************************************)
SnapshotFile == [exists : BOOLEAN, synced : BOOLEAN,
                 last_seq : Nat, shard : Seq(Write)]

NoFile    == [exists |-> FALSE, synced |-> TRUE, last_seq |-> 0, shard |-> <<>>]
EmptyFile == [exists |-> TRUE, synced |-> FALSE, last_seq |-> 0, shard |-> <<>>]

Unsynced(n, s) == [exists |-> TRUE, synced |-> FALSE, last_seq |-> n, shard |-> s]

\* Inserting a batch raises ValueError when its vectors do not have the
\* dimension the first insert fixed.
Fits(w, s) == s # <<>> => Dim[w] = Dim[s[1]]

DirectorySynced == snapshotOnDisk' = snapshot /\ logLinked' = TRUE

DirectoryAfterFsync ==
    IF DirectoryOrdered THEN DirectorySynced
                        ELSE UNCHANGED directory

-----------------------------------------------------------------------------
Init ==
    /\ wal = <<>> /\ walOnDisk = <<>>
    /\ snapshot = NoFile /\ snapshotOnDisk = NoFile /\ tmp = NoFile
    /\ logLinked = FALSE
    /\ pc = "down" /\ op = "none" /\ replayed = 0
    /\ shard = <<>> /\ last_seq = 0
    /\ snapshot_seq = 0 /\ vectors_since_snapshot = 0
    /\ acked = {}

Step(from, to) == pc = from /\ pc' = to

Release == pc' = "idle" /\ op' = "none"

\* fsync of wal.log, and what it does to the directory.
FsyncLog ==
    /\ walOnDisk' = wal
    /\ DirectoryAfterFsync
    /\ UNCHANGED <<wal, snapshot, tmp>>

\* Insert the batch into the index and count it.
Insert(w) ==
    /\ shard' = Append(shard, w)
    /\ last_seq' = last_seq + 1
    /\ vectors_since_snapshot' = vectors_since_snapshot + Vectors[w]
    /\ UNCHANGED snapshot_seq

LoadSnapshot ==
    /\ shard' = snapshot.shard
    /\ last_seq' = snapshot.last_seq
    /\ snapshot_seq' = snapshot.last_seq
    /\ vectors_since_snapshot' = 0

(***************************************************************************)
(* Opening the shard: load the snapshot, cut off a torn tail, replay.      *)
(* np.load cannot read an empty snapshot: the process exits.               *)
(***************************************************************************)
Open ==
    /\ pc = "down"
    /\ LoadSnapshot
    /\ replayed' = 0
    /\ IF snapshot = EmptyFile
         THEN pc' = "refused" /\ UNCHANGED wal
         ELSE /\ wal' = ReadRecords(wal)
              /\ pc' = IF IntactLen(wal) < Len(wal) THEN "cut" ELSE "replay"
    /\ UNCHANGED <<walOnDisk, snapshot, tmp, directory, op, acked>>

SyncCut ==
    /\ Step("cut", "replay")
    /\ FsyncLog
    /\ UNCHANGED <<op, replayed, memory, acked>>

Replaying == pc = "replay" /\ replayed < Len(wal)

NextRecord == wal[replayed + 1]

PassOver ==
    /\ replayed' = replayed + 1
    /\ UNCHANGED <<files, pc, op, memory, acked>>

ReplaySkip == Replaying /\ NextRecord.seq <= last_seq /\ PassOver

ReplayInsert ==
    /\ Insert(NextRecord.write)
    /\ replayed' = replayed + 1
    /\ UNCHANGED <<files, pc, op, acked>>

\* Mutant: records that the snapshot already contains are applied again.
ReplayApplyAgain == Replaying /\ NextRecord.seq <= last_seq + 1 /\ ReplayInsert

ReplayApply ==
    /\ Replaying
    /\ NextRecord.seq = last_seq + 1 /\ Fits(NextRecord.write, shard)
    /\ ReplayInsert

\* The log jumps over a sequence number, or the record cannot be inserted:
\* the constructor raises and the process exits.
ReplayRefused ==
    /\ Replaying
    /\ NextRecord.seq > last_seq
    /\ NextRecord.seq = last_seq + 1 => ~Fits(NextRecord.write, shard)
    /\ pc' = "refused"
    /\ UNCHANGED <<files, op, replayed, memory, acked>>

ReplayDone ==
    /\ Step("replay", "idle")
    /\ replayed = Len(wal)
    /\ UNCHANGED <<files, op, replayed, memory, acked>>

(***************************************************************************)
(* add_batch: log, fsync, apply, maybe checkpoint, reply.  The sequence    *)
(* number is last_seq + 1, whether the request carries it or leaves it to  *)
(* the shard; any other number is rejected before anything changes.        *)
(***************************************************************************)
MayAppend == pc = "idle" /\ last_seq < MaxSeq /\ Len(wal) < MaxLog

\* The file is buffered: the next write flushes what the buffer still holds of
\* a record whose append failed, if it holds the rest of it.
Flushed ==
    {wal} \cup (IF wal = <<>> THEN {} ELSE {[wal EXCEPT ![Len(wal)].intact = TRUE]})

WriteRecord(record) ==
    /\ \E l \in Flushed : wal' = Append(l, record)
    /\ UNCHANGED <<walOnDisk, snapshot, tmp, directory>>

\* Mutant: the write is acknowledged without the fsync.
AppendUnsynced(w) ==
    /\ MayAppend /\ WriteRecord(Rec(last_seq + 1, w))
    /\ pc' = "apply" /\ op' = "add"
    /\ UNCHANGED <<replayed, memory, acked>>

AppendRecord(w) ==
    /\ MayAppend /\ WriteRecord(Rec(last_seq + 1, w))
    /\ pc' = IF Fsync THEN "fsync" ELSE "apply"
    /\ op' = "add"
    /\ UNCHANGED <<replayed, memory, acked>>

SyncRecord ==
    /\ Step("fsync", "apply")
    /\ FsyncLog
    /\ UNCHANGED <<op, replayed, memory, acked>>

\* The batch in hand is the record just appended.
Batch == wal[Len(wal)].write

ShouldCheckpoint(n) == SnapshotEvery # 0 /\ n >= SnapshotEvery

ApplyThen(step) ==
    /\ pc = "apply" /\ Fits(Batch, shard)
    /\ Insert(Batch)
    /\ pc' = IF ShouldCheckpoint(vectors_since_snapshot') THEN step ELSE "reply"
    /\ UNCHANGED <<files, op, replayed, acked>>

\* Mutant: the log is emptied, no snapshot is written.
ApplyThenTruncate == ApplyThen("truncate")

Apply == ApplyThen("save")

\* The insert raises after the record has been logged: the call fails.
ApplyFails ==
    /\ pc = "apply" /\ ~Fits(Batch, shard)
    /\ Release
    /\ UNCHANGED <<files, replayed, memory, acked>>

Reply ==
    /\ pc = "reply"
    /\ acked' = acked \cup {[seq |-> last_seq, write |-> shard[last_seq]]}
    /\ Release
    /\ UNCHANGED <<files, replayed, memory>>

(***************************************************************************)
(* Checkpoint: save_snapshot (temporary file, fsync, rename, fsync of the  *)
(* directory), then empty the log.  A full write triggers it, and so does  *)
(* FetchSnapshot when there is no snapshot file yet.                       *)
(***************************************************************************)
FetchSnapshot ==
    /\ Step("idle", "save") /\ op' = "fetch"
    /\ ~snapshot.exists
    /\ UNCHANGED <<files, replayed, memory, acked>>

WriteTmp(file) ==
    /\ tmp' = file
    /\ pc' = "fsync_tmp"
    /\ UNCHANGED <<logs, snapshot, directory, replayed, memory, acked>>

\* Mutant: the snapshot claims the number the log begins with.
SaveTmpOldSeq == pc = "save" /\ WriteTmp(Unsynced(snapshot_seq, shard)) /\ UNCHANGED op

SaveTmp == pc = "save" /\ WriteTmp(Unsynced(last_seq, shard)) /\ UNCHANGED op

\* Mutant: the temporary file is renamed without an fsync.
SyncTmpSkipped ==
    /\ Step("fsync_tmp", "rename")
    /\ UNCHANGED <<files, op, replayed, memory, acked>>

SyncTmp ==
    /\ Step("fsync_tmp", "rename")
    /\ tmp' = [tmp EXCEPT !.synced = TRUE]
    /\ DirectoryAfterFsync
    /\ UNCHANGED <<logs, snapshot, op, replayed, memory, acked>>

Rename ==
    /\ Step("rename", "fsync_dir")
    /\ snapshot' = tmp /\ tmp' = NoFile
    /\ UNCHANGED <<logs, directory, op, replayed, memory, acked>>

SyncDir ==
    /\ Step("fsync_dir", "truncate")
    /\ DirectorySynced
    /\ UNCHANGED <<logs, snapshot, tmp, op, replayed, memory, acked>>

Truncate ==
    /\ Step("truncate", "fsync_log")
    /\ wal' = <<>>
    /\ UNCHANGED <<walOnDisk, snapshot, tmp, directory, op, replayed, memory, acked>>

SyncLog ==
    /\ Step("fsync_log", "finish")
    /\ FsyncLog
    /\ UNCHANGED <<op, replayed, memory, acked>>

EndCheckpoint ==
    /\ pc = "finish" /\ op \in {"add", "fetch"}
    /\ pc' = IF op = "add" THEN "reply" ELSE "idle"
    /\ op' = IF op = "add" THEN "add" ELSE "none"
    /\ UNCHANGED <<files, replayed, shard, last_seq, acked>>

\* Mutant: the counter keeps what exceeds the threshold.
FinishCarriesOver ==
    /\ EndCheckpoint /\ snapshot_seq' = last_seq
    /\ vectors_since_snapshot' = vectors_since_snapshot - SnapshotEvery

\* Mutant: the log is emptied and snapshot_seq does not say so.
FinishForgetsSeq ==
    EndCheckpoint /\ vectors_since_snapshot' = 0 /\ UNCHANGED snapshot_seq

FinishCheckpoint ==
    EndCheckpoint /\ vectors_since_snapshot' = 0 /\ snapshot_seq' = last_seq

(***************************************************************************)
(* install_snapshot: the same file-system calls with a peer's snapshot,    *)
(* then load it.  catch_up asks for a snapshot only when the peer's log    *)
(* no longer reaches back to this shard's last write, so the snapshot is   *)
(* ahead of it; that it extends what this replica holds is the promise of  *)
(* the numbered writes (module ReplicatedShard).                           *)
(***************************************************************************)
InstallSnapshot ==
    /\ pc = "idle" /\ op' = "install"
    /\ \E n \in last_seq + 1 .. MaxSeq : \E s \in [1 .. n -> Write] :
          /\ SubSeq(s, 1, last_seq) = shard
          /\ \A i \in 1 .. n : Dim[s[i]] = Dim[s[1]]
          /\ WriteTmp(Unsynced(n, s))

EndInstall ==
    /\ pc = "finish" /\ op = "install"
    /\ Release
    /\ UNCHANGED <<files, replayed, acked>>

\* Mutant: the installed snapshot's number is not taken over.
FinishInstallKeepsSeq ==
    /\ EndInstall
    /\ shard' = snapshot.shard /\ snapshot_seq' = snapshot.last_seq
    /\ vectors_since_snapshot' = 0 /\ UNCHANGED last_seq

FinishInstall == EndInstall /\ LoadSnapshot

(***************************************************************************)
(* Calls that raise an OSError (a full disk, an I/O error).  Nothing       *)
(* catches it: the request fails and the server goes on.                   *)
(***************************************************************************)
\* WriteAheadLog.append: part of the record, or (when only the fsync failed)
\* all of it may have reached the file.
AppendFails(w) ==
    /\ "append" \in Failures /\ MayAppend
    /\ \E reached \in {Torn(last_seq + 1, w), Rec(last_seq + 1, w)} : WriteRecord(reached)
    /\ UNCHANGED <<pc, op, replayed, memory, acked>>

CallFails == Release /\ UNCHANGED <<files, replayed, memory, acked>>

SaveFails ==
    /\ "save" \in Failures /\ op # "install"
    /\ pc \in {"save", "fsync_tmp", "rename", "fsync_dir"}
    /\ CallFails

ResetFails ==
    /\ "reset" \in Failures /\ op # "install"
    /\ pc \in {"truncate", "fsync_log"}
    /\ CallFails

\* The new snapshot may have its name already: the index stays the old one.
InstallFails ==
    /\ "install" \in Failures /\ op = "install"
    /\ CallFails

(***************************************************************************)
(* Crashes.  A process that dies leaves the files as the system has them;  *)
(* one that dies inside an append may leave part of a record.              *)
(***************************************************************************)
ForgetMemory ==
    /\ pc' = "down" /\ op' = "none" /\ replayed' = 0
    /\ shard' = <<>> /\ last_seq' = 0
    /\ snapshot_seq' = 0 /\ vectors_since_snapshot' = 0
    /\ UNCHANGED acked

Crash ==
    /\ "process" \in Crashes /\ pc # "down"
    /\ ForgetMemory
    /\ UNCHANGED files

CrashInAppend(w) ==
    /\ "process" \in Crashes /\ MayAppend
    /\ WriteRecord(Torn(last_seq + 1, w))
    /\ ForgetMemory

\* What wal.log may hold after the machine stops: what was synced, followed
\* by some of what was not, the last record possibly in part.  Of a log cut or
\* emptied since its last fsync, the old contents may be back.
Extends(l, older) == Len(older) <= Len(l) /\ SubSeq(l, 1, Len(older)) = older

OnDisk(n) == n <= Len(walOnDisk) /\ SubSeq(wal, 1, n) = SubSeq(walOnDisk, 1, n)

CutPoints == {n \in 0 .. Len(wal) : \A m \in n + 1 .. Len(wal) : ~OnDisk(m)}

LogsAfterPowerFailure ==
    {SubSeq(wal, 1, n) : n \in CutPoints}
    \cup {Append(SubSeq(wal, 1, n), [wal[n + 1] EXCEPT !.intact = FALSE]) :
             n \in CutPoints \ {Len(wal)}}
    \cup {k \in {walOnDisk} : ~Extends(wal, k)}

AfterPowerFailure(f) == IF f.synced THEN f ELSE EmptyFile

\* Where directory changes are ordered, a rename that was lost means that
\* nothing done after it reached the disk either.
LostRenameAllows(l) ==
    DirectoryOrdered => \A i \in 1 .. Len(l) : l[i].seq <= snapshot.last_seq

PowerFailure ==
    /\ "power" \in Crashes
    /\ \/ /\ wal' \in LogsAfterPowerFailure
          /\ logLinked' = (logLinked \/ wal' # <<>>)
       \/ /\ ~logLinked           \* the directory entry never reached the disk
          /\ wal' = <<>>
          /\ UNCHANGED logLinked
    /\ walOnDisk' = wal'
    /\ \/ snapshot' = AfterPowerFailure(snapshot)
       \/ /\ snapshot' = AfterPowerFailure(snapshotOnDisk)
          /\ LostRenameAllows(wal')
    /\ snapshotOnDisk' = snapshot'
    /\ ForgetMemory
    /\ UNCHANGED tmp

-----------------------------------------------------------------------------
Opening == Open \/ SyncCut \/ ReplaySkip \/ ReplayApply \/ ReplayRefused
           \/ ReplayDone

Adding == \/ \E w \in Write : AppendRecord(w)
          \/ SyncRecord \/ Apply \/ ApplyFails \/ Reply

Checkpointing == FetchSnapshot \/ SaveTmp \/ SyncTmp \/ Rename \/ SyncDir
                 \/ Truncate \/ SyncLog \/ FinishCheckpoint

Installing == InstallSnapshot \/ FinishInstall

Failing == (\E w \in Write : AppendFails(w)) \/ SaveFails \/ ResetFails
           \/ InstallFails

Crashing == Crash \/ (\E w \in Write : CrashInAppend(w)) \/ PowerFailure

Next == Opening \/ Adding \/ Checkpointing \/ Installing \/ Failing \/ Crashing

Spec == Init /\ [][Next]_vars

-----------------------------------------------------------------------------
(***************************************************************************)
(* Properties.                                                             *)
(***************************************************************************)
Steps == {"down", "cut", "replay", "refused", "idle", "fsync", "apply", "reply",
          "save", "fsync_tmp", "rename", "fsync_dir", "truncate", "fsync_log", "finish"}

\* Every variable keeps its type.
TypeOK ==
    /\ wal \in Seq(Record) /\ walOnDisk \in Seq(Record)
    /\ snapshot \in SnapshotFile /\ snapshotOnDisk \in SnapshotFile
    /\ tmp \in SnapshotFile
    /\ logLinked \in BOOLEAN
    /\ pc \in Steps /\ op \in {"none", "add", "fetch", "install"}
    /\ replayed \in Nat
    /\ shard \in Seq(Write) /\ last_seq \in Nat
    /\ snapshot_seq \in Nat /\ vectors_since_snapshot \in Nat
    /\ acked \subseteq [seq : Nat, write : Write]

\* A restart from the present files would rebuild write w under number s:
\* from the snapshot, or from the first readable record with that number
\* (replay skips a number it has already reached).
RecordAt(i, s, w) ==
    /\ wal[i].seq = s /\ wal[i].write = w
    /\ \A j \in 1 .. i : wal[j].intact
    /\ \A j \in 1 .. i - 1 : wal[j].seq # s

Rebuilt(s, w) ==
    IF s <= snapshot.last_seq
      THEN s \in 1 .. Len(snapshot.shard) /\ snapshot.shard[s] = w
      ELSE \E i \in 1 .. Len(wal) : RecordAt(i, s, w)

\* "Zero loss of acknowledged writes": at every moment, a restart would find
\* each write whose Add has returned, under the number it was given.
AckedSurvive == \A a \in acked : Rebuilt(a.seq, a.write)

\* Whatever the crash interrupted, the shard opens again: replay never meets
\* a gap in the numbering or a record it cannot insert, and the snapshot
\* file is never one that was still being written.
NeverRefused == pc # "refused"

\* Between two requests the files and the index agree: a restart would
\* rebuild exactly the index in memory, no batch missing, added or moved.
\* So no record is applied twice after a crash between renaming a snapshot
\* and emptying the log, and what FetchSnapshot serves is a prefix of the index.
RestartRebuildsMemory ==
    pc = "idle" =>
        /\ Len(shard) = last_seq
        /\ \A s \in 1 .. last_seq : Rebuilt(s, shard[s])
        /\ snapshot.last_seq <= last_seq /\ Extends(shard, snapshot.shard)
        /\ \A i \in 1 .. Len(wal) : wal[i].seq <= last_seq

\* records_after(after), for a lagging replica: which records of the log it returns
\* when it does not answer "fetch the snapshot instead".
RecordsAfter(after) == {i \in DOMAIN ReadRecords(wal) : ReadRecords(wal)[i].seq > after}

\* A replica that FetchLog does not refuse gets every write it is missing,
\* in order: snapshot_seq (memory) never promises more than the log holds.
FetchLogComplete ==
    pc = "idle" =>
        \A after \in snapshot_seq .. last_seq :
            LET records == ReadRecords(wal)
                sent    == RecordsAfter(after)
            IN  /\ {records[i] : i \in sent} = {Rec(s, shard[s]) : s \in after + 1 .. last_seq}
                /\ \A i, j \in sent : i < j => records[i].seq < records[j].seq

\* FetchLog answers a replica that has just installed the snapshot file,
\* whichever call failed before: catch_up does not fetch it over and over.
\* The file holds as many batches as it claims.
SnapshotReachesLog ==
    snapshot.exists => /\ snapshot.last_seq >= snapshot_seq
                       /\ Len(snapshot.shard) = snapshot.last_seq

\* A call that fails half-way leaves the index as it was or one batch longer;
\* within one life of the process nothing is ever removed from it.
MemoryOnlyGrows ==
    [][pc \notin {"down", "refused"} /\ pc' # "down" =>
          Extends(shard', shard) /\ Len(shard') = last_seq']_vars

-----------------------------------------------------------------------------
(***************************************************************************)
(* What the files are worth: the sequence of writes a restart would        *)
(* rebuild.  The shard implements DurableLog with it.                      *)
(***************************************************************************)
Numbers == {snapshot.last_seq} \cup {wal[i].seq : i \in 1 .. IntactLen(wal)}

LastNumber == CHOOSE n \in Numbers : \A m \in Numbers : m <= n

Contents == [s \in 1 .. LastNumber |-> CHOOSE w \in Write : Rebuilt(s, w)]

DurableLog == INSTANCE DurableLog WITH log <- Contents

\* The shard, as its files are worth after a crash, is a durable log.
ImplementsDurableLog == DurableLog!Spec

\* Only a power failure takes anything away from what a restart rebuilds:
\* checkpoints, installs, truncations and dying processes never do.
OnlyPowerFailuresLose == [][PowerFailure \/ Extends(Contents', Contents)]_vars

\* The files can be opened: the snapshot is whole, and no number is missing.
Opens ==
    /\ snapshot # EmptyFile
    /\ \A s \in 1 .. LastNumber : \E w \in Write : Rebuilt(s, w)

\* A power failure takes writes only from the end (with --fsync off, any number
\* of them and acknowledged ones too): whichever append, checkpoint or install it
\* interrupts, what is left opens and is a prefix of what there was.
PowerFailureTakesTheEnd ==
    [][PowerFailure => Opens' /\ Extends(Contents, Contents')]_vars
=============================================================================
