------------------------- MODULE DurableShard_proofs -------------------------
(***************************************************************************)
(* Proofs about DurableShard that hold for all values of its constants:    *)
(* its variables keep their types, within one life of the process the      *)
(* index only grows, and the snapshot file reaches the log.  Then, for all *)
(* values that Careful admits, that whatever a crash interrupts the shard  *)
(* opens again, that no write is applied twice, that a power failure takes *)
(* writes only from the end, and that lagging replicas get all they are    *)
(* missing.  And, where the log is fsynced if the machine may stop         *)
(* (Synced), that the shard keeps what its name promises: no acknowledged  *)
(* write is ever lost, and what its files are worth is a durable log       *)
(* (module DurableLog).                                                    *)
(***************************************************************************)
EXTENDS DurableShard, FiniteOrders, FiniteSetTheorems, SequenceTheorems, TLAPS

-----------------------------------------------------------------------------
(***************************************************************************)
(* What holds whatever the constants are: types, sizes, and the snapshot   *)
(* being written.                                                          *)
(***************************************************************************)
Serving   == pc \notin {"down", "cut", "replay", "refused"}
Published == pc \in {"fsync_dir", "truncate", "fsync_log", "finish"}
Saving    == pc \in {"fsync_tmp", "rename"}
Appended  == pc \in {"fsync", "apply"}

Sized ==
    /\ Appended => wal # <<>>
    /\ Len(shard) = last_seq
    /\ \A f \in {snapshot, snapshotOnDisk, tmp} : Len(f.shard) = f.last_seq
    /\ snapshot.synced /\ snapshotOnDisk.synced
    /\ pc = "rename" => tmp.synced
    /\ pc \in {"fsync", "apply", "reply", "save"} => op # "install"
    /\ ~Serving => op = "none"
    /\ pc = "reply" \/ (op = "add" /\ ~Appended) => last_seq >= 1

\* The snapshot being written is the index, or a peer's that extends it.
Continues(f) ==
    /\ last_seq <= f.last_seq
    /\ \A s \in 1 .. last_seq : f.shard[s] = shard[s]
    /\ op # "install" => f.last_seq = last_seq

SavingInv ==
    /\ Saving => Continues(tmp)
    /\ Published => Continues(snapshot)

BaseInv == TypeOK /\ Sized /\ SavingInv

-----------------------------------------------------------------------------
(***************************************************************************)
(* Lemmas about logs.                                                      *)
(***************************************************************************)
\* _read_records returns a prefix of the log.
LEMMA ReadRecordsPrefix ==
    ASSUME NEW l \in Seq(Record)
    PROVE  /\ IntactLen(l) \in 0 .. Len(l)
           /\ ReadRecords(l) \in Seq(Record)
           /\ Len(ReadRecords(l)) = IntactLen(l)
           /\ \A i \in 1 .. IntactLen(l) : ReadRecords(l)[i] = l[i]
<1> DEFINE Good == {n \in 1 .. Len(l) : \A i \in 1 .. n : l[i].intact}
<1>1. Len(l) \in Nat
  BY LenProperties
<1>2. IsFiniteSet(1 .. Len(l)) /\ Cardinality(1 .. Len(l)) = Len(l)
  BY <1>1, FS_Interval
<1>3. Good \in SUBSET (1 .. Len(l))
  OBVIOUS
<1>4. IsFiniteSet(Good) /\ Cardinality(Good) <= Len(l)
  BY <1>2, <1>3, FS_Subset
<1>5. Cardinality(Good) \in Nat
  BY <1>4, FS_CardinalityType
<1>6. IntactLen(l) \in 0 .. Len(l)
  BY <1>1, <1>4, <1>5 DEF IntactLen
<1>7. \A i \in 1 .. IntactLen(l) : l[i] \in Record
  BY <1>1, <1>6, ElementOfSeq
<1>8. QED
  BY <1>6, <1>7, SubSeqProperties DEF ReadRecords

-----------------------------------------------------------------------------
(***************************************************************************)
(* Type correctness, for all values of the constants.                      *)
(***************************************************************************)
LEMMA FileTypes ==
    /\ NoFile \in SnapshotFile /\ EmptyFile \in SnapshotFile
    /\ \A n \in Nat : \A s \in Seq(Write) : Unsynced(n, s) \in SnapshotFile
    /\ \A s \in Nat : \A w \in Write : Rec(s, w) \in Record /\ Torn(s, w) \in Record
BY EmptySeq DEF NoFile, EmptyFile, Unsynced, SnapshotFile, Rec, Torn, Record

LEMMA BaseInit == Init => BaseInv
<1> SUFFICES ASSUME Init PROVE BaseInv
  OBVIOUS
<1> USE DEF Init
<1>1. TypeOK
  BY FileTypes, EmptySeq DEF TypeOK, Steps
<1>2. NoFile.synced
  BY DEF NoFile
<1>4. Len(NoFile.shard) = NoFile.last_seq
  BY EmptySeq DEF NoFile
<1>5. Sized
  BY <1>2, <1>4, EmptySeq DEF Sized, Appended, Serving
<1>3. SavingInv
  BY DEF SavingInv, Saving, Published
<1>6. QED BY <1>1, <1>5, <1>3 DEF BaseInv

LEMMA LogsAfterPowerFailureType ==
    ASSUME wal \in Seq(Record), walOnDisk \in Seq(Record)
    PROVE  LogsAfterPowerFailure \subseteq Seq(Record)
<1>1. \A i \in 1 .. Len(wal) : wal[i] \in Record
  BY ElementOfSeq
<1>2. Len(wal) \in Nat /\ Len(walOnDisk) \in Nat
  BY LenProperties
<1>3. \A n \in 0 .. Len(wal) : SubSeq(wal, 1, n) \in Seq(Record)
  BY <1>1, <1>2, SubSeqProperties
<1>4. \A n \in 0 .. Len(wal) - 1 : [wal[n + 1] EXCEPT !.intact = FALSE] \in Record
  <2>1. \A r \in Record : [r EXCEPT !.intact = FALSE] \in Record
    BY DEF Record
  <2>2. \A n \in 0 .. Len(wal) - 1 : n + 1 \in 1 .. Len(wal)
    BY <1>2
  <2> QED
    BY <1>1, <2>1, <2>2
<1>5. \A n \in 0 .. Len(wal) - 1 :
         Append(SubSeq(wal, 1, n), [wal[n + 1] EXCEPT !.intact = FALSE]) \in Seq(Record)
  BY <1>2, <1>3, <1>4, AppendProperties
<1>6. \A n \in CutPoints : n \in 0 .. Len(wal)
  BY DEF CutPoints
<1>7. \A n \in CutPoints \ {Len(wal)} : n \in 0 .. Len(wal) - 1
  BY <1>2, <1>6
<1> DEFINE A == {SubSeq(wal, 1, n) : n \in CutPoints}
           B == {Append(SubSeq(wal, 1, n), [wal[n + 1] EXCEPT !.intact = FALSE]) :
                   n \in CutPoints \ {Len(wal)}}
           C == {k \in {walOnDisk} : ~Extends(wal, k)}
<1>8. A \subseteq Seq(Record)
  BY <1>3, <1>6
<1>9. B \subseteq Seq(Record)
  <2>1. \A n \in CutPoints \ {Len(wal)} :
           Append(SubSeq(wal, 1, n), [wal[n + 1] EXCEPT !.intact = FALSE]) \in Seq(Record)
    BY <1>5, <1>7
  <2> QED
    BY <2>1, Zenon
<1>10. C \subseteq Seq(Record)
  OBVIOUS
<1>11. LogsAfterPowerFailure = A \cup B \cup C
  BY DEF LogsAfterPowerFailure
<1> QED
  BY <1>8, <1>9, <1>10, <1>11

\* What the buffer may add to the file leaves the whole records as they are.
LEMMA FlushedLogs ==
    ASSUME wal \in Seq(Record), NEW l \in Flushed
    PROVE  /\ l \in Seq(Record) /\ Len(l) = Len(wal)
           /\ \A i \in 1 .. Len(wal) : wal[i].intact => l[i] = wal[i]
<1>1. CASE l = wal
  BY <1>1
<1>2. CASE l # wal
  <2> DEFINE n == Len(wal)
             r == [wal[n] EXCEPT !.intact = TRUE]
  <2>1. wal # <<>> /\ l = [wal EXCEPT ![n].intact = TRUE]
    BY <1>2 DEF Flushed
  <2>2. n \in Nat /\ n \in 1 .. n
    BY <2>1, EmptySeq, LenProperties
  <2>3. wal[n] \in Record
    BY <2>2, ElementOfSeq
  <2>4. r \in Record /\ (wal[n].intact => r = wal[n])
    <3>1. \A q \in Record : /\ [q EXCEPT !.intact = TRUE] \in Record
                            /\ q.intact => [q EXCEPT !.intact = TRUE] = q
      BY DEF Record
    <3> QED
      BY <2>3, <3>1
  <2>5. l = [wal EXCEPT ![n] = r]
    BY <2>1
  <2> HIDE DEF r
  <2>6. /\ l \in Seq(Record) /\ Len(l) = n
        /\ \A i \in 1 .. n : l[i] = IF i = n THEN r ELSE wal[i]
    BY <2>2, <2>4, <2>5, ExceptSeq
  <2> QED
    BY <2>2, <2>4, <2>6
<1> QED
  BY <1>1, <1>2

LEMMA WrittenLog ==
    ASSUME wal \in Seq(Record), NEW r \in Record, WriteRecord(r)
    PROVE  /\ wal' \in Seq(Record) /\ wal' # <<>>
           /\ Len(wal') = Len(wal) + 1 /\ wal'[Len(wal')] = r
           /\ \A i \in 1 .. Len(wal) : wal[i].intact => wal'[i] = wal[i]
<1>1. PICK l \in Flushed : wal' = Append(l, r)
  BY DEF WriteRecord
<1>2. /\ l \in Seq(Record) /\ Len(l) = Len(wal) /\ Len(wal) \in Nat
      /\ \A i \in 1 .. Len(wal) : wal[i].intact => l[i] = wal[i]
  BY <1>1, FlushedLogs, LenProperties
<1>3. /\ wal' \in Seq(Record) /\ Len(wal') = Len(wal) + 1 /\ wal'[Len(wal) + 1] = r
      /\ \A i \in 1 .. Len(wal) : wal'[i] = l[i]
  BY <1>1, <1>2, AppendProperties
<1> QED
  BY <1>2, <1>3, EmptySeq

LEMMA RecordTypes ==
    ASSUME BaseInv
    PROVE  /\ Replaying => NextRecord \in Record /\ replayed + 1 \in 1 .. Len(wal)
           /\ Appended => Len(wal) \in 1 .. Len(wal) /\ Batch \in Write
<1> USE DEF BaseInv, TypeOK
<1>1. Len(wal) \in Nat /\ \A i \in 1 .. Len(wal) : wal[i] \in Record
  BY ElementOfSeq, LenProperties
<1>2. ASSUME Replaying
      PROVE  NextRecord \in Record /\ replayed + 1 \in 1 .. Len(wal)
  BY <1>1, <1>2 DEF Replaying, NextRecord
<1>3. ASSUME Appended
      PROVE  Len(wal) \in 1 .. Len(wal) /\ Batch \in Write
  <2>1. Len(wal) \in 1 .. Len(wal)
    BY <1>1, <1>3, EmptySeq DEF Sized
  <2>2. wal[Len(wal)] \in Record
    BY <1>1, <2>1
  <2> QED
    BY <2>1, <2>2 DEF Batch, Record
<1> QED
  BY <1>2, <1>3

LEMMA TypeStep == BaseInv /\ [Next]_vars => TypeOK'
<1> SUFFICES ASSUME BaseInv, [Next]_vars
             PROVE  TypeOK'
  OBVIOUS
<1> USE ConstantsAssumption DEF BaseInv, TypeOK, Steps
<1>1. CASE Open
  <2>1. wal' \in Seq(Record)
    BY <1>1, ReadRecordsPrefix DEF Open
  <2>2. shard' \in Seq(Write) /\ last_seq' \in Nat /\ snapshot_seq' \in Nat
    BY <1>1 DEF Open, LoadSnapshot, SnapshotFile
  <2> QED
    BY <1>1, <2>1, <2>2 DEF Open, LoadSnapshot, directory
<1>2. CASE SyncCut \/ SyncRecord \/ SyncLog
  BY <1>2 DEF SyncCut, SyncRecord, SyncLog, Step, FsyncLog, DirectoryAfterFsync,
              DirectorySynced, directory, memory
<1>3. CASE ReplaySkip \/ ReplayRefused \/ ReplayDone
  BY <1>3 DEF ReplaySkip, ReplayRefused, ReplayDone, Replaying, PassOver, Step,
              files, logs, directory, memory
<1>4. CASE ReplayApply
  <2>1. NextRecord.write \in Write
    BY <1>4, RecordTypes DEF ReplayApply, Record
  <2>2. shard' \in Seq(Write) /\ last_seq' \in Nat /\ vectors_since_snapshot' \in Nat
    BY <1>4, <2>1, AppendProperties DEF ReplayApply, ReplayInsert, Insert
  <2> QED
    BY <1>4, <2>2 DEF ReplayApply, Replaying, ReplayInsert, Insert, files, logs, directory
<1>5. ASSUME NEW w \in Write, AppendRecord(w)
      PROVE  TypeOK'
  <2>1. wal' \in Seq(Record)
    BY <1>5, FileTypes, WrittenLog DEF AppendRecord
  <2> QED
    BY <1>5, <2>1 DEF AppendRecord, WriteRecord, memory, directory
<1>20. ASSUME NEW w \in Write, AppendFails(w)
       PROVE  TypeOK'
  <2>1. PICK r \in Record : WriteRecord(r)
    BY <1>20, FileTypes DEF AppendFails
  <2>2. wal' \in Seq(Record)
    BY <2>1, WrittenLog
  <2> QED
    BY <1>20, <2>1, <2>2 DEF AppendFails, WriteRecord, memory, directory
<1>21. ASSUME NEW w \in Write, CrashInAppend(w)
       PROVE  TypeOK'
  <2>1. wal' \in Seq(Record)
    BY <1>21, FileTypes, WrittenLog DEF CrashInAppend
  <2> QED
    BY <1>21, <2>1, EmptySeq DEF CrashInAppend, WriteRecord, ForgetMemory, directory
<1>6. CASE Apply
  <2>1. Batch \in Write
    BY <1>6, RecordTypes DEF Apply, ApplyThen, Appended
  <2>2. shard' \in Seq(Write) /\ last_seq' \in Nat /\ vectors_since_snapshot' \in Nat
    BY <1>6, <2>1, AppendProperties DEF Apply, ApplyThen, Insert
  <2> QED
    BY <1>6, <2>2 DEF Apply, ApplyThen, Insert, files, logs, directory
<1>7. CASE Reply
  <2>1. shard[last_seq] \in Write
    BY <1>7, ElementOfSeq DEF Reply, Sized
  <2> QED
    BY <1>7, <2>1 DEF Reply, Release, files, logs, directory, memory
<1>8. CASE ApplyFails \/ FetchSnapshot \/ SaveFails \/ ResetFails \/ InstallFails
  BY <1>8 DEF ApplyFails, FetchSnapshot, SaveFails, ResetFails, InstallFails, CallFails, Release, Step,
              files, logs, directory, memory
<1>9. CASE SaveTmp
  BY <1>9, FileTypes DEF SaveTmp, WriteTmp, logs, directory, memory
<1>10. CASE SyncTmp
  <2>1. tmp' \in SnapshotFile
    BY <1>10 DEF SyncTmp, SnapshotFile
  <2> QED
    BY <1>10, <2>1 DEF SyncTmp, Step, DirectoryAfterFsync, DirectorySynced, logs, directory,
                       memory
<1>11. CASE Rename
  BY <1>11, FileTypes DEF Rename, Step, logs, directory, memory
<1>12. CASE SyncDir
  BY <1>12 DEF SyncDir, Step, DirectorySynced, logs, memory
<1>13. CASE Truncate
  BY <1>13, EmptySeq DEF Truncate, Step, directory, memory
<1>14. CASE FinishCheckpoint
  BY <1>14 DEF FinishCheckpoint, EndCheckpoint, files, logs, directory
<1>15. CASE InstallSnapshot
  <2>0. PICK n \in last_seq + 1 .. MaxSeq : \E s \in [1 .. n -> Write] :
                WriteTmp(Unsynced(n, s))
    BY <1>15 DEF InstallSnapshot
  <2>1. PICK s \in [1 .. n -> Write] : WriteTmp(Unsynced(n, s))
    BY <2>0
  <2>2. s \in Seq(Write) /\ n \in Nat
    BY <2>1
  <2>3. tmp' \in SnapshotFile
    BY <2>1, <2>2, FileTypes DEF WriteTmp
  <2> QED
    BY <1>15, <2>1, <2>3 DEF InstallSnapshot, WriteTmp, logs, directory, memory
<1>16. CASE FinishInstall
  <2>1. shard' \in Seq(Write) /\ last_seq' \in Nat /\ snapshot_seq' \in Nat
    BY <1>16 DEF FinishInstall, LoadSnapshot, SnapshotFile
  <2> QED
    BY <1>16, <2>1 DEF FinishInstall, EndInstall, Release, LoadSnapshot, files, logs, directory
<1>17. CASE Crash
  BY <1>17, EmptySeq DEF Crash, ForgetMemory, files, logs, directory
<1>18. CASE PowerFailure
  <2>1. wal' \in Seq(Record)
    BY <1>18, LogsAfterPowerFailureType, EmptySeq DEF PowerFailure
  <2>2. snapshot' \in SnapshotFile
    BY <1>18, FileTypes DEF PowerFailure, AfterPowerFailure
  <2>3. logLinked' \in BOOLEAN
    BY <1>18 DEF PowerFailure
  <2> QED
    BY <1>18, <2>1, <2>2, <2>3, EmptySeq DEF PowerFailure, ForgetMemory
<1>19. CASE UNCHANGED vars
  BY <1>19 DEF vars, files, logs, directory, memory
<1> QED
  BY <1>1, <1>2, <1>3, <1>4, <1>5, <1>6, <1>7, <1>8, <1>9, <1>10, <1>11, <1>12, <1>13,
     <1>14, <1>15, <1>16, <1>17, <1>18, <1>19, <1>20, <1>21
  DEF Next, Opening, Adding, Checkpointing, Installing, Failing, Crashing

LEMMA SizedStep == BaseInv /\ [Next]_vars => Sized'
<1> SUFFICES ASSUME BaseInv, [Next]_vars
             PROVE  Sized'
  OBVIOUS
<1> USE ConstantsAssumption DEF BaseInv, Sized, Appended, Serving
<1>1. CASE Open
  BY <1>1 DEF Open, LoadSnapshot, directory, TypeOK
<1>2. CASE SyncCut \/ SyncRecord \/ SyncLog
  BY <1>2 DEF SyncCut, SyncRecord, SyncLog, Step, FsyncLog, DirectoryAfterFsync,
              DirectorySynced, directory, memory
<1>3. CASE ReplaySkip \/ ReplayRefused \/ ReplayDone
  BY <1>3 DEF ReplaySkip, ReplayRefused, ReplayDone, Replaying, PassOver, Step,
              files, logs, directory, memory
<1>4. CASE ReplayApply
  <2>1. Len(shard') = last_seq'
    BY <1>4, RecordTypes, AppendProperties
    DEF ReplayApply, ReplayInsert, Insert, Record, TypeOK
  <2> QED
    BY <1>4, <2>1 DEF ReplayApply, Replaying, ReplayInsert, Insert, files, logs, directory,
                      TypeOK
<1>5. ASSUME NEW w \in Write, AppendRecord(w)
      PROVE  Sized'
  <2>1. wal' # <<>>
    <3>1. Rec(last_seq + 1, w) \in Record
      BY <1>5, FileTypes DEF TypeOK
    <3> QED
      BY <1>5, <3>1, WrittenLog DEF AppendRecord, TypeOK
  <2> QED
    BY <1>5, <2>1 DEF AppendRecord, WriteRecord, memory, directory
<1>6. ASSUME NEW w \in Write, AppendFails(w)
      PROVE  Sized'
  BY <1>6 DEF AppendFails, MayAppend, WriteRecord, memory, directory
<1>7. ASSUME NEW w \in Write, CrashInAppend(w)
      PROVE  Sized'
  BY <1>7, EmptySeq DEF CrashInAppend, WriteRecord, ForgetMemory, directory
<1>8. CASE Apply
  <2>1. Len(shard') = last_seq' /\ last_seq' >= 1
    BY <1>8, RecordTypes, AppendProperties DEF Apply, ApplyThen, Insert, TypeOK
  <2> QED
    BY <1>8, <2>1 DEF Apply, ApplyThen, Insert, files, logs, directory
<1>9. CASE Reply
  BY <1>9 DEF Reply, Release, files, logs, directory, memory
<1>10. CASE ApplyFails \/ FetchSnapshot \/ SaveFails \/ ResetFails \/ InstallFails
  BY <1>10 DEF ApplyFails, FetchSnapshot, SaveFails, ResetFails, InstallFails, CallFails, Release, Step,
               files, logs, directory, memory
<1>11. CASE SaveTmp
  BY <1>11 DEF SaveTmp, WriteTmp, Unsynced, logs, directory, memory
<1>12. CASE SyncTmp
  <2>1. tmp' = [tmp EXCEPT !.synced = TRUE] /\ tmp \in SnapshotFile
    BY <1>12 DEF SyncTmp, TypeOK
  <2>2. tmp'.synced /\ tmp'.shard = tmp.shard /\ tmp'.last_seq = tmp.last_seq
    BY <2>1 DEF SnapshotFile
  <2> QED
    BY <1>12, <2>2 DEF SyncTmp, Step, DirectoryAfterFsync, DirectorySynced, logs, directory,
                       memory
<1>13. CASE Rename
  <2>1. Len(NoFile.shard) = NoFile.last_seq
    BY EmptySeq DEF NoFile
  <2> QED
    BY <1>13, <2>1 DEF Rename, Step, logs, directory, memory
<1>14. CASE SyncDir
  BY <1>14 DEF SyncDir, Step, DirectorySynced, logs, memory
<1>15. CASE Truncate
  BY <1>15 DEF Truncate, Step, directory, memory
<1>16. CASE FinishCheckpoint
  BY <1>16 DEF FinishCheckpoint, EndCheckpoint, files, logs, directory
<1>17. CASE InstallSnapshot
  <2>1. PICK n \in last_seq + 1 .. MaxSeq : \E s \in [1 .. n -> Write] :
                WriteTmp(Unsynced(n, s))
    BY <1>17 DEF InstallSnapshot
  <2>2. PICK s \in [1 .. n -> Write] : WriteTmp(Unsynced(n, s))
    BY <2>1
  <2>3. n \in Nat /\ Len(s) = n
    BY <2>1, <2>2 DEF TypeOK
  <2>4. Len(tmp'.shard) = tmp'.last_seq
    BY <2>2, <2>3 DEF WriteTmp, Unsynced
  <2> QED
    BY <1>17, <2>2, <2>4 DEF InstallSnapshot, WriteTmp, logs, directory, memory
<1>18. CASE FinishInstall
  BY <1>18 DEF FinishInstall, EndInstall, Release, LoadSnapshot, files, logs, directory
<1>19. CASE Crash
  BY <1>19, EmptySeq DEF Crash, ForgetMemory, files, logs, directory
<1>20. CASE PowerFailure
  BY <1>20, EmptySeq DEF PowerFailure, AfterPowerFailure, ForgetMemory
<1>21. CASE UNCHANGED vars
  BY <1>21 DEF vars, files, logs, directory, memory
<1> QED
  BY <1>1, <1>2, <1>3, <1>4, <1>5, <1>6, <1>7, <1>8, <1>9, <1>10, <1>11, <1>12, <1>13,
     <1>14, <1>15, <1>16, <1>17, <1>18, <1>19, <1>20, <1>21
  DEF Next, Opening, Adding, Checkpointing, Installing, Failing, Crashing

LEMMA SavingStep == BaseInv /\ [Next]_vars => SavingInv'
<1> SUFFICES ASSUME BaseInv, [Next]_vars
             PROVE  SavingInv'
  OBVIOUS
<1> USE DEF BaseInv, SavingInv, Saving, Published, Continues
<1>1. CASE ~Saving' /\ ~Published'
  BY <1>1
<1>2. CASE SaveTmp
  <2>1. tmp'.last_seq = last_seq /\ tmp'.shard = shard
    BY <1>2 DEF SaveTmp, WriteTmp, Unsynced
  <2> QED
    BY <1>2, <2>1 DEF SaveTmp, WriteTmp, memory, TypeOK
<1>3. CASE InstallSnapshot
  <2>1. PICK n \in last_seq + 1 .. MaxSeq : \E s \in [1 .. n -> Write] :
                SubSeq(s, 1, last_seq) = shard /\ WriteTmp(Unsynced(n, s))
    BY <1>3 DEF InstallSnapshot
  <2>2. PICK s \in [1 .. n -> Write] :
                SubSeq(s, 1, last_seq) = shard /\ WriteTmp(Unsynced(n, s))
    BY <2>1
  <2>3. n \in Nat /\ last_seq \in Nat /\ last_seq <= n
    BY <2>1, ConstantsAssumption DEF TypeOK
  <2>4. \A i \in 1 .. last_seq : shard[i] = s[i]
    BY <2>2, <2>3, SubSeqProperties
  <2>5. tmp'.last_seq = n /\ tmp'.shard = s
    BY <2>2 DEF WriteTmp, Unsynced
  <2> QED
    BY <1>3, <2>2, <2>3, <2>4, <2>5 DEF InstallSnapshot, WriteTmp, memory
<1>4. CASE SyncTmp
  <2>1. tmp' = [tmp EXCEPT !.synced = TRUE] /\ tmp \in SnapshotFile
    BY <1>4 DEF SyncTmp, TypeOK
  <2>2. tmp'.shard = tmp.shard /\ tmp'.last_seq = tmp.last_seq
    BY <2>1 DEF SnapshotFile
  <2> QED
    BY <1>4, <2>2 DEF SyncTmp, Step, memory
<1>5. CASE Rename
  BY <1>5 DEF Rename, Step, memory
<1>6. CASE SyncDir
  BY <1>6 DEF SyncDir, Step, memory
<1>7. CASE Truncate
  BY <1>7 DEF Truncate, Step, memory
<1>8. CASE SyncLog
  BY <1>8 DEF SyncLog, Step, FsyncLog, memory
<1>9. CASE Apply
  BY <1>9 DEF Apply, ApplyThen
<1>10. CASE UNCHANGED vars
  BY <1>10 DEF vars, files, logs, memory
<1>11. CASE /\ ~(SaveTmp \/ InstallSnapshot \/ SyncTmp \/ Rename \/ SyncDir \/ Truncate)
            /\ ~(SyncLog \/ Apply \/ UNCHANGED vars)
  <2>1. ~Saving' /\ ~Published'
    BY <1>11 DEF Next, Opening, Adding, Checkpointing, Installing, Failing, Crashing,
       Open, SyncCut, SyncRecord, ReplaySkip, ReplayApply, ReplayRefused, ReplayDone,
       PassOver, ReplayInsert, Replaying, Step, Release,
       AppendRecord, ApplyFails, Reply, FetchSnapshot, FinishCheckpoint, EndCheckpoint,
       FinishInstall, EndInstall, AppendFails, MayAppend, SaveFails, ResetFails, InstallFails, CallFails,
       Crash, CrashInAppend, PowerFailure, ForgetMemory
  <2> QED
    BY <1>1, <2>1
<1> QED
  BY <1>2, <1>3, <1>4, <1>5, <1>6, <1>7, <1>8, <1>9, <1>10, <1>11

\* The variables keep their types, in every run of every configuration.
THEOREM TypeCorrect == Spec => []TypeOK
<1>1. Init => BaseInv
  BY BaseInit
<1>2. BaseInv /\ [Next]_vars => BaseInv'
  BY TypeStep, SizedStep, SavingStep DEF BaseInv
<1>3. BaseInv => TypeOK
  BY DEF BaseInv
<1> QED
  BY <1>1, <1>2, <1>3, PTL DEF Spec

-----------------------------------------------------------------------------
(***************************************************************************)
(* Within one life of the process the index only grows.                    *)
(***************************************************************************)
LEMMA ExtendsByPrefix ==
    ASSUME NEW S, NEW l \in Seq(S), NEW k \in Seq(S), Len(k) <= Len(l),
           \A i \in 1 .. Len(k) : l[i] = k[i]
    PROVE  Extends(l, k)
<1>1. Len(k) \in Nat /\ Len(l) \in Nat /\ \A i \in 1 .. Len(l) : l[i] \in S
  BY LenProperties, ElementOfSeq
<1>2. \A i \in 1 .. Len(k) : l[i] \in S
  BY <1>1
<1> DEFINE p == SubSeq(l, 1, Len(k))
<1>3. p \in Seq(S) /\ Len(p) = Len(k) /\ \A i \in 1 .. Len(k) : p[i] = l[i]
  BY <1>1, <1>2, SubSeqProperties
<1>4. p = k
  BY <1>3, SeqEqual
<1> QED
  BY <1>4 DEF Extends

LEMMA ExtendsByAppend ==
    ASSUME NEW S, NEW l \in Seq(S), NEW e \in S
    PROVE  Extends(Append(l, e), l)
<1> DEFINE longer == Append(l, e)
<1>1. Len(l) \in Nat /\ longer \in Seq(S) /\ Len(longer) = Len(l) + 1
      /\ \A i \in 1 .. Len(l) : longer[i] = l[i]
  BY AppendProperties, LenProperties
<1> HIDE DEF longer
<1>2. Extends(longer, l)
  BY <1>1, ExtendsByPrefix
<1> QED
  BY <1>2 DEF longer

LEMMA MemoryStep ==
    ASSUME BaseInv, BaseInv', [Next]_vars, pc \notin {"down", "refused"}, pc' # "down"
    PROVE  Extends(shard', shard) /\ Len(shard') = last_seq'
<1>1. shard \in Seq(Write) /\ shard' \in Seq(Write) /\ Len(shard) = last_seq
      /\ Len(shard') = last_seq' /\ last_seq \in Nat /\ last_seq' \in Nat
  BY DEF BaseInv, TypeOK, Sized
<1>2. CASE shard' = shard
  BY <1>1, <1>2, ExtendsByPrefix
<1>4. CASE FinishInstall
  BY <1>1, <1>4, ExtendsByPrefix
  DEF BaseInv, SavingInv, Published, Continues, FinishInstall, EndInstall, LoadSnapshot
<1>5. CASE ReplayApply
  <2>1. NextRecord.write \in Write /\ shard' = Append(shard, NextRecord.write)
    BY <1>5, RecordTypes DEF ReplayApply, ReplayInsert, Insert, Record
  <2> QED
    BY <1>1, <2>1, ExtendsByAppend
<1>6. CASE Apply
  <2>1. Batch \in Write /\ shard' = Append(shard, Batch)
    BY <1>6, RecordTypes DEF Apply, ApplyThen, Insert, Appended
  <2> QED
    BY <1>1, <2>1, ExtendsByAppend
<1>7. CASE ~(ReplayApply \/ Apply \/ FinishInstall)
  <2>1. shard' = shard
    BY <1>7 DEF Next, Opening, Adding, Checkpointing, Installing, Failing, Crashing,
       Open, SyncCut, SyncRecord, ReplaySkip, ReplayRefused, ReplayDone, PassOver,
       AppendRecord, ApplyFails, Reply, FetchSnapshot, SaveTmp, InstallSnapshot, WriteTmp,
       SyncTmp, Rename, SyncDir, Truncate, SyncLog, FinishCheckpoint, EndCheckpoint,
       AppendFails, SaveFails, ResetFails, InstallFails, CallFails,
       Crash, CrashInAppend, PowerFailure, ForgetMemory, vars, memory
  <2> QED
    BY <2>1, <1>2
<1> QED
  BY <1>1, <1>4, <1>5, <1>6, <1>7

\* A request that fails half-way leaves the index as it was or one batch
\* longer, whatever fails: add_batch, save_snapshot, reset, install_snapshot.
THEOREM MemoryGrows == Spec => MemoryOnlyGrows
<1>1. Init => BaseInv
  BY BaseInit
<1>2. BaseInv /\ [Next]_vars => BaseInv'
  BY TypeStep, SizedStep, SavingStep DEF BaseInv
<1>3. BaseInv /\ BaseInv' /\ [Next]_vars =>
         [pc \notin {"down", "refused"} /\ pc' # "down" =>
             Extends(shard', shard) /\ Len(shard') = last_seq']_vars
  BY MemoryStep
<1> QED
  BY <1>1, <1>2, <1>3, PTL DEF Spec, MemoryOnlyGrows

-----------------------------------------------------------------------------
(***************************************************************************)
(* Whichever call failed before, the snapshot file reaches the log.        *)
(***************************************************************************)
Reached == snapshot_seq <= last_seq /\ snapshot_seq <= snapshot.last_seq

LEMMA ReachedStep ==
    ASSUME BaseInv, BaseInv', Reached, [Next]_vars
    PROVE  Reached'
<1>1. /\ last_seq \in Nat /\ last_seq' \in Nat /\ snapshot_seq \in Nat
      /\ snapshot.last_seq \in Nat /\ snapshot'.last_seq \in Nat
  BY DEF BaseInv, TypeOK, SnapshotFile
<1> USE DEF Reached
<1>2. CASE Open
  BY <1>1, <1>2 DEF Open, LoadSnapshot
<1>3. CASE ReplayApply \/ Apply
  <2>1. /\ last_seq' = last_seq + 1 /\ snapshot_seq' = snapshot_seq /\ snapshot' = snapshot
    BY <1>3 DEF ReplayApply, ReplayInsert, Apply, ApplyThen, Insert, files
  <2> QED
    BY <1>1, <2>1
<1>4. CASE Rename
  <2>1. last_seq <= tmp.last_seq /\ snapshot' = tmp
    BY <1>4 DEF Rename, Step, BaseInv, SavingInv, Saving, Continues
  <2>2. snapshot_seq' = snapshot_seq /\ last_seq' = last_seq
    BY <1>4 DEF Rename, memory
  <2> QED
    BY <1>1, <2>1, <2>2
<1>5. CASE FinishCheckpoint
  <2>1. last_seq <= snapshot.last_seq
    BY <1>5 DEF FinishCheckpoint, EndCheckpoint, BaseInv, SavingInv, Published, Continues
  <2>2. snapshot_seq' = last_seq /\ last_seq' = last_seq /\ snapshot' = snapshot
    BY <1>5 DEF FinishCheckpoint, EndCheckpoint, files
  <2> QED
    BY <1>1, <2>1, <2>2
<1>6. CASE FinishInstall
  BY <1>1, <1>6 DEF FinishInstall, EndInstall, LoadSnapshot, files
<1>7. CASE Crash \/ (\E w \in Write : CrashInAppend(w)) \/ PowerFailure
  <2>1. snapshot_seq' = 0
    BY <1>7 DEF Crash, CrashInAppend, PowerFailure, ForgetMemory
  <2> QED
    BY <1>1, <2>1
<1>8. CASE ~(Open \/ ReplayApply \/ Apply \/ Rename \/ FinishCheckpoint \/ FinishInstall
             \/ Crash \/ (\E w \in Write : CrashInAppend(w)) \/ PowerFailure)
  <2>1. UNCHANGED <<snapshot, last_seq, snapshot_seq>>
    BY <1>8 DEF Next, Opening, Adding, Checkpointing, Installing, Failing, Crashing,
       SyncCut, SyncRecord, SyncLog, FsyncLog, ReplaySkip, ReplayRefused, ReplayDone, PassOver,
       AppendRecord, WriteRecord, ApplyFails, Reply, FetchSnapshot, SaveTmp, InstallSnapshot,
       WriteTmp, SyncTmp, SyncDir, Truncate, AppendFails, SaveFails, ResetFails, InstallFails,
       CallFails, files, memory, vars
  <2> QED
    BY <2>1
<1> QED
  BY <1>2, <1>3, <1>4, <1>5, <1>6, <1>7, <1>8

\* A replica that has installed the snapshot file can go on with the log, also
\* after saves, resets and installs that failed half-way and after any crash:
\* snapshot_seq never runs ahead of the file (add_batch, install_snapshot).
THEOREM SnapshotAlwaysReaches == Spec => []SnapshotReachesLog
<1>1. Init => BaseInv /\ Reached
  BY BaseInit DEF Init, Reached, NoFile
<1>2. BaseInv /\ [Next]_vars => BaseInv'
  BY TypeStep, SizedStep, SavingStep DEF BaseInv
<1>3. BaseInv /\ BaseInv' /\ Reached /\ [Next]_vars => Reached'
  BY ReachedStep
<1>4. BaseInv /\ Reached => SnapshotReachesLog
  BY DEF BaseInv, TypeOK, SnapshotFile, Sized, Reached, SnapshotReachesLog
<1> QED
  BY <1>1, <1>2, <1>3, <1>4, PTL DEF Spec

-----------------------------------------------------------------------------
(***************************************************************************)
(* Proofs that the durable shard keeps what its name promises, for all     *)
(* values of the constants that Careful (and, for what was acknowledged,   *)
(* Synced) admits: no acknowledged write is ever lost, none is applied     *)
(* twice, and whatever a crash interrupts, the shard opens again.          *)
(***************************************************************************)
\* What the code leaves to its callers and to the file system: all vectors
\* have one dimension; no append and no install fails half-way; and where the
\* machine itself may stop, the file system orders directory changes.
Careful ==
    /\ \A v, w \in Write : Dim[v] = Dim[w]
    /\ Failures \cap {"append", "install"} = {}
    /\ "power" \in Crashes => DirectoryOrdered

\* What it leaves to the operator: where the machine itself may stop, the log
\* is fsynced (--fsync always).
Synced == "power" \in Crashes => Fsync

\* The writes that no crash may take: with --fsync off an answer promises
\* nothing against a power failure.
Promised == IF Synced THEN acked ELSE {}

(***************************************************************************)
(* The inductive invariant of the safety theorems: what the files are      *)
(* worth to a process that opens them now, what the disk is worth after a  *)
(* power failure, and how the index relates to both.                       *)
(***************************************************************************)
\* Record numbers increase, and only the last record can be torn.
WellFormed(l) ==
    /\ \A i \in 1 .. Len(l) : \A j \in 1 .. i - 1 : l[j].seq < l[i].seq
    /\ \A i \in 1 .. Len(l) : \A j \in 1 .. i - 1 : l[j].intact

\* A record up to number top is preceded by its predecessor, unless the
\* snapshot reaches up to it.
Chained(l, f, top) ==
    \A i \in 1 .. Len(l) :
        f.last_seq + 1 < l[i].seq /\ l[i].seq <= top
            => i - 1 \in 1 .. Len(l) /\ l[i - 1].seq + 1 = l[i].seq

FullyChained(l, f) ==
    \A i \in 1 .. Len(l) :
        f.last_seq + 1 < l[i].seq => i - 1 \in 1 .. Len(l) /\ l[i - 1].seq + 1 = l[i].seq

\* Found(l, i, s, w): record i of l is what a replay applies under number s.
Found(l, i, s, w) ==
    /\ l[i].seq = s /\ l[i].write = w
    /\ \A j \in 1 .. i : l[j].intact
    /\ \A j \in 1 .. i - 1 : l[j].seq # s

\* RebuiltFrom(wal, snapshot, s, w) is Rebuilt(s, w).
RebuiltFrom(l, f, s, w) ==
    IF s <= f.last_seq
      THEN s \in 1 .. Len(f.shard) /\ f.shard[s] = w
      ELSE \E i \in 1 .. Len(l) : Found(l, i, s, w)

AllRebuilt(l, f) == \A a \in Promised : RebuiltFrom(l, f, a.seq, a.write)

\* OnBoth(l, d, f, s, w): write w is in the snapshot, or in that part of log l
\* in which log d is the same.
OnBoth(l, d, f, s, w) ==
    IF s <= f.last_seq
      THEN s \in 1 .. Len(f.shard) /\ f.shard[s] = w
      ELSE \E i \in 1 .. Len(l) : /\ Found(l, i, s, w) /\ i <= Len(d)
                                 /\ \A j \in 1 .. i : l[j] = d[j]

AllOnBoth(l, d, f) == \A a \in Promised : OnBoth(l, d, f, a.seq, a.write)

FilesInv ==
    /\ WellFormed(wal)
    /\ FullyChained(wal, snapshot)
    /\ AllRebuilt(wal, snapshot)

\* Up to the next fsync the disk may hold an older log, an older snapshot, or
\* both; an older snapshot comes with a log that the newer one covers.
DiskInv ==
    "power" \in Crashes =>
        /\ WellFormed(walOnDisk)
        /\ FullyChained(walOnDisk, snapshot)
        /\ Chained(wal, snapshotOnDisk, snapshot.last_seq)
        /\ Chained(walOnDisk, snapshotOnDisk, snapshot.last_seq)
        /\ AllOnBoth(wal, walOnDisk, snapshot)
        /\ AllOnBoth(wal, walOnDisk, snapshotOnDisk)
        /\ ~logLinked => walOnDisk = <<>>
        /\ pc \in {"rename", "truncate", "fsync_log", "finish"}
               => snapshotOnDisk = snapshot
        /\ pc = "finish" => walOnDisk = wal
        /\ Fsync /\ pc \in {"apply", "reply"}
               => snapshotOnDisk = snapshot /\ walOnDisk = wal

\* The index is what the files would rebuild, as far as it has been read.
MemoryInv ==
    pc # "down" =>
        /\ \A i \in 1 .. Len(wal) : wal[i].intact
        /\ \A s \in 1 .. last_seq : RebuiltFrom(wal, snapshot, s, shard[s])
        /\ snapshot.last_seq <= last_seq \/ (Published /\ op = "install")

ReplayInv ==
    pc \in {"cut", "replay"} =>
        /\ replayed <= Len(wal)
        /\ \A i \in 1 .. replayed : wal[i].seq <= last_seq

ServingInv ==
    Serving =>
        /\ \A i \in 1 .. Len(wal) : wal[i].seq <= last_seq \/ (Appended /\ i = Len(wal))
        /\ \A a \in Promised : a.seq \in 1 .. last_seq /\ shard[a.seq] = a.write
        /\ Appended => wal[Len(wal)].seq = last_seq + 1

IInv == /\ Careful /\ BaseInv /\ pc # "refused"
        /\ FilesInv /\ DiskInv /\ MemoryInv /\ ReplayInv /\ ServingInv

-----------------------------------------------------------------------------
(***************************************************************************)
(* Lemmas about logs.                                                      *)
(***************************************************************************)
Starts(k, l) == Len(k) <= Len(l) /\ \A i \in 1 .. Len(k) : l[i] = k[i]

\* k has every prefix that l and d have in common.
KeepsCommon(k, l, d) ==
    \A i \in 1 .. Len(l) :
        i <= Len(d) /\ (\A j \in 1 .. i : l[j] = d[j])
            => i <= Len(k) /\ \A j \in 1 .. i : k[j] = l[j]

LEMMA RecordSeq ==
    ASSUME NEW l \in Seq(Record)
    PROVE  /\ Len(l) \in Nat
           /\ \A i \in 1 .. Len(l) : /\ l[i] \in Record /\ l[i].seq \in Nat
                                     /\ l[i].write \in Write /\ l[i].intact \in BOOLEAN
<1>1. Len(l) \in Nat /\ \A i \in 1 .. Len(l) : l[i] \in Record
  BY ElementOfSeq, LenProperties
<1>2. \A r \in Record : r.seq \in Nat /\ r.write \in Write /\ r.intact \in BOOLEAN
  BY DEF Record
<1> QED
  BY <1>1, <1>2

\* What a log rebuilds, every longer log that starts with it rebuilds too.
LEMMA RebuiltExtends ==
    ASSUME NEW k \in Seq(Record), NEW l \in Seq(Record), Starts(k, l),
           NEW f, NEW s, NEW w, RebuiltFrom(k, f, s, w)
    PROVE  RebuiltFrom(l, f, s, w)
<1>1. Len(k) \in Nat /\ Len(l) \in Nat
  BY RecordSeq
<1>2. CASE s <= f.last_seq
  BY <1>2 DEF RebuiltFrom
<1>3. CASE ~(s <= f.last_seq)
  <2>1. PICK i \in 1 .. Len(k) : Found(k, i, s, w)
    BY <1>3 DEF RebuiltFrom
  <2>2. i \in 1 .. Len(l) /\ Found(l, i, s, w)
    BY <1>1, <2>1 DEF Found, Starts
  <2> QED
    BY <1>3, <2>2 DEF RebuiltFrom
<1> QED
  BY <1>2, <1>3

LEMMA OnBothExtends ==
    ASSUME NEW k \in Seq(Record), NEW l \in Seq(Record), Starts(k, l),
           NEW d, NEW f, NEW s, NEW w, OnBoth(k, d, f, s, w)
    PROVE  OnBoth(l, d, f, s, w)
<1>1. Len(k) \in Nat /\ Len(l) \in Nat
  BY RecordSeq
<1>2. CASE s <= f.last_seq
  BY <1>2 DEF OnBoth
<1>3. CASE ~(s <= f.last_seq)
  <2>1. PICK i \in 1 .. Len(k) : Found(k, i, s, w) /\ i <= Len(d) /\ \A j \in 1 .. i : k[j] = d[j]
    BY <1>3 DEF OnBoth
  <2>2. i \in 1 .. Len(l) /\ Found(l, i, s, w)
    BY <1>1, <2>1 DEF Found, Starts
  <2>3. \A j \in 1 .. i : l[j] = d[j]
    BY <1>1, <2>1 DEF Starts
  <2> QED
    BY <1>3, <2>1, <2>2, <2>3 DEF OnBoth
<1> QED
  BY <1>2, <1>3

\* Either log then rebuilds the write, and so does any log that has all in
\* which both are the same.
LEMMA OnBothRebuilt ==
    ASSUME NEW l \in Seq(Record), NEW d \in Seq(Record),
           NEW f, NEW s, NEW w, OnBoth(l, d, f, s, w)
    PROVE  /\ RebuiltFrom(l, f, s, w) /\ RebuiltFrom(d, f, s, w)
           /\ \A k \in Seq(Record) : KeepsCommon(k, l, d) => RebuiltFrom(k, f, s, w)
<1>1. Len(l) \in Nat /\ Len(d) \in Nat
  BY RecordSeq
<1>2. CASE s <= f.last_seq
  BY <1>2 DEF OnBoth, RebuiltFrom
<1>3. CASE ~(s <= f.last_seq)
  <2>1. PICK i \in 1 .. Len(l) : Found(l, i, s, w) /\ i <= Len(d) /\ \A j \in 1 .. i : l[j] = d[j]
    BY <1>3 DEF OnBoth
  <2>2. i \in 1 .. Len(d) /\ Found(d, i, s, w)
    BY <1>1, <2>1 DEF Found
  <2>3. ASSUME NEW k \in Seq(Record), KeepsCommon(k, l, d)
        PROVE  RebuiltFrom(k, f, s, w)
    <3>1. Len(k) \in Nat /\ i <= Len(k) /\ \A j \in 1 .. i : k[j] = l[j]
      BY <2>1, <2>3, LenProperties DEF KeepsCommon
    <3>2. i \in 1 .. Len(k) /\ Found(k, i, s, w)
      BY <1>1, <2>1, <3>1 DEF Found
    <3> QED
      BY <1>3, <3>2 DEF RebuiltFrom
  <2> QED
    BY <1>3, <2>1, <2>2, <2>3 DEF RebuiltFrom
<1> QED
  BY <1>2, <1>3

LEMMA RebuiltOnBoth ==
    ASSUME NEW l \in Seq(Record), NEW f, NEW s, NEW w, RebuiltFrom(l, f, s, w)
    PROVE  OnBoth(l, l, f, s, w)
BY LenProperties DEF RebuiltFrom, OnBoth

\* k is a prefix of l whose last record may be cut short.
Cut(k, l) ==
    /\ Len(k) <= Len(l)
    /\ \A i \in 1 .. Len(k) :
          k[i].seq = l[i].seq /\ (i < Len(k) \/ k[i].intact => k[i] = l[i])

LEMMA StartsCut ==
    ASSUME NEW k \in Seq(Record), NEW l \in Seq(Record), Starts(k, l)
    PROVE  Cut(k, l)
BY DEF Starts, Cut

LEMMA WellFormedCut ==
    ASSUME NEW k \in Seq(Record), NEW l \in Seq(Record), Cut(k, l), WellFormed(l)
    PROVE  WellFormed(k)
<1>1. Len(k) \in Nat /\ Len(l) \in Nat
  BY RecordSeq
<1>2. ASSUME NEW i \in 1 .. Len(k), NEW j \in 1 .. i - 1
      PROVE  k[j].seq < k[i].seq /\ k[j].intact
  <2>1. i \in 1 .. Len(l) /\ j \in 1 .. Len(k) /\ j < Len(k)
    BY <1>1, <1>2 DEF Cut
  <2>2. k[i].seq = l[i].seq /\ k[j] = l[j]
    BY <2>1 DEF Cut
  <2>3. l[j].seq < l[i].seq /\ l[j].intact
    BY <2>1 DEF WellFormed
  <2> QED
    BY <2>2, <2>3
<1> QED
  BY <1>2 DEF WellFormed

LEMMA ChainedCut ==
    ASSUME NEW k \in Seq(Record), NEW l \in Seq(Record), Cut(k, l), NEW f
    PROVE  /\ FullyChained(l, f) => FullyChained(k, f)
           /\ \A top : Chained(l, f, top) => Chained(k, f, top)
<1>1. Len(k) \in Nat /\ Len(l) \in Nat
  BY RecordSeq
<1>2. \A i \in 1 .. Len(k) : i \in 1 .. Len(l) /\ l[i].seq = k[i].seq
  BY <1>1 DEF Cut
<1>3. \A i \in 1 .. Len(k) : i - 1 \in 1 .. Len(l) => i - 1 \in 1 .. Len(k)
  BY <1>1
<1>4. ASSUME FullyChained(l, f) PROVE FullyChained(k, f)
  BY <1>2, <1>3, <1>4 DEF FullyChained
<1>5. ASSUME NEW top, Chained(l, f, top) PROVE Chained(k, f, top)
  BY <1>2, <1>3, <1>5 DEF Chained
<1> QED
  BY <1>4, <1>5

\* A snapshot that reaches further needs no more of the log.
LEMMA ChainedFurther ==
    ASSUME NEW l \in Seq(Record), NEW f \in SnapshotFile, NEW g \in SnapshotFile,
           f.last_seq <= g.last_seq, FullyChained(l, f)
    PROVE  FullyChained(l, g)
<1>1. f.last_seq \in Nat /\ g.last_seq \in Nat
  BY DEF SnapshotFile
<1> QED
  BY <1>1, RecordSeq DEF FullyChained

\* _read_records drops nothing that a replay would find.
LEMMA ReadRecordsKeeps ==
    ASSUME NEW l \in Seq(Record)
    PROVE  /\ \A i \in 1 .. IntactLen(l) : l[i].intact
           /\ \A i \in 1 .. Len(l) : (\A j \in 1 .. i : l[j].intact) => i \in 1 .. IntactLen(l)
<1> DEFINE Good == {n \in 1 .. Len(l) : \A i \in 1 .. n : l[i].intact}
<1>1. Len(l) \in Nat /\ IntactLen(l) \in 0 .. Len(l)
  BY LenProperties, ReadRecordsPrefix
<1>2. IntactLen(l) = Cardinality(Good)
  BY DEF IntactLen
<1>3. IsFiniteSet(Good)
  <2>1. Good \in SUBSET (1 .. Len(l)) /\ IsFiniteSet(1 .. Len(l))
    BY <1>1, FS_Interval
  <2> QED
    BY <2>1, FS_Subset
<1>4. ASSUME NEW i \in 1 .. Len(l), \A j \in 1 .. i : l[j].intact
      PROVE  i \in 1 .. IntactLen(l)
  <2>1. 1 .. i \in SUBSET Good
    BY <1>1, <1>4
  <2>2. Cardinality(1 .. i) = i
    BY <1>1, FS_Interval
  <2>3. i <= Cardinality(Good)
    BY <1>3, <2>1, <2>2, FS_Subset
  <2> QED
    BY <1>1, <1>2, <2>3
<1>5. ASSUME NEW i \in 1 .. IntactLen(l)
      PROVE  l[i].intact
  <2>1. i \in 1 .. Len(l) /\ i \in Nat
    BY <1>1
  <2>2. ASSUME ~l[i].intact PROVE FALSE
    <3>1. Good \in SUBSET (1 .. i - 1)
      BY <1>1, <2>1, <2>2
    <3>2. IsFiniteSet(1 .. i - 1) /\ Cardinality(1 .. i - 1) = i - 1
      BY <2>1, FS_Interval
    <3>3. Cardinality(Good) <= i - 1
      BY <3>1, <3>2, FS_Subset
    <3> QED
      BY <1>1, <1>2, <2>1, <3>3
  <2> QED
    BY <2>2
<1> QED
  BY <1>4, <1>5

LEMMA ReadRecordsStarts ==
    ASSUME NEW l \in Seq(Record)
    PROVE  Starts(ReadRecords(l), l)
<1>1. Len(l) \in Nat
  BY LenProperties
<1> QED
  BY <1>1, ReadRecordsPrefix DEF Starts

LEMMA RebuiltFromReadRecords ==
    ASSUME NEW l \in Seq(Record), NEW f, NEW s, NEW w, RebuiltFrom(l, f, s, w)
    PROVE  RebuiltFrom(ReadRecords(l), f, s, w)
<1>1. CASE s <= f.last_seq
  BY <1>1 DEF RebuiltFrom
<1>2. CASE ~(s <= f.last_seq)
  <2>1. PICK i \in 1 .. Len(l) : Found(l, i, s, w)
    BY <1>2 DEF RebuiltFrom
  <2>2. Len(l) \in Nat /\ i \in 1 .. IntactLen(l)
    BY <2>1, ReadRecordsKeeps, LenProperties DEF Found
  <2>3. i \in 1 .. Len(ReadRecords(l))
    BY <2>2, ReadRecordsPrefix
  <2>4. \A j \in 1 .. i : ReadRecords(l)[j] = l[j]
    BY <2>2, ReadRecordsPrefix
  <2>5. Found(ReadRecords(l), i, s, w)
    BY <2>1, <2>2, <2>4 DEF Found
  <2> QED
    BY <1>2, <2>3, <2>5 DEF RebuiltFrom
<1> QED
  BY <1>1, <1>2

LEMMA OnBothReadRecords ==
    ASSUME NEW l \in Seq(Record), NEW d, NEW f, NEW s, NEW w, OnBoth(l, d, f, s, w)
    PROVE  OnBoth(ReadRecords(l), d, f, s, w)
<1>1. CASE s <= f.last_seq
  BY <1>1 DEF OnBoth
<1>2. CASE ~(s <= f.last_seq)
  <2>1. PICK i \in 1 .. Len(l) : Found(l, i, s, w) /\ i <= Len(d) /\ \A j \in 1 .. i : l[j] = d[j]
    BY <1>2 DEF OnBoth
  <2>2. Len(l) \in Nat /\ i \in 1 .. IntactLen(l)
    BY <2>1, ReadRecordsKeeps, LenProperties DEF Found
  <2>3. i \in 1 .. Len(ReadRecords(l))
    BY <2>2, ReadRecordsPrefix
  <2>4. \A j \in 1 .. i : ReadRecords(l)[j] = l[j]
    BY <2>2, ReadRecordsPrefix
  <2>5. Found(ReadRecords(l), i, s, w)
    BY <2>1, <2>2, <2>4 DEF Found
  <2> QED
    BY <1>2, <2>1, <2>3, <2>4, <2>5 DEF OnBoth
<1> QED
  BY <1>1, <1>2

LEMMA AppendStarts ==
    ASSUME NEW l \in Seq(Record), NEW r \in Record
    PROVE  /\ Append(l, r) \in Seq(Record) /\ Len(Append(l, r)) = Len(l) + 1
           /\ Starts(l, Append(l, r)) /\ Append(l, r)[Len(l) + 1] = r
BY AppendProperties, LenProperties DEF Starts

\* A log with one more record, whole or torn, at its end.
LEMMA WellFormedAppend ==
    ASSUME NEW l \in Seq(Record), NEW k \in Seq(Record), Starts(l, k), Len(k) = Len(l) + 1,
           WellFormed(l), \A i \in 1 .. Len(l) : l[i].intact /\ l[i].seq < k[Len(k)].seq
    PROVE  WellFormed(k)
<1>1. Len(l) \in Nat /\ Len(k) = Len(l) + 1
  BY LenProperties
<1>2. ASSUME NEW i \in 1 .. Len(k), NEW j \in 1 .. i - 1
      PROVE  k[j].seq < k[i].seq /\ k[j].intact
  <2>1. j \in 1 .. Len(l) /\ k[j] = l[j]
    BY <1>1 DEF Starts
  <2>2. CASE i = Len(k)
    BY <2>1, <2>2
  <2>3. CASE i # Len(k)
    <3>1. i \in 1 .. Len(l) /\ k[i] = l[i]
      BY <1>1, <2>3 DEF Starts
    <3> QED
      BY <2>1, <3>1 DEF WellFormed
  <2> QED
    BY <2>2, <2>3
<1> QED
  BY <1>2 DEF WellFormed

\* At most one batch is rebuilt under a number.
LEMMA RebuiltOnce ==
    ASSUME NEW l \in Seq(Record), WellFormed(l), NEW f, NEW s, NEW v, NEW w,
           RebuiltFrom(l, f, s, v), RebuiltFrom(l, f, s, w)
    PROVE  v = w
<1>1. CASE s <= f.last_seq
  BY <1>1 DEF RebuiltFrom
<1>2. CASE ~(s <= f.last_seq)
  <2>1. PICK i \in 1 .. Len(l) : Found(l, i, s, v)
    BY <1>2 DEF RebuiltFrom
  <2>2. PICK j \in 1 .. Len(l) : Found(l, j, s, w)
    BY <1>2 DEF RebuiltFrom
  <2>3. ~(i \in 1 .. j - 1) /\ ~(j \in 1 .. i - 1)
    BY <2>1, <2>2 DEF Found
  <2>4. i = j
    BY <2>3, LenProperties
  <2> QED
    BY <2>1, <2>2, <2>4 DEF Found
<1> QED
  BY <1>1, <1>2
-----------------------------------------------------------------------------
(***************************************************************************)
(* What the invariant says of the state before a step.                     *)
(***************************************************************************)
LEMMA EmptyLog ==
    ASSUME NEW f, NEW top
    PROVE  WellFormed(<<>>) /\ FullyChained(<<>>, f) /\ Chained(<<>>, f, top)
<1>1. Len(<<>>) = 0
  BY EmptySeq
<1> HIDE <1>1
<1>2. \A i \in 1 .. Len(<<>>) : FALSE
  BY <1>1
<1> QED
  BY <1>2, Zenon DEF WellFormed, FullyChained, Chained

LEMMA ChainedByFull ==
    ASSUME NEW l, NEW f, NEW top, FullyChained(l, f)
    PROVE  Chained(l, f, top)
BY DEF FullyChained, Chained

\* The types of the state, as the proofs use them.
LEMMA StateTypes ==
    ASSUME BaseInv
    PROVE  /\ wal \in Seq(Record) /\ walOnDisk \in Seq(Record)
           /\ snapshot \in SnapshotFile /\ tmp \in SnapshotFile
           /\ snapshotOnDisk \in SnapshotFile
           /\ snapshot.last_seq \in Nat /\ Len(snapshot.shard) = snapshot.last_seq
           /\ tmp.last_seq \in Nat /\ Len(tmp.shard) = tmp.last_seq
           /\ shard \in Seq(Write) /\ Len(shard) = last_seq /\ last_seq \in Nat
           /\ replayed \in Nat
           /\ \A a \in Promised : a.seq \in Nat
BY DEF BaseInv, TypeOK, Sized, SnapshotFile, Promised

\* While the shard serves, an acknowledged write is in any snapshot that
\* contains the index.
LEMMA AckedInSnapshot ==
    ASSUME BaseInv, ServingInv, Serving, NEW l, NEW f \in SnapshotFile, Continues(f),
           Len(f.shard) = f.last_seq
    PROVE  /\ AllRebuilt(l, f) /\ \A d : AllOnBoth(l, d, f)
           /\ \A s \in 1 .. last_seq : RebuiltFrom(l, f, s, shard[s])
<1>1. f.last_seq \in Nat /\ last_seq \in Nat /\ last_seq <= f.last_seq
      /\ \A s \in 1 .. last_seq : f.shard[s] = shard[s]
  BY StateTypes DEF SnapshotFile, Continues
<1>2. \A s \in 1 .. last_seq :
         s <= f.last_seq /\ s \in 1 .. Len(f.shard) /\ f.shard[s] = shard[s]
  BY <1>1
<1>3. \A s \in 1 .. last_seq : RebuiltFrom(l, f, s, shard[s])
  BY <1>2 DEF RebuiltFrom
<1>4. \A a \in Promised : a.seq \in 1 .. last_seq /\ shard[a.seq] = a.write
  BY DEF ServingInv
<1>5. \A d : AllOnBoth(l, d, f)
  BY <1>2, <1>4 DEF AllOnBoth, OnBoth
<1> QED
  BY <1>3, <1>4, <1>5 DEF AllRebuilt

\* A request that finds the shard idle appends behind a complete log.
LEMMA AppendKeepsFiles ==
    ASSUME IInv, pc = "idle", NEW r \in Record, r.seq = last_seq + 1,
           NEW k \in Seq(Record), Starts(wal, k), Len(k) = Len(wal) + 1, k[Len(k)] = r
    PROVE  /\ WellFormed(k) /\ FullyChained(k, snapshot)
           /\ "power" \in Crashes => Chained(k, snapshotOnDisk, snapshot.last_seq)
<1> USE DEF IInv
<1>1. /\ wal \in Seq(Record) /\ Len(wal) \in Nat /\ last_seq \in Nat
      /\ \A i \in 1 .. Len(wal) : wal[i].seq \in Nat
      /\ snapshot.last_seq \in Nat /\ snapshotOnDisk \in SnapshotFile
  BY StateTypes, RecordSeq
<1>2. /\ \A i \in 1 .. Len(wal) : wal[i].intact /\ wal[i].seq <= last_seq
      /\ \A s \in 1 .. last_seq : RebuiltFrom(wal, snapshot, s, shard[s])
      /\ snapshot.last_seq <= last_seq
  BY DEF MemoryInv, ServingInv, Serving, Appended, Published
<1>3. WellFormed(wal) /\ FullyChained(wal, snapshot)
  BY DEF FilesInv
<1>4. \A i \in 1 .. Len(wal) : wal[i].intact /\ wal[i].seq < k[Len(k)].seq
  BY <1>1, <1>2
<1>5. WellFormed(k)
  BY <1>1, <1>3, <1>4, WellFormedAppend
<1>6. \A i \in 1 .. Len(wal) : k[i] = wal[i]
  BY DEF Starts
<1>7. ASSUME snapshot.last_seq + 1 < r.seq
      PROVE  Len(wal) \in 1 .. Len(wal) /\ wal[Len(wal)].seq + 1 = r.seq
  <2>1. last_seq \in 1 .. last_seq /\ ~(last_seq <= snapshot.last_seq)
    BY <1>1, <1>7
  <2>2. PICK i \in 1 .. Len(wal) : Found(wal, i, last_seq, shard[last_seq])
    BY <1>2, <2>1 DEF RebuiltFrom
  <2>3. wal[i].seq = last_seq
    BY <2>2 DEF Found
  <2>4. Len(wal) \in 1 .. Len(wal) /\ wal[Len(wal)].seq <= last_seq
    BY <1>1, <1>2, <2>2
  <2>5. i < Len(wal) => wal[i].seq < wal[Len(wal)].seq
    BY <1>1, <1>3, <2>2, <2>4 DEF WellFormed
  <2>6. i = Len(wal)
    BY <1>1, <2>2, <2>3, <2>4, <2>5
  <2> QED
    BY <2>3, <2>4, <2>6
<1>8. ASSUME NEW i \in 1 .. Len(k), snapshot.last_seq + 1 < k[i].seq
      PROVE  i - 1 \in 1 .. Len(k) /\ k[i - 1].seq + 1 = k[i].seq
  <2>1. CASE i = Len(k)
    BY <1>1, <1>6, <1>7, <1>8, <2>1
  <2>2. CASE i # Len(k)
    <3>1. i \in 1 .. Len(wal) /\ k[i] = wal[i]
      BY <1>1, <1>6, <2>2
    <3>2. i - 1 \in 1 .. Len(wal) /\ wal[i - 1].seq + 1 = wal[i].seq
      BY <1>3, <1>8, <3>1 DEF FullyChained
    <3> QED
      BY <1>1, <1>6, <3>1, <3>2
  <2> QED
    BY <2>1, <2>2
<1>9. ASSUME "power" \in Crashes
      PROVE  Chained(k, snapshotOnDisk, snapshot.last_seq)
  <2>1. Chained(wal, snapshotOnDisk, snapshot.last_seq)
    BY <1>9 DEF DiskInv
  <2>2. ASSUME NEW i \in 1 .. Len(k), snapshotOnDisk.last_seq + 1 < k[i].seq,
               k[i].seq <= snapshot.last_seq
        PROVE  i - 1 \in 1 .. Len(k) /\ k[i - 1].seq + 1 = k[i].seq
    <3>1. i # Len(k)
      BY <1>1, <1>2, <2>2
    <3>2. i \in 1 .. Len(wal) /\ k[i] = wal[i]
      BY <1>1, <1>6, <3>1
    <3>3. i - 1 \in 1 .. Len(wal) /\ wal[i - 1].seq + 1 = wal[i].seq
      BY <2>1, <2>2, <3>2 DEF Chained
    <3> QED
      BY <1>1, <1>6, <3>2, <3>3
  <2> QED
    BY <2>2 DEF Chained
<1> QED
  BY <1>5, <1>8, <1>9 DEF FullyChained

-----------------------------------------------------------------------------
(***************************************************************************)
(* FilesInv and DiskInv: one step per group of actions.                    *)
(***************************************************************************)
\* Careful rules out two of the failures.
LEMMA CarefulFailing ==
    ASSUME Careful
    PROVE  ~InstallFails /\ \A w \in Write : ~AppendFails(w)
BY DEF Careful, InstallFails, AppendFails

\* With an fsync the disk has what the files have.
LEMMA FsyncSynchronizes ==
    ASSUME Careful, FsyncLog, "power" \in Crashes
    PROVE  /\ walOnDisk' = wal' /\ wal' = wal /\ snapshot' = snapshot
           /\ snapshotOnDisk' = snapshot' /\ logLinked' = TRUE
BY DEF Careful, FsyncLog, DirectoryAfterFsync, DirectorySynced

\* The outcomes of a power failure: the log of the last fsync, or a prefix of
\* the present one, its last record perhaps torn, with all both have in common.
LEMMA LogOutcomes ==
    ASSUME wal \in Seq(Record), walOnDisk \in Seq(Record),
           NEW l \in LogsAfterPowerFailure
    PROVE  /\ l \in Seq(Record)
           /\ l = walOnDisk \/ (Cut(l, wal) /\ KeepsCommon(l, wal, walOnDisk))
<1>1. l \in Seq(Record)
  BY LogsAfterPowerFailureType
<1>2. /\ Len(wal) \in Nat /\ Len(walOnDisk) \in Nat
      /\ \A i \in 1 .. Len(wal) : wal[i] \in Record
      /\ \A i \in 1 .. Len(walOnDisk) : walOnDisk[i] \in Record
  BY RecordSeq
<1>3. \A n \in 0 .. Len(wal) : /\ SubSeq(wal, 1, n) \in Seq(Record)
                               /\ Len(SubSeq(wal, 1, n)) = n
                               /\ \A i \in 1 .. n : SubSeq(wal, 1, n)[i] = wal[i]
  BY <1>2, SubSeqProperties
\* What both logs have in common ends before any cut point.
<1>4. ASSUME NEW n \in CutPoints, NEW i \in 1 .. Len(wal), i <= Len(walOnDisk),
             \A j \in 1 .. i : wal[j] = walOnDisk[j]
      PROVE  i <= n
  <2> DEFINE p == SubSeq(wal, 1, i)
             q == SubSeq(walOnDisk, 1, i)
  <2>1. /\ p \in Seq(Record) /\ Len(p) = i /\ \A j \in 1 .. i : p[j] = wal[j]
    BY <1>2, <1>3
  <2>2. /\ q \in Seq(Record) /\ Len(q) = i /\ \A j \in 1 .. i : q[j] = walOnDisk[j]
    BY <1>2, <1>4, SubSeqProperties
  <2>3. p = q
    <3> HIDE DEF p, q
    <3> QED
      BY <1>4, <2>1, <2>2, SeqEqual
  <2>4. OnDisk(i)
    BY <1>4, <2>3 DEF OnDisk
  <2> QED
    BY <1>2, <2>4 DEF CutPoints
<1>5. \/ l = walOnDisk
      \/ \E n \in CutPoints : l = SubSeq(wal, 1, n)
      \/ \E n \in CutPoints \ {Len(wal)} :
            l = Append(SubSeq(wal, 1, n), [wal[n + 1] EXCEPT !.intact = FALSE])
  BY DEF LogsAfterPowerFailure
<1>6. ASSUME NEW n \in CutPoints, l = SubSeq(wal, 1, n)
      PROVE  Cut(l, wal) /\ KeepsCommon(l, wal, walOnDisk)
  <2>1. n \in 0 .. Len(wal) /\ Len(l) = n /\ \A i \in 1 .. n : l[i] = wal[i]
    BY <1>3, <1>6 DEF CutPoints
  <2>2. Cut(l, wal)
    BY <1>2, <2>1 DEF Cut
  <2> QED
    BY <1>2, <1>4, <2>1, <2>2 DEF KeepsCommon
<1>7. ASSUME NEW n \in CutPoints \ {Len(wal)},
             l = Append(SubSeq(wal, 1, n), [wal[n + 1] EXCEPT !.intact = FALSE])
      PROVE  Cut(l, wal) /\ KeepsCommon(l, wal, walOnDisk)
  <2> DEFINE p == SubSeq(wal, 1, n)
             t == [wal[n + 1] EXCEPT !.intact = FALSE]
  <2>1. n \in 0 .. Len(wal) /\ n + 1 \in 1 .. Len(wal) /\ wal[n + 1] \in Record
    BY <1>2 DEF CutPoints
  <2>2. t \in Record /\ t.seq = wal[n + 1].seq /\ ~t.intact
    <3>1. \A r \in Record : /\ [r EXCEPT !.intact = FALSE] \in Record
                            /\ [r EXCEPT !.intact = FALSE].seq = r.seq
                            /\ ~[r EXCEPT !.intact = FALSE].intact
      BY DEF Record
    <3> QED
      BY <2>1, <3>1
  <2>3. p \in Seq(Record) /\ Len(p) = n /\ \A i \in 1 .. n : p[i] = wal[i]
    BY <1>3, <2>1
  <2> HIDE DEF p, t
  <2>4. l = Append(p, t)
    BY <1>7 DEF p, t
  <2>5. Len(l) = n + 1 /\ l[n + 1] = t /\ \A i \in 1 .. n : l[i] = wal[i]
    BY <2>2, <2>3, <2>4, AppendProperties
  <2>6. \A i \in 1 .. n + 1 : i = n + 1 \/ i \in 1 .. n
    BY <2>1
  <2>7. Cut(l, wal)
    BY <1>2, <2>1, <2>2, <2>5, <2>6 DEF Cut
  <2> QED
    BY <1>2, <1>4, <2>1, <2>5, <2>7 DEF KeepsCommon
<1> QED
  BY <1>1, <1>5, <1>6, <1>7

\* Power returns: whatever has survived is a state the shard can open.
LEMMA PowerFailureFiles ==
    ASSUME IInv, PowerFailure
    PROVE  /\ WellFormed(wal') /\ FullyChained(wal', snapshot')
           /\ \A a \in Promised : RebuiltFrom(wal', snapshot', a.seq, a.write)
<1> USE DEF IInv
<1> DEFINE l == wal'
           top == snapshot.last_seq
<1>1. /\ wal \in Seq(Record) /\ walOnDisk \in Seq(Record)
      /\ snapshot.synced /\ snapshotOnDisk.synced
  BY StateTypes DEF BaseInv, Sized
<1>2. "power" \in Crashes /\ DirectoryOrdered
  BY DEF PowerFailure, Careful
<1>3. /\ WellFormed(wal) /\ FullyChained(wal, snapshot)
      /\ WellFormed(walOnDisk) /\ FullyChained(walOnDisk, snapshot)
      /\ Chained(wal, snapshotOnDisk, top) /\ Chained(walOnDisk, snapshotOnDisk, top)
      /\ AllOnBoth(wal, walOnDisk, snapshot) /\ AllOnBoth(wal, walOnDisk, snapshotOnDisk)
      /\ ~logLinked => walOnDisk = <<>>
  BY <1>2 DEF FilesInv, DiskInv
<1>4. \/ l \in LogsAfterPowerFailure
      \/ l = walOnDisk
  BY <1>3 DEF PowerFailure
<1>5. /\ l \in Seq(Record)
      /\ l = walOnDisk \/ (Cut(l, wal) /\ KeepsCommon(l, wal, walOnDisk))
  BY <1>1, <1>4, LogOutcomes
<1>6. \/ snapshot' = snapshot
      \/ snapshot' = snapshotOnDisk /\ LostRenameAllows(l)
  BY <1>1 DEF PowerFailure, AfterPowerFailure
<1> HIDE DEF l
<1>7. WellFormed(l)
  BY <1>1, <1>3, <1>5, WellFormedCut
<1>8. FullyChained(l, snapshot) /\ Chained(l, snapshotOnDisk, top)
  BY <1>1, <1>3, <1>5, ChainedCut
<1>9. AllRebuilt(l, snapshot) /\ AllRebuilt(l, snapshotOnDisk)
  BY <1>1, <1>3, <1>5, OnBothRebuilt DEF AllRebuilt, AllOnBoth
<1>10. CASE snapshot' = snapshot
  BY <1>7, <1>8, <1>9, <1>10 DEF AllRebuilt, l
<1>11. CASE snapshot' = snapshotOnDisk /\ LostRenameAllows(l)
  <2>1. \A i \in 1 .. Len(l) : l[i].seq <= top
    BY <1>2, <1>11 DEF LostRenameAllows
  <2>2. FullyChained(l, snapshotOnDisk)
    BY <1>8, <2>1 DEF Chained, FullyChained
  <2> QED
    BY <1>7, <1>9, <1>11, <2>2 DEF AllRebuilt, l
<1> QED
  BY <1>6, <1>10, <1>11

\* Actions that leave the names of the files and the clients alone.
Rewrites == \/ Open \/ Reply \/ Rename \/ Truncate \/ PowerFailure
            \/ \E w \in Write : AppendRecord(w) \/ CrashInAppend(w)

LEMMA QuietStep ==
    ASSUME Careful, [Next]_vars, ~Rewrites
    PROVE  wal' = wal /\ snapshot' = snapshot /\ Promised' = Promised
BY CarefulFailing
DEF Promised, Rewrites, Next, Opening, Adding, Checkpointing, Installing, Failing, Crashing,
    SyncCut, SyncRecord, SyncLog, FsyncLog, ReplaySkip, ReplayApply, ReplayRefused, ReplayDone,
    PassOver, ReplayInsert, Apply, ApplyThen, ApplyFails, FetchSnapshot, SaveTmp, WriteTmp,
    SyncTmp, SyncDir, FinishCheckpoint, EndCheckpoint, InstallSnapshot, FinishInstall,
    EndInstall, SaveFails, ResetFails, CallFails, Crash, ForgetMemory,
    vars, files, logs, directory, memory

\* Reading the log at the next start.
LEMMA OpenStep ==
    ASSUME IInv, Open
    PROVE  /\ snapshot # EmptyFile /\ wal' = ReadRecords(wal) /\ wal' \in Seq(Record)
           /\ pc' \in {"cut", "replay"}
           /\ Cut(wal', wal)
           /\ UNCHANGED <<walOnDisk, snapshot, tmp, directory, op, Promised>>
<1>1. wal \in Seq(Record) /\ snapshot.synced
  BY StateTypes DEF IInv, BaseInv, Sized
<1>2. snapshot # EmptyFile
  BY <1>1 DEF EmptyFile
<1>3. wal' = ReadRecords(wal) /\ pc' \in {"cut", "replay"}
      /\ UNCHANGED <<walOnDisk, snapshot, tmp, directory, op, Promised>>
  BY <1>2 DEF Open, Promised
<1>4. wal' \in Seq(Record) /\ Cut(wal', wal)
  BY <1>1, <1>3, ReadRecordsPrefix, ReadRecordsStarts, StartsCut
<1> QED
  BY <1>2, <1>3, <1>4

\* A record is appended, in full or in part.
LEMMA AppendStep ==
    ASSUME IInv, NEW w \in Write, AppendRecord(w) \/ CrashInAppend(w)
    PROVE  /\ wal' \in Seq(Record) /\ Starts(wal, wal') /\ Len(wal') = Len(wal) + 1
           /\ pc = "idle"
           /\ wal'[Len(wal')] \in Record /\ wal'[Len(wal')].seq = last_seq + 1
           /\ AppendRecord(w) => wal'[Len(wal')].intact
           /\ UNCHANGED <<walOnDisk, snapshot, tmp, directory, Promised>>
<1>1. wal \in Seq(Record) /\ last_seq \in Nat /\ Len(wal) \in Nat
  BY StateTypes, RecordSeq DEF IInv
<1>2. PICK r : /\ r \in {Rec(last_seq + 1, w), Torn(last_seq + 1, w)}
               /\ AppendRecord(w) => r = Rec(last_seq + 1, w)
               /\ WriteRecord(r)
  BY DEF AppendRecord, CrashInAppend
<1>3. r \in Record /\ r.seq = last_seq + 1 /\ (AppendRecord(w) => r.intact)
  <2>1. Rec(last_seq + 1, w) \in Record /\ Torn(last_seq + 1, w) \in Record
    BY <1>1, FileTypes
  <2>2. Rec(last_seq + 1, w).seq = last_seq + 1 /\ Torn(last_seq + 1, w).seq = last_seq + 1
        /\ Rec(last_seq + 1, w).intact
    BY DEF Rec, Torn
  <2> QED
    BY <1>2, <2>1, <2>2
<1>4. pc = "idle" /\ UNCHANGED <<walOnDisk, snapshot, tmp, directory, Promised>>
  BY <1>2 DEF WriteRecord, AppendRecord, CrashInAppend, MayAppend, ForgetMemory, Promised
<1>5. \A i \in 1 .. Len(wal) : wal[i].intact
  BY <1>4 DEF IInv, MemoryInv
<1>6. /\ wal' \in Seq(Record) /\ Len(wal') = Len(wal) + 1 /\ wal'[Len(wal')] = r
      /\ \A i \in 1 .. Len(wal) : wal'[i] = wal[i]
  BY <1>1, <1>2, <1>3, <1>5, WrittenLog
<1> QED
  BY <1>1, <1>3, <1>4, <1>6 DEF Starts

LEMMA FilesStep == IInv /\ [Next]_vars => FilesInv'
<1> SUFFICES ASSUME IInv, [Next]_vars
             PROVE  /\ WellFormed(wal') /\ FullyChained(wal', snapshot')
                    /\ \A a \in Promised' : RebuiltFrom(wal', snapshot', a.seq, a.write)
  BY DEF FilesInv, AllRebuilt
<1> USE DEF IInv
<1>1. /\ wal \in Seq(Record) /\ WellFormed(wal) /\ FullyChained(wal, snapshot)
      /\ \A a \in Promised : RebuiltFrom(wal, snapshot, a.seq, a.write)
  BY StateTypes DEF FilesInv, AllRebuilt
<1>2. CASE ~Rewrites
  BY <1>1, <1>2, QuietStep
<1>3. CASE Open
  BY <1>1, <1>3, OpenStep, WellFormedCut, ChainedCut, RebuiltFromReadRecords
<1>4. ASSUME NEW w \in Write, AppendRecord(w) \/ CrashInAppend(w)
      PROVE  /\ WellFormed(wal') /\ FullyChained(wal', snapshot')
             /\ \A a \in Promised' : RebuiltFrom(wal', snapshot', a.seq, a.write)
  <2>1. /\ wal' \in Seq(Record) /\ Starts(wal, wal') /\ Len(wal') = Len(wal) + 1
        /\ pc = "idle" /\ snapshot' = snapshot /\ Promised' = Promised
        /\ wal'[Len(wal')] \in Record /\ wal'[Len(wal')].seq = last_seq + 1
    BY <1>4, AppendStep
  <2>2. WellFormed(wal') /\ FullyChained(wal', snapshot)
    BY <2>1, AppendKeepsFiles
  <2> QED
    BY <1>1, <2>1, <2>2, RebuiltExtends
<1>5. CASE Reply
  <2>1. last_seq \in 1 .. last_seq
    BY <1>5, StateTypes DEF Reply, BaseInv, Sized
  <2>2. RebuiltFrom(wal, snapshot, last_seq, shard[last_seq])
    BY <1>5, <2>1 DEF Reply, MemoryInv
  <2>3. wal' = wal /\ snapshot' = snapshot
        /\ \A a \in Promised' :
              a \in Promised \/ a = [seq |-> last_seq, write |-> shard[last_seq]]
    BY <1>5 DEF Reply, files, logs, Promised
  <2> QED
    BY <1>1, <2>2, <2>3
<1>6. CASE Rename
  <2>1. wal' = wal /\ snapshot' = tmp /\ Promised' = Promised /\ Serving /\ Continues(tmp)
        /\ snapshot.last_seq <= last_seq
    BY <1>6 DEF Promised, Rename, Step, logs, Serving, BaseInv, SavingInv, Saving, MemoryInv, Published
  <2>2. tmp \in SnapshotFile /\ snapshot \in SnapshotFile /\ Len(tmp.shard) = tmp.last_seq
        /\ snapshot.last_seq <= tmp.last_seq
    BY <2>1, StateTypes DEF Continues
  <2>3. FullyChained(wal, tmp)
    BY <1>1, <2>2, ChainedFurther
  <2>4. AllRebuilt(wal, tmp)
    BY <2>1, <2>2, AckedInSnapshot
  <2> QED
    BY <1>1, <2>1, <2>3, <2>4 DEF AllRebuilt
<1>7. CASE Truncate
  <2>1. wal' = <<>> /\ snapshot' = snapshot /\ Promised' = Promised /\ Serving /\ Continues(snapshot)
    BY <1>7 DEF Promised, Truncate, Step, Serving, BaseInv, SavingInv, Published
  <2>2. AllRebuilt(<<>>, snapshot)
    BY <2>1, StateTypes, AckedInSnapshot
  <2> QED
    BY <2>1, <2>2, EmptyLog DEF AllRebuilt
<1>8. CASE PowerFailure
  BY <1>8, PowerFailureFiles DEF PowerFailure, ForgetMemory, Promised
<1> QED
  BY <1>2, <1>3, <1>4, <1>5, <1>6, <1>7, <1>8 DEF Rewrites

LEMMA DiskStep == IInv /\ [Next]_vars => DiskInv'
<1> SUFFICES ASSUME IInv, [Next]_vars, "power" \in Crashes
             PROVE  /\ WellFormed(walOnDisk')
                    /\ FullyChained(walOnDisk', snapshot')
                    /\ Chained(wal', snapshotOnDisk', snapshot'.last_seq)
                    /\ Chained(walOnDisk', snapshotOnDisk', snapshot'.last_seq)
                    /\ \A a \in Promised' :
                          /\ OnBoth(wal', walOnDisk', snapshot', a.seq, a.write)
                          /\ OnBoth(wal', walOnDisk', snapshotOnDisk', a.seq, a.write)
                    /\ ~logLinked' => walOnDisk' = <<>>
                    /\ pc' \in {"rename", "truncate", "fsync_log", "finish"}
                           => snapshotOnDisk' = snapshot'
                    /\ pc' = "finish" => walOnDisk' = wal'
                    /\ Fsync /\ pc' \in {"apply", "reply"}
                           => snapshotOnDisk' = snapshot' /\ walOnDisk' = wal'
  BY Zenon DEF DiskInv, AllOnBoth
<1> USE DEF IInv
<1> DEFINE Goal == /\ WellFormed(walOnDisk')
                   /\ FullyChained(walOnDisk', snapshot')
                   /\ Chained(wal', snapshotOnDisk', snapshot'.last_seq)
                   /\ Chained(walOnDisk', snapshotOnDisk', snapshot'.last_seq)
                   /\ \A a \in Promised' :
                         /\ OnBoth(wal', walOnDisk', snapshot', a.seq, a.write)
                         /\ OnBoth(wal', walOnDisk', snapshotOnDisk', a.seq, a.write)
                   /\ ~logLinked' => walOnDisk' = <<>>
                   /\ pc' \in {"rename", "truncate", "fsync_log", "finish"}
                          => snapshotOnDisk' = snapshot'
                   /\ pc' = "finish" => walOnDisk' = wal'
                   /\ Fsync /\ pc' \in {"apply", "reply"}
                          => snapshotOnDisk' = snapshot' /\ walOnDisk' = wal'
<1>1. /\ wal \in Seq(Record) /\ walOnDisk \in Seq(Record)
      /\ snapshot \in SnapshotFile /\ tmp \in SnapshotFile /\ snapshotOnDisk \in SnapshotFile
      /\ Len(tmp.shard) = tmp.last_seq /\ Len(snapshot.shard) = snapshot.last_seq
      /\ snapshot.last_seq \in Nat
  BY StateTypes
<1>2. /\ WellFormed(wal) /\ FullyChained(wal, snapshot)
      /\ \A a \in Promised : RebuiltFrom(wal, snapshot, a.seq, a.write)
  BY DEF FilesInv, AllRebuilt
<1>3. /\ WellFormed(walOnDisk)
      /\ FullyChained(walOnDisk, snapshot)
      /\ Chained(wal, snapshotOnDisk, snapshot.last_seq)
      /\ Chained(walOnDisk, snapshotOnDisk, snapshot.last_seq)
      /\ \A a \in Promised : /\ OnBoth(wal, walOnDisk, snapshot, a.seq, a.write)
                             /\ OnBoth(wal, walOnDisk, snapshotOnDisk, a.seq, a.write)
      /\ ~logLinked => walOnDisk = <<>>
      /\ pc \in {"rename", "truncate", "fsync_log", "finish"} => snapshotOnDisk = snapshot
      /\ pc = "finish" => walOnDisk = wal
      /\ Fsync /\ pc \in {"apply", "reply"} => snapshotOnDisk = snapshot /\ walOnDisk = wal
  BY Zenon DEF DiskInv, AllOnBoth
<1>4. Careful /\ DirectoryOrdered
  BY DEF Careful
\* The log and the disk hold the same log and the same snapshot.
<1>5. ASSUME walOnDisk' = wal', snapshotOnDisk' = snapshot', ~logLinked' => wal' = <<>>
      PROVE  Goal
  <2>1. /\ WellFormed(wal') /\ FullyChained(wal', snapshot')
        /\ \A a \in Promised' : RebuiltFrom(wal', snapshot', a.seq, a.write)
    BY FilesStep DEF FilesInv, AllRebuilt
  <2>2. wal' \in Seq(Record)
    BY TypeStep DEF BaseInv, TypeOK
  <2>3. \A a \in Promised' : OnBoth(wal', wal', snapshot', a.seq, a.write)
    BY <2>1, <2>2, RebuiltOnBoth
  <2> QED
    BY <1>5, <2>1, <2>3, ChainedByFull
\* The log and the disk hold the same snapshot, and both their log as before.
<1>6. ASSUME wal' = wal, walOnDisk' = walOnDisk, Promised' = Promised,
             snapshot' = snapshot, snapshotOnDisk' = snapshot, logLinked' = TRUE,
             pc' \in {"rename", "truncate"}
      PROVE  Goal
  BY <1>2, <1>3, <1>6, ChainedByFull
<1>7. CASE SyncCut \/ SyncRecord \/ SyncLog
  <2>1. FsyncLog
    BY <1>7 DEF SyncCut, SyncRecord, SyncLog
  <2> QED
    BY <1>4, <1>5, <2>1, FsyncSynchronizes
<1>8. CASE SyncTmp \/ SyncDir
  BY <1>4, <1>6, <1>8 DEF SyncTmp, SyncDir, Step, DirectoryAfterFsync, DirectorySynced, logs,
                              Promised
\* Nothing the disk or a new process would read changes.
<1>9. ASSUME wal' = wal, walOnDisk' = walOnDisk, Promised' = Promised, snapshot' = snapshot,
             snapshotOnDisk' = snapshotOnDisk, logLinked' = logLinked,
             \/ pc' = pc
             \/ pc' \in {"idle", "down", "replay", "save", "fsync_tmp", "refused"}
             \/ pc \in {"apply", "finish"} /\ pc' = "reply"
      PROVE  Goal
  BY <1>3, <1>9
<1>10. CASE \/ ReplaySkip \/ ReplayApply \/ ReplayRefused \/ ReplayDone \/ Apply \/ ApplyFails
            \/ FetchSnapshot \/ SaveTmp \/ FinishCheckpoint \/ InstallSnapshot \/ FinishInstall
            \/ SaveFails \/ ResetFails \/ Crash \/ UNCHANGED vars
  <2>1. /\ wal' = wal /\ walOnDisk' = walOnDisk /\ Promised' = Promised /\ snapshot' = snapshot
        /\ snapshotOnDisk' = snapshotOnDisk /\ logLinked' = logLinked
    BY <1>10
    DEF ReplaySkip, ReplayApply, ReplayRefused, ReplayDone, PassOver, ReplayInsert, Apply,
        ApplyThen, ApplyFails, FetchSnapshot, SaveTmp, WriteTmp, FinishCheckpoint,
        EndCheckpoint, InstallSnapshot, FinishInstall, EndInstall, SaveFails, ResetFails,
        CallFails, Crash, ForgetMemory, vars, files, logs, directory, Promised
  <2>2. \/ pc' = pc
        \/ pc' \in {"idle", "down", "replay", "save", "fsync_tmp", "refused"}
        \/ pc \in {"apply", "finish"} /\ pc' = "reply"
    BY <1>10
    DEF ReplaySkip, ReplayApply, ReplayRefused, ReplayDone, PassOver, ReplayInsert, Apply,
        ApplyThen, ApplyFails, FetchSnapshot, SaveTmp, WriteTmp, FinishCheckpoint,
        EndCheckpoint, InstallSnapshot, FinishInstall, EndInstall, SaveFails, ResetFails,
        CallFails, Crash, ForgetMemory, Step, Release, vars
  <2> QED
    BY <1>9, <2>1, <2>2
<1>11. CASE Open
  <2>1. /\ wal' = ReadRecords(wal) /\ wal' \in Seq(Record) /\ Cut(wal', wal)
        /\ pc' \in {"cut", "replay"} /\ walOnDisk' = walOnDisk /\ Promised' = Promised
        /\ snapshot' = snapshot /\ snapshotOnDisk' = snapshotOnDisk /\ logLinked' = logLinked
    BY <1>11, OpenStep DEF directory
  <2>2. Chained(wal', snapshotOnDisk, snapshot.last_seq)
    BY <1>1, <1>3, <2>1, ChainedCut
  <2>3. \A a \in Promised : /\ OnBoth(wal', walOnDisk, snapshot, a.seq, a.write)
                            /\ OnBoth(wal', walOnDisk, snapshotOnDisk, a.seq, a.write)
    BY <1>1, <1>3, <2>1, OnBothReadRecords
  <2> QED
    BY <1>3, <2>1, <2>2, <2>3
<1>12. ASSUME NEW w \in Write, AppendRecord(w) \/ CrashInAppend(w)
       PROVE  Goal
  <2>1. /\ wal' \in Seq(Record) /\ Starts(wal, wal') /\ Len(wal') = Len(wal) + 1
        /\ pc = "idle" /\ walOnDisk' = walOnDisk /\ Promised' = Promised
        /\ snapshot' = snapshot /\ snapshotOnDisk' = snapshotOnDisk /\ logLinked' = logLinked
        /\ wal'[Len(wal')] \in Record /\ wal'[Len(wal')].seq = last_seq + 1
    BY <1>12, AppendStep DEF directory
  <2>2. pc' \in {"fsync", "down"} \/ (pc' = "apply" /\ ~Fsync)
    BY <1>12 DEF AppendRecord, CrashInAppend, ForgetMemory
  <2>3. Chained(wal', snapshotOnDisk, snapshot.last_seq)
    BY <2>1, AppendKeepsFiles
  <2>4. \A a \in Promised : /\ OnBoth(wal', walOnDisk, snapshot, a.seq, a.write)
                            /\ OnBoth(wal', walOnDisk, snapshotOnDisk, a.seq, a.write)
    BY <1>1, <1>3, <2>1, OnBothExtends
  <2> QED
    BY <1>3, <2>1, <2>2, <2>3, <2>4
<1>13. CASE Reply
  <2>1. /\ wal' = wal /\ walOnDisk' = walOnDisk /\ snapshot' = snapshot
        /\ snapshotOnDisk' = snapshotOnDisk /\ logLinked' = logLinked
        /\ pc = "reply" /\ pc' = "idle"
    BY <1>13 DEF Reply, Release, files, logs, directory
  <2>2. CASE Fsync
    BY <1>3, <1>5, <2>1, <2>2
  <2>3. CASE ~Fsync
    <3>1. Promised' = {} /\ Promised = {}
      BY <2>3 DEF Promised, Synced
    <3> QED
      BY <1>3, <2>1, <3>1
  <2> QED
    BY <2>2, <2>3
<1>14. CASE Rename
  <2>1. /\ wal' = wal /\ walOnDisk' = walOnDisk /\ Promised' = Promised /\ snapshot' = tmp
        /\ snapshotOnDisk' = snapshotOnDisk /\ logLinked' = logLinked
        /\ pc = "rename" /\ pc' = "fsync_dir"
    BY <1>14 DEF Rename, Step, logs, directory, Promised
  <2>2. snapshotOnDisk = snapshot
    BY <1>3, <2>1
  <2>3. Serving /\ Continues(tmp) /\ snapshot.last_seq <= last_seq
    BY <2>1 DEF Serving, BaseInv, SavingInv, Saving, MemoryInv, Published
  <2>4. snapshot.last_seq <= tmp.last_seq
    BY <2>3, StateTypes DEF Continues
  <2>5. FullyChained(walOnDisk, tmp)
    BY <1>1, <1>3, <2>4, ChainedFurther
  <2>6. AllOnBoth(wal, walOnDisk, tmp)
    BY <1>1, <2>3, AckedInSnapshot
  <2>7. Chained(wal, snapshot, tmp.last_seq) /\ Chained(walOnDisk, snapshot, tmp.last_seq)
    BY <1>2, <1>3, ChainedByFull
  <2> QED
    BY <1>3, <2>1, <2>2, <2>5, <2>6, <2>7 DEF AllOnBoth
<1>15. CASE Truncate
  <2>1. /\ wal' = <<>> /\ walOnDisk' = walOnDisk /\ Promised' = Promised /\ snapshot' = snapshot
        /\ snapshotOnDisk' = snapshotOnDisk /\ logLinked' = logLinked
        /\ pc = "truncate" /\ pc' = "fsync_log"
    BY <1>15 DEF Truncate, Step, directory, Promised
  <2>2. Serving /\ Continues(snapshot) /\ snapshotOnDisk = snapshot
    BY <1>3, <2>1 DEF Serving, BaseInv, SavingInv, Published
  <2>3. AllOnBoth(<<>>, walOnDisk, snapshot)
    BY <1>1, <2>2, AckedInSnapshot
  <2>4. Chained(<<>>, snapshot, snapshot.last_seq)
    BY EmptyLog
  <2> QED
    BY <1>3, <2>1, <2>2, <2>3, <2>4 DEF AllOnBoth
<1>16. CASE PowerFailure
  <2>1. ~logLinked' => wal' = <<>>
    BY <1>16 DEF PowerFailure
  <2> QED
    BY <1>5, <1>16, <2>1 DEF PowerFailure
<1> QED
  BY <1>4, <1>7, <1>8, <1>10, <1>11, <1>12, <1>13, <1>14, <1>15, <1>16, CarefulFailing
  DEF Next, Opening, Adding, Checkpointing, Installing, Failing, Crashing

-----------------------------------------------------------------------------
(***************************************************************************)
(* MemoryInv, ReplayInv and ServingInv.                                    *)
(***************************************************************************)
\* All batches have one dimension: no insert raises.
LEMMA AlwaysFits ==
    ASSUME Careful, BaseInv, NEW w \in Write
    PROVE  Fits(w, shard)
<1>1. shard \in Seq(Write)
  BY StateTypes
<1>2. ASSUME shard # <<>> PROVE shard[1] \in Write
  <2>1. 1 \in 1 .. Len(shard)
    BY <1>1, <1>2, EmptySeq, LenProperties
  <2> QED
    BY <1>1, <2>1, ElementOfSeq
<1> QED
  BY <1>2 DEF Fits, Careful

LEMMA InsertsFit ==
    ASSUME IInv
    PROVE  /\ ~ApplyFails
           /\ ReplayRefused => NextRecord.seq > last_seq /\ NextRecord.seq # last_seq + 1
<1>1. ASSUME ApplyFails PROVE FALSE
  BY <1>1, RecordTypes, AlwaysFits DEF IInv, ApplyFails, Appended
<1>2. ASSUME ReplayRefused
      PROVE  NextRecord.seq > last_seq /\ NextRecord.seq # last_seq + 1
  <2>1. NextRecord.write \in Write
    BY <1>2, RecordTypes DEF IInv, ReplayRefused, Record
  <2> QED
    BY <1>2, <2>1, AlwaysFits DEF IInv, ReplayRefused
<1> QED
  BY <1>1, <1>2

\* The record that Apply or ReplayApply inserts is the one a restart would.
LEMMA InsertedIsRebuilt ==
    ASSUME IInv, NEW i \in 1 .. Len(wal), wal[i].seq = last_seq + 1,
           \A j \in 1 .. i - 1 : wal[j].seq <= last_seq,
           pc \in {"replay", "apply"}, Insert(wal[i].write)
    PROVE  /\ \A s \in 1 .. last_seq' : RebuiltFrom(wal, snapshot, s, shard'[s])
           /\ \A s \in 1 .. last_seq : shard'[s] = shard[s]
           /\ last_seq' = last_seq + 1
<1> USE DEF IInv
<1>1. /\ shard \in Seq(Write) /\ Len(shard) = last_seq /\ last_seq \in Nat
      /\ wal[i].write \in Write /\ Len(wal) \in Nat /\ snapshot.last_seq \in Nat
      /\ \A j \in 1 .. Len(wal) : wal[j].seq \in Nat
  BY StateTypes, RecordSeq
<1>2. /\ \A j \in 1 .. Len(wal) : wal[j].intact
      /\ \A s \in 1 .. last_seq : RebuiltFrom(wal, snapshot, s, shard[s])
      /\ snapshot.last_seq <= last_seq
  BY DEF MemoryInv, Published
<1>3. shard' = Append(shard, wal[i].write) /\ last_seq' = last_seq + 1
  BY DEF Insert
<1>4. shard'[last_seq + 1] = wal[i].write /\ \A s \in 1 .. last_seq : shard'[s] = shard[s]
  BY <1>1, <1>3, AppendProperties
<1>5. Found(wal, i, last_seq + 1, wal[i].write)
  BY <1>1, <1>2 DEF Found
<1>6. RebuiltFrom(wal, snapshot, last_seq + 1, shard'[last_seq + 1])
  BY <1>1, <1>2, <1>4, <1>5 DEF RebuiltFrom
<1>7. \A s \in 1 .. last_seq' : s \in 1 .. last_seq \/ s = last_seq + 1
  BY <1>1, <1>3
<1> QED
  BY <1>2, <1>3, <1>4, <1>6, <1>7

LEMMA ReplayApplyStep ==
    ASSUME IInv, ReplayApply
    PROVE  /\ \A s \in 1 .. last_seq' : RebuiltFrom(wal, snapshot, s, shard'[s])
           /\ last_seq' = last_seq + 1
           /\ replayed + 1 \in 1 .. Len(wal) /\ wal[replayed + 1].seq = last_seq + 1
<1>1. /\ replayed + 1 \in 1 .. Len(wal) /\ replayed \in Nat
      /\ wal[replayed + 1].seq = last_seq + 1
      /\ pc = "replay" /\ Insert(wal[replayed + 1].write)
  BY RecordTypes, StateTypes
  DEF IInv, ReplayApply, Replaying, NextRecord, ReplayInsert
<1>2. \A j \in 1 .. (replayed + 1) - 1 : wal[j].seq <= last_seq
  BY <1>1 DEF IInv, ReplayInv
<1> QED
  BY <1>1, <1>2, InsertedIsRebuilt

LEMMA ApplyStep ==
    ASSUME IInv, Apply
    PROVE  /\ \A s \in 1 .. last_seq' : RebuiltFrom(wal, snapshot, s, shard'[s])
           /\ \A s \in 1 .. last_seq : shard'[s] = shard[s]
           /\ last_seq' = last_seq + 1
           /\ \A i \in 1 .. Len(wal) : wal[i].seq <= last_seq + 1
<1>1. /\ pc = "apply" /\ Insert(wal[Len(wal)].write)
      /\ Len(wal) \in 1 .. Len(wal) /\ Len(wal) \in Nat /\ last_seq \in Nat
  BY RecordTypes, StateTypes, RecordSeq DEF IInv, Apply, ApplyThen, Batch, Appended
<1>2. /\ wal[Len(wal)].seq = last_seq + 1
      /\ \A i \in 1 .. Len(wal) : wal[i].seq <= last_seq \/ i = Len(wal)
  BY <1>1 DEF IInv, ServingInv, Serving, Appended
<1>3. \A j \in 1 .. Len(wal) - 1 : wal[j].seq <= last_seq
  BY <1>1, <1>2
<1>4. \A i \in 1 .. Len(wal) : wal[i].seq <= last_seq + 1
  <2>1. \A i \in 1 .. Len(wal) : wal[i].seq \in Nat
    BY StateTypes, RecordSeq DEF IInv
  <2> QED
    BY <1>1, <1>2, <2>1
<1> QED
  BY <1>1, <1>2, <1>3, <1>4, InsertedIsRebuilt

LEMMA MemoryInvStep == IInv /\ [Next]_vars => MemoryInv'
<1> SUFFICES ASSUME IInv, [Next]_vars, pc' # "down"
             PROVE  /\ \A i \in 1 .. Len(wal') : wal'[i].intact
                    /\ \A s \in 1 .. last_seq' : RebuiltFrom(wal', snapshot', s, shard'[s])
                    /\ snapshot'.last_seq <= last_seq' \/ (Published' /\ op' = "install")
  BY DEF MemoryInv
<1> USE DEF IInv
<1> DEFINE Goal == /\ \A i \in 1 .. Len(wal') : wal'[i].intact
                   /\ \A s \in 1 .. last_seq' : RebuiltFrom(wal', snapshot', s, shard'[s])
                   /\ snapshot'.last_seq <= last_seq' \/ (Published' /\ op' = "install")
<1>1. /\ wal \in Seq(Record) /\ Len(wal) \in Nat /\ last_seq \in Nat
      /\ snapshot \in SnapshotFile /\ tmp \in SnapshotFile
      /\ snapshot.last_seq \in Nat /\ Len(snapshot.shard) = snapshot.last_seq
      /\ tmp.last_seq \in Nat /\ Len(tmp.shard) = tmp.last_seq
  BY StateTypes, RecordSeq
<1>2. pc # "down" =>
        /\ \A i \in 1 .. Len(wal) : wal[i].intact
        /\ \A s \in 1 .. last_seq : RebuiltFrom(wal, snapshot, s, shard[s])
        /\ snapshot.last_seq <= last_seq \/ (Published /\ op = "install")
  BY Zenon DEF MemoryInv
\* An index just read from the snapshot is in it.
<1>3. ASSUME snapshot' = snapshot, LoadSnapshot
      PROVE  /\ \A s \in 1 .. last_seq' : RebuiltFrom(wal', snapshot', s, shard'[s])
             /\ snapshot'.last_seq <= last_seq'
  BY <1>1, <1>3 DEF LoadSnapshot, RebuiltFrom
<1>4. CASE Open
  <2>1. wal' = ReadRecords(wal) /\ snapshot' = snapshot /\ LoadSnapshot
    BY <1>4, OpenStep DEF Open
  <2>2. \A i \in 1 .. Len(wal') : wal'[i].intact
    BY <1>1, <2>1, ReadRecordsPrefix, ReadRecordsKeeps
  <2> QED
    BY <1>3, <2>1, <2>2
<1>5. CASE FinishInstall
  <2>1. wal' = wal /\ snapshot' = snapshot /\ LoadSnapshot /\ pc # "down"
    BY <1>5 DEF FinishInstall, EndInstall, files, logs
  <2> QED
    BY <1>2, <1>3, <2>1
<1>6. CASE ReplayApply
  <2>1. wal' = wal /\ snapshot' = snapshot /\ pc = "replay"
    BY <1>6 DEF ReplayApply, Replaying, ReplayInsert, files, logs
  <2> QED
    BY <1>1, <1>2, <1>6, <2>1, ReplayApplyStep DEF Published
<1>7. CASE Apply
  <2>1. wal' = wal /\ snapshot' = snapshot /\ pc = "apply"
    BY <1>7 DEF Apply, ApplyThen, files, logs
  <2> QED
    BY <1>1, <1>2, <1>7, <2>1, ApplyStep DEF Published
<1>8. ASSUME NEW w \in Write, AppendRecord(w)
      PROVE  Goal
  <2>1. /\ wal' \in Seq(Record) /\ Starts(wal, wal') /\ Len(wal') = Len(wal) + 1
        /\ pc = "idle" /\ snapshot' = snapshot /\ wal'[Len(wal')].intact
    BY <1>8, AppendStep
  <2>2. last_seq' = last_seq /\ shard' = shard
    BY <1>8 DEF AppendRecord, memory
  <2>3. \A i \in 1 .. Len(wal') : wal'[i].intact
    <3>1. \A i \in 1 .. Len(wal') : i \in 1 .. Len(wal) \/ i = Len(wal')
      BY <1>1, <2>1
    <3> QED
      BY <1>2, <2>1, <3>1 DEF Starts
  <2> QED
    BY <1>1, <1>2, <2>1, <2>2, <2>3, RebuiltExtends DEF Published
<1>9. CASE Rename
  <2>1. /\ wal' = wal /\ snapshot' = tmp /\ pc = "rename" /\ pc' = "fsync_dir"
        /\ last_seq' = last_seq /\ shard' = shard /\ op' = op
    BY <1>9 DEF Rename, Step, logs, memory
  <2>2. Serving /\ Continues(tmp)
    BY <2>1 DEF Serving, BaseInv, SavingInv, Saving
  <2>3. \A s \in 1 .. last_seq : RebuiltFrom(wal, tmp, s, shard[s])
    BY <1>1, <2>2, AckedInSnapshot
  <2> QED
    BY <1>1, <1>2, <2>1, <2>2, <2>3 DEF Continues, Published
<1>10. CASE Truncate
  <2>1. /\ wal' = <<>> /\ snapshot' = snapshot /\ pc = "truncate" /\ pc' = "fsync_log"
        /\ last_seq' = last_seq /\ shard' = shard /\ op' = op
    BY <1>10 DEF Truncate, Step, memory
  <2>2. Serving /\ Continues(snapshot)
    BY <2>1 DEF Serving, BaseInv, SavingInv, Published
  <2>3. \A s \in 1 .. last_seq : RebuiltFrom(<<>>, snapshot, s, shard[s])
    BY <1>1, <2>2, AckedInSnapshot
  <2>4. \A i \in 1 .. Len(wal') : wal'[i].intact
    BY <2>1, EmptySeq
  <2> QED
    BY <1>2, <2>1, <2>3, <2>4 DEF Published
\* The rest touches neither the index nor what a restart would read.
<1>11. CASE ~(Rewrites \/ FinishInstall \/ ReplayApply \/ Apply) \/ Reply
  <2>1. wal' = wal /\ snapshot' = snapshot
    BY <1>11, QuietStep DEF Reply, files, logs
  <2>2. /\ pc # "down" /\ last_seq' = last_seq /\ shard' = shard
        /\ Published /\ op = "install" => Published' /\ op' = "install"
    BY <1>11, CarefulFailing
    DEF Published, BaseInv, Sized, Rewrites, Next, Opening, Adding, Checkpointing, Installing,
        Failing, Crashing, SyncCut, SyncRecord, SyncLog, FsyncLog, ReplaySkip, Replaying,
        ReplayRefused, ReplayDone, PassOver, ApplyFails, Reply, FetchSnapshot, SaveTmp,
        WriteTmp, SyncTmp, SyncDir, FinishCheckpoint, EndCheckpoint, InstallSnapshot,
        SaveFails, ResetFails, CallFails, Crash, ForgetMemory, Step, Release, vars, memory
  <2> QED
    BY <1>2, <2>1, <2>2
<1>12. ASSUME NEW w \in Write, CrashInAppend(w) PROVE Goal
  BY <1>12 DEF CrashInAppend, ForgetMemory
<1>13. CASE PowerFailure
  BY <1>13 DEF PowerFailure, ForgetMemory
<1> QED
  BY <1>4, <1>5, <1>6, <1>7, <1>8, <1>9, <1>10, <1>11, <1>12, <1>13 DEF Rewrites

LEMMA ReplayInvStep == IInv /\ [Next]_vars => ReplayInv'
<1> SUFFICES ASSUME IInv, [Next]_vars, pc' \in {"cut", "replay"}
             PROVE  replayed' <= Len(wal') /\ \A i \in 1 .. replayed' : wal'[i].seq <= last_seq'
  BY DEF ReplayInv
<1> USE DEF IInv
<1>1. /\ Len(wal) \in Nat /\ last_seq \in Nat /\ replayed \in Nat
      /\ \A i \in 1 .. Len(wal) : wal[i].seq \in Nat
  BY StateTypes, RecordSeq
<1>2. pc \in {"cut", "replay"} =>
        replayed <= Len(wal) /\ \A i \in 1 .. replayed : wal[i].seq <= last_seq
  BY Zenon DEF ReplayInv
<1>3. CASE Open
  BY <1>3, OpenStep, LenProperties DEF Open
<1>4. CASE SyncCut
  BY <1>2, <1>4 DEF SyncCut, Step, FsyncLog, memory
<1>5. CASE ReplaySkip
  <2>1. /\ wal' = wal /\ last_seq' = last_seq /\ replayed' = replayed + 1 /\ pc = "replay"
        /\ wal[replayed + 1].seq <= last_seq
    BY <1>5 DEF ReplaySkip, Replaying, NextRecord, PassOver, files, logs, memory
  <2>2. replayed + 1 \in 1 .. Len(wal)
    BY <1>5, RecordTypes DEF ReplaySkip
  <2>3. \A i \in 1 .. replayed + 1 : i \in 1 .. replayed \/ i = replayed + 1
    BY <1>1
  <2> QED
    BY <1>2, <2>1, <2>2, <2>3
<1>6. CASE ReplayApply
  <2>1. wal' = wal /\ replayed' = replayed + 1 /\ pc = "replay"
    BY <1>6 DEF ReplayApply, Replaying, ReplayInsert, files, logs
  <2>2. /\ last_seq' = last_seq + 1 /\ replayed + 1 \in 1 .. Len(wal)
        /\ wal[replayed + 1].seq = last_seq + 1
    BY <1>6, ReplayApplyStep
  <2>3. \A i \in 1 .. replayed + 1 : wal[i].seq <= last_seq + 1
    <3>1. \A i \in 1 .. replayed + 1 :
             (i \in 1 .. replayed \/ i = replayed + 1) /\ i \in 1 .. Len(wal)
      BY <1>1, <2>2
    <3> QED
      BY <1>1, <1>2, <2>1, <2>2, <3>1
  <2> QED
    BY <2>1, <2>2, <2>3
<1>7. CASE UNCHANGED vars
  BY <1>2, <1>7 DEF vars, files, logs, memory
<1> QED
  BY <1>3, <1>4, <1>5, <1>6, <1>7, CarefulFailing
  DEF Next, Opening, Adding, Checkpointing, Installing, Failing, Crashing,
      SyncRecord, SyncLog, ReplayRefused, ReplayDone, AppendRecord, Apply,
      ApplyThen, ApplyFails, Reply, FetchSnapshot, SaveTmp, WriteTmp, SyncTmp, Rename, SyncDir,
      Truncate, FinishCheckpoint, EndCheckpoint, InstallSnapshot, FinishInstall, EndInstall,
      SaveFails, ResetFails, CallFails, Crash, CrashInAppend, PowerFailure, ForgetMemory,
      Step, Release

\* When the replay is done, the index has every acknowledged write.
LEMMA ReplayDoneStep ==
    ASSUME IInv, ReplayDone
    PROVE  /\ \A i \in 1 .. Len(wal) : wal[i].seq <= last_seq
           /\ \A a \in Promised : a.seq \in 1 .. last_seq /\ shard[a.seq] = a.write
<1> USE DEF IInv
<1>1. /\ wal \in Seq(Record) /\ last_seq \in Nat /\ snapshot.last_seq \in Nat
      /\ Len(snapshot.shard) = snapshot.last_seq /\ \A a \in Promised : a.seq \in Nat
  BY StateTypes
<1>2. /\ \A i \in 1 .. Len(wal) : wal[i].seq <= last_seq
      /\ \A s \in 1 .. last_seq : RebuiltFrom(wal, snapshot, s, shard[s])
      /\ snapshot.last_seq <= last_seq
  BY DEF ReplayDone, Step, ReplayInv, MemoryInv, Published
<1>3. WellFormed(wal) /\ \A a \in Promised : RebuiltFrom(wal, snapshot, a.seq, a.write)
  BY DEF FilesInv, AllRebuilt
<1>4. ASSUME NEW a \in Promised
      PROVE  a.seq \in 1 .. last_seq /\ shard[a.seq] = a.write
  <2>1. a.seq \in 1 .. last_seq
    <3>1. CASE a.seq <= snapshot.last_seq
      <4>1. a.seq \in 1 .. Len(snapshot.shard)
        BY <1>3, <3>1 DEF RebuiltFrom
      <4> QED
        BY <1>1, <1>2, <4>1
    <3>2. CASE ~(a.seq <= snapshot.last_seq)
      <4>1. PICK i \in 1 .. Len(wal) : Found(wal, i, a.seq, a.write)
        BY <1>3, <3>2 DEF RebuiltFrom
      <4>2. wal[i].seq = a.seq
        BY <4>1 DEF Found
      <4> QED
        BY <1>1, <1>2, <3>2, <4>1, <4>2
    <3> QED
      BY <3>1, <3>2
  <2>2. RebuiltFrom(wal, snapshot, a.seq, shard[a.seq])
    BY <1>2, <2>1
  <2>3. RebuiltFrom(wal, snapshot, a.seq, a.write)
    BY <1>3
  <2> QED
    BY <1>1, <1>3, <2>1, <2>2, <2>3, RebuiltOnce
<1> QED
  BY <1>2, <1>4

LEMMA ServingInvStep == IInv /\ [Next]_vars => ServingInv'
<1> SUFFICES ASSUME IInv, [Next]_vars, Serving'
             PROVE  /\ \A i \in 1 .. Len(wal') :
                          wal'[i].seq <= last_seq' \/ (Appended' /\ i = Len(wal'))
                    /\ \A a \in Promised' : a.seq \in 1 .. last_seq' /\ shard'[a.seq] = a.write
                    /\ Appended' => wal'[Len(wal')].seq = last_seq' + 1
  BY DEF ServingInv
<1> USE DEF IInv
<1> DEFINE Goal == /\ \A i \in 1 .. Len(wal') :
                         wal'[i].seq <= last_seq' \/ (Appended' /\ i = Len(wal'))
                   /\ \A a \in Promised' : a.seq \in 1 .. last_seq' /\ shard'[a.seq] = a.write
                   /\ Appended' => wal'[Len(wal')].seq = last_seq' + 1
<1>1. /\ Len(wal) \in Nat /\ last_seq \in Nat
      /\ \A i \in 1 .. Len(wal) : wal[i].seq \in Nat
  BY StateTypes, RecordSeq
<1>2. Serving =>
        /\ \A i \in 1 .. Len(wal) : wal[i].seq <= last_seq \/ (Appended /\ i = Len(wal))
        /\ \A a \in Promised : a.seq \in 1 .. last_seq /\ shard[a.seq] = a.write
        /\ Appended => wal[Len(wal)].seq = last_seq + 1
  BY Zenon DEF ServingInv
<1>3. CASE ReplayDone
  <2>1. wal' = wal /\ last_seq' = last_seq /\ shard' = shard /\ Promised' = Promised /\ pc' = "idle"
    BY <1>3 DEF ReplayDone, Step, files, logs, memory, Promised
  <2> QED
    BY <1>3, <2>1, ReplayDoneStep DEF Appended
<1>4. ASSUME NEW w \in Write, AppendRecord(w)
      PROVE  Goal
  <2>1. /\ Starts(wal, wal') /\ Len(wal') = Len(wal) + 1 /\ pc = "idle" /\ Promised' = Promised
        /\ wal'[Len(wal')].seq = last_seq + 1
    BY <1>4, AppendStep
  <2>2. last_seq' = last_seq /\ shard' = shard /\ pc' \in {"fsync", "apply"}
    BY <1>4 DEF AppendRecord, memory
  <2>3. \A i \in 1 .. Len(wal') : i \in 1 .. Len(wal) \/ i = Len(wal')
    BY <1>1, <2>1
  <2>4. Serving /\ ~Appended
    BY <2>1 DEF Serving, Appended
  <2> QED
    BY <1>2, <2>1, <2>2, <2>3, <2>4 DEF Starts, Appended
<1>5. CASE Apply
  <2>1. wal' = wal /\ Promised' = Promised /\ pc = "apply" /\ pc' \in {"save", "reply"}
    BY <1>5 DEF Apply, ApplyThen, files, logs, Promised
  <2>2. /\ \A s \in 1 .. last_seq : shard'[s] = shard[s]
        /\ last_seq' = last_seq + 1
        /\ \A i \in 1 .. Len(wal) : wal[i].seq <= last_seq + 1
    BY <1>5, ApplyStep
  <2>3. \A a \in Promised : a.seq \in 1 .. last_seq + 1 /\ shard'[a.seq] = a.write
    BY <1>1, <1>2, <2>1, <2>2 DEF Serving
  <2> QED
    BY <2>1, <2>2, <2>3 DEF Appended
<1>6. CASE Reply
  <2>1. /\ wal' = wal /\ last_seq' = last_seq /\ shard' = shard /\ pc = "reply" /\ pc' = "idle"
        /\ \A a \in Promised' :
              a \in Promised \/ a = [seq |-> last_seq, write |-> shard[last_seq]]
    BY <1>6 DEF Reply, Release, files, logs, memory, Promised
  <2>2. last_seq \in 1 .. last_seq
    BY <1>1, <2>1 DEF BaseInv, Sized
  <2> QED
    BY <1>2, <2>1, <2>2 DEF Serving, Appended
<1>7. CASE FinishInstall
  <2>1. /\ wal' = wal /\ Promised' = Promised /\ pc = "finish" /\ pc' = "idle"
        /\ shard' = snapshot.shard /\ last_seq' = snapshot.last_seq
    BY <1>7 DEF FinishInstall, EndInstall, LoadSnapshot, Release, files, logs, Promised
  <2>2. last_seq <= snapshot.last_seq /\ snapshot.last_seq \in Nat
        /\ \A s \in 1 .. last_seq : snapshot.shard[s] = shard[s]
    BY <2>1, StateTypes DEF BaseInv, SavingInv, Published, Continues
  <2>3. \A i \in 1 .. Len(wal) : wal[i].seq <= last_seq
    BY <1>2, <2>1 DEF Serving, Appended
  <2>4. \A a \in Promised : a.seq \in 1 .. snapshot.last_seq /\ snapshot.shard[a.seq] = a.write
    BY <1>1, <1>2, <2>1, <2>2 DEF Serving
  <2>5. \A i \in 1 .. Len(wal) : wal[i].seq <= snapshot.last_seq
    BY <1>1, <2>2, <2>3
  <2> QED
    BY <2>1, <2>4, <2>5 DEF Appended
<1>8. CASE Truncate
  <2>1. /\ wal' = <<>> /\ Promised' = Promised /\ pc = "truncate" /\ pc' = "fsync_log"
        /\ last_seq' = last_seq /\ shard' = shard
    BY <1>8 DEF Truncate, Step, memory, Promised
  <2> QED
    BY <1>2, <2>1, EmptySeq DEF Serving, Appended
<1>9. CASE ~(\/ ReplayDone \/ Apply \/ Reply \/ FinishInstall \/ Truncate
             \/ \E w \in Write : AppendRecord(w))
  <2>1. Serving /\ wal' = wal /\ last_seq' = last_seq /\ shard' = shard /\ Promised' = Promised
        /\ Appended' = Appended
    BY <1>9, CarefulFailing, InsertsFit
    DEF Promised, Serving, Appended, Next, Opening, Adding, Checkpointing, Installing, Failing, Crashing,
        Open, SyncCut, SyncRecord, SyncLog, FsyncLog, ReplaySkip, Replaying, ReplayApply,
        ReplayInsert, ReplayRefused, PassOver, FetchSnapshot, SaveTmp,
        WriteTmp, SyncTmp, Rename, SyncDir, FinishCheckpoint, EndCheckpoint, InstallSnapshot,
        SaveFails, ResetFails, CallFails, Crash, CrashInAppend, PowerFailure, ForgetMemory,
        Step, Release, vars, files, logs, memory
  <2> QED
    BY <1>2, <2>1
<1> QED
  BY <1>3, <1>4, <1>5, <1>6, <1>7, <1>8, <1>9

\* The replay never meets a gap, and the snapshot can always be read.
LEMMA NeverRefusedStep == IInv /\ [Next]_vars => pc' # "refused"
<1> SUFFICES ASSUME IInv, [Next]_vars, pc' = "refused"
             PROVE  FALSE
  OBVIOUS
<1> USE DEF IInv
<1>1. CASE ReplayRefused
  <2> DEFINE n == replayed + 1
  <2>1. /\ n \in 1 .. Len(wal) /\ pc = "replay" /\ wal[n].seq > last_seq
        /\ wal[n].seq # last_seq + 1
    BY <1>1, RecordTypes, InsertsFit DEF ReplayRefused, Replaying, NextRecord
  <2>2. /\ last_seq \in Nat /\ snapshot.last_seq \in Nat /\ replayed \in Nat /\ Len(wal) \in Nat
        /\ \A i \in 1 .. Len(wal) : wal[i].seq \in Nat
    BY StateTypes, RecordSeq
  <2>3. snapshot.last_seq <= last_seq
    BY <2>1 DEF MemoryInv, Published
  <2>4. snapshot.last_seq + 1 < wal[n].seq
    BY <2>1, <2>2, <2>3
  <2>5. n - 1 \in 1 .. Len(wal) /\ wal[n - 1].seq + 1 = wal[n].seq
    BY <2>1, <2>4 DEF FilesInv, FullyChained
  <2>6. wal[n - 1].seq <= last_seq
    BY <2>1, <2>2, <2>5 DEF ReplayInv
  <2> QED
    BY <2>1, <2>2, <2>5, <2>6
<1>2. CASE Open
  BY <1>2, OpenStep
<1> QED
  BY <1>1, <1>2
  DEF Next, Opening, Adding, Checkpointing, Installing, Failing, Crashing,
      SyncCut, SyncRecord, SyncLog, ReplaySkip, Replaying, ReplayApply, ReplayInsert, PassOver,
      ReplayDone, AppendRecord, Apply, ApplyThen, ApplyFails, Reply, FetchSnapshot, SaveTmp,
      WriteTmp, SyncTmp, Rename, SyncDir, Truncate, FinishCheckpoint, EndCheckpoint,
      InstallSnapshot, FinishInstall, EndInstall, AppendFails, MayAppend, SaveFails, ResetFails,
      InstallFails, CallFails, Crash, CrashInAppend, PowerFailure, ForgetMemory, Step, Release,
      vars

-----------------------------------------------------------------------------
(***************************************************************************)
(* The theorems.                                                           *)
(***************************************************************************)
LEMMA InductiveInit == Careful /\ Init => IInv
<1> SUFFICES ASSUME Careful, Init PROVE IInv
  OBVIOUS
<1>1. BaseInv
  BY BaseInit
<1>2. wal = <<>> /\ walOnDisk = <<>> /\ Promised = {} /\ pc = "down"
  BY DEF Init, Promised
<1>3. FilesInv /\ DiskInv
  BY <1>2, EmptyLog DEF FilesInv, DiskInv, AllRebuilt, AllOnBoth
<1>4. MemoryInv /\ ReplayInv /\ ServingInv
  BY <1>2 DEF MemoryInv, ReplayInv, ServingInv, Serving
<1> QED
  BY <1>1, <1>2, <1>3, <1>4 DEF IInv

LEMMA InductiveStep == IInv /\ [Next]_vars => IInv'
<1> SUFFICES ASSUME IInv, [Next]_vars PROVE IInv'
  OBVIOUS
<1>1. Careful' /\ BaseInv'
  BY TypeStep, SizedStep, SavingStep DEF IInv, BaseInv, Careful
<1>2. pc' # "refused" /\ FilesInv' /\ DiskInv' /\ MemoryInv' /\ ReplayInv' /\ ServingInv'
  BY NeverRefusedStep, FilesStep, DiskStep, MemoryInvStep, ReplayInvStep, ServingInvStep
<1> QED
  BY <1>1, <1>2 DEF IInv

\* What the invariant says of a shard between two requests.
LEMMA IInvBetweenRequests == IInv => RestartRebuildsMemory
<1> SUFFICES ASSUME IInv, pc = "idle"
             PROVE  /\ Len(shard) = last_seq
                    /\ \A s \in 1 .. last_seq : Rebuilt(s, shard[s])
                    /\ snapshot.last_seq <= last_seq /\ Extends(shard, snapshot.shard)
                    /\ \A i \in 1 .. Len(wal) : wal[i].seq <= last_seq
  BY DEF RestartRebuildsMemory
<1> USE DEF IInv
<1>1. /\ shard \in Seq(Write) /\ Len(shard) = last_seq /\ last_seq \in Nat
      /\ snapshot.shard \in Seq(Write) /\ Len(snapshot.shard) = snapshot.last_seq
      /\ snapshot.last_seq \in Nat
  BY StateTypes DEF SnapshotFile
<1>2. /\ \A s \in 1 .. last_seq : RebuiltFrom(wal, snapshot, s, shard[s])
      /\ snapshot.last_seq <= last_seq
  BY DEF MemoryInv, Published
<1>3. \A i \in 1 .. Len(wal) : wal[i].seq <= last_seq
  BY DEF ServingInv, Serving, Appended
<1>4. \A s \in 1 .. last_seq : Rebuilt(s, shard[s])
  BY <1>2 DEF Rebuilt, RebuiltFrom, RecordAt, Found
<1>5. \A s \in 1 .. Len(snapshot.shard) : shard[s] = snapshot.shard[s]
  BY <1>1, <1>2 DEF RebuiltFrom
<1>6. Extends(shard, snapshot.shard)
  BY <1>1, <1>2, <1>5, ExtendsByPrefix
<1> QED
  BY <1>1, <1>2, <1>3, <1>4, <1>6

LEMMA IInvKeepsAcked == IInv /\ Synced => AckedSurvive
<1> SUFFICES ASSUME IInv, Synced PROVE AckedSurvive
  OBVIOUS
<1>1. \A a \in acked : RebuiltFrom(wal, snapshot, a.seq, a.write)
  BY DEF IInv, FilesInv, AllRebuilt, Promised
<1> QED
  BY <1>1 DEF AckedSurvive, Rebuilt, RebuiltFrom, RecordAt, Found

\* "Zero loss of acknowledged writes": whatever crashes interrupt, a restart
\* rebuilds every acknowledged write under its number, provided vectors fit,
\* appends and installs do not fail half-way, and, where the machine may
\* stop, the log is fsynced on a file system that orders directory changes.
THEOREM ZeroLoss == Careful /\ Synced /\ Spec => []AckedSurvive
<1>1. Synced => []Synced
  <2>1. Synced => Synced'
    BY DEF Synced
  <2> QED
    BY <2>1, PTL
<1> QED
  BY <1>1, InductiveInit, InductiveStep, IInvKeepsAcked, PTL DEF Spec

\* With the log fsynced or not, and whether the process or the machine stops,
\* the shard opens again after any crash: there is no gap in the log and no
\* half-written snapshot.
THEOREM AlwaysOpens == Careful /\ Spec => []NeverRefused
<1>1. IInv => NeverRefused
  BY DEF IInv, NeverRefused
<1> QED
  BY <1>1, InductiveInit, InductiveStep, PTL DEF Spec

\* Between two requests the files and the index agree, in both directions: no
\* record is applied twice, and none is missing, after a crash at any point; for
\* this too nothing needs to be fsynced.
THEOREM FilesAgree == Careful /\ Spec => []RestartRebuildsMemory
BY InductiveInit, InductiveStep, IInvBetweenRequests, PTL DEF Spec

-----------------------------------------------------------------------------
(***************************************************************************)
(* What the files are worth: Contents is the one sequence that holds every *)
(* write a restart would rebuild, and nothing else.                        *)
(***************************************************************************)
Holds(l, f, c) ==
    /\ c \in Seq(Write)
    /\ \A s \in 1 .. Len(c) : RebuiltFrom(l, f, s, c[s])
    /\ \A s \in Nat : \A w \in Write :
          RebuiltFrom(l, f, s, w) => s \in 1 .. Len(c) /\ c[s] = w

\* The last number is that of the snapshot or of the last readable record.
LEMMA LastNumberIsLast ==
    ASSUME BaseInv, FilesInv
    PROVE  /\ LastNumber \in Numbers /\ LastNumber \in Nat
           /\ \A m \in Numbers : m <= LastNumber
<1> DEFINE n == IntactLen(wal)
<1>1. /\ wal \in Seq(Record) /\ Len(wal) \in Nat /\ n \in 0 .. Len(wal)
      /\ snapshot.last_seq \in Nat /\ \A i \in 1 .. Len(wal) : wal[i].seq \in Nat
  BY StateTypes, RecordSeq, ReadRecordsPrefix
<1> HIDE DEF n
<1>2. /\ snapshot.last_seq \in Numbers /\ Numbers \subseteq Nat
      /\ \A i \in 1 .. n : wal[i].seq \in Numbers
      /\ \A m \in Numbers : m = snapshot.last_seq \/ \E i \in 1 .. n : m = wal[i].seq
  BY <1>1 DEF Numbers, n
<1>3. \E top \in Numbers : \A m \in Numbers : m <= top
  <2>1. CASE n = 0
    BY <1>1, <1>2, <2>1
  <2>2. CASE n # 0
    <3>1. n \in 1 .. n /\ n \in 1 .. Len(wal)
      BY <1>1, <2>2
    <3>2. \A i \in 1 .. n : wal[i].seq <= wal[n].seq
      <4>1. ASSUME NEW i \in 1 .. n PROVE wal[i].seq <= wal[n].seq
        <5>1. wal[n].seq \in Nat /\ wal[i].seq \in Nat
          BY <1>1, <3>1
        <5>2. i # n => wal[i].seq < wal[n].seq
          BY <1>1, <3>1 DEF FilesInv, WellFormed
        <5> QED BY <5>1, <5>2
      <4> QED BY <4>1
    <3>3. CASE wal[n].seq <= snapshot.last_seq
      <4>1. \A m \in Numbers : m <= snapshot.last_seq
        BY <1>1, <1>2, <3>1, <3>2, <3>3
      <4> QED BY <1>2, <4>1
    <3>4. CASE ~(wal[n].seq <= snapshot.last_seq)
      <4>1. \A m \in Numbers : m <= wal[n].seq
        BY <1>1, <1>2, <3>1, <3>2, <3>4
      <4> QED BY <1>2, <3>1, <4>1
    <3> QED BY <3>3, <3>4
  <2> QED BY <2>1, <2>2
<1> HIDE DEF Numbers
<1>4. LastNumber \in Numbers /\ \A m \in Numbers : m <= LastNumber
  BY <1>3 DEF LastNumber
<1> QED BY <1>2, <1>4

\* No number is missing up to the last one.
LEMMA NothingMissing ==
    ASSUME BaseInv, FilesInv, NEW s \in 1 .. LastNumber
    PROVE  \E w \in Write : Rebuilt(s, w)
<1>1. /\ wal \in Seq(Record) /\ Len(wal) \in Nat /\ IntactLen(wal) \in 0 .. Len(wal)
      /\ snapshot.last_seq \in Nat /\ Len(snapshot.shard) = snapshot.last_seq
      /\ snapshot.shard \in Seq(Write)
      /\ \A i \in 1 .. Len(wal) : wal[i].seq \in Nat /\ wal[i].write \in Write
  BY StateTypes, RecordSeq, ReadRecordsPrefix DEF SnapshotFile
<1>2. /\ LastNumber \in Nat /\ s \in Nat
      /\ LastNumber > snapshot.last_seq => \E i \in 1 .. IntactLen(wal) : wal[i].seq = LastNumber
  BY <1>1, LastNumberIsLast DEF Numbers
<1>3. CASE s <= snapshot.last_seq
  BY <1>1, <1>2, <1>3, ElementOfSeq DEF Rebuilt
<1>4. CASE ~(s <= snapshot.last_seq)
  <2> DEFINE Missing == {t \in snapshot.last_seq + 1 .. LastNumber :
                            ~\E i \in 1 .. IntactLen(wal) : wal[i].seq = t}
  <2>1. Missing = {}
    <3> SUFFICES ASSUME Missing # {} PROVE FALSE
      OBVIOUS
    <3>1. IsFiniteSet(snapshot.last_seq + 1 .. LastNumber)
      <4>1. snapshot.last_seq + 1 \in Int /\ LastNumber \in Int
        BY <1>1, <1>2
      <4> QED BY <4>1, FS_Interval
    <3>2. Missing \in SUBSET (snapshot.last_seq + 1 .. LastNumber)
      OBVIOUS
    <3>3. IsFiniteSet(Missing)
      BY <3>1, <3>2, FS_Subset
    <3> DEFINE Size == [t \in Missing |-> t]
    <3>4. Size \in [Missing -> Nat]
      BY <1>1, <1>2
    <3>5. PICK t \in Missing : \A u \in Missing : Size[u] <= Size[t]
      <4> HIDE DEF Missing, Size
      <4> QED BY <3>3, <3>4, Greatest
    <3>6. \A u \in Missing : u <= t
      BY <3>5
    <3>7. t \in Nat /\ snapshot.last_seq < t /\ t <= LastNumber
          /\ ~\E i \in 1 .. IntactLen(wal) : wal[i].seq = t
      BY <1>1, <1>2
    <3>8. t # LastNumber
      BY <1>1, <1>2, <3>7
    <3>9. t + 1 \notin Missing
      BY <3>6, <3>7
    <3>10. t + 1 \in snapshot.last_seq + 1 .. LastNumber
      BY <1>1, <1>2, <3>7, <3>8
    <3>11. PICK i \in 1 .. IntactLen(wal) : wal[i].seq = t + 1
      BY <3>9, <3>10
    <3>12. i - 1 \in 1 .. Len(wal) /\ wal[i - 1].seq + 1 = wal[i].seq
      BY <1>1, <3>7, <3>11 DEF FilesInv, FullyChained
    <3>13. wal[i - 1].seq = t /\ i - 1 \in 1 .. IntactLen(wal)
      BY <1>1, <3>7, <3>11, <3>12
    <3> QED BY <3>7, <3>13
  <2>2. PICK i \in 1 .. IntactLen(wal) : wal[i].seq = s
    <3>1. s \in snapshot.last_seq + 1 .. LastNumber
      BY <1>1, <1>2, <1>4
    <3> QED BY <2>1, <3>1
  <2>3. i \in 1 .. Len(wal) /\ \A j \in 1 .. i : wal[j].intact
    BY <1>1, ReadRecordsKeeps
  <2>4. \A j \in 1 .. i - 1 : wal[j].seq # s
    BY <1>1, <2>2, <2>3 DEF FilesInv, WellFormed
  <2> QED BY <1>1, <1>4, <2>2, <2>3, <2>4 DEF Rebuilt, RecordAt
<1> QED BY <1>3, <1>4

LEMMA ContentsHold ==
    ASSUME BaseInv, FilesInv
    PROVE  Holds(wal, snapshot, Contents)
<1>1. /\ LastNumber \in Nat /\ \A m \in Numbers : m <= LastNumber
  BY LastNumberIsLast
<1>2. /\ wal \in Seq(Record) /\ Len(wal) \in Nat /\ IntactLen(wal) \in 0 .. Len(wal)
      /\ snapshot.last_seq \in Nat /\ Len(snapshot.shard) = snapshot.last_seq
      /\ \A i \in 1 .. Len(wal) : wal[i].seq \in Nat
  BY StateTypes, RecordSeq, ReadRecordsPrefix
<1>3. \A s \in 1 .. LastNumber : Contents[s] \in Write /\ Rebuilt(s, Contents[s])
  <2>1. ASSUME NEW s \in 1 .. LastNumber
        PROVE  Contents[s] \in Write /\ Rebuilt(s, Contents[s])
    <3>1. \E w \in Write : Rebuilt(s, w)
      BY NothingMissing
    <3>2. Contents[s] = CHOOSE w \in Write : Rebuilt(s, w)
      BY DEF Contents
    <3> QED BY <3>1, <3>2
  <2> QED BY <2>1
<1>4. Contents \in Seq(Write) /\ Len(Contents) = LastNumber
  <2>1. Contents \in [1 .. LastNumber -> Write]
    BY <1>3 DEF Contents
  <2> QED BY <1>1, <2>1, SeqDef, LenProperties
<1>5. \A s \in 1 .. Len(Contents) : RebuiltFrom(wal, snapshot, s, Contents[s])
  BY <1>3, <1>4 DEF Rebuilt, RebuiltFrom, RecordAt, Found
<1>6. ASSUME NEW s \in Nat, NEW w \in Write, RebuiltFrom(wal, snapshot, s, w)
      PROVE  s \in 1 .. Len(Contents) /\ Contents[s] = w
  <2>1. s \in 1 .. LastNumber
    <3>1. CASE s <= snapshot.last_seq
      <4>1. s \in 1 .. Len(snapshot.shard)
        BY <1>6, <3>1 DEF RebuiltFrom
      <4>2. snapshot.last_seq <= LastNumber
        BY <1>1 DEF Numbers
      <4> QED BY <1>1, <1>2, <4>1, <4>2
    <3>2. CASE ~(s <= snapshot.last_seq)
      <4>1. PICK i \in 1 .. Len(wal) : Found(wal, i, s, w)
        BY <1>6, <3>2 DEF RebuiltFrom
      <4>2. i \in 1 .. IntactLen(wal) /\ wal[i].seq = s
        BY <1>2, <4>1, ReadRecordsKeeps DEF Found
      <4>3. s <= LastNumber
        BY <1>1, <4>2 DEF Numbers
      <4> QED BY <1>1, <1>2, <3>2, <4>3
    <3> QED BY <3>1, <3>2
  <2>2. RebuiltFrom(wal, snapshot, s, Contents[s])
    BY <1>4, <1>5, <2>1
  <2>3. WellFormed(wal)
    BY DEF FilesInv
  <2>4. Contents[s] = w
    BY <1>2, <1>6, <2>2, <2>3, RebuiltOnce
  <2> QED BY <1>4, <2>1, <2>4
<1> QED BY <1>4, <1>5, <1>6 DEF Holds

\* Files that rebuild more are worth a longer log of the same writes.
LEMMA HoldsMore ==
    ASSUME NEW l, NEW f, NEW c, Holds(l, f, c), NEW k, NEW g, NEW d, Holds(k, g, d),
           \A s \in Nat : \A w \in Write : RebuiltFrom(l, f, s, w) => RebuiltFrom(k, g, s, w)
    PROVE  Len(c) <= Len(d) /\ \A s \in 1 .. Len(c) : d[s] = c[s]
<1>1. c \in Seq(Write) /\ d \in Seq(Write) /\ Len(c) \in Nat /\ Len(d) \in Nat
  BY LenProperties DEF Holds
<1>2. ASSUME NEW s \in 1 .. Len(c) PROVE s \in 1 .. Len(d) /\ d[s] = c[s]
  <2>1. s \in Nat /\ c[s] \in Write
    BY <1>1, ElementOfSeq
  <2>2. RebuiltFrom(l, f, s, c[s])
    BY DEF Holds
  <2>3. RebuiltFrom(k, g, s, c[s])
    BY <2>1, <2>2
  <2> QED BY <2>1, <2>3 DEF Holds
<1>3. Len(c) <= Len(d)
  <2>1. Len(c) # 0 => Len(c) \in 1 .. Len(c)
    BY <1>1
  <2>2. Len(c) # 0 => Len(c) \in 1 .. Len(d)
    BY <1>2, <2>1
  <2> QED BY <1>1, <2>2
<1> QED BY <1>2, <1>3

-----------------------------------------------------------------------------
(***************************************************************************)
(* The last part of the invariant: the disk is worth no other history.     *)
(* What a file kept for the power failure rebuilds, the files a process    *)
(* reads rebuild too, and records that a snapshot covers agree with it.    *)
(***************************************************************************)
Agrees(l, f) ==
    \A i \in 1 .. Len(l) :
        (\A j \in 1 .. i : l[j].intact) /\ l[i].seq \in 1 .. f.last_seq
            => f.shard[l[i].seq] = l[i].write

OlderInv ==
    "power" \in Crashes =>
        /\ \A s \in Nat : \A w \in Write :
              RebuiltFrom(walOnDisk, snapshot, s, w) => RebuiltFrom(wal, snapshot, s, w)
        /\ Agrees(wal, snapshot) /\ Agrees(walOnDisk, snapshot)
        /\ snapshotOnDisk.last_seq <= snapshot.last_seq
        /\ \A s \in 1 .. snapshotOnDisk.last_seq : snapshot.shard[s] = snapshotOnDisk.shard[s]

LInv == IInv /\ OlderInv

LEMMA AgreesStarts ==
    ASSUME NEW k \in Seq(Record), NEW l \in Seq(Record), Starts(k, l), NEW f, Agrees(l, f)
    PROVE  Agrees(k, f)
<1>1. Len(k) \in Nat /\ Len(l) \in Nat
  BY LenProperties
<1>2. ASSUME NEW i \in 1 .. Len(k), \A j \in 1 .. i : k[j].intact, k[i].seq \in 1 .. f.last_seq
      PROVE  f.shard[k[i].seq] = k[i].write
  <2>1. i \in 1 .. Len(l) /\ \A j \in 1 .. i : l[j] = k[j]
    BY <1>1 DEF Starts
  <2>2. l[i] = k[i] /\ \A j \in 1 .. i : l[j].intact
    BY <1>1, <1>2, <2>1
  <2> QED BY <1>2, <2>1, <2>2 DEF Agrees
<1> QED BY <1>2 DEF Agrees

\* A log that a crash cut short rebuilds nothing new.
LEMMA CutRebuilds ==
    ASSUME NEW k \in Seq(Record), NEW l \in Seq(Record), Cut(k, l), NEW f, NEW s, NEW w
    PROVE  /\ RebuiltFrom(k, f, s, w) => RebuiltFrom(l, f, s, w)
           /\ Agrees(l, f) => Agrees(k, f)
<1>1. Len(k) \in Nat /\ Len(l) \in Nat
  BY LenProperties
<1>2. ASSUME NEW i \in 1 .. Len(k), \A j \in 1 .. i : k[j].intact
      PROVE  i \in 1 .. Len(l) /\ \A j \in 1 .. i : l[j] = k[j]
  BY <1>1, <1>2 DEF Cut
<1>3. ASSUME RebuiltFrom(k, f, s, w) PROVE RebuiltFrom(l, f, s, w)
  <2>1. CASE s <= f.last_seq
    BY <1>3, <2>1 DEF RebuiltFrom
  <2>2. CASE ~(s <= f.last_seq)
    <3>1. PICK i \in 1 .. Len(k) : Found(k, i, s, w)
      BY <1>3, <2>2 DEF RebuiltFrom
    <3>2. i \in 1 .. Len(l) /\ \A j \in 1 .. i : l[j] = k[j]
      BY <1>2, <3>1 DEF Found
    <3>3. Found(l, i, s, w)
      BY <1>1, <3>1, <3>2 DEF Found
    <3> QED BY <2>2, <3>2, <3>3 DEF RebuiltFrom
  <2> QED BY <2>1, <2>2
<1>4. ASSUME Agrees(l, f), NEW i \in 1 .. Len(k), \A j \in 1 .. i : k[j].intact,
             k[i].seq \in 1 .. f.last_seq
      PROVE  f.shard[k[i].seq] = k[i].write
  <2>1. i \in 1 .. Len(l) /\ \A j \in 1 .. i : l[j] = k[j]
    BY <1>2, <1>4
  <2>2. l[i] = k[i] /\ \A j \in 1 .. i : l[j].intact
    BY <1>1, <1>4, <2>1
  <2> QED BY <1>4, <2>1, <2>2 DEF Agrees
<1> QED BY <1>3, <1>4 DEF Agrees

\* While the shard serves, the files rebuild the index and nothing else.
LEMMA ServesWhatIsRebuilt ==
    ASSUME IInv, Serving, ~Appended, snapshot.last_seq <= last_seq,
           NEW s \in Nat, NEW w \in Write, RebuiltFrom(wal, snapshot, s, w)
    PROVE  s \in 1 .. last_seq /\ shard[s] = w
<1> USE DEF IInv
<1>1. /\ snapshot.last_seq \in Nat /\ Len(snapshot.shard) = snapshot.last_seq
      /\ last_seq \in Nat /\ WellFormed(wal) /\ wal \in Seq(Record)
  BY StateTypes DEF FilesInv
<1>2. /\ \A i \in 1 .. Len(wal) : wal[i].seq <= last_seq
      /\ \A t \in 1 .. last_seq : RebuiltFrom(wal, snapshot, t, shard[t])
  BY DEF ServingInv, MemoryInv, Serving
<1>3. s \in 1 .. last_seq
  <2>1. CASE s <= snapshot.last_seq
    BY <1>1, <2>1 DEF RebuiltFrom
  <2>2. CASE ~(s <= snapshot.last_seq)
    <3>1. PICK i \in 1 .. Len(wal) : Found(wal, i, s, w)
      BY <2>2 DEF RebuiltFrom
    <3>2. wal[i].seq = s
      BY <3>1 DEF Found
    <3> QED BY <1>1, <1>2, <2>2, <3>1, <3>2
  <2> QED BY <2>1, <2>2
<1>4. RebuiltFrom(wal, snapshot, s, shard[s])
  BY <1>2, <1>3
<1> QED BY <1>1, <1>3, <1>4, RebuiltOnce

\* The snapshot that is about to get its name extends the one that has it.
LEMMA RenameExtends ==
    ASSUME IInv, Rename
    PROVE  /\ snapshot' = tmp /\ wal' = wal /\ walOnDisk' = walOnDisk
           /\ snapshotOnDisk' = snapshotOnDisk /\ Serving /\ ~Appended
           /\ snapshot.last_seq \in Nat /\ last_seq \in Nat /\ tmp.last_seq \in Nat
           /\ Len(tmp.shard) = tmp.last_seq
           /\ snapshot.last_seq <= last_seq /\ last_seq <= tmp.last_seq
           /\ \A s \in 1 .. last_seq : tmp.shard[s] = shard[s]
           /\ \A s \in 1 .. snapshot.last_seq : snapshot.shard[s] = shard[s]
<1> USE DEF IInv
<1>1. /\ snapshot' = tmp /\ wal' = wal /\ walOnDisk' = walOnDisk
      /\ snapshotOnDisk' = snapshotOnDisk /\ pc = "rename"
  BY DEF Rename, Step, logs, directory
<1>2. Serving /\ ~Appended /\ Continues(tmp) /\ snapshot.last_seq <= last_seq
  BY <1>1 DEF Serving, Appended, BaseInv, SavingInv, Saving, MemoryInv, Published
<1>3. /\ snapshot.last_seq \in Nat /\ last_seq \in Nat /\ tmp.last_seq \in Nat
      /\ Len(tmp.shard) = tmp.last_seq
  BY StateTypes
<1>4. \A s \in 1 .. last_seq : RebuiltFrom(wal, snapshot, s, shard[s])
  BY <1>1 DEF MemoryInv
<1>5. \A s \in 1 .. snapshot.last_seq : snapshot.shard[s] = shard[s]
  <2>1. ASSUME NEW s \in 1 .. snapshot.last_seq PROVE snapshot.shard[s] = shard[s]
    <3>1. s \in 1 .. last_seq /\ s <= snapshot.last_seq
      BY <1>2, <1>3
    <3> QED BY <1>4, <3>1 DEF RebuiltFrom
  <2> QED BY <2>1
<1> QED BY <1>1, <1>2, <1>3, <1>5 DEF Continues

\* Nothing but a power failure takes away what a restart rebuilds.
LEMMA RebuiltKept ==
    ASSUME IInv, [Next]_vars, ~PowerFailure, NEW s \in Nat, NEW w \in Write,
           RebuiltFrom(wal, snapshot, s, w)
    PROVE  RebuiltFrom(wal', snapshot', s, w)
<1> USE DEF IInv
<1>1. wal \in Seq(Record) /\ Careful
  BY StateTypes
<1>2. CASE ~Rewrites
  BY <1>1, <1>2, QuietStep
<1>3. CASE Open
  BY <1>1, <1>3, OpenStep, RebuiltFromReadRecords
<1>4. ASSUME NEW v \in Write, AppendRecord(v) \/ CrashInAppend(v)
      PROVE  RebuiltFrom(wal', snapshot', s, w)
  <2>1. wal' \in Seq(Record) /\ Starts(wal, wal') /\ snapshot' = snapshot
    BY <1>4, AppendStep
  <2> QED BY <1>1, <2>1, RebuiltExtends
<1>5. CASE Reply
  BY <1>5 DEF Reply, files, logs
<1>6. CASE Rename
  <2>1. s \in 1 .. last_seq /\ shard[s] = w
    BY <1>6, RenameExtends, ServesWhatIsRebuilt
  <2>2. s <= tmp.last_seq /\ s \in 1 .. Len(tmp.shard) /\ tmp.shard[s] = w
    BY <1>6, <2>1, RenameExtends
  <2>3. RebuiltFrom(wal, tmp, s, w)
    BY <2>2 DEF RebuiltFrom
  <2> QED BY <1>6, <2>3, RenameExtends
<1>7. CASE Truncate
  <2>1. snapshot' = snapshot /\ wal' = <<>> /\ last_seq <= snapshot.last_seq
        /\ Serving /\ ~Appended
    BY <1>7 DEF Truncate, Step, Serving, Appended, BaseInv, SavingInv, Published, Continues
  <2>2. s <= snapshot.last_seq
    <3> SUFFICES ASSUME ~(s <= snapshot.last_seq) PROVE FALSE
      OBVIOUS
    <3>1. PICK i \in 1 .. Len(wal) : Found(wal, i, s, w)
      BY DEF RebuiltFrom
    <3>2. wal[i].seq = s /\ wal[i].seq <= last_seq
      BY <2>1, <3>1 DEF Found, ServingInv
    <3>3. last_seq \in Nat /\ snapshot.last_seq \in Nat
      BY StateTypes
    <3> QED BY <2>1, <3>2, <3>3
  <2>3. RebuiltFrom(<<>>, snapshot, s, w)
    BY <2>2 DEF RebuiltFrom
  <2> QED BY <2>1, <2>3
<1> QED
  BY <1>2, <1>3, <1>4, <1>5, <1>6, <1>7 DEF Rewrites

\* What a power failure leaves: a part of what there was.
LEMMA PowerFailureLeaves ==
    ASSUME LInv, PowerFailure
    PROVE  /\ \A s \in Nat : \A w \in Write :
                 RebuiltFrom(wal', snapshot', s, w) => RebuiltFrom(wal, snapshot, s, w)
           /\ walOnDisk' = wal' /\ snapshotOnDisk' = snapshot'
           /\ Agrees(wal', snapshot')
<1> USE DEF LInv, IInv
<1> DEFINE l == wal'
<1>1. /\ wal \in Seq(Record) /\ walOnDisk \in Seq(Record)
      /\ snapshot.synced /\ snapshotOnDisk.synced
      /\ snapshot.last_seq \in Nat /\ Len(snapshot.shard) = snapshot.last_seq
      /\ snapshotOnDisk.last_seq \in Nat /\ Len(snapshotOnDisk.shard) = snapshotOnDisk.last_seq
  BY StateTypes DEF BaseInv, Sized, SnapshotFile
<1>2. "power" \in Crashes /\ DirectoryOrdered
  BY DEF PowerFailure, Careful
<1>3. /\ \A s \in Nat : \A w \in Write :
            RebuiltFrom(walOnDisk, snapshot, s, w) => RebuiltFrom(wal, snapshot, s, w)
      /\ Agrees(wal, snapshot) /\ Agrees(walOnDisk, snapshot)
      /\ snapshotOnDisk.last_seq <= snapshot.last_seq
      /\ \A s \in 1 .. snapshotOnDisk.last_seq : snapshot.shard[s] = snapshotOnDisk.shard[s]
      /\ ~logLinked => walOnDisk = <<>>
  BY <1>2 DEF OlderInv, DiskInv
<1>4. l \in LogsAfterPowerFailure \/ l = walOnDisk
  BY <1>3 DEF PowerFailure
<1>5. /\ l \in Seq(Record)
      /\ l = walOnDisk \/ Cut(l, wal)
  BY <1>1, <1>4, LogOutcomes
<1>6. \/ snapshot' = snapshot
      \/ snapshot' = snapshotOnDisk /\ LostRenameAllows(l)
  BY <1>1 DEF PowerFailure, AfterPowerFailure
<1>7. walOnDisk' = l /\ snapshotOnDisk' = snapshot'
  BY DEF PowerFailure
<1> HIDE DEF l
<1>8. \A s \in Nat : \A w \in Write :
         RebuiltFrom(l, snapshot, s, w) => RebuiltFrom(wal, snapshot, s, w)
  BY <1>1, <1>3, <1>5, CutRebuilds
<1>9. Agrees(l, snapshot)
  BY <1>1, <1>3, <1>5, CutRebuilds
<1>10. CASE snapshot' = snapshot
  BY <1>7, <1>8, <1>9, <1>10 DEF l
<1>11. CASE snapshot' = snapshotOnDisk /\ LostRenameAllows(l)
  <2>1. \A i \in 1 .. Len(l) : l[i].seq <= snapshot.last_seq
    BY <1>2, <1>11 DEF LostRenameAllows
  <2>2. ASSUME NEW s \in Nat, NEW w \in Write, RebuiltFrom(l, snapshotOnDisk, s, w)
        PROVE  RebuiltFrom(wal, snapshot, s, w)
    <3>1. CASE s <= snapshotOnDisk.last_seq
      <4>1. s \in 1 .. snapshotOnDisk.last_seq /\ snapshotOnDisk.shard[s] = w
        BY <1>1, <2>2, <3>1 DEF RebuiltFrom
      <4>2. s <= snapshot.last_seq /\ s \in 1 .. Len(snapshot.shard) /\ snapshot.shard[s] = w
        BY <1>1, <1>3, <4>1
      <4> QED BY <4>2 DEF RebuiltFrom
    <3>2. CASE ~(s <= snapshotOnDisk.last_seq)
      <4>1. PICK i \in 1 .. Len(l) : Found(l, i, s, w)
        BY <2>2, <3>2 DEF RebuiltFrom
      <4>2. l[i].seq = s /\ l[i].write = w /\ \A j \in 1 .. i : l[j].intact
        BY <4>1 DEF Found
      <4>3. s \in 1 .. snapshot.last_seq
        BY <1>1, <2>1, <3>2, <4>2
      <4>4. snapshot.shard[s] = w
        BY <1>9, <4>2, <4>3 DEF Agrees
      <4> QED BY <1>1, <4>3, <4>4 DEF RebuiltFrom
    <3> QED BY <3>1, <3>2
  <2>3. Agrees(l, snapshotOnDisk)
    <3>1. ASSUME NEW i \in 1 .. Len(l), \A j \in 1 .. i : l[j].intact,
                 l[i].seq \in 1 .. snapshotOnDisk.last_seq
          PROVE  snapshotOnDisk.shard[l[i].seq] = l[i].write
      <4>1. l[i].seq \in 1 .. snapshot.last_seq
        BY <1>1, <1>3, <3>1
      <4>2. snapshot.shard[l[i].seq] = l[i].write
        BY <1>9, <3>1, <4>1 DEF Agrees
      <4> QED BY <1>3, <3>1, <4>2
    <3> QED BY <3>1 DEF Agrees
  <2> QED BY <1>7, <1>11, <2>2, <2>3 DEF l
<1> QED BY <1>6, <1>10, <1>11

\* What an fsync or a rename can change of the disk.
LEMMA DiskChanges ==
    ASSUME LInv, [Next]_vars, ~PowerFailure, "power" \in Crashes
    PROVE  /\ walOnDisk' = walOnDisk \/ (walOnDisk' = wal /\ wal' = wal /\ snapshot' = snapshot)
           /\ \/ snapshotOnDisk' = snapshotOnDisk
              \/ snapshotOnDisk' = snapshot /\ snapshot' = snapshot
           /\ Rename \/ snapshot' = snapshot
<1>1. Careful
  BY DEF LInv, IInv
<1>2. ~InstallFails /\ \A w \in Write : ~AppendFails(w)
  BY <1>1, CarefulFailing
<1>3. CASE SyncCut \/ SyncRecord \/ SyncLog
  <2>1. FsyncLog
    BY <1>3 DEF SyncCut, SyncRecord, SyncLog
  <2> QED BY <1>1, <2>1, FsyncSynchronizes
<1>4. CASE SyncTmp
  BY <1>4 DEF SyncTmp, DirectoryAfterFsync, DirectorySynced, directory, logs
<1>5. CASE SyncDir
  BY <1>5 DEF SyncDir, DirectorySynced, logs
<1>6. CASE Rename
  BY <1>6 DEF Rename, logs, directory
<1>7. CASE ~(SyncCut \/ SyncRecord \/ SyncLog \/ SyncTmp \/ SyncDir \/ Rename)
  <2>1. walOnDisk' = walOnDisk /\ snapshotOnDisk' = snapshotOnDisk /\ snapshot' = snapshot
    BY <1>2, <1>7
    DEF Next, Opening, Adding, Checkpointing, Installing, Failing, Crashing,
        Open, ReplaySkip, ReplayApply, ReplayRefused, ReplayDone, PassOver, ReplayInsert,
        AppendRecord, WriteRecord, Apply, ApplyThen, ApplyFails, Reply, FetchSnapshot, SaveTmp,
        WriteTmp, Truncate, FinishCheckpoint, EndCheckpoint, InstallSnapshot, FinishInstall,
        EndInstall, SaveFails, ResetFails, CallFails, Crash, CrashInAppend, ForgetMemory,
        vars, files, logs, directory, memory
  <2> QED BY <2>1
<1> QED BY <1>3, <1>4, <1>5, <1>6, <1>7

\* A log agrees with the snapshot that gets its name.
LEMMA AgreesRenamed ==
    ASSUME IInv, Rename, NEW l \in Seq(Record), WellFormed(l), Agrees(l, snapshot),
           \A s \in Nat : \A w \in Write :
              RebuiltFrom(l, snapshot, s, w) => RebuiltFrom(wal, snapshot, s, w)
    PROVE  Agrees(l, tmp)
<1>1. /\ snapshot.last_seq \in Nat /\ last_seq \in Nat /\ tmp.last_seq \in Nat
      /\ snapshot.last_seq <= last_seq /\ last_seq <= tmp.last_seq
      /\ \A s \in 1 .. last_seq : tmp.shard[s] = shard[s]
      /\ \A s \in 1 .. snapshot.last_seq : snapshot.shard[s] = shard[s]
      /\ Serving /\ ~Appended
  BY RenameExtends
<1>2. ASSUME NEW i \in 1 .. Len(l), \A j \in 1 .. i : l[j].intact, l[i].seq \in 1 .. tmp.last_seq
      PROVE  tmp.shard[l[i].seq] = l[i].write
  <2>1. l[i].seq \in Nat /\ l[i].write \in Write /\ \A j \in 1 .. Len(l) : l[j].seq \in Nat
    BY RecordSeq
  <2>2. CASE l[i].seq <= snapshot.last_seq
    <3>1. l[i].seq \in 1 .. snapshot.last_seq /\ l[i].seq \in 1 .. last_seq
      BY <1>1, <1>2, <2>1, <2>2
    <3>2. snapshot.shard[l[i].seq] = l[i].write
      BY <1>2, <3>1 DEF Agrees
    <3> QED BY <1>1, <3>1, <3>2
  <2>3. CASE ~(l[i].seq <= snapshot.last_seq)
    <3>1. \A j \in 1 .. i - 1 : l[j].seq # l[i].seq
      BY <2>1, LenProperties DEF WellFormed
    <3>2. Found(l, i, l[i].seq, l[i].write)
      BY <1>2, <3>1 DEF Found
    <3>3. RebuiltFrom(wal, snapshot, l[i].seq, l[i].write)
      BY <2>1, <2>3, <3>2 DEF RebuiltFrom
    <3>4. l[i].seq \in 1 .. last_seq /\ shard[l[i].seq] = l[i].write
      BY <1>1, <2>1, <3>3, ServesWhatIsRebuilt
    <3> QED BY <1>1, <3>4
  <2> QED BY <2>2, <2>3
<1> QED BY <1>2 DEF Agrees

\* Nothing but a power failure makes a record differ from the snapshot that
\* covers it: what is appended is beyond every snapshot.
LEMMA AgreesKept ==
    ASSUME LInv, Agrees(wal, snapshot), [Next]_vars, ~PowerFailure
    PROVE  Agrees(wal', snapshot')
<1> USE DEF LInv
<1>1. wal \in Seq(Record) /\ WellFormed(wal) /\ snapshot.last_seq \in Nat
  BY StateTypes DEF IInv, FilesInv
<1>2. CASE Rename
  <2>1. snapshot' = tmp /\ wal' = wal
    BY <1>2, RenameExtends
  <2> QED BY <1>1, <1>2, <2>1, AgreesRenamed
<1>3. CASE Open
  <2>1. wal' \in Seq(Record) /\ Cut(wal', wal) /\ snapshot' = snapshot
    BY <1>3, OpenStep
  <2> QED BY <1>1, <2>1, CutRebuilds
<1>4. ASSUME NEW v \in Write, AppendRecord(v) \/ CrashInAppend(v)
      PROVE  Agrees(wal', snapshot')
  <2>1. /\ wal' \in Seq(Record) /\ Starts(wal, wal') /\ Len(wal') = Len(wal) + 1
        /\ pc = "idle" /\ wal'[Len(wal')].seq = last_seq + 1 /\ snapshot' = snapshot
    BY <1>4, AppendStep
  <2>2. snapshot.last_seq <= last_seq /\ last_seq \in Nat /\ Len(wal) \in Nat
    BY <1>1, <2>1, StateTypes, LenProperties DEF IInv, MemoryInv, Published
  <2>3. ASSUME NEW i \in 1 .. Len(wal'), \A j \in 1 .. i : wal'[j].intact,
               wal'[i].seq \in 1 .. snapshot.last_seq
        PROVE  snapshot.shard[wal'[i].seq] = wal'[i].write
    <3>1. i # Len(wal')
      BY <1>1, <2>1, <2>2, <2>3
    <3>2. i \in 1 .. Len(wal) /\ \A j \in 1 .. i : wal'[j] = wal[j]
      BY <2>1, <2>2, <3>1 DEF Starts
    <3>3. wal'[i] = wal[i] /\ \A j \in 1 .. i : wal[j].intact
      BY <2>2, <2>3, <3>2
    <3> QED BY <2>3, <3>2, <3>3 DEF Agrees
  <2> QED BY <2>1, <2>3 DEF Agrees
<1>5. CASE Truncate
  <2>1. wal' = <<>> /\ Len(<<>>) = 0
    BY <1>5, EmptySeq DEF Truncate
  <2>2. \A i \in 1 .. Len(wal') : FALSE
    BY <2>1
  <2> QED BY <2>2, Zenon DEF Agrees
<1>6. CASE Reply
  BY <1>6 DEF Reply, files, logs
<1>7. CASE ~Rewrites
  BY <1>7, QuietStep DEF IInv
<1> QED BY <1>2, <1>3, <1>4, <1>5, <1>6, <1>7 DEF Rewrites

LEMMA OlderStep == LInv /\ [Next]_vars => OlderInv'
<1> SUFFICES ASSUME LInv, [Next]_vars, "power" \in Crashes
             PROVE  /\ \A s \in Nat : \A w \in Write :
                          RebuiltFrom(walOnDisk', snapshot', s, w)
                              => RebuiltFrom(wal', snapshot', s, w)
                    /\ Agrees(wal', snapshot') /\ Agrees(walOnDisk', snapshot')
                    /\ snapshotOnDisk'.last_seq <= snapshot'.last_seq
                    /\ \A s \in 1 .. snapshotOnDisk'.last_seq :
                          snapshot'.shard[s] = snapshotOnDisk'.shard[s]
  BY DEF OlderInv
<1> USE DEF LInv
<1>1. /\ \A s \in Nat : \A w \in Write :
            RebuiltFrom(walOnDisk, snapshot, s, w) => RebuiltFrom(wal, snapshot, s, w)
      /\ Agrees(wal, snapshot) /\ Agrees(walOnDisk, snapshot)
      /\ snapshotOnDisk.last_seq <= snapshot.last_seq
      /\ \A s \in 1 .. snapshotOnDisk.last_seq : snapshot.shard[s] = snapshotOnDisk.shard[s]
  BY DEF OlderInv
<1>2. /\ wal \in Seq(Record) /\ walOnDisk \in Seq(Record) /\ WellFormed(wal) /\ WellFormed(walOnDisk)
      /\ snapshot.last_seq \in Nat /\ snapshot \in SnapshotFile
  BY StateTypes DEF IInv, FilesInv, DiskInv
<1>3. CASE PowerFailure
  <2>1. walOnDisk' = wal' /\ snapshotOnDisk' = snapshot' /\ Agrees(wal', snapshot')
    BY <1>3, PowerFailureLeaves
  <2>2. snapshot'.last_seq \in Nat
    BY TypeStep DEF IInv, BaseInv, TypeOK, SnapshotFile
  <2> QED BY <2>1, <2>2
<1>4. CASE ~PowerFailure
  <2>1. /\ walOnDisk' = walOnDisk \/ (walOnDisk' = wal /\ wal' = wal /\ snapshot' = snapshot)
        /\ \/ snapshotOnDisk' = snapshotOnDisk
           \/ snapshotOnDisk' = snapshot /\ snapshot' = snapshot
        /\ Rename \/ snapshot' = snapshot
    BY <1>4, DiskChanges
  <2>2. \A s \in Nat : \A w \in Write :
           RebuiltFrom(wal, snapshot, s, w) => RebuiltFrom(wal', snapshot', s, w)
    BY <1>4, RebuiltKept
  <2>3. CASE Rename
    <3>1. /\ snapshot' = tmp /\ wal' = wal /\ walOnDisk' = walOnDisk
          /\ snapshotOnDisk' = snapshotOnDisk
          /\ snapshot.last_seq \in Nat /\ last_seq \in Nat /\ tmp.last_seq \in Nat
          /\ Len(tmp.shard) = tmp.last_seq
          /\ snapshot.last_seq <= last_seq /\ last_seq <= tmp.last_seq
          /\ \A s \in 1 .. last_seq : tmp.shard[s] = shard[s]
          /\ \A s \in 1 .. snapshot.last_seq : snapshot.shard[s] = shard[s]
      BY <2>3, RenameExtends
    <3>2. snapshotOnDisk = snapshot
      BY <2>3 DEF Rename, Step, IInv, DiskInv
    <3>3. Agrees(wal, tmp) /\ Agrees(walOnDisk, tmp)
      BY <1>1, <1>2, <2>3, AgreesRenamed
    <3>4. ASSUME NEW s \in Nat, NEW w \in Write, RebuiltFrom(walOnDisk, tmp, s, w)
          PROVE  RebuiltFrom(wal, tmp, s, w)
      <4>1. CASE s <= tmp.last_seq
        BY <3>4, <4>1 DEF RebuiltFrom
      <4>2. CASE ~(s <= tmp.last_seq)
        <5>1. \E i \in 1 .. Len(walOnDisk) : Found(walOnDisk, i, s, w)
          BY <3>4, <4>2 DEF RebuiltFrom
        <5>2. ~(s <= snapshot.last_seq)
          BY <3>1, <4>2
        <5>3. RebuiltFrom(walOnDisk, snapshot, s, w)
          BY <5>1, <5>2 DEF RebuiltFrom
        <5> QED BY <1>1, <2>2, <3>1, <5>3
      <4> QED BY <4>1, <4>2
    <3>5. /\ snapshot.last_seq <= tmp.last_seq
          /\ \A s \in 1 .. snapshot.last_seq : tmp.shard[s] = snapshot.shard[s]
      BY <3>1
    <3> QED BY <3>1, <3>2, <3>3, <3>4, <3>5
  <2>4. CASE snapshot' = snapshot
    <3>1. \A s \in Nat : \A w \in Write :
             RebuiltFrom(walOnDisk', snapshot', s, w) => RebuiltFrom(wal', snapshot', s, w)
      BY <1>1, <2>1, <2>2, <2>4
    <3>2. Agrees(walOnDisk', snapshot')
      BY <1>1, <2>1, <2>4
    <3>3. /\ snapshotOnDisk'.last_seq <= snapshot'.last_seq
          /\ \A s \in 1 .. snapshotOnDisk'.last_seq :
                snapshot'.shard[s] = snapshotOnDisk'.shard[s]
      BY <1>1, <1>2, <2>1, <2>4
    <3>4. Agrees(wal', snapshot')
      BY <1>1, <1>4, AgreesKept
    <3> QED BY <3>1, <3>2, <3>3, <3>4
  <2> QED BY <2>1, <2>3, <2>4
<1> QED BY <1>3, <1>4

-----------------------------------------------------------------------------
(***************************************************************************)
(* The refinement: with Contents for its log, the shard implements         *)
(* DurableLog.                                                             *)
(***************************************************************************)
LEMMA LogInit == Careful /\ Init => LInv /\ DurableLog!Init
<1> SUFFICES ASSUME Careful, Init PROVE LInv /\ DurableLog!Init
  OBVIOUS
<1>1. IInv /\ wal = <<>> /\ walOnDisk = <<>> /\ snapshot = NoFile /\ snapshotOnDisk = NoFile
      /\ acked = {}
  BY InductiveInit DEF Init
<1>2. NoFile.last_seq = 0 /\ NoFile.shard = <<>> /\ Len(<<>>) = 0
  BY EmptySeq DEF NoFile
<1>3. \A i \in 1 .. Len(<<>>) : FALSE
  BY <1>2
<1>4. Agrees(<<>>, NoFile)
  BY <1>3, Zenon DEF Agrees
<1>5. OlderInv
  BY <1>1, <1>2, <1>4 DEF OlderInv
<1>6. Contents = <<>>
  <2>1. Holds(<<>>, NoFile, Contents)
    BY <1>1, ContentsHold DEF IInv
  <2>2. Contents \in Seq(Write) /\ Len(Contents) \in Nat
        /\ \A s \in 1 .. Len(Contents) : RebuiltFrom(<<>>, NoFile, s, Contents[s])
    BY <2>1, LenProperties DEF Holds
  <2>3. \A s \in 1 .. Len(Contents) : FALSE
    <3>1. ASSUME NEW s \in 1 .. Len(Contents) PROVE FALSE
      <4>1. ~(s <= NoFile.last_seq)
        BY <1>2, <2>2
      <4>2. \E i \in 1 .. Len(<<>>) : Found(<<>>, i, s, Contents[s])
        BY <2>2, <4>1 DEF RebuiltFrom
      <4> QED BY <1>3, <4>2
    <3> QED BY <3>1
  <2>4. Len(Contents) = 0
    BY <2>2, <2>3
  <2> QED BY <2>2, <2>4, EmptySeq
<1> QED BY <1>1, <1>5, <1>6 DEF LInv, DurableLog!Init

LEMMA LInvStep == LInv /\ [Next]_vars => LInv'
BY InductiveStep, OlderStep DEF LInv

\* What a restart would rebuild only gets longer, unless the machine stops.
LEMMA ContentsGrow ==
    ASSUME LInv, LInv', [Next]_vars, ~PowerFailure
    PROVE  /\ Contents \in Seq(Write) /\ Contents' \in Seq(Write)
           /\ Len(Contents) <= Len(Contents')
           /\ \A s \in 1 .. Len(Contents) : Contents'[s] = Contents[s]
<1>1. Holds(wal, snapshot, Contents) /\ Holds(wal', snapshot', Contents')
  <2>1. Holds(wal, snapshot, Contents)
    BY ContentsHold DEF LInv, IInv
  <2>2. BaseInv' /\ FilesInv' => Holds(wal, snapshot, Contents)'
    BY ContentsHold, PTL
  <2>3. BaseInv' /\ FilesInv'
    BY DEF LInv, IInv
  <2>4. Holds(wal, snapshot, Contents)'
    BY <2>2, <2>3
  <2> QED BY <2>1, <2>4 DEF Holds, RebuiltFrom, Found
<1>2. \A s \in Nat : \A w \in Write :
         RebuiltFrom(wal, snapshot, s, w) => RebuiltFrom(wal', snapshot', s, w)
  BY RebuiltKept DEF LInv
<1> QED BY <1>1, <1>2, HoldsMore DEF Holds

\* A power failure leaves a prefix of it, also where the log is not fsynced.
LEMMA PowerFailureCuts ==
    ASSUME LInv, LInv', PowerFailure
    PROVE  /\ Holds(wal', snapshot', Contents')
           /\ Contents \in Seq(Write) /\ Contents' \in Seq(Write)
           /\ Len(Contents') <= Len(Contents)
           /\ \A s \in 1 .. Len(Contents') : Contents[s] = Contents'[s]
<1>1. Holds(wal, snapshot, Contents) /\ Holds(wal', snapshot', Contents')
  <2>1. Holds(wal, snapshot, Contents)
    BY ContentsHold DEF LInv, IInv
  <2>2. BaseInv' /\ FilesInv' => Holds(wal, snapshot, Contents)'
    BY ContentsHold, PTL
  <2>3. BaseInv' /\ FilesInv'
    BY DEF LInv, IInv
  <2>4. Holds(wal, snapshot, Contents)'
    BY <2>2, <2>3
  <2> QED BY <2>1, <2>4 DEF Holds, RebuiltFrom, Found
<1>2. \A s \in Nat : \A w \in Write :
         RebuiltFrom(wal', snapshot', s, w) => RebuiltFrom(wal, snapshot, s, w)
  BY PowerFailureLeaves
<1>3. /\ Len(Contents') <= Len(Contents)
      /\ \A s \in 1 .. Len(Contents') : Contents[s] = Contents'[s]
  BY <1>1, <1>2, HoldsMore
<1> QED BY <1>1, <1>3 DEF Holds

\* Where the log is fsynced, it holds all that was acknowledged.
LEMMA PowerFailureLoses ==
    ASSUME LInv, LInv', Synced, PowerFailure
    PROVE  DurableLog!Lose
<1>1. /\ Holds(wal', snapshot', Contents')
      /\ Contents \in Seq(Write) /\ Contents' \in Seq(Write)
      /\ Len(Contents') <= Len(Contents)
      /\ \A s \in 1 .. Len(Contents') : Contents[s] = Contents'[s]
      /\ Len(Contents) \in Nat /\ Len(Contents') \in Nat
  BY PowerFailureCuts, LenProperties
<1>2. Contents' = SubSeq(Contents, 1, Len(Contents'))
  <2>1. \A i \in 1 .. Len(Contents') : Contents[i] \in Write
    BY <1>1, ElementOfSeq
  <2>2. /\ SubSeq(Contents, 1, Len(Contents')) \in Seq(Write)
        /\ Len(SubSeq(Contents, 1, Len(Contents'))) = Len(Contents')
        /\ \A i \in 1 .. Len(Contents') : SubSeq(Contents, 1, Len(Contents'))[i] = Contents[i]
    BY <1>1, <2>1, SubSeqProperties
  <2> QED BY <1>1, <2>2, SeqEqual
<1>3. acked' = acked /\ \A a \in acked : a.seq \in Nat /\ a.write \in Write
  BY DEF PowerFailure, ForgetMemory, LInv, IInv, BaseInv, TypeOK
<1>4. \A a \in acked : a.seq <= Len(Contents')
  <2>1. ASSUME NEW a \in acked PROVE a.seq <= Len(Contents')
    <3>1. RebuiltFrom(wal', snapshot', a.seq, a.write)
      BY PowerFailureFiles DEF LInv, Promised
    <3> QED BY <1>1, <1>3, <3>1 DEF Holds
  <2> QED BY <2>1
<1>5. Len(Contents') \in 0 .. Len(Contents)
  BY <1>1
<1> QED BY <1>2, <1>3, <1>4, <1>5 DEF DurableLog!Lose

\* Only Reply acknowledges anything: the last batch of the index.
LEMMA ReplyAcknowledges ==
    ASSUME LInv, LInv', Reply
    PROVE  DurableLog!Acknowledge
<1> USE DEF LInv, IInv
<1>1. /\ wal' = wal /\ snapshot' = snapshot /\ pc = "reply"
      /\ acked' = acked \cup {[seq |-> last_seq, write |-> shard[last_seq]]}
  BY DEF Reply, files, logs
<1>2. Contents' = Contents
  BY <1>1 DEF Contents, LastNumber, Numbers, IntactLen, Rebuilt, RecordAt
<1>3. last_seq \in 1 .. last_seq /\ last_seq \in Nat /\ shard[last_seq] \in Write
  BY <1>1, StateTypes, ElementOfSeq DEF BaseInv, Sized
<1>4. RebuiltFrom(wal, snapshot, last_seq, shard[last_seq])
  BY <1>1, <1>3 DEF MemoryInv
<1>5. Holds(wal, snapshot, Contents)
  BY ContentsHold
<1>6. last_seq \in 1 .. Len(Contents) /\ Contents[last_seq] = shard[last_seq]
  BY <1>3, <1>4, <1>5 DEF Holds
<1> QED BY <1>1, <1>2, <1>6 DEF DurableLog!Acknowledge

LEMMA AckedUnchanged ==
    ASSUME [Next]_vars, ~Reply
    PROVE  acked' = acked
BY DEF Next, Opening, Adding, Checkpointing, Installing, Failing, Crashing,
    Open, SyncCut, SyncRecord, SyncLog, ReplaySkip, ReplayApply, ReplayRefused, ReplayDone,
    PassOver, ReplayInsert, AppendRecord, Apply, ApplyThen, ApplyFails, FetchSnapshot, SaveTmp,
    WriteTmp, SyncTmp, Rename, SyncDir, Truncate, FinishCheckpoint, EndCheckpoint,
    InstallSnapshot, FinishInstall, EndInstall, AppendFails, SaveFails, ResetFails,
    InstallFails, CallFails, Crash, CrashInAppend, PowerFailure, ForgetMemory, vars

LEMMA LogStep ==
    Synced /\ LInv /\ LInv' /\ [Next]_vars => [DurableLog!Next]_<<Contents, acked>>
<1> SUFFICES ASSUME Synced, LInv, LInv', [Next]_vars
             PROVE  DurableLog!Next \/ (Contents' = Contents /\ acked' = acked)
  OBVIOUS
<1>1. CASE PowerFailure
  BY <1>1, PowerFailureLoses DEF DurableLog!Next
<1>2. CASE Reply
  BY <1>2, ReplyAcknowledges DEF DurableLog!Next
<1>3. CASE ~PowerFailure /\ ~Reply
  <2>1. /\ Contents \in Seq(Write) /\ Contents' \in Seq(Write)
        /\ Len(Contents) <= Len(Contents')
        /\ \A s \in 1 .. Len(Contents) : Contents'[s] = Contents[s]
    BY <1>3, ContentsGrow
  <2>2. Len(Contents) \in Nat /\ Len(Contents') \in Nat /\ acked' = acked
    BY <1>3, <2>1, LenProperties, AckedUnchanged
  <2>3. CASE Len(Contents') = Len(Contents)
    <3>1. Contents' = Contents
      BY <2>1, <2>3, SeqEqual
    <3> QED BY <2>2, <3>1
  <2>4. CASE Len(Contents') # Len(Contents)
    <3>1. SubSeq(Contents', 1, Len(Contents)) = Contents
      <4>1. Extends(Contents', Contents)
        BY <2>1, ExtendsByPrefix
      <4> QED BY <4>1 DEF Extends
    <3>2. Len(Contents') > Len(Contents)
      BY <2>1, <2>2, <2>4
    <3> QED BY <2>1, <2>2, <3>1, <3>2 DEF DurableLog!Next, DurableLog!Grow
  <2> QED BY <2>3, <2>4
<1> QED BY <1>1, <1>2, <1>3

\* Seen from what its files are worth after a crash, the shard is a durable log:
\* writes and catch-up lengthen it, an answer acknowledges a write that is in it,
\* and a crash, at any point of any call, loses only unacknowledged writes from
\* its end.  Where the machine may stop, that takes a log that is fsynced.
THEOREM ShardIsADurableLog == Careful /\ Synced /\ Spec => ImplementsDurableLog
<1>1. LInv /\ [Next]_vars => LInv'
  BY LInvStep
<1>2. Synced /\ LInv /\ LInv' /\ [Next]_vars => [DurableLog!Next]_<<Contents, acked>>
  BY LogStep
<1>3. Synced => []Synced
  <2>1. Synced => Synced'
    BY DEF Synced
  <2> QED BY <2>1, PTL
<1> QED
  BY <1>1, <1>2, <1>3, LogInit, PTL DEF Spec, ImplementsDurableLog, DurableLog!Spec

\* And only a power failure loses anything: no checkpoint, install, truncation,
\* failed save or dying process takes a write away from what a restart rebuilds,
\* with the log fsynced or not, and also from files that a power failure has
\* set back before.
THEOREM OnlyPowerLoses == Careful /\ Spec => OnlyPowerFailuresLose
<1>1. LInv /\ [Next]_vars => LInv'
  BY LInvStep
<1>2. LInv /\ LInv' /\ [Next]_vars => [PowerFailure \/ Extends(Contents', Contents)]_vars
  BY ContentsGrow, ExtendsByPrefix
<1> QED
  BY <1>1, <1>2, LogInit, PTL DEF Spec, OnlyPowerFailuresLose

\* What the power failure itself loses are the last writes, however many were
\* not on the disk: with --fsync off too it leaves files that open, worth a
\* prefix of what they were worth before.
THEOREM PowerTakesOnlyTheEnd == Careful /\ Spec => PowerFailureTakesTheEnd
<1>1. LInv /\ [Next]_vars => LInv'
  BY LInvStep
<1>2. LInv => Opens
  <2> SUFFICES ASSUME LInv PROVE Opens
    OBVIOUS
  <2>1. snapshot # EmptyFile
    BY DEF LInv, IInv, BaseInv, Sized, EmptyFile
  <2>2. \A s \in 1 .. LastNumber : \E w \in Write : Rebuilt(s, w)
    BY NothingMissing DEF LInv, IInv
  <2> QED BY <2>1, <2>2 DEF Opens
<1>3. LInv' => Opens'
  BY <1>2, PTL
<1>4. LInv /\ LInv' /\ PowerFailure => Extends(Contents, Contents')
  BY PowerFailureCuts, ExtendsByPrefix
<1>5. LInv /\ LInv' /\ [Next]_vars
        => [PowerFailure => Opens' /\ Extends(Contents, Contents')]_vars
  BY <1>3, <1>4
<1> QED
  BY <1>1, <1>5, LogInit, PTL DEF Spec, PowerFailureTakesTheEnd

-----------------------------------------------------------------------------
(***************************************************************************)
(* What FetchLog serves.  Two facts that IInv does not have, because no    *)
(* restart depends on them: a record that the snapshot covers is the batch *)
(* the snapshot has under its number, and the log has every number between *)
(* snapshot_seq and last_seq.                                              *)
(***************************************************************************)
LogHeld ==
    pc \notin {"fsync_log", "finish"} =>
        \A s \in snapshot_seq + 1 .. last_seq : \E i \in 1 .. Len(wal) : wal[i].seq = s

ServedInv == LInv /\ "reset" \notin Failures /\ Agrees(wal, snapshot) /\ LogHeld

LEMMA AgreesStep ==
    ASSUME LInv, Agrees(wal, snapshot), [Next]_vars
    PROVE  Agrees(wal', snapshot')
<1>1. CASE PowerFailure
  BY <1>1, PowerFailureLeaves
<1>2. CASE ~PowerFailure
  BY <1>2, AgreesKept
<1> QED BY <1>1, <1>2

LEMMA LogHeldStep ==
    ASSUME IInv, "reset" \notin Failures, LogHeld, [Next]_vars
    PROVE  LogHeld'
<1> USE DEF LogHeld
<1>1. /\ wal \in Seq(Record) /\ Len(wal) \in Nat /\ last_seq \in Nat /\ snapshot_seq \in Nat
      /\ \A i \in 1 .. Len(wal) : wal[i].seq \in Nat
  BY StateTypes, RecordSeq DEF IInv, BaseInv, TypeOK
<1>2. ~InstallFails /\ \A w \in Write : ~AppendFails(w)
  BY CarefulFailing DEF IInv
<1>3. CASE Open
  BY <1>1, <1>3, StateTypes DEF Open, LoadSnapshot, IInv
<1>4. CASE ReplayApply
  <2>1. /\ wal' = wal /\ last_seq' = last_seq + 1 /\ snapshot_seq' = snapshot_seq
        /\ pc \notin {"fsync_log", "finish"}
        /\ replayed + 1 \in 1 .. Len(wal) /\ wal[replayed + 1].seq = last_seq + 1
    BY <1>1, <1>4, StateTypes
    DEF ReplayApply, ReplayInsert, Replaying, NextRecord, Insert, files, logs, IInv
  <2>2. ASSUME NEW s \in snapshot_seq + 1 .. last_seq + 1
        PROVE  \E i \in 1 .. Len(wal) : wal[i].seq = s
    <3>1. CASE s = last_seq + 1
      BY <2>1, <3>1
    <3>2. CASE s # last_seq + 1
      <4>1. s \in snapshot_seq + 1 .. last_seq
        BY <1>1, <3>2
      <4> QED BY <2>1, <4>1
    <3> QED BY <3>1, <3>2
  <2> QED BY <2>1, <2>2
<1>5. CASE Apply
  <2>1. /\ wal' = wal /\ last_seq' = last_seq + 1 /\ snapshot_seq' = snapshot_seq /\ pc = "apply"
    BY <1>5 DEF Apply, ApplyThen, Insert, files, logs
  <2>2. wal # <<>> /\ wal[Len(wal)].seq = last_seq + 1
    BY <2>1 DEF IInv, ServingInv, Serving, Appended, BaseInv, Sized
  <2>3. Len(wal) \in 1 .. Len(wal)
    BY <1>1, <2>2, EmptySeq
  <2> QED BY <1>1, <2>1, <2>2, <2>3
<1>6. ASSUME NEW w \in Write, AppendRecord(w) PROVE LogHeld'
  <2>1. /\ Starts(wal, wal') /\ Len(wal') = Len(wal) + 1
        /\ pc = "idle" /\ last_seq' = last_seq /\ snapshot_seq' = snapshot_seq
    BY <1>6, AppendStep DEF AppendRecord, memory
  <2>2. \A i \in 1 .. Len(wal) : i \in 1 .. Len(wal') /\ wal'[i] = wal[i]
    BY <1>1, <2>1 DEF Starts
  <2> QED BY <2>1, <2>2
<1>7. CASE PowerFailure \/ Crash \/ \E w \in Write : CrashInAppend(w)
  <2>1. snapshot_seq' = 0 /\ last_seq' = 0
    BY <1>7 DEF PowerFailure, Crash, CrashInAppend, ForgetMemory
  <2>2. \A s \in 0 + 1 .. 0 : FALSE
    OBVIOUS
  <2> QED BY <2>1, <2>2
<1>8. CASE Truncate \/ SyncLog
  BY <1>8 DEF Truncate, SyncLog, Step
<1>9. CASE FinishCheckpoint \/ FinishInstall
  <2>1. snapshot_seq' = last_seq' /\ last_seq' \in Nat
    BY <1>1, <1>9, StateTypes
    DEF FinishCheckpoint, EndCheckpoint, FinishInstall, LoadSnapshot, IInv
  <2>2. \A n \in Nat : \A s \in n + 1 .. n : FALSE
    OBVIOUS
  <2> QED BY <2>1, <2>2
<1>10. CASE /\ wal' = wal /\ last_seq' = last_seq /\ snapshot_seq' = snapshot_seq
            /\ pc \notin {"fsync_log", "finish"}
  BY <1>10
<1>11. CASE UNCHANGED vars
  BY <1>11 DEF vars, files, logs, memory
<1>12. CASE SyncCut \/ SyncRecord \/ ReplaySkip \/ ReplayRefused \/ ReplayDone \/ ApplyFails
            \/ Reply \/ FetchSnapshot \/ SaveTmp \/ SyncTmp \/ Rename \/ SyncDir
            \/ InstallSnapshot \/ SaveFails
  BY <1>10, <1>12
  DEF SyncCut, SyncRecord, FsyncLog, ReplaySkip, ReplayRefused, ReplayDone, PassOver, Replaying,
      ApplyFails, Release, Reply, FetchSnapshot, SaveTmp, WriteTmp, SyncTmp, Rename, SyncDir,
      InstallSnapshot, SaveFails, CallFails, Step, files, logs, memory
<1> QED
  BY <1>2, <1>3, <1>4, <1>5, <1>6, <1>7, <1>8, <1>9, <1>11, <1>12
  DEF Next, Opening, Adding, Checkpointing, Installing, Failing, Crashing, ResetFails

LEMMA ServedStep == ServedInv /\ [Next]_vars => ServedInv'
<1> SUFFICES ASSUME ServedInv, [Next]_vars PROVE ServedInv'
  OBVIOUS
<1> USE DEF ServedInv
<1>1. LInv' /\ Agrees(wal', snapshot')
  BY LInvStep, AgreesStep
<1>2. LogHeld'
  BY LogHeldStep DEF LInv
<1>3. Agrees(wal, snapshot)'
  BY <1>1 DEF Agrees
<1> QED BY <1>1, <1>2, <1>3

LEMMA ServedInit == Careful /\ "reset" \notin Failures /\ Init => ServedInv
<1> SUFFICES ASSUME Careful, "reset" \notin Failures, Init PROVE ServedInv
  OBVIOUS
<1>1. LInv
  BY LogInit
<1>2. wal = <<>> /\ snapshot_seq = 0 /\ last_seq = 0
  BY DEF Init
<1>3. \A i \in 1 .. Len(<<>>) : FALSE
  BY EmptySeq
<1>4. Agrees(<<>>, snapshot)
  BY <1>3, Zenon DEF Agrees
<1>5. LogHeld
  BY <1>2 DEF LogHeld
<1> QED BY <1>1, <1>2, <1>4, <1>5 DEF ServedInv

\* Between two requests a record of the log is the batch of the index with its number.
LEMMA RecordsAreServed ==
    ASSUME ServedInv, pc = "idle"
    PROVE  /\ ReadRecords(wal) = wal /\ DOMAIN wal = 1 .. Len(wal) /\ Len(wal) \in Nat
           /\ \A i \in 1 .. Len(wal) : /\ wal[i].seq \in Nat /\ wal[i].seq <= last_seq
                                       /\ wal[i].seq >= 1 => wal[i] = Rec(wal[i].seq, shard[wal[i].seq])
           /\ \A i \in 1 .. Len(wal) : \A j \in 1 .. i - 1 : wal[j].seq < wal[i].seq
<1> USE DEF ServedInv, LInv, IInv
<1>1. /\ wal \in Seq(Record) /\ Len(wal) \in Nat /\ last_seq \in Nat /\ snapshot.last_seq \in Nat
      /\ \A i \in 1 .. Len(wal) : wal[i] \in Record /\ wal[i].seq \in Nat
      /\ shard \in Seq(Write) /\ Len(shard) = last_seq
  BY StateTypes, RecordSeq
<1>2. /\ \A i \in 1 .. Len(wal) : wal[i].intact
      /\ \A s \in 1 .. last_seq : RebuiltFrom(wal, snapshot, s, shard[s])
      /\ snapshot.last_seq <= last_seq
  BY DEF MemoryInv, Published
<1>3. /\ \A i \in 1 .. Len(wal) : wal[i].seq <= last_seq
      /\ \A i \in 1 .. Len(wal) : \A j \in 1 .. i - 1 : wal[j].seq < wal[i].seq
  BY DEF ServingInv, Serving, Appended, FilesInv, WellFormed
<1>4. ReadRecords(wal) = wal /\ DOMAIN wal = 1 .. Len(wal)
  <2>1. IntactLen(wal) \in 0 .. Len(wal)
    BY <1>1, ReadRecordsPrefix
  <2>2. \A i \in 1 .. Len(wal) : i \in 1 .. IntactLen(wal)
    <3>1. ASSUME NEW i \in 1 .. Len(wal) PROVE \A j \in 1 .. i : wal[j].intact
      BY <1>1, <1>2
    <3> QED BY <1>1, <3>1, ReadRecordsKeeps
  <2>3. IntactLen(wal) = Len(wal)
    BY <1>1, <2>1, <2>2
  <2>4. /\ ReadRecords(wal) \in Seq(Record) /\ Len(ReadRecords(wal)) = Len(wal)
        /\ \A i \in 1 .. Len(wal) : ReadRecords(wal)[i] = wal[i]
    BY <1>1, <2>3, ReadRecordsPrefix
  <2> QED BY <1>1, <2>4, SeqEqual, LenProperties
<1>5. ASSUME NEW i \in 1 .. Len(wal), wal[i].seq >= 1
      PROVE  wal[i].write = shard[wal[i].seq]
  <2>1. wal[i].seq \in 1 .. last_seq /\ \A j \in 1 .. i : wal[j].intact
    BY <1>1, <1>2, <1>3, <1>5
  <2>2. CASE wal[i].seq <= snapshot.last_seq
    <3>1. wal[i].seq \in 1 .. snapshot.last_seq
      BY <1>1, <1>5, <2>2
    <3>2. snapshot.shard[wal[i].seq] = wal[i].write
      BY <2>1, <3>1 DEF Agrees
    <3>3. snapshot.shard[wal[i].seq] = shard[wal[i].seq]
      BY <1>2, <2>1, <2>2 DEF RebuiltFrom
    <3> QED BY <3>2, <3>3
  <2>3. CASE ~(wal[i].seq <= snapshot.last_seq)
    <3>1. PICK j \in 1 .. Len(wal) : Found(wal, j, wal[i].seq, shard[wal[i].seq])
      BY <1>2, <2>1, <2>3 DEF RebuiltFrom
    <3>2. wal[j].seq = wal[i].seq /\ wal[j].write = shard[wal[i].seq]
      BY <3>1 DEF Found
    <3>3. ~(j < i) /\ ~(i < j)
      BY <1>1, <1>3, <3>2
    <3>4. j = i
      BY <1>1, <3>3
    <3> QED BY <3>2, <3>4
  <2> QED BY <2>2, <2>3
<1>6. ASSUME NEW i \in 1 .. Len(wal), wal[i].seq >= 1
      PROVE  wal[i] = Rec(wal[i].seq, shard[wal[i].seq])
  <2>1. wal[i] \in Record /\ wal[i].write = shard[wal[i].seq] /\ wal[i].intact
    BY <1>1, <1>2, <1>5, <1>6
  <2>2. \A r \in Record : r.intact => r = [seq |-> r.seq, write |-> r.write, intact |-> TRUE]
    BY DEF Record
  <2> QED BY <2>1, <2>2 DEF Rec
<1> QED BY <1>1, <1>3, <1>4, <1>6

\* What FetchLog sends a replica it does not refuse is all that the replica is
\* missing and nothing else, in order, after any crash and also after
\* checkpoints that failed between the new snapshot and the empty log.
THEOREM LogServesAll == Careful /\ "reset" \notin Failures /\ Spec => []FetchLogComplete
<1>1. ServedInv => FetchLogComplete
  <2> SUFFICES ASSUME ServedInv, pc = "idle", NEW after \in snapshot_seq .. last_seq
               PROVE  /\ {ReadRecords(wal)[i] : i \in RecordsAfter(after)}
                            = {Rec(s, shard[s]) : s \in after + 1 .. last_seq}
                      /\ \A i, j \in RecordsAfter(after) :
                            i < j => ReadRecords(wal)[i].seq < ReadRecords(wal)[j].seq
    BY DEF FetchLogComplete
  <2>1. /\ ReadRecords(wal) = wal /\ DOMAIN wal = 1 .. Len(wal) /\ Len(wal) \in Nat
        /\ \A i \in 1 .. Len(wal) : /\ wal[i].seq \in Nat /\ wal[i].seq <= last_seq
                                    /\ wal[i].seq >= 1 => wal[i] = Rec(wal[i].seq, shard[wal[i].seq])
        /\ \A i \in 1 .. Len(wal) : \A j \in 1 .. i - 1 : wal[j].seq < wal[i].seq
    BY RecordsAreServed
  <2>2. RecordsAfter(after) = {i \in 1 .. Len(wal) : wal[i].seq > after}
    BY <2>1 DEF RecordsAfter
  <2>3. /\ after \in Nat /\ last_seq \in Nat /\ snapshot_seq \in Nat
        /\ snapshot_seq <= after /\ after <= last_seq
    BY DEF ServedInv, LInv, IInv, BaseInv, TypeOK
  <2>4. ASSUME NEW i \in RecordsAfter(after)
        PROVE  wal[i].seq \in after + 1 .. last_seq /\ wal[i] = Rec(wal[i].seq, shard[wal[i].seq])
    BY <2>1, <2>2, <2>3
  <2>5. ASSUME NEW s \in after + 1 .. last_seq
        PROVE  \E i \in RecordsAfter(after) : wal[i] = Rec(s, shard[s])
    <3>1. s \in snapshot_seq + 1 .. last_seq /\ s > after /\ s >= 1
      BY <2>3
    <3>2. PICK i \in 1 .. Len(wal) : wal[i].seq = s
      BY <3>1 DEF ServedInv, LogHeld
    <3> QED BY <2>1, <2>2, <3>1, <3>2
  <2>6. {wal[i] : i \in RecordsAfter(after)} = {Rec(s, shard[s]) : s \in after + 1 .. last_seq}
    <3>1. ASSUME NEW i \in RecordsAfter(after)
          PROVE  \E s \in after + 1 .. last_seq : wal[i] = Rec(s, shard[s])
      BY <2>4
    <3> QED BY <2>5, <3>1
  <2>7. ASSUME NEW i \in RecordsAfter(after), NEW j \in RecordsAfter(after), i < j
        PROVE  wal[i].seq < wal[j].seq
    <3>1. i \in 1 .. j - 1 /\ j \in 1 .. Len(wal)
      BY <2>1, <2>2, <2>7
    <3> QED BY <2>1, <3>1
  <2> QED BY <2>1, <2>6, <2>7
<1>2. Careful /\ "reset" \notin Failures /\ Init => ServedInv
  BY ServedInit
<1>3. ServedInv /\ [Next]_vars => ServedInv'
  BY ServedStep
<1> QED BY <1>1, <1>2, <1>3, PTL DEF Spec
=============================================================================
