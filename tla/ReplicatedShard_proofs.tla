----------------------- MODULE ReplicatedShard_proofs -----------------------
(***************************************************************************)
(* Proofs about ReplicatedShard that hold for all values of its constants: *)
(* any number of replicas, client processes and chunks, any crashes.       *)
(***************************************************************************)
EXTENDS ReplicatedShard, FiniteOrders, FiniteSetTheorems, SequenceTheorems, TLAPS

-----------------------------------------------------------------------------
(***************************************************************************)
(* What holds whatever fails: the state of the handlers, of the            *)
(* coordinators, and of the records on their way to a replica.             *)
(***************************************************************************)
\* A handler that asks for a snapshot is behind the snapshot of its peer.
HandlersOK ==
    \A r \in Replica :
        /\ base[r] <= Len(log[r])
        /\ step[r] # "idle" => r \in up /\ peer[r] \in Replica
        /\ step[r] # "apply" => pending[r] = <<>>
        /\ step[r] = "snapshot" => attempts[r] # 0 /\ Len(log[r]) < base[peer[r]]

\* A coordinator that waits for SyncFrom waits for a handler that copies from
\* the replica it had chosen.
CoordinatorOK(c) ==
    /\ phase[c] = "check" => /\ \A r \in Replica : seen[c][r] # Settled
                             /\ last_seqs[c] = Unknown
    /\ phase[c] \in {"send", "wait"} => last_seqs[c] # Unknown
    /\ phase[c] = "wait" => request[c].write \in Write /\ request[c].seq = last_seqs[c] + 1
    /\ \A r \in Replica : calls[c][r] = "sent" => phase[c] = "wait"
    /\ syncing[c] # Nobody => /\ phase[c] = "sync" /\ step[syncing[c]] # "idle"
                              /\ IsSource(c, peer[syncing[c]])

CoordinatorsOK == \A c \in Coordinator : CoordinatorOK(c)

BaseInv == TypeOK /\ HandlersOK /\ CoordinatorsOK /\ RecordsFollow

ReplicaTypes == log \in [Replica -> Seq(Write)] /\ base \in [Replica -> Nat]

HandlerTypes ==
    /\ step \in [Replica -> {"idle", "log", "apply", "snapshot"}]
    /\ peer \in [Replica -> Replica \cup {Nobody}]
    /\ pending \in [Replica -> Seq(Numbered)] /\ attempts \in [Replica -> 0 .. 3]

CoordinatorTypes ==
    /\ phase \in [Coordinator -> Writing \cup {"idle", "poll", "repair", "sync"}]
    /\ last_seqs \in [Coordinator -> Nat \cup {Unknown}]
    /\ seen \in [Coordinator -> [Replica -> Nat \cup {Unknown, Settled}]]
    /\ request \in [Coordinator -> [seq : Nat, write : Nat]]
    /\ calls \in [Coordinator -> [Replica -> {"none", "sent", "ok", "failed"}]]
    /\ syncing \in [Coordinator -> Replica \cup {Nobody}]

NetworkTypes ==
    /\ up \subseteq Replica /\ losses \in 0 .. MaxLosses
    /\ requests \subseteq [replica : Replica, seq : Nat, write : Write]
    /\ sent \in 0 .. MaxWrites /\ acked \subseteq Numbered

LEMMA Types == TypeOK <=> ReplicaTypes /\ HandlerTypes /\ CoordinatorTypes /\ NetworkTypes
BY DEF TypeOK, ReplicaTypes, HandlerTypes, CoordinatorTypes, NetworkTypes

-----------------------------------------------------------------------------
(***************************************************************************)
(* What the parts of an action do.                                         *)
(***************************************************************************)
\* add_batch: one more write on one replica, nothing else moves.
LEMMA ExtendEffect ==
    ASSUME TypeOK, HandlersOK, NEW r \in Replica, NEW w \in Write, Extend(r, w)
    PROVE  /\ ReplicaTypes'
           /\ Len(log'[r]) = Len(log[r]) + 1 /\ log'[r][Len(log[r]) + 1] = w
           /\ \A i \in 1 .. Len(log[r]) : log'[r][i] = log[r][i]
           /\ \A q \in Replica : q # r => log'[q] = log[q] /\ base'[q] = base[q]
           /\ base'[r] \in {base[r], Len(log[r]) + 1} /\ base'[r] >= base[r]
<1>1. log[r] \in Seq(Write) /\ Len(log[r]) \in Nat /\ base[r] \in Nat /\ base[r] <= Len(log[r])
  BY LenProperties DEF TypeOK, HandlersOK
<1>2. /\ Append(log[r], w) \in Seq(Write)
      /\ Len(Append(log[r], w)) = Len(log[r]) + 1 /\ Append(log[r], w)[Len(log[r]) + 1] = w
      /\ \A i \in 1 .. Len(log[r]) : Append(log[r], w)[i] = log[r][i]
  BY <1>1, AppendProperties
<1>3. log' = [log EXCEPT ![r] = Append(@, w)] /\ log \in [Replica -> Seq(Write)]
  BY DEF Extend, TypeOK
<1>4. log'[r] = Append(log[r], w) /\ \A q \in Replica : q # r => log'[q] = log[q]
  BY <1>3
<1>5. log' \in [Replica -> Seq(Write)]
  BY <1>2, <1>3
<1>6. /\ base' \in [Replica -> Nat] /\ base'[r] \in {base[r], Len(log[r]) + 1}
      /\ \A q \in Replica : q # r => base'[q] = base[q]
  <2>1. base \in [Replica -> Nat] /\ Len(log[r]) + 1 \in Nat
    BY <1>1 DEF TypeOK
  <2>2. CASE base' = base
    BY <2>1, <2>2
  <2>3. CASE base' = [base EXCEPT ![r] = Len(log[r]) + 1]
    BY <2>1, <2>3
  <2> QED BY <2>2, <2>3 DEF Extend
<1>7. base'[r] >= base[r]
  BY <1>1, <1>6
<1> QED BY <1>2, <1>4, <1>5, <1>6, <1>7 DEF ReplicaTypes

\* The answer to a request changes at most the call that waits for it.
LEMMA AnswerEffect ==
    ASSUME TypeOK, NEW m \in requests, NEW outcome \in {"ok", "failed"}, Answer(m, outcome)
    PROVE  /\ calls' \in [Coordinator -> [Replica -> {"none", "sent", "ok", "failed"}]]
           /\ \A c \in Coordinator, r \in Replica :
                 IF r = m.replica /\ request[c].write = m.write /\ calls[c][r] = "sent"
                   THEN calls'[c][r] = outcome ELSE calls'[c][r] = calls[c][r]
<1>1. m.replica \in Replica /\ calls \in [Coordinator -> [Replica -> {"none", "sent", "ok", "failed"}]]
  BY DEF TypeOK
<1>2. ASSUME NEW c \in Coordinator
      PROVE  /\ calls'[c] \in [Replica -> {"none", "sent", "ok", "failed"}]
             /\ \A r \in Replica :
                   IF r = m.replica /\ request[c].write = m.write /\ calls[c][r] = "sent"
                     THEN calls'[c][r] = outcome ELSE calls'[c][r] = calls[c][r]
  <2>1. calls'[c] = IF request[c].write = m.write /\ calls[c][m.replica] = "sent"
                      THEN [calls[c] EXCEPT ![m.replica] = outcome] ELSE calls[c]
    BY DEF Answer
  <2>2. calls[c] \in [Replica -> {"none", "sent", "ok", "failed"}]
    BY <1>1
  <2> QED BY <1>1, <2>1, <2>2
<1>3. calls' = [c \in Coordinator |-> calls'[c]]
  BY DEF Answer
<1> QED BY <1>2, <1>3

\* The records a log file holds above a number continue it.
LEMMA RecordsAboveType ==
    ASSUME TypeOK, NEW p \in Replica, NEW n \in Nat
    PROVE  /\ RecordsAbove(p, n) \in Seq(Numbered)
           /\ Len(RecordsAbove(p, n)) = IF n <= Len(log[p]) THEN Len(log[p]) - n ELSE 0
           /\ \A i \in 1 .. Len(RecordsAbove(p, n)) :
                 /\ RecordsAbove(p, n)[i].seq = n + i /\ n + i \in 1 .. Len(log[p])
                 /\ RecordsAbove(p, n)[i].write = log[p][n + i]
<1> DEFINE k == IF n <= Len(log[p]) THEN Len(log[p]) - n ELSE 0
           Rec(i) == [seq |-> n + i, write |-> log[p][n + i]]
<1>1. log[p] \in Seq(Write) /\ Len(log[p]) \in Nat
  BY LenProperties DEF TypeOK
<1>2. \A i \in 1 .. Len(log[p]) : log[p][i] \in Write
  BY <1>1, ElementOfSeq
<1>3. k \in Nat /\ 1 .. Len(log[p]) - n = 1 .. k /\ \A i \in 1 .. k : n + i \in 1 .. Len(log[p])
  BY <1>1
<1>4. \A i \in 1 .. k : Rec(i) \in Numbered
  BY <1>2, <1>3 DEF Numbered
<1>5. RecordsAbove(p, n) = [i \in 1 .. k |-> Rec(i)]
  BY <1>3 DEF RecordsAbove
<1> HIDE DEF k, Rec
<1>6. RecordsAbove(p, n) \in Seq(Numbered) /\ Len(RecordsAbove(p, n)) = k
  BY <1>3, <1>4, <1>5, IsASeq, LenProperties
<1>7. \A i \in 1 .. k : RecordsAbove(p, n)[i] = Rec(i)
  BY <1>5
<1>8. \A i \in 1 .. k : Rec(i).seq = n + i /\ Rec(i).write = log[p][n + i]
  BY DEF Rec
<1>9. k = IF n <= Len(log[p]) THEN Len(log[p]) - n ELSE 0
  BY DEF k
<1> QED BY <1>3, <1>6, <1>7, <1>8, <1>9

\* Installing a snapshot copies a beginning of the peer's log, at least up to
\* the peer's snapshot; the peer has a snapshot of as much afterwards.
LEMMA InstallEffect ==
    ASSUME TypeOK, HandlersOK, NEW r \in Replica, InstallFrom(r, peer[r])
    PROVE  /\ ReplicaTypes' /\ peer[r] # r
           /\ \A q \in Replica : q # r => log'[q] = log[q]
           /\ \A q \in Replica : q \notin {r, peer[r]} => base'[q] = base[q]
           /\ \E top \in Nat :
                 /\ base[peer[r]] <= top /\ top <= Len(log[peer[r]]) /\ Len(log[r]) < top
                 /\ log'[r] = SubSeq(log[peer[r]], 1, top) /\ Len(log'[r]) = top
                 /\ \A i \in 1 .. top : log'[r][i] = log[peer[r]][i]
                 /\ base'[r] = top /\ base'[peer[r]] = top
<1> DEFINE p == peer[r]
           top == IF base[p] = 0 THEN Len(log[p]) ELSE base[p]
<1>1. step[r] = "snapshot" /\ p \in Replica /\ Len(log[r]) < base[p] /\ base[p] <= Len(log[p])
  BY DEF InstallFrom, HandlersOK
<1>2. /\ log \in [Replica -> Seq(Write)] /\ base \in [Replica -> Nat]
      /\ log[p] \in Seq(Write) /\ Len(log[p]) \in Nat /\ Len(log[r]) \in Nat /\ base[p] \in Nat
  BY <1>1, LenProperties DEF TypeOK
<1>3. top \in Nat /\ base[p] <= top /\ top <= Len(log[p]) /\ Len(log[r]) < top /\ p # r
  BY <1>1, <1>2
<1>4. /\ log' = [log EXCEPT ![r] = SubSeq(log[p], 1, top)]
      /\ base' = [base EXCEPT ![r] = top, ![p] = top]
  BY DEF InstallFrom
<1> HIDE DEF p, top
<1>5. /\ SubSeq(log[p], 1, top) \in Seq(Write) /\ Len(SubSeq(log[p], 1, top)) = top
      /\ \A i \in 1 .. top : SubSeq(log[p], 1, top)[i] = log[p][i]
  BY <1>2, <1>3, SubSeqProperties
<1>6. ReplicaTypes'
  BY <1>2, <1>3, <1>4, <1>5 DEF ReplicaTypes
<1>7. log'[r] = SubSeq(log[p], 1, top) /\ \A q \in Replica : q # r => log'[q] = log[q]
  BY <1>2, <1>4
<1>8. /\ base'[r] = top /\ base'[p] = top
      /\ \A q \in Replica : q \notin {r, p} => base'[q] = base[q]
  BY <1>1, <1>2, <1>3, <1>4
<1> QED BY <1>3, <1>5, <1>6, <1>7, <1>8 DEF p

\* A handler ends: its own state is reset, and a coordinator that waits for it
\* goes on or gives up.
LEMMA ReturnEffect ==
    ASSUME TypeOK, NEW r \in Replica, NEW ok \in BOOLEAN, Return(r, ok)
    PROVE  /\ HandlerTypes'
           /\ phase' \in [Coordinator -> Writing \cup {"idle", "poll", "repair", "sync"}]
           /\ seen' \in [Coordinator -> [Replica -> Nat \cup {Unknown, Settled}]]
           /\ syncing' \in [Coordinator -> Replica \cup {Nobody}]
           /\ \A q \in Replica : /\ q # r => /\ step'[q] = step[q] /\ peer'[q] = peer[q]
                                             /\ pending'[q] = pending[q]
                                             /\ attempts'[q] = attempts[q]
           /\ step'[r] = "idle" /\ peer'[r] = Nobody /\ pending'[r] = <<>> /\ attempts'[r] = 0
           /\ \A c \in Coordinator :
                 IF syncing[c] # r
                   THEN phase'[c] = phase[c] /\ seen'[c] = seen[c] /\ syncing'[c] = syncing[c]
                   ELSE /\ phase'[c] \in {"repair", "idle"} /\ syncing'[c] = Nobody
                        /\ \A q \in Replica : seen'[c][q] \in {seen[c][q], Settled, Unknown}
<1>1. HandlerTypes'
  <2>1. <<>> \in Seq(Numbered)
    BY EmptySeq
  <2> QED BY <2>1 DEF TypeOK, Return, HandlerTypes
<1>2. /\ \A q \in Replica : /\ q # r => /\ step'[q] = step[q] /\ peer'[q] = peer[q]
                                        /\ pending'[q] = pending[q]
                                        /\ attempts'[q] = attempts[q]
      /\ step'[r] = "idle" /\ peer'[r] = Nobody /\ pending'[r] = <<>> /\ attempts'[r] = 0
  BY DEF TypeOK, Return
<1>3. ASSUME NEW c \in Coordinator
      PROVE  /\ phase'[c] \in Writing \cup {"idle", "poll", "repair", "sync"}
             /\ seen'[c] \in [Replica -> Nat \cup {Unknown, Settled}]
             /\ syncing'[c] \in Replica \cup {Nobody}
             /\ IF syncing[c] # r
                  THEN phase'[c] = phase[c] /\ seen'[c] = seen[c] /\ syncing'[c] = syncing[c]
                  ELSE /\ phase'[c] \in {"repair", "idle"} /\ syncing'[c] = Nobody
                       /\ \A q \in Replica : seen'[c][q] \in {seen[c][q], Settled, Unknown}
  <2>1. /\ phase[c] \in Writing \cup {"idle", "poll", "repair", "sync"}
        /\ seen[c] \in [Replica -> Nat \cup {Unknown, Settled}]
        /\ syncing[c] \in Replica \cup {Nobody}
    BY DEF TypeOK
  <2>2. /\ syncing'[c] = IF syncing[c] = r THEN Nobody ELSE syncing[c]
        /\ phase'[c] = IF syncing[c] # r THEN phase[c] ELSE IF ok THEN "repair" ELSE "idle"
        /\ seen'[c] = IF syncing[c] # r THEN seen[c]
                      ELSE IF ok THEN [seen[c] EXCEPT ![r] = Settled] ELSE NoAnswers
    BY DEF Return
  <2> QED BY <2>1, <2>2 DEF NoAnswers
<1>4. /\ phase' = [c \in Coordinator |-> phase'[c]] /\ seen' = [c \in Coordinator |-> seen'[c]]
      /\ syncing' = [c \in Coordinator |-> syncing'[c]]
  BY DEF Return
<1>5. /\ phase' \in [Coordinator -> Writing \cup {"idle", "poll", "repair", "sync"}]
      /\ seen' \in [Coordinator -> [Replica -> Nat \cup {Unknown, Settled}]]
      /\ syncing' \in [Coordinator -> Replica \cup {Nobody}]
  BY <1>3, <1>4
<1> QED BY <1>1, <1>2, <1>3, <1>5

-----------------------------------------------------------------------------
(***************************************************************************)
(* Every variable keeps its type.                                          *)
(***************************************************************************)
LEMMA TypeInit == Init => TypeOK
<1>1. <<>> \in Seq(Write) /\ <<>> \in Seq(Numbered)
  BY EmptySeq
<1> QED BY <1>1, ConstantsAssumption
        DEF Init, TypeOK, Unknown, Settled, NoAnswers, NoCalls, NoRequest, Writing

LEMMA TypeStep == BaseInv /\ [Next]_vars => TypeOK'
<1> SUFFICES ASSUME BaseInv, [Next]_vars PROVE TypeOK'
  OBVIOUS
<1>a. TypeOK /\ HandlersOK /\ CoordinatorsOK /\ RecordsFollow
  BY DEF BaseInv
<1> USE ConstantsAssumption, <1>a
    DEF vars, replicas, handlers, coordinators, Unknown, Settled, NoAnswers, NoCalls, NoRequest,
        Writing
<1>1. ASSUME NEW c \in Coordinator, StartAdd(c) PROVE TypeOK'
  BY <1>1 DEF TypeOK, StartAdd
<1>2. ASSUME NEW c \in Coordinator, StartRepair(c) PROVE TypeOK'
  BY <1>2 DEF TypeOK, StartRepair
<1>3. ASSUME NEW c \in Coordinator, Checked(c) PROVE TypeOK'
  <2>1. PICK r \in Replica : last_seqs' = [last_seqs EXCEPT ![c] = seen[c][r]]
    BY <1>3 DEF Checked
  <2>2. seen[c][r] \in Nat
    BY <1>3 DEF TypeOK, Checked, CoordinatorsOK, CoordinatorOK
  <2>3. last_seqs' \in [Coordinator -> Nat \cup {Unknown}]
    BY <2>1, <2>2 DEF TypeOK
  <2> QED BY <1>3, <2>3 DEF TypeOK, Checked
<1>4. ASSUME NEW c \in Coordinator, OutOfSync(c) PROVE TypeOK'
  BY <1>4 DEF TypeOK, OutOfSync, Leave
<1>5. ASSUME NEW c \in Coordinator, SendChunk(c) PROVE TypeOK'
  <2>1. sent + 1 \in Write /\ last_seqs[c] + 1 \in Nat
    BY <1>5 DEF TypeOK, SendChunk, CoordinatorsOK, CoordinatorOK, Write
  <2>2. request' \in [Coordinator -> [seq : Nat, write : Nat]]
    BY <1>5, <2>1 DEF TypeOK, SendChunk, Write
  <2>3. \A r \in Replica : [replica |-> r, seq |-> last_seqs[c] + 1, write |-> sent + 1]
                             \in [replica : Replica, seq : Nat, write : Write]
    BY <2>1
  <2>4. requests' \subseteq [replica : Replica, seq : Nat, write : Write]
    BY <1>5, <2>3 DEF TypeOK, SendChunk
  <2>5. calls' \in [Coordinator -> [Replica -> {"none", "sent", "ok", "failed"}]]
    BY <1>5 DEF TypeOK, SendChunk
  <2>6. /\ phase' \in [Coordinator -> Writing \cup {"idle", "poll", "repair", "sync"}]
        /\ sent' \in 0 .. MaxWrites
    BY <1>5, <2>1 DEF TypeOK, SendChunk, Write
  <2> QED BY <1>5, <2>2, <2>4, <2>5, <2>6 DEF TypeOK, SendChunk
<1>6. ASSUME NEW c \in Coordinator, ChunkDone(c) PROVE TypeOK'
  <2>1. phase[c] = "wait" /\ last_seqs[c] + 1 \in Nat
    BY <1>6 DEF TypeOK, ChunkDone, AllAnswered, CoordinatorsOK, CoordinatorOK
  <2>2. request[c] \in Numbered
    BY <2>1 DEF TypeOK, CoordinatorsOK, CoordinatorOK, Numbered
  <2>3. acked' \subseteq Numbered /\ last_seqs' \in [Coordinator -> Nat \cup {Unknown}]
    BY <1>6, <2>1, <2>2 DEF TypeOK, ChunkDone
  <2>4. CASE Leave(c)
    BY <1>6, <2>3, <2>4 DEF TypeOK, ChunkDone, Leave
  <2>5. CASE phase' = [phase EXCEPT ![c] = "send"] /\ UNCHANGED <<seen, request, calls, syncing>>
    BY <1>6, <2>3, <2>5 DEF TypeOK, ChunkDone
  <2> QED BY <1>6, <2>4, <2>5 DEF ChunkDone
<1>7. ASSUME NEW c \in Coordinator, ChunkFails(c) PROVE TypeOK'
  BY <1>7 DEF TypeOK, ChunkFails, Leave
<1>8. ASSUME NEW c \in Coordinator, Polled(c) PROVE TypeOK'
  BY <1>8 DEF TypeOK, Polled
<1>9. ASSUME NEW c \in Coordinator, RepairDone(c) PROVE TypeOK'
  BY <1>9 DEF TypeOK, RepairDone, Leave
<1>10. ASSUME NEW c \in Coordinator, NEW r \in Replica, Status(c, r) PROVE TypeOK'
  <2>1. Len(log[r]) \in Nat
    BY LenProperties DEF TypeOK
  <2>2. seen' \in [Coordinator -> [Replica -> Nat \cup {Unknown, Settled}]]
    BY <1>10, <2>1 DEF TypeOK, Status
  <2> QED BY <1>10, <2>2 DEF TypeOK, Status
<1>11. ASSUME NEW c \in Coordinator, NEW r \in Replica, StartSync(c, r) PROVE TypeOK'
  <2>1. PICK p \in Replica : peer' = [peer EXCEPT ![r] = p]
    BY <1>11 DEF StartSync
  <2>2. HandlerTypes'
    BY <1>11, <2>1 DEF TypeOK, StartSync, HandlerTypes
  <2>3. CoordinatorTypes'
    BY <1>11 DEF TypeOK, StartSync, CoordinatorTypes
  <2> QED BY <1>11, <2>2, <2>3
          DEF TypeOK, StartSync, HandlerTypes, CoordinatorTypes
<1>12. ASSUME NEW m \in requests, HandleAdd(m) PROVE TypeOK'
  <2>1. m.replica \in Replica /\ m.write \in Write
    BY DEF TypeOK
  <2>2. ReplicaTypes'
    BY <1>12, <2>1, ExtendEffect DEF HandleAdd
  <2>3. calls' \in [Coordinator -> [Replica -> {"none", "sent", "ok", "failed"}]]
    BY <1>12, AnswerEffect DEF HandleAdd
  <2> QED BY <1>12, <2>2, <2>3 DEF TypeOK, HandleAdd, ReplicaTypes
<1>13. ASSUME NEW m \in requests, RejectAdd(m) PROVE TypeOK'
  <2>1. calls' \in [Coordinator -> [Replica -> {"none", "sent", "ok", "failed"}]]
    BY <1>13, AnswerEffect DEF RejectAdd
  <2> QED BY <1>13, <2>1 DEF TypeOK, RejectAdd
<1>14. ASSUME NEW r \in Replica, FetchLog(r) PROVE TypeOK'
  <2>1. peer[r] \in Replica /\ Len(log[r]) \in Nat
    BY <1>14, LenProperties DEF FetchLog, HandlersOK, TypeOK
  <2>2. Bigger(Len(log[r]), base[peer[r]]) \in Nat
    BY <2>1 DEF Bigger, TypeOK
  <2>3. RecordsAfter(peer[r], Len(log[r])) \in Seq(Numbered)
    BY <2>1, <2>2, RecordsAboveType DEF RecordsAfter
  <2>4. CASE step' = [step EXCEPT ![r] = "snapshot"] /\ UNCHANGED pending
    BY <1>14, <2>4 DEF TypeOK, FetchLog
  <2>5. CASE /\ step' = [step EXCEPT ![r] = "apply"]
             /\ pending' = [pending EXCEPT ![r] = RecordsAfter(peer[r], Len(log[r]))]
    <3>1. HandlerTypes'
      BY <1>14, <2>3, <2>5 DEF TypeOK, FetchLog, HandlerTypes
    <3> QED BY <1>14, <3>1 DEF TypeOK, FetchLog, HandlerTypes
  <2> QED BY <1>14, <2>4, <2>5 DEF FetchLog
<1>15. ASSUME NEW r \in Replica, ApplyRecord(r) PROVE TypeOK'
  <2>1. pending[r] \in Seq(Numbered) /\ pending[r] # <<>>
    BY <1>15 DEF TypeOK, ApplyRecord
  <2>2. Head(pending[r]) \in Numbered /\ Tail(pending[r]) \in Seq(Numbered)
    BY <2>1, HeadTailProperties
  <2>3. Head(pending[r]).write \in Write
    BY <2>2 DEF Numbered
  <2>4. ReplicaTypes'
    BY <1>15, <2>3, ExtendEffect DEF ApplyRecord
  <2>5. pending' \in [Replica -> Seq(Numbered)]
    BY <1>15, <2>2 DEF TypeOK, ApplyRecord
  <2> QED BY <1>15, <2>4, <2>5 DEF TypeOK, ApplyRecord, ReplicaTypes
<1>16. ASSUME NEW r \in Replica, FetchSnapshot(r) PROVE TypeOK'
  <2>1. step[r] = "snapshot" /\ peer[r] \in Replica
    BY <1>16 DEF FetchSnapshot, InstallFrom, HandlersOK
  <2>2. ReplicaTypes'
    BY <1>16, <2>1, InstallEffect DEF FetchSnapshot
  <2>3. attempts' \in [Replica -> 0 .. 3] /\ step' \in [Replica -> {"idle", "log", "apply", "snapshot"}]
    BY <1>16, <2>1 DEF TypeOK, HandlersOK, FetchSnapshot
  <2> QED BY <1>16, <2>2, <2>3 DEF TypeOK, FetchSnapshot, InstallFrom, ReplicaTypes
<1>17. ASSUME NEW r \in Replica, SyncDone(r) PROVE TypeOK'
  <2>1. Return(r, TRUE)
    BY <1>17 DEF SyncDone
  <2> QED BY <1>17, <2>1, ReturnEffect DEF TypeOK, SyncDone, HandlerTypes
<1>18. ASSUME NEW r \in Replica, Restart(r) PROVE TypeOK'
  BY <1>18 DEF TypeOK, Restart
<1>19. ASSUME NEW r \in Replica, SyncFails(r) PROVE TypeOK'
  <2>1. Return(r, FALSE)
    BY <1>19 DEF SyncFails
  <2> QED BY <1>19, <2>1, ReturnEffect DEF TypeOK, SyncFails, HandlerTypes
<1>20. ASSUME NEW r \in Replica, Crash(r) PROVE TypeOK'
  <2>1. Return(r, FALSE)
    BY <1>20 DEF Crash
  <2>2. calls' \in [Coordinator -> [Replica -> {"none", "sent", "ok", "failed"}]]
    BY <1>20 DEF TypeOK, Crash
  <2>3. requests' \subseteq requests /\ up' \subseteq up
    BY <1>20 DEF Crash
  <2> QED BY <1>20, <2>1, <2>2, <2>3, ReturnEffect DEF TypeOK, Crash, HandlerTypes
<1>21. ASSUME NEW r \in Replica, LoseDisk(r) PROVE TypeOK'
  <2>1. <<>> \in Seq(Write)
    BY EmptySeq
  <2> QED BY <1>21, <2>1 DEF TypeOK, LoseDisk
<1>22. ASSUME NEW c \in Coordinator, CheckFails(c) PROVE TypeOK'
  BY <1>22 DEF TypeOK, CheckFails, Leave
<1>23. ASSUME NEW c \in Coordinator, RepairFails(c) PROVE TypeOK'
  BY <1>23 DEF TypeOK, RepairFails, Leave
<1>24. ASSUME NEW c \in Coordinator, CoordinatorDies(c) PROVE TypeOK'
  BY <1>24 DEF TypeOK, CoordinatorDies, Leave, Abandon
<1>25. ASSUME NEW c \in Coordinator, NEW r \in Replica, CallFails(c, r) PROVE TypeOK'
  BY <1>25 DEF TypeOK, CallFails, Abandon
<1>26. ASSUME NEW c \in Coordinator, NEW r \in Replica, Skip(c, r) PROVE TypeOK'
  BY <1>26 DEF TypeOK, Skip
<1>27. CASE UNCHANGED vars
  BY <1>27 DEF TypeOK
<1> QED
  BY <1>1, <1>2, <1>3, <1>4, <1>5, <1>6, <1>7, <1>8, <1>9, <1>10, <1>11, <1>12, <1>13, <1>14,
     <1>15, <1>16, <1>17, <1>18, <1>19, <1>20, <1>21, <1>22, <1>23, <1>24, <1>25, <1>26, <1>27
  DEF Next, Starting, Proceeding, Answering, Handling, CatchingUp, Failing

-----------------------------------------------------------------------------
(***************************************************************************)
(* The rest of BaseInv.                                                    *)
(***************************************************************************)
\* Most steps are of coordinators and leave the replicas and handlers alone.
LEMMA ReplicaSteps ==
    ASSUME [Next]_vars
    PROVE  \/ UNCHANGED <<replicas, up, losses, handlers>>
           \/ \E m \in requests : HandleAdd(m)
           \/ \E c \in Coordinator, r \in Replica : StartSync(c, r)
           \/ \E r \in Replica : \/ FetchLog(r) \/ ApplyRecord(r) \/ FetchSnapshot(r)
                                \/ SyncDone(r) \/ SyncFails(r) \/ Crash(r) \/ Restart(r)
                                \/ LoseDisk(r)
<1>1. CASE UNCHANGED vars
  BY <1>1 DEF vars
<1>2. CASE \E c \in Coordinator : Starting(c) \/ Proceeding(c)
  BY <1>2 DEF Starting, Proceeding, StartAdd, StartRepair, Checked, OutOfSync, SendChunk,
              ChunkDone, ChunkFails, Polled, RepairDone
<1>3. CASE \E c \in Coordinator, r \in Replica : Answering(c, r)
  BY <1>3 DEF Answering, Status
<1>4. CASE \E r \in Replica : Handling(r) \/ CatchingUp(r) \/ Restart(r)
  BY <1>4 DEF Handling, CatchingUp, RejectAdd
<1>5. CASE Failing
  BY <1>5 DEF Failing, CheckFails, RepairFails, CoordinatorDies, CallFails, Skip
<1> QED BY <1>1, <1>2, <1>3, <1>4, <1>5 DEF Next

LEMMA LogTypes ==
    ASSUME TypeOK, NEW r \in Replica
    PROVE  /\ log[r] \in Seq(Write) /\ Len(log[r]) \in Nat /\ base[r] \in Nat
           /\ \A i \in 1 .. Len(log[r]) : log[r][i] \in Write
BY LenProperties, ElementOfSeq DEF TypeOK

LEMMA HandlersStep == BaseInv /\ [Next]_vars => HandlersOK'
<1> SUFFICES ASSUME BaseInv, [Next]_vars PROVE HandlersOK'
  OBVIOUS
<1>a. TypeOK /\ HandlersOK /\ CoordinatorsOK /\ TypeOK'
  BY TypeStep DEF BaseInv
<1>b. \A r \in Replica : /\ Len(log[r]) \in Nat /\ base[r] \in Nat
                         /\ Len(log'[r]) \in Nat /\ base'[r] \in Nat
  <2>1. log' \in [Replica -> Seq(Write)] /\ base' \in [Replica -> Nat]
    BY <1>a DEF TypeOK
  <2> QED BY <1>a, <2>1, LogTypes, LenProperties
<1> USE <1>a DEF replicas, handlers
<1>1. CASE UNCHANGED <<replicas, up, losses, handlers>>
  BY <1>1 DEF HandlersOK
<1>2. ASSUME NEW m \in requests, HandleAdd(m) PROVE HandlersOK'
  <2>1. m.replica \in Replica /\ m.write \in Write /\ step[m.replica] = "idle"
    BY <1>2 DEF TypeOK, HandleAdd, Accepts, Serves
  <2>2. Extend(m.replica, m.write) /\ UNCHANGED <<up, handlers>>
    BY <1>2 DEF HandleAdd
  <2> QED BY <1>b, <2>1, <2>2, ExtendEffect DEF HandlersOK
<1>3. ASSUME NEW c \in Coordinator, NEW r \in Replica, StartSync(c, r) PROVE HandlersOK'
  <2>1. PICK p \in Replica : peer' = [peer EXCEPT ![r] = p]
    BY <1>3 DEF StartSync
  <2>2. /\ r \in up /\ step[r] = "idle" /\ step' = [step EXCEPT ![r] = "log"]
        /\ UNCHANGED <<log, base, up, pending>>
        /\ attempts' = [attempts EXCEPT ![r] = 3]
    BY <1>3 DEF StartSync, Serves
  <2> QED BY <2>1, <2>2 DEF HandlersOK, TypeOK
<1>4. ASSUME NEW r \in Replica, FetchLog(r) PROVE HandlersOK'
  <2>1. step[r] = "log" /\ attempts[r] > 0 /\ UNCHANGED <<log, base, up, peer, attempts>>
    BY <1>4 DEF FetchLog
  <2>2. CASE /\ Len(log[r]) < base[peer[r]]
             /\ step' = [step EXCEPT ![r] = "snapshot"] /\ UNCHANGED pending
    BY <1>b, <2>1, <2>2 DEF HandlersOK, TypeOK
  <2>3. CASE /\ step' = [step EXCEPT ![r] = "apply"]
             /\ pending' = [pending EXCEPT ![r] = RecordsAfter(peer[r], Len(log[r]))]
    BY <1>b, <2>1, <2>3 DEF HandlersOK, TypeOK
  <2> QED BY <1>4, <2>2, <2>3 DEF FetchLog, Refuses
<1>5. ASSUME NEW r \in Replica, ApplyRecord(r) PROVE HandlersOK'
  <2>1. pending[r] \in Seq(Numbered) /\ pending[r] # <<>> /\ step[r] = "apply"
    BY <1>5 DEF TypeOK, ApplyRecord
  <2>2. Head(pending[r]) \in Numbered
    BY <2>1, HeadTailProperties
  <2>5. Head(pending[r]).write \in Write
    BY <2>2 DEF Numbered
  <2>3. /\ Extend(r, Head(pending[r]).write) /\ pending' = [pending EXCEPT ![r] = Tail(@)]
        /\ UNCHANGED <<up, step, peer, attempts>>
    BY <1>5 DEF ApplyRecord
  <2>4. \A q \in Replica : q # r => pending'[q] = pending[q]
    BY <2>3 DEF TypeOK
  <2>6. /\ Len(log'[r]) = Len(log[r]) + 1 /\ base'[r] \in {base[r], Len(log[r]) + 1}
        /\ base'[r] >= base[r]
        /\ \A q \in Replica : q # r => log'[q] = log[q] /\ base'[q] = base[q]
    BY <2>3, <2>5, ExtendEffect
  <2>7. \A q \in Replica : base'[q] <= Len(log'[q]) /\ base[q] <= base'[q]
    BY <1>b, <2>6 DEF HandlersOK
  <2> QED BY <1>b, <2>1, <2>3, <2>4, <2>6, <2>7 DEF HandlersOK
<1>6. ASSUME NEW r \in Replica, FetchSnapshot(r) PROVE HandlersOK'
  <2>1. /\ InstallFrom(r, peer[r]) /\ step' = [step EXCEPT ![r] = "log"]
        /\ attempts' = [attempts EXCEPT ![r] = @ - 1]
        /\ step[r] = "snapshot" /\ UNCHANGED <<up, peer, pending>>
    BY <1>6 DEF FetchSnapshot, InstallFrom
  <2>2. PICK top \in Nat :
           /\ base[peer[r]] <= top /\ top <= Len(log[peer[r]]) /\ Len(log[r]) < top
           /\ Len(log'[r]) = top /\ base'[r] = top /\ base'[peer[r]] = top
    BY <2>1, InstallEffect
  <2>3. /\ peer[r] # r /\ peer[r] \in Replica /\ \A q \in Replica : q # r => log'[q] = log[q]
        /\ \A q \in Replica : q \notin {r, peer[r]} => base'[q] = base[q]
    BY <2>1, InstallEffect DEF HandlersOK
  <2>4. \A q \in Replica : base'[q] <= Len(log'[q]) /\ base[q] <= base'[q]
    BY <1>b, <2>2, <2>3 DEF HandlersOK
  <2>5. /\ step'[r] = "log"
        /\ \A q \in Replica : q # r => step'[q] = step[q] /\ attempts'[q] = attempts[q]
    BY <2>1 DEF TypeOK
  <2> QED BY <1>b, <2>1, <2>3, <2>4, <2>5 DEF HandlersOK
<1>7. ASSUME NEW r \in Replica, NEW ok \in BOOLEAN, Return(r, ok), UNCHANGED replicas,
             up' \in {up, up \ {r}}
      PROVE  HandlersOK'
  <2>1. /\ \A q \in Replica : q # r => /\ step'[q] = step[q] /\ peer'[q] = peer[q]
                                      /\ pending'[q] = pending[q] /\ attempts'[q] = attempts[q]
        /\ step'[r] = "idle" /\ pending'[r] = <<>>
    BY <1>7, ReturnEffect
  <2> QED BY <1>7, <2>1 DEF HandlersOK
<1>8. ASSUME NEW r \in Replica, SyncDone(r) \/ SyncFails(r) \/ Crash(r) PROVE HandlersOK'
  BY <1>7, <1>8 DEF SyncDone, SyncFails, Crash
<1>9. ASSUME NEW r \in Replica, Restart(r) PROVE HandlersOK'
  BY <1>9 DEF Restart, HandlersOK
<1>10. ASSUME NEW r \in Replica, LoseDisk(r) PROVE HandlersOK'
  <2>1. /\ r \notin up /\ UNCHANGED <<up, step, peer, pending, attempts>>
        /\ log'[r] = <<>> /\ base'[r] = 0
        /\ \A q \in Replica : q # r => log'[q] = log[q] /\ base'[q] = base[q]
        /\ \A q \in Replica : peer[q] # r
    BY <1>10 DEF LoseDisk, TypeOK
  <2>2. Len(log'[r]) = 0
    BY <2>1, EmptySeq
  <2> QED BY <2>1, <2>2 DEF HandlersOK
<1> QED
  BY <1>1, <1>2, <1>3, <1>4, <1>5, <1>6, <1>8, <1>9, <1>10, ReplicaSteps

LEMMA CoordinatorsStep == BaseInv /\ [Next]_vars => CoordinatorsOK'
<1> SUFFICES ASSUME BaseInv, [Next]_vars PROVE CoordinatorsOK'
  OBVIOUS
<1>a. TypeOK /\ CoordinatorsOK
  BY DEF BaseInv
<1> USE <1>a, ConstantsAssumption DEF replicas, handlers
<1>b. \A c \in Coordinator, p \in Replica :
         UNCHANGED <<seen[c]>> => (IsSource(c, p)' <=> IsSource(c, p))
  BY DEF IsSource
\* A coordinator whose own state does not change ...
<1>c. ASSUME NEW c \in Coordinator,
             phase'[c] = phase[c], last_seqs'[c] = last_seqs[c], seen'[c] = seen[c],
             request'[c] = request[c], syncing'[c] = syncing[c],
             \A r \in Replica : calls'[c][r] = "sent" => calls[c][r] = "sent",
             syncing[c] # Nobody =>
                /\ step[syncing[c]] # "idle" => step'[syncing[c]] # "idle"
                /\ peer'[syncing[c]] = peer[syncing[c]]
      PROVE  CoordinatorOK(c)'
  BY <1>c DEF CoordinatorsOK, CoordinatorOK, IsSource
\* ... and one that leaves its method.
<1>d. ASSUME NEW c \in Coordinator, phase'[c] \in {"idle", "repair"}, syncing'[c] = Nobody,
             \A r \in Replica : calls'[c][r] # "sent"
      PROVE  CoordinatorOK(c)'
  BY <1>d DEF CoordinatorOK
\* Steps of one coordinator.
<1>e. ASSUME NEW c \in Coordinator, CoordinatorOK(c)', UNCHANGED handlers,
             \A d \in Coordinator : d # c =>
                /\ phase'[d] = phase[d] /\ last_seqs'[d] = last_seqs[d] /\ seen'[d] = seen[d]
                /\ request'[d] = request[d] /\ calls'[d] = calls[d] /\ syncing'[d] = syncing[d]
      PROVE  CoordinatorsOK'
  BY <1>c, <1>e DEF CoordinatorsOK
<1>f. ASSUME NEW c \in Coordinator, Leave(c), UNCHANGED handlers,
             \A d \in Coordinator : d # c => last_seqs'[d] = last_seqs[d]
      PROVE  CoordinatorsOK'
  <2>1. /\ phase'[c] = "idle" /\ syncing'[c] = Nobody /\ \A r \in Replica : calls'[c][r] = "none"
        /\ \A d \in Coordinator : d # c =>
                /\ phase'[d] = phase[d] /\ seen'[d] = seen[d]
                /\ request'[d] = request[d] /\ calls'[d] = calls[d] /\ syncing'[d] = syncing[d]
    BY <1>f DEF Leave, TypeOK, NoCalls
  <2> QED BY <1>d, <1>e, <1>f, <2>1
<1>1. ASSUME NEW c \in Coordinator, StartAdd(c) PROVE CoordinatorsOK'
  <2>1. CoordinatorOK(c)'
    BY <1>1 DEF StartAdd, CoordinatorsOK, CoordinatorOK, TypeOK, NoAnswers, Settled, Unknown
  <2> QED BY <1>1, <1>e, <2>1 DEF StartAdd, TypeOK
<1>2. ASSUME NEW c \in Coordinator, StartRepair(c) PROVE CoordinatorsOK'
  <2>1. CoordinatorOK(c)'
    BY <1>2 DEF StartRepair, CoordinatorsOK, CoordinatorOK, TypeOK
  <2> QED BY <1>2, <1>e, <2>1 DEF StartRepair, TypeOK
<1>3. ASSUME NEW c \in Coordinator, Checked(c) PROVE CoordinatorsOK'
  <2>1. PICK r \in Replica : last_seqs' = [last_seqs EXCEPT ![c] = seen[c][r]]
    BY <1>3 DEF Checked
  <2>2. CoordinatorOK(c)'
    BY <1>3, <2>1 DEF Checked, CoordinatorsOK, CoordinatorOK, TypeOK
  <2> QED BY <1>3, <1>e, <2>1, <2>2 DEF Checked, TypeOK
<1>4. ASSUME NEW c \in Coordinator, OutOfSync(c) PROVE CoordinatorsOK'
  BY <1>4, <1>f DEF OutOfSync
<1>5. ASSUME NEW c \in Coordinator, SendChunk(c) PROVE CoordinatorsOK'
  <2>1. CoordinatorOK(c)'
    BY <1>5 DEF SendChunk, CoordinatorsOK, CoordinatorOK, TypeOK, Write
  <2> QED BY <1>5, <1>e, <2>1 DEF SendChunk, TypeOK
<1>6. ASSUME NEW c \in Coordinator, ChunkDone(c) PROVE CoordinatorsOK'
  <2>1. UNCHANGED handlers /\ last_seqs' = [last_seqs EXCEPT ![c] = @ + 1]
    BY <1>6 DEF ChunkDone
  <2>2. CASE Leave(c)
    BY <1>f, <2>1, <2>2 DEF TypeOK
  <2>3. CASE phase' = [phase EXCEPT ![c] = "send"] /\ UNCHANGED <<seen, request, calls, syncing>>
    <3>1. /\ phase[c] = "wait" /\ last_seqs[c] \in Nat /\ \A r \in Replica : calls[c][r] # "sent"
      BY <1>6 DEF ChunkDone, AllAnswered, CoordinatorsOK, CoordinatorOK, TypeOK
    <3>2. CoordinatorOK(c)'
      BY <2>1, <2>3, <3>1 DEF CoordinatorsOK, CoordinatorOK, TypeOK, Unknown
    <3> QED BY <1>e, <2>1, <2>3, <3>2 DEF TypeOK
  <2> QED BY <1>6, <2>2, <2>3 DEF ChunkDone
<1>7. ASSUME NEW c \in Coordinator, ChunkFails(c) PROVE CoordinatorsOK'
  BY <1>7, <1>f DEF ChunkFails, TypeOK
<1>8. ASSUME NEW c \in Coordinator, Polled(c) PROVE CoordinatorsOK'
  <2>1. CoordinatorOK(c)'
    BY <1>8 DEF Polled, CoordinatorsOK, CoordinatorOK, TypeOK
  <2> QED BY <1>8, <1>e, <2>1 DEF Polled, TypeOK
<1>9. ASSUME NEW c \in Coordinator, RepairDone(c) PROVE CoordinatorsOK'
  BY <1>9, <1>f DEF RepairDone, TypeOK
<1>10. ASSUME NEW c \in Coordinator, NEW r \in Replica, Status(c, r) PROVE CoordinatorsOK'
  <2>1. Len(log[r]) \in Nat
    BY LogTypes
  <2>2. CoordinatorOK(c)'
    BY <1>10, <2>1 DEF Status, CoordinatorsOK, CoordinatorOK, TypeOK, Settled
  <2> QED BY <1>10, <1>e, <2>2 DEF Status, TypeOK
<1>11. ASSUME NEW c \in Coordinator, NEW r \in Replica, StartSync(c, r) PROVE CoordinatorsOK'
  <2>1. PICK p \in Replica : IsSource(c, p) /\ peer' = [peer EXCEPT ![r] = p]
    BY <1>11 DEF StartSync
  <2>2. /\ step[r] = "idle" /\ step' = [step EXCEPT ![r] = "log"]
        /\ phase[c] = "repair" /\ phase' = [phase EXCEPT ![c] = "sync"]
        /\ syncing' = [syncing EXCEPT ![c] = r]
        /\ UNCHANGED <<last_seqs, seen, request, calls>>
    BY <1>11 DEF StartSync, Serves
  <2>3. CoordinatorOK(c)'
    <3>1. syncing'[c] = r /\ peer'[r] = p /\ step'[r] = "log" /\ phase'[c] = "sync"
      BY <2>1, <2>2 DEF TypeOK
    <3>2. IsSource(c, p)'
      BY <2>1, <2>2 DEF IsSource
    <3> QED BY <2>2, <3>1, <3>2 DEF CoordinatorsOK, CoordinatorOK
  <2>4. ASSUME NEW d \in Coordinator, d # c PROVE CoordinatorOK(d)'
    <3>1. syncing[d] # r
      BY <2>2 DEF CoordinatorsOK, CoordinatorOK
    <3> QED BY <1>c, <2>1, <2>2, <2>4, <3>1 DEF TypeOK
  <2> QED BY <2>3, <2>4 DEF CoordinatorsOK
<1>12. ASSUME NEW m \in requests, HandleAdd(m) \/ RejectAdd(m) PROVE CoordinatorsOK'
  <2>1. PICK outcome \in {"ok", "failed"} : Answer(m, outcome)
    BY <1>12 DEF HandleAdd, RejectAdd
  <2>2. \A c \in Coordinator, r \in Replica : calls'[c][r] = "sent" => calls[c][r] = "sent"
    BY <2>1, AnswerEffect
  <2> QED BY <1>12, <1>c, <2>2 DEF HandleAdd, RejectAdd, CoordinatorsOK
<1>13. ASSUME NEW r \in Replica, FetchLog(r) \/ ApplyRecord(r) \/ FetchSnapshot(r)
       PROVE  CoordinatorsOK'
  <2>1. \A q \in Replica : step[q] # "idle" => step'[q] # "idle"
    BY <1>13 DEF FetchLog, ApplyRecord, FetchSnapshot, TypeOK
  <2>2. UNCHANGED <<coordinators, peer>>
    BY <1>13 DEF FetchLog, ApplyRecord, FetchSnapshot, InstallFrom
  <2> QED BY <1>c, <2>1, <2>2 DEF CoordinatorsOK, coordinators, TypeOK
<1>14. ASSUME NEW r \in Replica, NEW ok \in BOOLEAN, Return(r, ok), UNCHANGED <<last_seqs, request>>,
              \A c \in Coordinator, q \in Replica : calls'[c][q] = "sent" => calls[c][q] = "sent"
       PROVE  CoordinatorsOK'
  <2> SUFFICES ASSUME NEW c \in Coordinator PROVE CoordinatorOK(c)'
    BY DEF CoordinatorsOK
  <2>1. CASE syncing[c] # r
    <3>1. /\ phase'[c] = phase[c] /\ seen'[c] = seen[c] /\ syncing'[c] = syncing[c]
          /\ \A q \in Replica : q # r => step'[q] = step[q] /\ peer'[q] = peer[q]
      BY <1>14, <2>1, ReturnEffect
    <3>2. syncing[c] # Nobody => syncing[c] \in Replica
      BY DEF TypeOK
    <3> QED BY <1>c, <1>14, <2>1, <3>1, <3>2
  <2>2. CASE syncing[c] = r
    <3>1. phase'[c] \in {"repair", "idle"} /\ syncing'[c] = Nobody
      BY <1>14, <2>2, ReturnEffect
    <3>2. \A q \in Replica : calls'[c][q] # "sent"
      BY <1>14, <2>2 DEF CoordinatorsOK, CoordinatorOK
    <3> QED BY <1>d, <3>1, <3>2
  <2> QED BY <2>1, <2>2
<1>15. ASSUME NEW r \in Replica, SyncDone(r) PROVE CoordinatorsOK'
  BY <1>14, <1>15 DEF SyncDone
<1>16. ASSUME NEW r \in Replica, SyncFails(r) PROVE CoordinatorsOK'
  BY <1>14, <1>16 DEF SyncFails
<1>17. ASSUME NEW r \in Replica, Crash(r) PROVE CoordinatorsOK'
  <2>1. \A c \in Coordinator, q \in Replica : calls'[c][q] = "sent" => calls[c][q] = "sent"
    BY <1>17 DEF Crash, TypeOK
  <2> QED BY <1>14, <1>17, <2>1 DEF Crash
<1>18. ASSUME NEW r \in Replica, Restart(r) \/ LoseDisk(r) PROVE CoordinatorsOK'
  BY <1>18, <1>c DEF Restart, LoseDisk, coordinators, CoordinatorsOK
<1>19. ASSUME NEW c \in Coordinator, CheckFails(c) \/ RepairFails(c) PROVE CoordinatorsOK'
  BY <1>19, <1>f DEF CheckFails, RepairFails
<1>20. ASSUME NEW c \in Coordinator, CoordinatorDies(c) PROVE CoordinatorsOK'
  BY <1>20, <1>f DEF CoordinatorDies, TypeOK
<1>21. ASSUME NEW c \in Coordinator, NEW r \in Replica, CallFails(c, r) PROVE CoordinatorsOK'
  <2>1. \A d \in Coordinator, q \in Replica : calls'[d][q] = "sent" => calls[d][q] = "sent"
    BY <1>21 DEF CallFails, TypeOK
  <2> QED BY <1>21, <1>c, <2>1 DEF CallFails, CoordinatorsOK
<1>22. ASSUME NEW c \in Coordinator, NEW r \in Replica, Skip(c, r) PROVE CoordinatorsOK'
  <2>1. CoordinatorOK(c)'
    BY <1>22 DEF Skip, CoordinatorsOK, CoordinatorOK, TypeOK
  <2> QED BY <1>22, <1>e, <2>1 DEF Skip, TypeOK
<1>23. CASE UNCHANGED vars
  BY <1>23, <1>c DEF vars, coordinators, CoordinatorsOK
<1> QED
  BY <1>1, <1>2, <1>3, <1>4, <1>5, <1>6, <1>7, <1>8, <1>9, <1>10, <1>11, <1>12, <1>13,
     <1>15, <1>16, <1>17, <1>18, <1>19, <1>20, <1>21, <1>22, <1>23
  DEF Next, Starting, Proceeding, Answering, Handling, CatchingUp, Failing

\* What is left of a run of records after its first one is applied.
LEMMA TailRecords ==
    ASSUME NEW l \in Seq(Numbered), l # <<>>
    PROVE  /\ Head(l) = l[1] /\ Tail(l) \in Seq(Numbered) /\ Len(l) \in Nat \ {0}
           /\ Head(l) \in Numbered /\ Head(l).write \in Write
           /\ Len(Tail(l)) = Len(l) - 1 /\ \A i \in 1 .. Len(l) - 1 : Tail(l)[i] = l[i + 1]
<1>1. Head(l) \in Numbered /\ Tail(l) \in Seq(Numbered)
  BY HeadTailProperties
<1>2. Head(l).write \in Write
  BY <1>1 DEF Numbered
<1>3. Len(l) \in Nat \ {0} /\ Head(l) = l[1]
  BY LenProperties, EmptySeq
<1>4. Len(Tail(l)) = Len(l) - 1 /\ \A i \in 1 .. Len(l) - 1 : Tail(l)[i] = l[i + 1]
  BY <1>1, <1>3, HeadTailProperties
<1> QED BY <1>1, <1>2, <1>3, <1>4

LEMMA RecordsStep == BaseInv /\ [Next]_vars => RecordsFollow'
<1> SUFFICES ASSUME BaseInv, [Next]_vars PROVE RecordsFollow'
  OBVIOUS
<1>a. TypeOK /\ HandlersOK /\ RecordsFollow
  BY DEF BaseInv
<1> USE <1>a DEF replicas, handlers
\* A replica whose log and whose records do not change, or that has none.
<1>b. ASSUME NEW r \in Replica,
             \A q \in Replica : q # r => log'[q] = log[q] /\ pending'[q] = pending[q],
             \/ log'[r] = log[r] /\ pending'[r] = pending[r]
             \/ pending'[r] = <<>>
      PROVE  RecordsFollow'
  BY <1>b DEF RecordsFollow
<1>1. CASE UNCHANGED <<replicas, up, losses, handlers>>
  BY <1>1 DEF RecordsFollow
<1>2. ASSUME NEW m \in requests, HandleAdd(m) PROVE RecordsFollow'
  <2>1. m.replica \in Replica /\ m.write \in Write /\ step[m.replica] = "idle"
    BY <1>2 DEF TypeOK, HandleAdd, Accepts, Serves
  <2>2. Extend(m.replica, m.write) /\ UNCHANGED handlers
    BY <1>2 DEF HandleAdd
  <2>3. \A q \in Replica : q # m.replica => log'[q] = log[q]
    BY <2>1, <2>2, ExtendEffect
  <2> QED BY <1>b, <2>1, <2>2, <2>3 DEF HandlersOK
<1>3. ASSUME NEW c \in Coordinator, NEW r \in Replica, StartSync(c, r) PROVE RecordsFollow'
  BY <1>3 DEF StartSync, RecordsFollow
<1>4. ASSUME NEW r \in Replica, FetchLog(r) PROVE RecordsFollow'
  <2>1. step[r] = "log" /\ peer[r] \in Replica /\ Len(log[r]) \in Nat /\ base[peer[r]] \in Nat
    BY <1>4, LogTypes DEF FetchLog, HandlersOK
  <2>2. CASE UNCHANGED pending
    BY <1>4, <2>2 DEF FetchLog, RecordsFollow
  <2>3. CASE /\ base[peer[r]] <= Len(log[r])
             /\ pending' = [pending EXCEPT ![r] = RecordsAfter(peer[r], Len(log[r]))]
    <3> DEFINE n == Len(log[r])  p == peer[r]
    <3>1. RecordsAfter(p, n) = RecordsAbove(p, n)
      BY <2>1, <2>3 DEF RecordsAfter, Bigger
    <3>2. /\ RecordsAbove(p, n) \in Seq(Numbered)
          /\ \A i \in 1 .. Len(RecordsAbove(p, n)) : RecordsAbove(p, n)[i].seq = n + i
      BY <2>1, RecordsAboveType
    <3>3. pending'[r] = RecordsAbove(p, n) /\ \A q \in Replica : q # r => pending'[q] = pending[q]
      BY <2>3, <3>1 DEF TypeOK
    <3>4. UNCHANGED log
      BY <1>4 DEF FetchLog
    <3> HIDE DEF n, p
    <3>5. ASSUME RecordsAbove(p, n) # <<>>
          PROVE  /\ Head(RecordsAbove(p, n)).seq = n + 1
                 /\ \A i \in 1 .. Len(RecordsAbove(p, n)) - 1 :
                       RecordsAbove(p, n)[i + 1].seq = RecordsAbove(p, n)[i].seq + 1
      <4>1. Len(RecordsAbove(p, n)) \in Nat \ {0} /\ Head(RecordsAbove(p, n)) = RecordsAbove(p, n)[1]
        BY <3>2, <3>5, TailRecords
      <4>2. n \in Nat
        BY <2>1 DEF n
      <4>3. RecordsAbove(p, n)[1].seq = n + 1
        BY <3>2, <4>1
      <4>4. ASSUME NEW i \in 1 .. Len(RecordsAbove(p, n)) - 1
            PROVE  RecordsAbove(p, n)[i + 1].seq = RecordsAbove(p, n)[i].seq + 1
        <5>1. i \in 1 .. Len(RecordsAbove(p, n)) /\ i + 1 \in 1 .. Len(RecordsAbove(p, n))
          BY <4>1
        <5>2. RecordsAbove(p, n)[i].seq = n + i /\ RecordsAbove(p, n)[i + 1].seq = n + (i + 1)
          BY <3>2, <5>1
        <5> QED BY <4>1, <4>2, <5>2
      <4> QED BY <4>1, <4>3, <4>4
    <3> QED BY <3>3, <3>4, <3>5 DEF RecordsFollow, n
  <2> QED BY <1>4, <2>1, <2>2, <2>3 DEF FetchLog, Refuses
<1>5. ASSUME NEW r \in Replica, ApplyRecord(r) PROVE RecordsFollow'
  <2>1. pending[r] \in Seq(Numbered) /\ pending[r] # <<>>
    BY <1>5 DEF TypeOK, ApplyRecord
  <2>2. /\ Extend(r, Head(pending[r]).write) /\ pending' = [pending EXCEPT ![r] = Tail(@)]
        /\ Head(pending[r]).write \in Write
    BY <1>5, <2>1, TailRecords DEF ApplyRecord
  <2>3. /\ Len(log'[r]) = Len(log[r]) + 1 /\ Len(log[r]) \in Nat
        /\ \A q \in Replica : q # r => log'[q] = log[q]
    BY <2>2, ExtendEffect, LogTypes
  <2>4. pending'[r] = Tail(pending[r]) /\ \A q \in Replica : q # r => pending'[q] = pending[q]
    BY <2>2 DEF TypeOK
  <2>5. /\ pending[r][1].seq = Len(log[r]) + 1
        /\ \A i \in 1 .. Len(pending[r]) - 1 : pending[r][i + 1].seq = pending[r][i].seq + 1
    BY <2>1, TailRecords DEF RecordsFollow
  <2>6. ASSUME Tail(pending[r]) # <<>>
        PROVE  /\ Head(Tail(pending[r])).seq = Len(log'[r]) + 1
               /\ \A i \in 1 .. Len(Tail(pending[r])) - 1 :
                     Tail(pending[r])[i + 1].seq = Tail(pending[r])[i].seq + 1
    <3> DEFINE t == Tail(pending[r])
    <3>1. /\ t \in Seq(Numbered) /\ Len(t) = Len(pending[r]) - 1
          /\ Len(pending[r]) \in Nat
          /\ \A i \in 1 .. Len(pending[r]) - 1 : t[i] = pending[r][i + 1]
      BY <2>1, TailRecords
    <3>2. Head(t) = t[1] /\ Len(t) \in Nat \ {0}
      BY <2>6, <3>1, TailRecords
    <3> HIDE DEF t
    <3>3. Head(t).seq = Len(log'[r]) + 1
      <4>1. Len(pending[r]) - 1 = Len(t)
        BY <3>1
      <4>2. 1 \in 1 .. Len(t)
        BY <3>2
      <4>3. t[1] = pending[r][1 + 1] /\ pending[r][1 + 1].seq = pending[r][1].seq + 1
        BY <2>5, <3>1, <4>1, <4>2
      <4> QED BY <2>3, <2>5, <3>2, <4>3
    <3>4. \A i \in 1 .. Len(t) - 1 : t[i + 1].seq = t[i].seq + 1
      BY <2>5, <3>1, <3>2
    <3> QED BY <3>3, <3>4 DEF t
  <2>7. ASSUME NEW q \in Replica, pending'[q] # <<>>
        PROVE  /\ Head(pending'[q]).seq = Len(log'[q]) + 1
               /\ \A i \in 1 .. Len(pending'[q]) - 1 : pending'[q][i + 1].seq = pending'[q][i].seq + 1
    <3>1. CASE q = r
      BY <2>4, <2>6, <2>7, <3>1
    <3>2. CASE q # r
      BY <2>3, <2>4, <2>7, <3>2 DEF RecordsFollow
    <3> QED BY <3>1, <3>2
  <2> QED BY <2>7 DEF RecordsFollow
<1>6. ASSUME NEW r \in Replica, FetchSnapshot(r) PROVE RecordsFollow'
  <2>1. InstallFrom(r, peer[r]) /\ step[r] = "snapshot" /\ UNCHANGED pending
    BY <1>6 DEF FetchSnapshot, InstallFrom
  <2>2. \A q \in Replica : q # r => log'[q] = log[q]
    BY <2>1, InstallEffect
  <2> QED BY <1>b, <2>1, <2>2 DEF HandlersOK
<1>7. ASSUME NEW r \in Replica, NEW ok \in BOOLEAN, Return(r, ok), UNCHANGED replicas
      PROVE  RecordsFollow'
  BY <1>7, <1>b, ReturnEffect
<1>8. ASSUME NEW r \in Replica, SyncDone(r) \/ SyncFails(r) \/ Crash(r) PROVE RecordsFollow'
  BY <1>7, <1>8 DEF SyncDone, SyncFails, Crash
<1>9. ASSUME NEW r \in Replica, Restart(r) PROVE RecordsFollow'
  BY <1>9 DEF Restart, RecordsFollow
<1>10. ASSUME NEW r \in Replica, LoseDisk(r) PROVE RecordsFollow'
  <2>1. /\ pending[r] = <<>> /\ UNCHANGED pending
        /\ \A q \in Replica : q # r => log'[q] = log[q]
    BY <1>10 DEF LoseDisk, TypeOK, HandlersOK
  <2> QED BY <1>b, <2>1
<1> QED
  BY <1>1, <1>2, <1>3, <1>4, <1>5, <1>6, <1>8, <1>9, <1>10, ReplicaSteps

LEMMA BaseInit == Init => BaseInv
<1> SUFFICES ASSUME Init PROVE HandlersOK /\ CoordinatorsOK /\ RecordsFollow
  BY TypeInit DEF BaseInv
<1>1. Len(<<>>) = 0
  BY EmptySeq
<1> QED BY <1>1, ConstantsAssumption
        DEF Init, HandlersOK, CoordinatorsOK, CoordinatorOK, RecordsFollow, NoCalls

LEMMA BaseStep == BaseInv /\ [Next]_vars => BaseInv'
BY TypeStep, HandlersStep, CoordinatorsStep, RecordsStep DEF BaseInv

\* The handlers, the coordinators and the records under way, whatever fails.
THEOREM BaseInvariant == Spec => []BaseInv
BY BaseInit, BaseStep, PTL DEF Spec

\* Every variable of the replicas, the coordinators and the network keeps its type.
THEOREM TypeCorrect == Spec => []TypeOK
<1>1. BaseInv => TypeOK
  BY DEF BaseInv
<1> QED BY <1>1, BaseInvariant, PTL

\* Whatever is written, checkpointed, repaired, crashes or is lost meanwhile, the
\* records catch_up received from FetchLog continue the log of the replica they
\* are for: apply_record never meets OutOfOrderWrite.
THEOREM RecordsAlwaysFollow == Spec => []RecordsFollow
<1>1. BaseInv => RecordsFollow
  BY DEF BaseInv
<1> QED BY <1>1, BaseInvariant, PTL

-----------------------------------------------------------------------------
(***************************************************************************)
(* Requests on their way, when none outlives the call that sent it.        *)
(***************************************************************************)
OneWriter ==
    \A c, d \in Coordinator : phase[c] \in Writing /\ phase[d] \in Writing => c = d

IsWaitedFor(m, c) ==
    phase[c] = "wait" /\ calls[c][m.replica] = "sent" /\ m = Sent(c, m.replica)

NoStragglers == \A m \in requests : \E c \in Coordinator : IsWaitedFor(m, c)

NetworkInv == OneWriter /\ (~Stragglers => NoStragglers)

LEMMA WriterStep == BaseInv /\ OneWriter /\ [Next]_vars => OneWriter'
<1> SUFFICES ASSUME BaseInv, OneWriter, [Next]_vars PROVE OneWriter'
  OBVIOUS
<1>a. TypeOK /\ CoordinatorsOK
  BY DEF BaseInv
<1> USE <1>a DEF coordinators
\* Only add() starts to write.
<1>1. ASSUME NEW c \in Coordinator, StartAdd(c) PROVE OneWriter'
  BY <1>1 DEF StartAdd, OneWriter, TypeOK, Writing
<1>2. ASSUME \A d \in Coordinator : phase'[d] \in Writing => phase[d] \in Writing PROVE OneWriter'
  BY <1>2 DEF OneWriter
<1>3. ASSUME NEW c \in Coordinator,
             \/ StartRepair(c) \/ Checked(c) \/ OutOfSync(c) \/ SendChunk(c) \/ ChunkDone(c)
             \/ ChunkFails(c) \/ Polled(c) \/ RepairDone(c)
             \/ CheckFails(c) \/ RepairFails(c) \/ CoordinatorDies(c)
      PROVE  OneWriter'
  <2>1. \A d \in Coordinator : phase'[d] \in Writing => phase[d] \in Writing
    BY <1>3 DEF StartRepair, Checked, OutOfSync, SendChunk, ChunkDone, AllAnswered, ChunkFails, Polled,
                RepairDone, CheckFails, RepairFails, CoordinatorDies, Leave, TypeOK, Writing
  <2> QED BY <1>2, <2>1
<1>4. ASSUME NEW c \in Coordinator, NEW r \in Replica, StartSync(c, r) PROVE OneWriter'
  <2>1. \A d \in Coordinator : phase'[d] \in Writing => phase[d] \in Writing
    BY <1>4 DEF StartSync, TypeOK, Writing
  <2> QED BY <1>2, <2>1
<1>5. ASSUME NEW r \in Replica, SyncDone(r) \/ SyncFails(r) \/ Crash(r) PROVE OneWriter'
  <2>1. PICK ok \in BOOLEAN : Return(r, ok)
    BY <1>5 DEF SyncDone, SyncFails, Crash
  <2>2. \A d \in Coordinator : phase'[d] \in Writing => phase[d] \in Writing
    BY <2>1, ReturnEffect DEF Writing
  <2> QED BY <1>2, <2>2
<1>6. CASE UNCHANGED phase
  BY <1>2, <1>6
<1>7. ASSUME NEW c \in Coordinator, NEW r \in Replica, Status(c, r) \/ CallFails(c, r) \/ Skip(c, r)
      PROVE  OneWriter'
  BY <1>6, <1>7 DEF Status, CallFails, Skip
<1>8. ASSUME NEW r \in Replica, \/ Handling(r) \/ FetchLog(r) \/ ApplyRecord(r) \/ FetchSnapshot(r)
                               \/ Restart(r) \/ LoseDisk(r)
      PROVE  OneWriter'
  BY <1>6, <1>8
     DEF Handling, HandleAdd, RejectAdd, FetchLog, ApplyRecord, FetchSnapshot, InstallFrom, Restart,
         LoseDisk
<1>9. CASE UNCHANGED vars
  BY <1>6, <1>9 DEF vars
<1> QED
  BY <1>1, <1>3, <1>4, <1>5, <1>7, <1>8, <1>9
  DEF Next, Starting, Proceeding, Answering, CatchingUp, Failing

LEMMA StragglersStep ==
    ASSUME ~Stragglers, BaseInv, OneWriter, NoStragglers, [Next]_vars
    PROVE  NoStragglers'
<1>a. TypeOK /\ CoordinatorsOK
  BY DEF BaseInv
<1> USE <1>a DEF coordinators
<1>b. ASSUME requests' \subseteq requests,
             \A m \in requests', c \in Coordinator :
                IsWaitedFor(m, c) => /\ phase'[c] = phase[c] /\ request'[c] = request[c]
                                    /\ calls'[c][m.replica] = "sent"
      PROVE  NoStragglers'
  <2> SUFFICES ASSUME NEW m \in requests' PROVE \E c \in Coordinator : IsWaitedFor(m, c)'
    BY DEF NoStragglers
  <2>1. PICK c \in Coordinator : IsWaitedFor(m, c)
    BY <1>b DEF NoStragglers
  <2>2. /\ phase'[c] = phase[c] /\ request'[c] = request[c] /\ calls'[c][m.replica] = "sent"
    BY <1>b, <2>1
  <2>3. IsWaitedFor(m, c)'
    BY <2>1, <2>2 DEF IsWaitedFor, Sent
  <2> QED BY <2>3
\* A step of a coordinator that waits for no answer.
<1>c. ASSUME NEW c \in Coordinator, \A m \in requests' : ~IsWaitedFor(m, c),
             requests' \subseteq requests,
             \A d \in Coordinator : d # c =>
                phase'[d] = phase[d] /\ request'[d] = request[d] /\ calls'[d] = calls[d]
      PROVE  NoStragglers'
  BY <1>b, <1>c DEF IsWaitedFor
<1>1. ASSUME NEW c \in Coordinator,
             \/ StartAdd(c) \/ StartRepair(c) \/ Checked(c) \/ OutOfSync(c) \/ Polled(c)
             \/ RepairDone(c) \/ CheckFails(c) \/ RepairFails(c)
      PROVE  NoStragglers'
  <2>1. phase[c] # "wait" /\ requests' = requests
    BY <1>1 DEF StartAdd, StartRepair, Checked, OutOfSync, Polled, RepairDone, CheckFails, RepairFails
  <2>2. \A d \in Coordinator : d # c =>
           phase'[d] = phase[d] /\ request'[d] = request[d] /\ calls'[d] = calls[d]
    BY <1>1 DEF StartAdd, StartRepair, Checked, OutOfSync, Polled, RepairDone, CheckFails, RepairFails,
                Leave, TypeOK
  <2> QED BY <1>c, <2>1, <2>2 DEF IsWaitedFor
<1>2. ASSUME NEW c \in Coordinator, ChunkDone(c) \/ ChunkFails(c) PROVE NoStragglers'
  <2>1. requests' = requests /\ \A r \in Replica : calls[c][r] # "sent"
    BY <1>2 DEF ChunkDone, ChunkFails, AllAnswered
  <2>2. \A d \in Coordinator : d # c =>
           phase'[d] = phase[d] /\ request'[d] = request[d] /\ calls'[d] = calls[d]
    BY <1>2 DEF ChunkDone, ChunkFails, Leave, TypeOK
  <2>3. \A m \in requests' : m.replica \in Replica
    BY <2>1 DEF TypeOK
  <2> QED BY <1>c, <2>1, <2>2, <2>3 DEF IsWaitedFor
<1>3. ASSUME NEW c \in Coordinator, SendChunk(c) PROVE NoStragglers'
  <2>1. /\ phase[c] = "send" /\ phase' = [phase EXCEPT ![c] = "wait"]
        /\ request' = [request EXCEPT ![c] = [seq |-> last_seqs[c] + 1, write |-> sent']]
        /\ calls' = [calls EXCEPT ![c] = [r \in Replica |-> "sent"]]
        /\ requests' = requests \cup {[replica |-> r, seq |-> last_seqs[c] + 1, write |-> sent'] :
                                        r \in Replica}
    BY <1>3 DEF SendChunk
  <2>2. ASSUME NEW m \in requests PROVE \E d \in Coordinator : IsWaitedFor(m, d)'
    <3>1. PICK d \in Coordinator : IsWaitedFor(m, d)
      BY DEF NoStragglers
    <3>2. d # c
      BY <2>1, <3>1 DEF IsWaitedFor
    <3>3. phase'[d] = phase[d] /\ request'[d] = request[d] /\ calls'[d] = calls[d]
      BY <2>1, <3>2 DEF TypeOK
    <3>4. IsWaitedFor(m, d)'
      BY <3>1, <3>3 DEF IsWaitedFor, Sent
    <3> QED BY <3>4
  <2>3. ASSUME NEW r \in Replica, NEW m,
               m = [replica |-> r, seq |-> last_seqs[c] + 1, write |-> sent']
        PROVE  IsWaitedFor(m, c)'
    <3>1. /\ phase'[c] = "wait" /\ calls'[c][r] = "sent"
          /\ request'[c] = [seq |-> last_seqs[c] + 1, write |-> sent']
      BY <2>1 DEF TypeOK
    <3> QED BY <2>3, <3>1 DEF IsWaitedFor, Sent
  <2> SUFFICES ASSUME NEW m \in requests' PROVE \E d \in Coordinator : IsWaitedFor(m, d)'
    BY DEF NoStragglers
  <2> QED BY <2>1, <2>2, <2>3
<1>4. ASSUME NEW c \in Coordinator, NEW r \in Replica, CallFails(c, r) PROVE NoStragglers'
  <2>1. /\ requests' = requests \ {Sent(c, r)} /\ UNCHANGED <<phase, request>>
        /\ calls' = [calls EXCEPT ![c][r] = "failed"]
    BY <1>4 DEF CallFails, Abandon
  <2>2. ASSUME NEW m \in requests', NEW d \in Coordinator, IsWaitedFor(m, d)
        PROVE  calls'[d][m.replica] = "sent"
    <3>1. ~(d = c /\ m.replica = r)
      BY <2>1, <2>2 DEF IsWaitedFor
    <3> QED BY <2>1, <2>2, <3>1 DEF IsWaitedFor, TypeOK
  <2> QED BY <1>b, <2>1, <2>2
<1>5. ASSUME NEW c \in Coordinator, CoordinatorDies(c) PROVE NoStragglers'
  <2>1. requests' = requests \ {Sent(c, r) : r \in {q \in Replica : calls[c][q] = "sent"}}
    BY <1>5 DEF CoordinatorDies, Abandon
  <2>2. \A m \in requests' : ~IsWaitedFor(m, c)
    BY <2>1 DEF IsWaitedFor, TypeOK
  <2>3. \A d \in Coordinator : d # c =>
           phase'[d] = phase[d] /\ request'[d] = request[d] /\ calls'[d] = calls[d]
    BY <1>5 DEF CoordinatorDies, Leave, TypeOK
  <2> QED BY <1>c, <2>1, <2>2, <2>3
<1>6. ASSUME NEW m \in requests, HandleAdd(m) \/ RejectAdd(m) PROVE NoStragglers'
  <2>1. requests' = requests \ {m} /\ UNCHANGED <<phase, request>>
    BY <1>6 DEF HandleAdd, RejectAdd
  <2>2. PICK outcome \in {"ok", "failed"} : Answer(m, outcome)
    BY <1>6 DEF HandleAdd, RejectAdd
  <2>3. PICK c \in Coordinator : IsWaitedFor(m, c)
    BY DEF NoStragglers
  <2>4. ASSUME NEW n \in requests', NEW d \in Coordinator, IsWaitedFor(n, d)
        PROVE  calls'[d][n.replica] = "sent"
    <3>1. d = c
      BY <2>3, <2>4 DEF IsWaitedFor, OneWriter, Writing
    <3>2. n.replica # m.replica
      BY <2>1, <2>3, <2>4, <3>1 DEF IsWaitedFor
    <3>3. n.replica \in Replica /\ calls[d][n.replica] = "sent"
      BY <2>1, <2>4 DEF TypeOK, IsWaitedFor
    <3> QED BY <2>2, <3>2, <3>3, AnswerEffect
  <2> QED BY <1>b, <2>1, <2>4
<1>7. ASSUME NEW r \in Replica, Crash(r) PROVE NoStragglers'
  <2>1. /\ requests' = {m \in requests : m.replica # r} /\ UNCHANGED request /\ Return(r, FALSE)
        /\ calls' = [c \in Coordinator |->
                       IF calls[c][r] = "sent" THEN [calls[c] EXCEPT ![r] = "failed"] ELSE calls[c]]
    BY <1>7 DEF Crash
  <2>2. ASSUME NEW m \in requests', NEW c \in Coordinator, IsWaitedFor(m, c)
        PROVE  phase'[c] = phase[c] /\ calls'[c][m.replica] = "sent"
    <3>1. syncing[c] # r
      BY <2>2, ConstantsAssumption DEF IsWaitedFor, CoordinatorsOK, CoordinatorOK
    <3>2. phase'[c] = phase[c]
      BY <2>1, <3>1, ReturnEffect
    <3>3. m.replica # r
      BY <2>1
    <3> QED BY <2>1, <2>2, <3>2, <3>3 DEF IsWaitedFor, TypeOK
  <2> QED BY <1>b, <2>1, <2>2
<1>8. ASSUME NEW r \in Replica, SyncDone(r) \/ SyncFails(r) PROVE NoStragglers'
  <2>1. PICK ok \in BOOLEAN : Return(r, ok) /\ UNCHANGED <<request, calls, requests>>
    BY <1>8 DEF SyncDone, SyncFails
  <2>2. ASSUME NEW c \in Coordinator, phase[c] = "wait" PROVE phase'[c] = phase[c]
    <3>1. syncing[c] # r
      BY <2>2, ConstantsAssumption DEF CoordinatorsOK, CoordinatorOK
    <3> QED BY <2>1, <3>1, ReturnEffect
  <2> QED BY <1>b, <2>1, <2>2 DEF IsWaitedFor
<1>9. ASSUME NEW c \in Coordinator, NEW r \in Replica, StartSync(c, r) PROVE NoStragglers'
  <2>1. /\ phase[c] = "repair" /\ UNCHANGED <<request, calls, requests>>
        /\ \A d \in Coordinator : d # c => phase'[d] = phase[d]
    BY <1>9 DEF StartSync, TypeOK
  <2> QED BY <1>c, <2>1 DEF IsWaitedFor
<1>10. CASE UNCHANGED <<phase, request, calls, requests>>
  BY <1>b, <1>10 DEF IsWaitedFor
<1>11. ASSUME NEW c \in Coordinator, NEW r \in Replica, Status(c, r) \/ Skip(c, r) PROVE NoStragglers'
  BY <1>10, <1>11 DEF Status, Skip
<1>12. ASSUME NEW r \in Replica, \/ FetchLog(r) \/ ApplyRecord(r) \/ FetchSnapshot(r)
                                \/ Restart(r) \/ LoseDisk(r)
       PROVE  NoStragglers'
  BY <1>10, <1>12 DEF FetchLog, ApplyRecord, FetchSnapshot, InstallFrom, Restart, LoseDisk
<1>13. CASE UNCHANGED vars
  BY <1>10, <1>13 DEF vars
<1> QED
  BY <1>1, <1>2, <1>3, <1>4, <1>5, <1>6, <1>7, <1>8, <1>9, <1>11, <1>12, <1>13
  DEF Next, Starting, Proceeding, Answering, Handling, CatchingUp, Failing

-----------------------------------------------------------------------------
(***************************************************************************)
(* The histories of the replicas, when no disk is lost, no request         *)
(* outlives its call, and no caller writes from a position it has not      *)
(* checked since another one wrote.                                        *)
(***************************************************************************)
Safe ==
    /\ MaxLosses = 0 /\ ~Stragglers
    /\ CallersRefresh \/ \A c, d \in Coordinator : c = d

\* The records on their way to a replica are those of its peer.
PendingCopies ==
    \A r \in Replica : \A i \in 1 .. Len(pending[r]) :
        /\ pending[r][i].seq \in 1 .. Len(log[peer[r]])
        /\ pending[r][i].write = log[peer[r]][pending[r][i].seq]

\* No replica forgets what it reported.
SeenOK == \A c \in Coordinator, r \in Replica : seen[c][r] <= Len(log[r])

Level(n) == \A r \in Replica : Len(log[r]) = n

\* The replica that has the chunk c waits for, or does not have it yet.
InFlight(c, r) ==
    \/ Len(log[r]) = last_seqs[c] /\ calls[c][r] # "ok"
    \/ Len(log[r]) = last_seqs[c] + 1 /\ log[r][last_seqs[c] + 1] = request[c].write

\* A coordinator that asks for positions will not agree on less than the most
\* advanced one; one that knows a position knows that of every replica, before
\* it sends a chunk, and between two adds if it keeps it.
PositionOK(c) ==
    /\ phase[c] = "check" =>
          \E r \in Replica : MostAdvanced(r) /\ seen[c][r] \in {Unknown, Len(log[r])}
    /\ phase[c] = "send" => Level(last_seqs[c])
    /\ ~CallersRefresh /\ phase[c] \notin Writing /\ last_seqs[c] # Unknown
          => Level(last_seqs[c])
    /\ phase[c] = "wait" => \A r \in Replica : InFlight(c, r)

PositionsOK == \A c \in Coordinator : PositionOK(c)

AckedEverywhere == \A a \in acked, r \in Replica : Holds(r, a)

\* A handler that has received the records will end up with all that the
\* repair saw.
SyncingOK ==
    \A c \in Coordinator, r \in Replica :
        syncing[c] = r /\ step[r] = "apply" =>
            \A q \in Replica : seen[c][q] <= Len(log[r]) + Len(pending[r])

HistoryInv == /\ SameNumberSameWrite /\ PendingCopies /\ SeenOK /\ PositionsOK
              /\ AckedEverywhere /\ SyncingOK

IInv == Safe /\ BaseInv /\ NetworkInv /\ HistoryInv

Grown ==
    \A q \in Replica : /\ Len(log[q]) <= Len(log'[q])
                       /\ \A i \in 1 .. Len(log[q]) : log'[q][i] = log[q][i]

\* r takes over the first k writes of p, which go beyond its own.
Copies(r, p, k) ==
    /\ Len(log[r]) <= k /\ k <= Len(log[p]) /\ Len(log'[r]) = k
    /\ \A i \in 1 .. k : log'[r][i] = log[p][i]
    /\ \A q \in Replica : q # r => log'[q] = log[q]

\* A chunk c waits for reaches a replica.
Reaches(m, c) ==
    /\ IsWaitedFor(m, c) /\ m.replica \in Replica
    /\ Len(log[m.replica]) = last_seqs[c] /\ Len(log'[m.replica]) = last_seqs[c] + 1
    /\ log'[m.replica][last_seqs[c] + 1] = request[c].write
    /\ \A i \in 1 .. last_seqs[c] : log'[m.replica][i] = log[m.replica][i]
    /\ \A q \in Replica : q # m.replica => log'[q] = log[q]

LEMMA AddReaches ==
    ASSUME BaseInv, NoStragglers, NEW m \in requests, HandleAdd(m)
    PROVE  \E c \in Coordinator : Reaches(m, c)
<1>1. TypeOK /\ HandlersOK /\ CoordinatorsOK /\ NoStragglers
  BY DEF BaseInv
<1>2. PICK c \in Coordinator : IsWaitedFor(m, c)
  BY <1>1 DEF NoStragglers
<1>3. m.replica \in Replica /\ m.write \in Write /\ m.seq = Len(log[m.replica]) + 1
  BY <1>1 DEF TypeOK, HandleAdd, Accepts
<1>4. m.seq = last_seqs[c] + 1 /\ m.write = request[c].write /\ last_seqs[c] \in Nat
  BY <1>1, <1>2 DEF IsWaitedFor, Sent, CoordinatorsOK, CoordinatorOK, TypeOK
<1>5. Len(log[m.replica]) = last_seqs[c]
  BY <1>1, <1>3, <1>4, LogTypes
<1>6. Extend(m.replica, m.write)
  BY DEF HandleAdd
<1>7. /\ Len(log'[m.replica]) = last_seqs[c] + 1
      /\ log'[m.replica][last_seqs[c] + 1] = m.write
      /\ \A i \in 1 .. last_seqs[c] : log'[m.replica][i] = log[m.replica][i]
      /\ \A q \in Replica : q # m.replica => log'[q] = log[q]
  BY <1>1, <1>3, <1>5, <1>6, ExtendEffect
<1> QED BY <1>2, <1>3, <1>4, <1>5, <1>7 DEF Reaches

LEMMA ApplyCopies ==
    ASSUME IInv, NEW r \in Replica, ApplyRecord(r)
    PROVE  peer[r] \in Replica /\ Copies(r, peer[r], Len(log[r]) + 1)
<1>1. TypeOK /\ HandlersOK /\ RecordsFollow /\ PendingCopies /\ SameNumberSameWrite
  BY DEF IInv, BaseInv, HistoryInv
<1>2. /\ step[r] = "apply" /\ pending[r] \in Seq(Numbered) /\ pending[r] # <<>>
      /\ peer[r] \in Replica /\ Extend(r, Head(pending[r]).write)
      /\ Head(pending[r]).seq = Len(log[r]) + 1
  BY <1>1 DEF ApplyRecord, HandlersOK, TypeOK
<1>3. Head(pending[r]) = pending[r][1] /\ 1 \in 1 .. Len(pending[r]) /\ Head(pending[r]).write \in Write
  <2>1. Head(pending[r]) = pending[r][1] /\ Head(pending[r]).write \in Write
        /\ Len(pending[r]) \in Nat \ {0}
    BY <1>2, TailRecords
  <2> QED BY <2>1
<1>4. /\ Len(log[r]) + 1 \in 1 .. Len(log[peer[r]])
      /\ Head(pending[r]).write = log[peer[r]][Len(log[r]) + 1]
  BY <1>1, <1>2, <1>3 DEF PendingCopies
<1>5. Len(log[r]) \in Nat /\ Len(log[peer[r]]) \in Nat
  BY <1>1, <1>2, LogTypes
<1>6. /\ Len(log'[r]) = Len(log[r]) + 1 /\ log'[r][Len(log[r]) + 1] = Head(pending[r]).write
      /\ \A i \in 1 .. Len(log[r]) : log'[r][i] = log[r][i]
      /\ \A q \in Replica : q # r => log'[q] = log[q]
  BY <1>1, <1>2, <1>3, ExtendEffect
<1>7. ASSUME NEW i \in 1 .. Len(log[r]) + 1 PROVE log'[r][i] = log[peer[r]][i]
  <2>1. CASE i = Len(log[r]) + 1
    BY <1>4, <1>6, <2>1
  <2>2. CASE i \in 1 .. Len(log[r])
    <3>1. i <= Len(log[peer[r]])
      BY <1>4, <1>5, <2>2
    <3>2. log[r][i] = log[peer[r]][i]
      BY <1>1, <1>2, <2>2, <3>1 DEF SameNumberSameWrite
    <3> QED BY <1>6, <2>2, <3>2
  <2>3. i = Len(log[r]) + 1 \/ i \in 1 .. Len(log[r])
    BY <1>5
  <2> QED BY <2>1, <2>2, <2>3
<1>8. Len(log[r]) <= Len(log[r]) + 1 /\ Len(log[r]) + 1 <= Len(log[peer[r]])
  BY <1>4, <1>5
<1> QED BY <1>2, <1>6, <1>7, <1>8 DEF Copies

LEMMA InstallCopies ==
    ASSUME BaseInv, NEW r \in Replica, FetchSnapshot(r)
    PROVE  /\ peer[r] \in Replica
           /\ \E k \in Nat : Copies(r, peer[r], k) /\ Len(log[r]) < k
<1>1. TypeOK /\ HandlersOK
  BY DEF BaseInv
<1>2. InstallFrom(r, peer[r]) /\ step[r] = "snapshot" /\ peer[r] \in Replica
  BY <1>1 DEF FetchSnapshot, InstallFrom, HandlersOK
<1>3. PICK top \in Nat :
         /\ top <= Len(log[peer[r]]) /\ Len(log[r]) < top /\ Len(log'[r]) = top
         /\ \A i \in 1 .. top : log'[r][i] = log[peer[r]][i]
  BY <1>1, <1>2, InstallEffect
<1>4. \A q \in Replica : q # r => log'[q] = log[q]
  BY <1>1, <1>2, InstallEffect
<1>5. Len(log[r]) \in Nat
  BY <1>1, LogTypes
<1>6. Copies(r, peer[r], top)
  BY <1>3, <1>4, <1>5 DEF Copies
<1> QED BY <1>2, <1>3, <1>6

\* A log stays as it is, receives the chunk in flight, or catches up.
LEMMA LogSteps ==
    ASSUME IInv, [Next]_vars
    PROVE  \/ UNCHANGED log
           \/ \E m \in requests, c \in Coordinator : HandleAdd(m) /\ Reaches(m, c)
           \/ /\ \E r, p \in Replica, k \in Nat : Copies(r, p, k)
              /\ UNCHANGED <<coordinators, requests, sent, acked>>
<1>1. CASE UNCHANGED <<replicas, up, losses, handlers>>
  BY <1>1 DEF replicas
<1>2. ASSUME NEW m \in requests, HandleAdd(m)
      PROVE  \E c \in Coordinator : HandleAdd(m) /\ Reaches(m, c)
  BY <1>2, AddReaches DEF IInv, NetworkInv, Safe
<1>3. ASSUME NEW c \in Coordinator, NEW r \in Replica, StartSync(c, r) PROVE UNCHANGED log
  BY <1>3 DEF StartSync, replicas
<1>4. ASSUME NEW r \in Replica, \/ FetchLog(r) \/ SyncDone(r) \/ SyncFails(r) \/ Crash(r)
                               \/ Restart(r)
      PROVE  UNCHANGED log
  BY <1>4 DEF FetchLog, SyncDone, SyncFails, Crash, Restart, replicas
<1>5. ASSUME NEW r \in Replica, ApplyRecord(r)
      PROVE  /\ \E p \in Replica, k \in Nat : Copies(r, p, k)
             /\ UNCHANGED <<coordinators, requests, sent, acked>>
  <2>1. Len(log[r]) + 1 \in Nat
    BY LogTypes DEF IInv, BaseInv
  <2> QED BY <1>5, <2>1, ApplyCopies DEF ApplyRecord
<1>6. ASSUME NEW r \in Replica, FetchSnapshot(r)
      PROVE  /\ \E p \in Replica, k \in Nat : Copies(r, p, k)
             /\ UNCHANGED <<coordinators, requests, sent, acked>>
  BY <1>6, InstallCopies DEF FetchSnapshot, InstallFrom, IInv
<1>7. ASSUME NEW r \in Replica PROVE ~LoseDisk(r)
  BY DEF LoseDisk, IInv, Safe, BaseInv, TypeOK
<1> QED BY <1>1, <1>2, <1>3, <1>4, <1>5, <1>6, <1>7, ReplicaSteps

LEMMA LogsGrow ==
    ASSUME IInv, [Next]_vars
    PROVE  Grown
<1>1. TypeOK /\ SameNumberSameWrite
  BY DEF IInv, BaseInv, HistoryInv
<1>2. \A q \in Replica : Len(log[q]) \in Nat
  BY <1>1, LogTypes
<1>3. CASE UNCHANGED log
  BY <1>2, <1>3 DEF Grown
<1>4. ASSUME NEW m \in requests, NEW c \in Coordinator, Reaches(m, c) PROVE Grown
  <2>1. last_seqs[c] \in Nat
    BY <1>2, <1>4 DEF Reaches
  <2>2. /\ Len(log[m.replica]) <= Len(log'[m.replica])
        /\ \A i \in 1 .. Len(log[m.replica]) : log'[m.replica][i] = log[m.replica][i]
    BY <1>4, <2>1 DEF Reaches
  <2>3. \A q \in Replica : q # m.replica => log'[q] = log[q]
    BY <1>4 DEF Reaches
  <2> QED BY <1>2, <2>2, <2>3 DEF Grown
<1>5. ASSUME NEW r \in Replica, NEW p \in Replica, NEW k \in Nat, Copies(r, p, k) PROVE Grown
  <2>1. ASSUME NEW i \in 1 .. Len(log[r]) PROVE log'[r][i] = log[r][i]
    <3>1. i \in 1 .. k /\ i <= Len(log[p])
      BY <1>2, <1>5 DEF Copies
    <3>2. log[r][i] = log[p][i]
      BY <1>1, <3>1 DEF SameNumberSameWrite
    <3> QED BY <1>5, <3>1, <3>2 DEF Copies
  <2> QED BY <1>2, <1>5, <2>1 DEF Grown, Copies
<1> QED BY <1>3, <1>4, <1>5, LogSteps

LEMMA SameNumberStep == IInv /\ [Next]_vars => SameNumberSameWrite'
<1> SUFFICES ASSUME IInv, [Next]_vars PROVE SameNumberSameWrite'
  OBVIOUS
<1>1. TypeOK /\ SameNumberSameWrite /\ PositionsOK
  BY DEF IInv, BaseInv, HistoryInv
<1>2. \A q \in Replica : Len(log[q]) \in Nat
  BY <1>1, LogTypes
<1>3. CASE UNCHANGED log
  BY <1>1, <1>3 DEF SameNumberSameWrite
\* It is enough that the log that changes agrees with the others.
<1>4. ASSUME NEW r \in Replica, \A q \in Replica : q # r => log'[q] = log[q],
             \A q \in Replica : \A s \in 1 .. Len(log'[r]) :
                q # r /\ s <= Len(log[q]) => log'[r][s] = log[q][s]
      PROVE  SameNumberSameWrite'
  <2>1. Len(log'[r]) \in Nat
    <3>1. BaseInv
      BY DEF IInv
    <3>2. log' \in [Replica -> Seq(Write)]
      BY <3>1, TypeStep DEF TypeOK
    <3> QED BY <3>2, LenProperties
  <2> SUFFICES ASSUME NEW q \in Replica, NEW t \in Replica, NEW s \in 1 .. Len(log'[q]),
                      s <= Len(log'[t])
               PROVE  log'[q][s] = log'[t][s]
    BY DEF SameNumberSameWrite
  <2>2. CASE q # r /\ t # r
    <3>1. log'[q] = log[q] /\ log'[t] = log[t]
      BY <1>4, <2>2
    <3> QED BY <1>1, <3>1 DEF SameNumberSameWrite
  <2>3. CASE q = r /\ t # r
    BY <1>4, <2>3
  <2>4. CASE q # r /\ t = r
    <3>1. log'[q] = log[q] /\ s \in 1 .. Len(log'[r]) /\ s <= Len(log[q])
      BY <1>2, <1>4, <2>1, <2>4
    <3> QED BY <1>4, <2>4, <3>1
  <2> QED BY <2>2, <2>3, <2>4
<1>5. ASSUME NEW m \in requests, NEW c \in Coordinator, Reaches(m, c) PROVE SameNumberSameWrite'
  <2> DEFINE n == last_seqs[c]  r == m.replica
  <2>1. /\ r \in Replica /\ Len(log[r]) = n /\ Len(log'[r]) = n + 1
        /\ log'[r][n + 1] = request[c].write /\ \A i \in 1 .. n : log'[r][i] = log[r][i]
        /\ \A q \in Replica : q # r => log'[q] = log[q]
    BY <1>5 DEF Reaches
  <2>2. n \in Nat
    BY <1>2, <2>1
  <2>3. \A q \in Replica : InFlight(c, q)
    BY <1>1, <1>5 DEF PositionsOK, PositionOK, Reaches, IsWaitedFor
  <2>4. ASSUME NEW q \in Replica, NEW s \in 1 .. Len(log'[r]), q # r, s <= Len(log[q])
        PROVE  log'[r][s] = log[q][s]
    <3>1. CASE s = n + 1
      <4>1. Len(log[q]) = n + 1 /\ log[q][n + 1] = request[c].write
        BY <1>2, <2>2, <2>3, <2>4, <3>1 DEF InFlight
      <4> QED BY <2>1, <3>1, <4>1
    <3>2. CASE s \in 1 .. n
      <4>1. log[r][s] = log[q][s]
        BY <1>1, <2>1, <2>4, <3>2 DEF SameNumberSameWrite
      <4> QED BY <2>1, <3>2, <4>1
    <3>3. s = n + 1 \/ s \in 1 .. n
      BY <2>1, <2>2
    <3> QED BY <3>1, <3>2, <3>3
  <2> HIDE DEF n, r
  <2> QED BY <1>4, <2>1, <2>4
<1>6. ASSUME NEW r \in Replica, NEW p \in Replica, NEW k \in Nat, Copies(r, p, k)
      PROVE  SameNumberSameWrite'
  <2>1. ASSUME NEW q \in Replica, NEW s \in 1 .. Len(log'[r]), q # r, s <= Len(log[q])
        PROVE  log'[r][s] = log[q][s]
    <3>1. s \in 1 .. k /\ s \in 1 .. Len(log[p])
      BY <1>2, <1>6 DEF Copies
    <3>2. log[p][s] = log[q][s]
      BY <1>1, <2>1, <3>1 DEF SameNumberSameWrite
    <3> QED BY <1>6, <3>1, <3>2 DEF Copies
  <2> QED BY <1>4, <1>6, <2>1 DEF Copies
<1> QED BY <1>3, <1>5, <1>6, LogSteps

\* Steps that leave the records on their way, and whom they come from.
LEMMA PendingSame ==
    ASSUME IInv, [Next]_vars,
           \A r \in Replica : \/ pending'[r] = pending[r] /\ peer'[r] = peer[r] /\ peer[r] \in Replica
                              \/ pending'[r] = <<>>
    PROVE  PendingCopies'
<1>1. TypeOK /\ PendingCopies /\ Grown /\ TypeOK'
  BY LogsGrow, TypeStep DEF IInv, BaseInv, HistoryInv
<1>2. \A q \in Replica : Len(log[q]) \in Nat /\ Len(log'[q]) \in Nat
  <2>1. log' \in [Replica -> Seq(Write)]
    BY <1>1 DEF TypeOK
  <2> QED BY <1>1, <2>1, LogTypes, LenProperties
<1> SUFFICES ASSUME NEW r \in Replica, NEW i \in 1 .. Len(pending'[r])
             PROVE  /\ pending'[r][i].seq \in 1 .. Len(log'[peer'[r]])
                    /\ pending'[r][i].write = log'[peer'[r]][pending'[r][i].seq]
  BY DEF PendingCopies
<1>3. pending'[r] # <<>>
  BY EmptySeq
<1>4. pending'[r] = pending[r] /\ peer'[r] = peer[r] /\ peer[r] \in Replica
  BY <1>3
<1>5. /\ pending[r][i].seq \in 1 .. Len(log[peer[r]])
      /\ pending[r][i].write = log[peer[r]][pending[r][i].seq]
  BY <1>1, <1>4 DEF PendingCopies
<1>6. /\ Len(log[peer[r]]) <= Len(log'[peer[r]])
      /\ \A j \in 1 .. Len(log[peer[r]]) : log'[peer[r]][j] = log[peer[r]][j]
  BY <1>1, <1>4 DEF Grown
<1> QED BY <1>2, <1>4, <1>5, <1>6

LEMMA PendingStep == IInv /\ [Next]_vars => PendingCopies'
<1> SUFFICES ASSUME IInv, [Next]_vars PROVE PendingCopies'
  OBVIOUS
<1>a. TypeOK /\ HandlersOK /\ PendingCopies /\ RecordsFollow
  BY DEF IInv, BaseInv, HistoryInv
<1>b. \A r \in Replica : (step[r] = "apply" /\ peer[r] \in Replica) \/ pending[r] = <<>>
  BY <1>a DEF HandlersOK
<1> USE <1>a, <1>b DEF replicas, handlers
<1>1. CASE UNCHANGED handlers
  BY <1>1, PendingSame
<1>2. ASSUME NEW m \in requests, HandleAdd(m) PROVE PendingCopies'
  BY <1>1, <1>2 DEF HandleAdd
<1>3. ASSUME NEW c \in Coordinator, NEW r \in Replica, StartSync(c, r) PROVE PendingCopies'
  <2>1. /\ UNCHANGED pending /\ step[r] = "idle"
        /\ \A q \in Replica : q # r => peer'[q] = peer[q]
    BY <1>3 DEF StartSync, Serves, TypeOK
  <2> QED BY <2>1, PendingSame
<1>4. ASSUME NEW r \in Replica, FetchLog(r) PROVE PendingCopies'
  <2>1. UNCHANGED <<log, peer>> /\ step[r] = "log" /\ peer[r] \in Replica
    BY <1>4 DEF FetchLog, HandlersOK
  <2>2. CASE UNCHANGED pending
    BY <2>1, <2>2 DEF PendingCopies
  <2>3. CASE pending' = [pending EXCEPT ![r] = RecordsAfter(peer[r], Len(log[r]))]
    <3> DEFINE n == Bigger(Len(log[r]), base[peer[r]])
    <3>1. n \in Nat
      BY <2>1, LogTypes DEF Bigger
    <3>2. pending'[r] = RecordsAbove(peer[r], n) /\ \A q \in Replica : q # r => pending'[q] = pending[q]
      BY <2>3 DEF RecordsAfter, TypeOK
    <3>3. \A i \in 1 .. Len(RecordsAbove(peer[r], n)) :
             /\ RecordsAbove(peer[r], n)[i].seq = n + i /\ n + i \in 1 .. Len(log[peer[r]])
             /\ RecordsAbove(peer[r], n)[i].write = log[peer[r]][n + i]
      BY <2>1, <3>1, RecordsAboveType
    <3> HIDE DEF n
    <3>4. ASSUME NEW q \in Replica, NEW i \in 1 .. Len(pending'[q])
          PROVE  /\ pending'[q][i].seq \in 1 .. Len(log'[peer'[q]])
                 /\ pending'[q][i].write = log'[peer'[q]][pending'[q][i].seq]
      <4>1. CASE q = r
        BY <2>1, <3>2, <3>3, <4>1
      <4>2. CASE q # r
        BY <2>1, <3>2, <4>2 DEF PendingCopies
      <4> QED BY <4>1, <4>2
    <3> QED BY <3>4 DEF PendingCopies
  <2> QED BY <1>4, <2>2, <2>3 DEF FetchLog
<1>5. ASSUME NEW r \in Replica, ApplyRecord(r) PROVE PendingCopies'
  <2>1. /\ pending[r] \in Seq(Numbered) /\ pending[r] # <<>> /\ UNCHANGED peer
        /\ pending' = [pending EXCEPT ![r] = Tail(@)] /\ peer[r] \in Replica
    BY <1>5 DEF ApplyRecord, TypeOK
  <2>2. /\ Len(Tail(pending[r])) = Len(pending[r]) - 1 /\ Len(pending[r]) \in Nat
        /\ \A i \in 1 .. Len(pending[r]) - 1 : Tail(pending[r])[i] = pending[r][i + 1]
    BY <2>1, TailRecords
  <2>3. Grown
    BY LogsGrow
  <2>4. \A q \in Replica : Len(log[q]) \in Nat /\ Len(log'[q]) \in Nat
    <3>1. TypeOK'
      BY TypeStep DEF IInv
    <3>2. log' \in [Replica -> Seq(Write)]
      BY <3>1 DEF TypeOK
    <3> QED BY <3>2, LogTypes, LenProperties
  <2>5. pending'[r] = Tail(pending[r]) /\ \A q \in Replica : q # r => pending'[q] = pending[q]
    BY <2>1 DEF TypeOK
  <2>6. ASSUME NEW q \in Replica, NEW i \in 1 .. Len(pending[q]), peer[q] \in Replica
        PROVE  /\ pending[q][i].seq \in 1 .. Len(log'[peer[q]])
               /\ pending[q][i].write = log'[peer[q]][pending[q][i].seq]
    <3>1. /\ pending[q][i].seq \in 1 .. Len(log[peer[q]])
          /\ pending[q][i].write = log[peer[q]][pending[q][i].seq]
      BY <2>6 DEF PendingCopies
    <3>2. /\ Len(log[peer[q]]) <= Len(log'[peer[q]])
          /\ \A j \in 1 .. Len(log[peer[q]]) : log'[peer[q]][j] = log[peer[q]][j]
      BY <2>3, <2>6 DEF Grown
    <3> QED BY <2>4, <2>6, <3>1, <3>2
  <2>7. ASSUME NEW q \in Replica, NEW i \in 1 .. Len(pending'[q])
        PROVE  /\ pending'[q][i].seq \in 1 .. Len(log'[peer[q]])
               /\ pending'[q][i].write = log'[peer[q]][pending'[q][i].seq]
    <3>1. CASE q = r
      <4>1. i \in 1 .. Len(pending[r]) - 1 /\ i + 1 \in 1 .. Len(pending[r])
        <5>1. i \in 1 .. Len(Tail(pending[r]))
          BY <2>5, <2>7, <3>1
        <5>2. i \in 1 .. Len(pending[r]) - 1
          BY <2>2, <5>1
        <5> QED BY <2>2, <5>2
      <4>2. pending'[r][i] = pending[r][i + 1]
        BY <2>2, <2>5, <4>1
      <4> QED BY <2>1, <2>6, <3>1, <4>1, <4>2
    <3>2. CASE q # r
      <4>1. pending'[q] = pending[q] /\ pending[q] # <<>>
        BY <2>5, <2>7, <3>2, EmptySeq
      <4>2. peer[q] \in Replica /\ i \in 1 .. Len(pending[q])
        BY <2>7, <4>1
      <4> QED BY <2>6, <4>1, <4>2
    <3> QED BY <3>1, <3>2
  <2>8. peer' = peer
    BY <2>1
  <2> SUFFICES ASSUME NEW q \in Replica, NEW i \in 1 .. Len(pending'[q])
               PROVE  /\ pending'[q][i].seq \in 1 .. Len(log'[peer'[q]])
                      /\ pending'[q][i].write = log'[peer'[q]][pending'[q][i].seq]
    BY DEF PendingCopies
  <2> QED BY <2>7, <2>8
<1>6. ASSUME NEW r \in Replica, FetchSnapshot(r) PROVE PendingCopies'
  BY <1>6, PendingSame DEF FetchSnapshot, InstallFrom
<1>7. ASSUME NEW r \in Replica, NEW ok \in BOOLEAN, Return(r, ok) PROVE PendingCopies'
  <2>1. /\ pending'[r] = <<>>
        /\ \A q \in Replica : q # r => pending'[q] = pending[q] /\ peer'[q] = peer[q]
    BY <1>7, ReturnEffect
  <2> QED BY <2>1, PendingSame
<1>8. ASSUME NEW r \in Replica, SyncDone(r) \/ SyncFails(r) \/ Crash(r) PROVE PendingCopies'
  BY <1>7, <1>8 DEF SyncDone, SyncFails, Crash
<1>9. ASSUME NEW r \in Replica, Restart(r) \/ LoseDisk(r) PROVE PendingCopies'
  BY <1>1, <1>9 DEF Restart, LoseDisk
<1> QED
  BY <1>1, <1>2, <1>3, <1>4, <1>5, <1>6, <1>8, <1>9, ReplicaSteps

LEMMA SeenStep == IInv /\ [Next]_vars => SeenOK'
<1> SUFFICES ASSUME IInv, [Next]_vars, NEW c \in Coordinator, NEW r \in Replica
             PROVE  seen'[c][r] <= Len(log'[r])
  BY DEF SeenOK
<1>a. TypeOK /\ SeenOK /\ Grown /\ TypeOK'
  BY LogsGrow, TypeStep DEF IInv, BaseInv, HistoryInv
<1>b. Len(log[r]) \in Nat /\ Len(log'[r]) \in Nat /\ Len(log[r]) <= Len(log'[r])
  <2>1. log' \in [Replica -> Seq(Write)]
    BY <1>a DEF TypeOK
  <2> QED BY <1>a, <2>1, LogTypes, LenProperties DEF Grown
<1>c. seen[c][r] \in Nat \cup {Unknown, Settled} /\ seen[c][r] <= Len(log[r])
  BY <1>a DEF TypeOK, SeenOK
<1>d. CASE seen'[c][r] \in {seen[c][r], Unknown, Settled}
  BY <1>b, <1>c, <1>d DEF Unknown, Settled
<1> USE <1>a DEF NoAnswers, coordinators
<1>1. ASSUME NEW d \in Coordinator, NEW q \in Replica, Status(d, q) PROVE seen'[c][r] <= Len(log'[r])
  <2>1. log' = log /\ seen' = [seen EXCEPT ![d][q] = Len(log[q])]
    BY <1>1 DEF Status, replicas
  <2>2. seen'[c][r] = seen[c][r] \/ seen'[c][r] = Len(log[r])
    <3>1. CASE c = d /\ r = q
      BY <2>1, <3>1 DEF TypeOK
    <3>2. CASE c # d \/ r # q
      BY <2>1, <3>2 DEF TypeOK
    <3> QED BY <3>1, <3>2
  <2> QED BY <1>b, <1>c, <2>1, <2>2 DEF Unknown, Settled
<1>2. CASE seen' = seen
  BY <1>d, <1>2
<1>3. ASSUME NEW d \in Coordinator,
             \/ StartAdd(d) \/ StartRepair(d) \/ Checked(d) \/ OutOfSync(d) \/ ChunkDone(d)
             \/ ChunkFails(d) \/ RepairDone(d)
             \/ CheckFails(d) \/ RepairFails(d) \/ CoordinatorDies(d)
      PROVE  seen'[c][r] <= Len(log'[r])
  <2>1. seen' = [seen EXCEPT ![d] = NoAnswers] \/ seen' = seen
    BY <1>3 DEF StartAdd, StartRepair, Checked, OutOfSync, ChunkDone, ChunkFails, RepairDone,
                CheckFails, RepairFails, CoordinatorDies, Leave
  <2>2. seen'[c] = seen[c] \/ seen'[c] = NoAnswers
    BY <2>1 DEF TypeOK
  <2>3. seen'[c][r] = seen[c][r] \/ seen'[c][r] = Unknown
    BY <2>2
  <2> QED BY <1>d, <2>3
<1>4. ASSUME NEW d \in Coordinator, NEW q \in Replica, Skip(d, q) PROVE seen'[c][r] <= Len(log'[r])
  <2>1. seen'[c][r] \in {seen[c][r], Settled}
    BY <1>4 DEF Skip, TypeOK
  <2> QED BY <1>d, <2>1
<1>5. ASSUME NEW q \in Replica, SyncDone(q) \/ SyncFails(q) \/ Crash(q) PROVE seen'[c][r] <= Len(log'[r])
  <2>1. PICK ok \in BOOLEAN : Return(q, ok)
    BY <1>5 DEF SyncDone, SyncFails, Crash
  <2>2. seen'[c] = seen[c] \/ seen'[c][r] \in {seen[c][r], Settled, Unknown}
    BY <2>1, ReturnEffect
  <2> QED BY <1>d, <2>2
<1>6. ASSUME NEW d \in Coordinator, NEW q \in Replica, StartSync(d, q) \/ CallFails(d, q)
      PROVE  seen'[c][r] <= Len(log'[r])
  BY <1>2, <1>6 DEF StartSync, CallFails
<1>7. ASSUME NEW d \in Coordinator, SendChunk(d) \/ Polled(d) PROVE seen'[c][r] <= Len(log'[r])
  BY <1>2, <1>7 DEF SendChunk, Polled
<1>8. ASSUME NEW q \in Replica, \/ Handling(q) \/ FetchLog(q) \/ ApplyRecord(q) \/ FetchSnapshot(q)
                               \/ Restart(q) \/ LoseDisk(q)
      PROVE  seen'[c][r] <= Len(log'[r])
  BY <1>2, <1>8
     DEF Handling, HandleAdd, RejectAdd, FetchLog, ApplyRecord, FetchSnapshot, InstallFrom, Restart,
         LoseDisk
<1>9. CASE UNCHANGED vars
  BY <1>2, <1>9 DEF vars
<1> QED
  BY <1>1, <1>3, <1>4, <1>5, <1>6, <1>7, <1>8, <1>9
  DEF Next, Starting, Proceeding, Answering, CatchingUp, Failing

\* A chunk that every replica answered is on every replica.
LEMMA ChunkIsEverywhere ==
    ASSUME IInv, NEW c \in Coordinator, ChunkDone(c)
    PROVE  /\ last_seqs[c] \in Nat /\ request[c].seq = last_seqs[c] + 1
           /\ \A r \in Replica : /\ Len(log[r]) = last_seqs[c] + 1
                                /\ log[r][last_seqs[c] + 1] = request[c].write
<1>1. TypeOK /\ CoordinatorsOK /\ PositionsOK
  BY DEF IInv, BaseInv, HistoryInv
<1>2. phase[c] = "wait" /\ \A r \in Replica : calls[c][r] = "ok"
  BY DEF ChunkDone, AllAnswered, ChunkOk
<1>3. last_seqs[c] \in Nat /\ request[c].seq = last_seqs[c] + 1
  BY <1>1, <1>2 DEF CoordinatorsOK, CoordinatorOK, TypeOK
<1>4. \A r \in Replica : InFlight(c, r)
  BY <1>1, <1>2 DEF PositionsOK, PositionOK
<1> QED BY <1>2, <1>3, <1>4 DEF InFlight

\* Only a chunk that every replica has is acknowledged.
LEMMA AckedSteps == [Next]_vars => acked' = acked \/ \E c \in Coordinator : ChunkDone(c)
<1> SUFFICES ASSUME [Next]_vars PROVE acked' = acked \/ \E c \in Coordinator : ChunkDone(c)
  OBVIOUS
<1> USE DEF coordinators, replicas
<1>1. CASE UNCHANGED vars
  BY <1>1 DEF vars
<1>2. CASE \E c \in Coordinator : Starting(c) \/ Proceeding(c)
  BY <1>2 DEF Starting, Proceeding, StartAdd, StartRepair, Checked, OutOfSync, SendChunk,
              ChunkFails, Polled, RepairDone
<1>3. CASE \E c \in Coordinator, r \in Replica : Answering(c, r)
  BY <1>3 DEF Answering, Status, StartSync
<1>4. CASE \E r \in Replica : Handling(r) \/ CatchingUp(r) \/ Restart(r)
  BY <1>4 DEF Handling, HandleAdd, RejectAdd, CatchingUp, FetchLog, ApplyRecord, FetchSnapshot,
              InstallFrom, SyncDone, Restart
<1>5. CASE Failing
  BY <1>5 DEF Failing, Crash, LoseDisk, SyncFails, CheckFails, RepairFails, CoordinatorDies,
              CallFails, Skip
<1> QED BY <1>1, <1>2, <1>3, <1>4, <1>5 DEF Next

LEMMA AckedStep == IInv /\ [Next]_vars => AckedEverywhere'
<1> SUFFICES ASSUME IInv, [Next]_vars PROVE AckedEverywhere'
  OBVIOUS
<1>a. TypeOK /\ AckedEverywhere /\ Grown /\ TypeOK'
  BY LogsGrow, TypeStep DEF IInv, BaseInv, HistoryInv
<1>b. \A q \in Replica : Len(log[q]) \in Nat /\ Len(log'[q]) \in Nat
  <2>1. log' \in [Replica -> Seq(Write)]
    BY <1>a DEF TypeOK
  <2> QED BY <1>a, <2>1, LogTypes, LenProperties
<1>1. CASE acked' = acked
  <2> SUFFICES ASSUME NEW a \in acked, NEW r \in Replica
               PROVE  a.seq \in 1 .. Len(log'[r]) /\ log'[r][a.seq] = a.write
    BY <1>1 DEF AckedEverywhere, Holds
  <2>1. a.seq \in 1 .. Len(log[r]) /\ log[r][a.seq] = a.write
    BY <1>a DEF AckedEverywhere, Holds
  <2>2. /\ Len(log[r]) <= Len(log'[r])
        /\ \A i \in 1 .. Len(log[r]) : log'[r][i] = log[r][i]
    BY <1>a DEF Grown
  <2> QED BY <1>b, <2>1, <2>2
<1>2. ASSUME NEW c \in Coordinator, ChunkDone(c) PROVE AckedEverywhere'
  <2>1. acked' = acked \cup {request[c]} /\ log' = log
    BY <1>2 DEF ChunkDone, replicas
  <2>2. /\ last_seqs[c] \in Nat /\ request[c].seq = last_seqs[c] + 1
        /\ \A r \in Replica : /\ Len(log[r]) = last_seqs[c] + 1
                             /\ log[r][last_seqs[c] + 1] = request[c].write
    BY <1>2, ChunkIsEverywhere
  <2>3. \A r \in Replica : /\ request[c].seq \in 1 .. Len(log[r])
                          /\ log[r][request[c].seq] = request[c].write
    BY <2>2
  <2> QED BY <1>a, <2>1, <2>3 DEF AckedEverywhere, Holds
<1> QED BY <1>1, <1>2, AckedSteps

LEMMA SomeMostAdvanced == TypeOK => \E r \in Replica : MostAdvanced(r)
<1> SUFFICES ASSUME TypeOK PROVE \E r \in Replica : MostAdvanced(r)
  OBVIOUS
<1> DEFINE Size == [r \in Replica |-> Len(log[r])]
<1>1. Size \in [Replica -> Nat]
  BY LogTypes
<1>2. \A r \in Replica : Size[r] = Len(log[r])
  OBVIOUS
<1> HIDE DEF Size
<1>3. \E r \in Replica : \A q \in Replica : Size[q] <= Size[r]
  BY <1>1, ConstantsAssumption, Greatest
<1> QED BY <1>2, <1>3 DEF MostAdvanced

LEMMA PositionsStep == IInv /\ [Next]_vars => PositionsOK'
<1> SUFFICES ASSUME IInv, [Next]_vars PROVE PositionsOK'
  OBVIOUS
<1>a. /\ BaseInv /\ TypeOK /\ CoordinatorsOK /\ OneWriter /\ NoStragglers /\ SeenOK /\ PositionsOK
      /\ CallersRefresh \/ \A c, d \in Coordinator : c = d
  BY DEF IInv, BaseInv, NetworkInv, HistoryInv, Safe
<1>b. \A q \in Replica : Len(log[q]) \in Nat
  BY <1>a, LogTypes
<1> USE <1>a DEF coordinators, replicas
<1>c. ASSUME UNCHANGED log
      PROVE  /\ \A r \in Replica : MostAdvanced(r)' <=> MostAdvanced(r)
             /\ \A n \in Int : Level(n)' <=> Level(n)
  BY <1>c DEF MostAdvanced, Level
\* A coordinator that stays as it is while the logs do ...
<1>d. ASSUME NEW c \in Coordinator, UNCHANGED log,
             phase'[c] = phase[c], last_seqs'[c] = last_seqs[c], seen'[c] = seen[c],
             request'[c] = request[c],
             \A r \in Replica : calls'[c][r] = "ok" => calls[c][r] = "ok"
      PROVE  PositionOK(c)'
  BY <1>c, <1>d DEF PositionsOK, PositionOK, InFlight, Level, MostAdvanced
\* ... or keeps the position it knows while it does something else ...
<1>e. ASSUME NEW c \in Coordinator, UNCHANGED log, phase[c] \notin Writing, phase'[c] \notin Writing,
             last_seqs'[c] = last_seqs[c]
      PROVE  PositionOK(c)'
  BY <1>e DEF PositionsOK, PositionOK, Level, Writing
\* ... or forgets it.
<1>f. ASSUME NEW c \in Coordinator, phase'[c] = "idle", last_seqs'[c] = Unknown
      PROVE  PositionOK(c)'
  BY <1>f DEF PositionOK, Writing
\* Steps of one coordinator.
<1>g. ASSUME NEW c \in Coordinator, PositionOK(c)', UNCHANGED log,
             \A d \in Coordinator : d # c =>
                /\ phase'[d] = phase[d] /\ last_seqs'[d] = last_seqs[d] /\ seen'[d] = seen[d]
                /\ request'[d] = request[d] /\ calls'[d] = calls[d]
      PROVE  PositionsOK'
  BY <1>d, <1>g DEF PositionsOK
<1>1. ASSUME NEW c \in Coordinator, StartAdd(c) PROVE PositionsOK'
  <2>1. /\ phase[c] = "idle" /\ UNCHANGED log /\ seen'[c] = NoAnswers
        /\ last_seqs'[c] = IF CallersRefresh THEN Unknown ELSE last_seqs[c]
        /\ phase'[c] = IF last_seqs'[c] = Unknown THEN "check" ELSE "send"
    BY <1>1 DEF StartAdd, TypeOK
  <2>2. PICK r \in Replica : MostAdvanced(r)
    BY SomeMostAdvanced
  <2>3. ASSUME last_seqs'[c] = Unknown PROVE PositionOK(c)'
    <3>1. phase'[c] = "check" /\ MostAdvanced(r)' /\ seen'[c][r] = Unknown
      BY <1>c, <2>1, <2>2, <2>3 DEF NoAnswers
    <3> QED BY <3>1 DEF PositionOK, Writing
  <2>4. ASSUME last_seqs'[c] # Unknown PROVE PositionOK(c)'
    <3>1. phase'[c] = "send" /\ ~CallersRefresh /\ last_seqs'[c] = last_seqs[c]
      BY <2>1, <2>4
    <3>2. Level(last_seqs[c])
      BY <2>1, <2>4, <3>1 DEF PositionsOK, PositionOK, Writing
    <3>3. Level(last_seqs[c])'
      BY <2>1, <3>1, <3>2 DEF Level
    <3> QED BY <3>1, <3>3 DEF PositionOK, Writing
  <2>5. PositionOK(c)'
    BY <2>3, <2>4
  <2> QED BY <1>1, <1>g, <2>5 DEF StartAdd, TypeOK
<1>2. ASSUME NEW c \in Coordinator, StartRepair(c) \/ Polled(c) PROVE PositionsOK'
  <2>1. PositionOK(c)'
    BY <1>2, <1>e DEF StartRepair, Polled, TypeOK, Writing
  <2> QED BY <1>2, <1>g, <2>1 DEF StartRepair, Polled, TypeOK
<1>3. ASSUME NEW c \in Coordinator, Checked(c) PROVE PositionsOK'
  <2>1. PICK r \in Replica : last_seqs' = [last_seqs EXCEPT ![c] = seen[c][r]]
    BY <1>3 DEF Checked
  <2>2. /\ phase[c] = "check" /\ phase'[c] = "send" /\ last_seqs'[c] = seen[c][r] /\ UNCHANGED log
        /\ \A p, q \in Replica : seen[c][p] = seen[c][q] /\ seen[c][q] # Unknown
    BY <1>3, <2>1 DEF Checked, Agree, TypeOK
  <2>3. PICK p \in Replica : MostAdvanced(p) /\ seen[c][p] \in {Unknown, Len(log[p])}
    BY <2>2 DEF PositionsOK, PositionOK
  <2>4. seen[c][r] = Len(log[p])
    BY <2>2, <2>3
  <2>5. ASSUME NEW q \in Replica PROVE Len(log[q]) = seen[c][r]
    <3>1. Len(log[q]) <= Len(log[p])
      BY <2>3 DEF MostAdvanced
    <3>2. seen[c][q] <= Len(log[q]) /\ seen[c][q] = Len(log[p])
      BY <2>2, <2>4 DEF SeenOK
    <3> QED BY <1>b, <2>4, <3>1, <3>2
  <2>6. \A q \in Replica : Len(log'[q]) = last_seqs'[c]
    BY <2>2, <2>5
  <2>7. PositionOK(c)'
    BY <2>2, <2>6 DEF PositionOK, Level, Writing
  <2> QED BY <1>3, <1>g, <2>1, <2>7 DEF Checked, TypeOK
<1>4. ASSUME NEW c \in Coordinator, OutOfSync(c) \/ CheckFails(c) PROVE PositionsOK'
  <2>1. phase'[c] = "idle" /\ last_seqs'[c] = Unknown
    BY <1>4 DEF OutOfSync, CheckFails, Leave, CoordinatorsOK, CoordinatorOK, TypeOK
  <2> QED BY <1>4, <1>f, <1>g, <2>1 DEF OutOfSync, CheckFails, Leave, TypeOK
<1>5. ASSUME NEW c \in Coordinator, SendChunk(c) PROVE PositionsOK'
  <2>1. /\ phase[c] = "send" /\ phase'[c] = "wait" /\ UNCHANGED <<log, last_seqs>>
        /\ \A r \in Replica : calls'[c][r] = "sent"
    BY <1>5 DEF SendChunk, TypeOK
  <2>2. \A r \in Replica : Len(log[r]) = last_seqs[c]
    BY <2>1 DEF PositionsOK, PositionOK, Level
  <2>3. PositionOK(c)'
    BY <2>1, <2>2 DEF PositionOK, InFlight, Writing
  <2> QED BY <1>5, <1>g, <2>3 DEF SendChunk, TypeOK
<1>6. ASSUME NEW c \in Coordinator, ChunkDone(c) PROVE PositionsOK'
  <2>1. UNCHANGED log /\ last_seqs' = [last_seqs EXCEPT ![c] = @ + 1]
    BY <1>6 DEF ChunkDone
  <2>2. \A r \in Replica : Len(log'[r]) = last_seqs'[c]
    BY <1>6, <2>1, ChunkIsEverywhere DEF TypeOK
  <2>3. /\ phase'[c] \in {"idle", "send"}
        /\ \A d \in Coordinator : d # c =>
              /\ phase'[d] = phase[d] /\ last_seqs'[d] = last_seqs[d] /\ seen'[d] = seen[d]
              /\ request'[d] = request[d] /\ calls'[d] = calls[d]
    BY <1>6, <2>1 DEF ChunkDone, Leave, TypeOK
  <2>4. PositionOK(c)'
    BY <2>2, <2>3 DEF PositionOK, Level
  <2> QED BY <1>g, <2>1, <2>3, <2>4
<1>7. ASSUME NEW c \in Coordinator, ChunkFails(c) \/ RepairDone(c) \/ CoordinatorDies(c)
      PROVE  PositionsOK'
  <2>1. phase'[c] = "idle" /\ last_seqs'[c] = Unknown /\ UNCHANGED log
    BY <1>7 DEF ChunkFails, RepairDone, CoordinatorDies, Leave, TypeOK
  <2>2. \A d \in Coordinator : d # c =>
           /\ phase'[d] = phase[d] /\ last_seqs'[d] = last_seqs[d] /\ seen'[d] = seen[d]
           /\ request'[d] = request[d] /\ calls'[d] = calls[d]
    BY <1>7 DEF ChunkFails, RepairDone, CoordinatorDies, Leave, TypeOK
  <2> QED BY <1>f, <1>g, <2>1, <2>2
<1>8. ASSUME NEW c \in Coordinator, RepairFails(c) PROVE PositionsOK'
  <2>1. PositionOK(c)'
    BY <1>8, <1>e DEF RepairFails, Leave, TypeOK, Writing
  <2> QED BY <1>8, <1>g, <2>1 DEF RepairFails, Leave, TypeOK
<1>9. ASSUME NEW c \in Coordinator, NEW r \in Replica, Status(c, r) PROVE PositionsOK'
  <2>1. /\ phase[c] \in {"check", "poll"} /\ UNCHANGED <<log, phase, last_seqs>>
        /\ seen'[c][r] = Len(log[r]) /\ \A q \in Replica : q # r => seen'[c][q] = seen[c][q]
    BY <1>9 DEF Status, TypeOK
  <2>2. CASE phase[c] = "poll"
    <3>1. PositionOK(c)'
      BY <1>e, <2>1, <2>2 DEF Writing
    <3> QED BY <1>9, <1>g, <3>1 DEF Status, TypeOK
  <2>3. CASE phase[c] = "check"
    <3>1. PICK p \in Replica : MostAdvanced(p) /\ seen[c][p] \in {Unknown, Len(log[p])}
      BY <2>3 DEF PositionsOK, PositionOK
    <3>2. seen'[c][p] \in {Unknown, Len(log'[p])} /\ MostAdvanced(p)'
      BY <1>c, <2>1, <3>1
    <3>3. PositionOK(c)'
      BY <2>1, <2>3, <3>2 DEF PositionOK, Writing
    <3> QED BY <1>9, <1>g, <3>3 DEF Status, TypeOK
  <2> QED BY <2>1, <2>2, <2>3
<1>10. ASSUME NEW c \in Coordinator, NEW r \in Replica, StartSync(c, r) \/ Skip(c, r) PROVE PositionsOK'
  <2>1. PositionOK(c)'
    BY <1>10, <1>e DEF StartSync, Skip, TypeOK, Writing
  <2> QED BY <1>10, <1>g, <2>1 DEF StartSync, Skip, TypeOK
<1>11. ASSUME NEW m \in requests, RejectAdd(m) PROVE PositionsOK'
  <2>1. \A c \in Coordinator, r \in Replica : calls'[c][r] = "ok" => calls[c][r] = "ok"
    BY <1>11, AnswerEffect DEF RejectAdd
  <2> QED BY <1>11, <1>d, <2>1 DEF RejectAdd, PositionsOK
<1>12. ASSUME NEW m \in requests, HandleAdd(m), NEW c \in Coordinator, Reaches(m, c) PROVE PositionsOK'
  <2>1. /\ UNCHANGED <<phase, last_seqs, seen, request>> /\ phase[c] = "wait"
        /\ m.replica \in Replica
    BY <1>12 DEF HandleAdd, Reaches, IsWaitedFor
  <2>2. ASSUME NEW r \in Replica PROVE InFlight(c, r)'
    <3>1. CASE r = m.replica
      <4>1. Len(log'[r]) = last_seqs[c] + 1 /\ log'[r][last_seqs[c] + 1] = request[c].write
        BY <1>12, <3>1 DEF Reaches
      <4> QED BY <2>1, <4>1 DEF InFlight
    <3>2. CASE r # m.replica
      <4>1. log'[r] = log[r] /\ calls'[c][r] = calls[c][r]
        BY <1>12, <3>2, AnswerEffect DEF HandleAdd, Reaches
      <4>2. InFlight(c, r)
        BY <2>1 DEF PositionsOK, PositionOK
      <4> QED BY <2>1, <4>1, <4>2 DEF InFlight
    <3> QED BY <3>1, <3>2
  <2>3. PositionOK(c)'
    BY <2>1, <2>2 DEF PositionOK, Writing
  <2>4. ASSUME NEW d \in Coordinator, d # c PROVE PositionOK(d)'
    <3>1. phase[d] \notin Writing /\ CallersRefresh
      BY <2>1, <2>4 DEF OneWriter, Writing
    <3> QED BY <2>1, <3>1 DEF PositionOK, Writing
  <2> QED BY <2>3, <2>4 DEF PositionsOK
<1>13. ASSUME NEW r \in Replica, NEW p \in Replica, NEW k \in Nat, Copies(r, p, k),
              UNCHANGED coordinators
       PROVE  PositionsOK'
  <2> SUFFICES ASSUME NEW c \in Coordinator PROVE PositionOK(c)'
    BY DEF PositionsOK
  <2>1. PositionOK(c)
    BY DEF PositionsOK
  <2>2. /\ UNCHANGED <<phase, last_seqs, seen, request, calls>>
        /\ Len(log[r]) <= k /\ k <= Len(log[p]) /\ Len(log'[r]) = k
        /\ \A i \in 1 .. k : log'[r][i] = log[p][i]
        /\ \A q \in Replica : q # r => log'[q] = log[q]
    BY <1>13 DEF Copies
  <2>3. ASSUME NEW q \in Replica, MostAdvanced(q) PROVE MostAdvanced(q)' /\ Len(log'[q]) = Len(log[q])
    <3>1. \A t \in Replica : Len(log[t]) <= Len(log[q])
      BY <2>3 DEF MostAdvanced
    <3>2. k <= Len(log[q])
      BY <1>b, <2>2, <3>1
    <3>3. Len(log'[q]) = Len(log[q])
      BY <1>b, <2>2, <3>2
    <3>4. \A t \in Replica : Len(log'[t]) <= Len(log'[q])
      BY <1>b, <2>2, <3>1, <3>2, <3>3
    <3> QED BY <3>3, <3>4 DEF MostAdvanced
  <2>4. ASSUME Level(last_seqs[c]) PROVE Level(last_seqs[c])'
    <3>1. \A q \in Replica : Len(log[q]) = last_seqs[c]
      BY <2>4 DEF Level
    <3>2. \A q \in Replica : Len(log'[q]) = last_seqs'[c]
      BY <1>b, <2>2, <3>1
    <3> QED BY <3>2 DEF Level
  <2>5. ASSUME phase[c] = "wait", NEW q \in Replica PROVE InFlight(c, q)'
    <3>1. InFlight(c, q) /\ InFlight(c, r) /\ InFlight(c, p) /\ last_seqs[c] \in Nat
      BY <2>1, <2>5 DEF PositionOK, CoordinatorsOK, CoordinatorOK, TypeOK
    <3>2. CASE q # r
      <4>1. log'[q] = log[q]
        BY <2>2, <3>2
      <4> QED BY <2>2, <3>1, <4>1 DEF InFlight
    <3>3. CASE q = r /\ k = last_seqs[c]
      <4>1. Len(log[r]) = last_seqs[c] /\ calls[c][r] # "ok"
        BY <1>b, <2>2, <3>1, <3>3 DEF InFlight
      <4> QED BY <2>2, <3>3, <4>1 DEF InFlight
    <3>4. CASE q = r /\ k # last_seqs[c]
      <4>1. k = last_seqs[c] + 1 /\ Len(log[p]) = last_seqs[c] + 1
        BY <1>b, <2>2, <3>1, <3>4 DEF InFlight
      <4>2. log[p][last_seqs[c] + 1] = request[c].write
        BY <3>1, <4>1 DEF InFlight
      <4>3. last_seqs[c] + 1 \in 1 .. k
        BY <3>1, <4>1
      <4>4. Len(log'[r]) = last_seqs[c] + 1 /\ log'[r][last_seqs[c] + 1] = request[c].write
        BY <2>2, <4>1, <4>2, <4>3
      <4> QED BY <2>2, <3>4, <4>4 DEF InFlight
    <3> QED BY <3>2, <3>3, <3>4
  <2> QED BY <2>1, <2>2, <2>3, <2>4, <2>5 DEF PositionOK
<1>14. ASSUME NEW r \in Replica, NEW ok \in BOOLEAN, Return(r, ok), UNCHANGED <<log, last_seqs, request>>,
              \A c \in Coordinator, q \in Replica : calls'[c][q] = "ok" => calls[c][q] = "ok"
       PROVE  PositionsOK'
  <2> SUFFICES ASSUME NEW c \in Coordinator PROVE PositionOK(c)'
    BY DEF PositionsOK
  <2>1. CASE syncing[c] # r
    <3>1. phase'[c] = phase[c] /\ seen'[c] = seen[c]
      BY <1>14, <2>1, ReturnEffect
    <3> QED BY <1>d, <1>14, <3>1
  <2>2. CASE syncing[c] = r
    <3>1. phase'[c] \in {"repair", "idle"}
      BY <1>14, <2>2, ReturnEffect
    <3>2. phase[c] = "sync"
      BY <2>2, ConstantsAssumption DEF CoordinatorsOK, CoordinatorOK
    <3> QED BY <1>e, <1>14, <3>1, <3>2 DEF Writing
  <2> QED BY <2>1, <2>2
<1>15. ASSUME NEW r \in Replica, SyncDone(r) PROVE PositionsOK'
  BY <1>14, <1>15 DEF SyncDone
<1>16. ASSUME NEW r \in Replica, SyncFails(r) PROVE PositionsOK'
  BY <1>14, <1>16 DEF SyncFails
<1>17. ASSUME NEW r \in Replica, Crash(r) PROVE PositionsOK'
  <2>1. \A c \in Coordinator, q \in Replica : calls'[c][q] = "ok" => calls[c][q] = "ok"
    BY <1>17 DEF Crash, TypeOK
  <2> QED BY <1>14, <1>17, <2>1 DEF Crash
<1>18. ASSUME NEW r \in Replica, FetchLog(r) \/ Restart(r) PROVE PositionsOK'
  BY <1>18, <1>d DEF FetchLog, Restart, PositionsOK
<1>19. ASSUME NEW r \in Replica, ApplyRecord(r) \/ FetchSnapshot(r) \/ LoseDisk(r) PROVE PositionsOK'
  <2>1. Len(log[r]) + 1 \in Nat
    BY <1>b
  <2>2. ~LoseDisk(r)
    BY DEF LoseDisk, IInv, Safe, TypeOK
  <2>3. UNCHANGED coordinators
    BY <1>19, <2>2 DEF ApplyRecord, FetchSnapshot, InstallFrom
  <2> QED BY <1>13, <1>19, <2>1, <2>2, <2>3, ApplyCopies, InstallCopies
<1>20. ASSUME NEW c \in Coordinator, NEW r \in Replica, CallFails(c, r) PROVE PositionsOK'
  <2>1. \A d \in Coordinator, q \in Replica : calls'[d][q] = "ok" => calls[d][q] = "ok"
    BY <1>20 DEF CallFails, TypeOK
  <2> QED BY <1>20, <1>d, <2>1 DEF CallFails, PositionsOK
<1>21. CASE UNCHANGED vars
  BY <1>21, <1>d DEF vars, PositionsOK
<1> QED
  BY <1>1, <1>2, <1>3, <1>4, <1>5, <1>6, <1>7, <1>8, <1>9, <1>10, <1>11, <1>12,
     <1>15, <1>16, <1>17, <1>18, <1>19, <1>20, <1>21, AddReaches
  DEF Next, Starting, Proceeding, Answering, Handling, CatchingUp, Failing

LEMMA SyncingStep == IInv /\ [Next]_vars => SyncingOK'
<1> SUFFICES ASSUME IInv, [Next]_vars PROVE SyncingOK'
  OBVIOUS
<1>a. TypeOK /\ HandlersOK /\ CoordinatorsOK /\ SeenOK /\ SyncingOK /\ Grown /\ TypeOK'
  BY LogsGrow, TypeStep DEF IInv, BaseInv, HistoryInv
<1>b. \A q \in Replica : /\ Len(log[q]) \in Nat /\ Len(log'[q]) \in Nat
                         /\ Len(log[q]) <= Len(log'[q]) /\ Len(pending[q]) \in Nat
  <2>1. log' \in [Replica -> Seq(Write)] /\ pending \in [Replica -> Seq(Numbered)]
    BY <1>a DEF TypeOK
  <2> QED BY <1>a, <2>1, LogTypes, LenProperties DEF Grown
<1>c. \A c \in Coordinator, q \in Replica : seen[c][q] \in Int
  <2>1. \A c \in Coordinator, q \in Replica : seen[c][q] \in Nat \cup {Unknown, Settled}
    BY <1>a DEF TypeOK
  <2>2. Nat \cup {Unknown, Settled} \subseteq Int
    BY DEF Unknown, Settled
  <2> QED BY <2>1, <2>2
<1> USE <1>a, ConstantsAssumption DEF coordinators, replicas, handlers
\* Who waits goes on waiting for the same handler, having seen the same ...
<1>d. ASSUME NEW r \in Replica, NEW c \in Coordinator, syncing[c] = r, seen'[c] = seen[c],
             step'[r] = step[r], pending'[r] = pending[r]
      PROVE  step'[r] = "apply" => \A q \in Replica : seen'[c][q] <= Len(log'[r]) + Len(pending'[r])
  <2> SUFFICES ASSUME step'[r] = "apply", NEW q \in Replica
               PROVE  seen'[c][q] <= Len(log'[r]) + Len(pending'[r])
    OBVIOUS
  <2>1. seen[c][q] <= Len(log[r]) + Len(pending[r])
    BY <1>d DEF SyncingOK
  <2>2. seen[c][q] <= Len(log'[r]) + Len(pending[r])
    <3> DEFINE n == Len(log[r])  m == Len(log'[r])  k == Len(pending[r])  x == seen[c][q]
    <3>1. n \in Int /\ m \in Int /\ k \in Int /\ n <= m
      BY <1>b
    <3>3. x \in Int /\ x <= n + k
      BY <1>c, <2>1
    <3> HIDE DEF n, m, k, x
    <3>2. x <= m + k
      BY <3>1, <3>3
    <3> QED BY <3>2 DEF n, m, k, x
  <2> QED BY <1>d, <2>2
<1>e. ASSUME \A c \in Coordinator : syncing'[c] # Nobody => syncing'[c] = syncing[c] /\ seen'[c] = seen[c],
             \A r \in Replica : step'[r] = "apply" => step'[r] = step[r] /\ pending'[r] = pending[r]
      PROVE  SyncingOK'
  <2> SUFFICES ASSUME NEW c \in Coordinator, NEW t \in Replica, syncing'[c] = t, step'[t] = "apply"
               PROVE  \A q \in Replica : seen'[c][q] <= Len(log'[t]) + Len(pending'[t])
    BY DEF SyncingOK
  <2>1. syncing[c] = t /\ seen'[c] = seen[c] /\ step'[t] = step[t] /\ pending'[t] = pending[t]
    BY <1>e
  <2> QED BY <1>d, <2>1
\* ... but for what one handler does.
<1>f. ASSUME UNCHANGED coordinators, NEW r \in Replica,
             \A q \in Replica : q # r => step'[q] = step[q] /\ pending'[q] = pending[q],
             ASSUME NEW c \in Coordinator, syncing[c] = r, step'[r] = "apply", NEW q \in Replica
             PROVE  seen[c][q] <= Len(log'[r]) + Len(pending'[r])
      PROVE  SyncingOK'
  <2> SUFFICES ASSUME NEW c \in Coordinator, NEW t \in Replica, syncing'[c] = t, step'[t] = "apply",
                      NEW q \in Replica
               PROVE  seen'[c][q] <= Len(log'[t]) + Len(pending'[t])
    BY DEF SyncingOK
  <2>1. syncing[c] = t /\ seen'[c] = seen[c]
    BY <1>f
  <2>2. CASE t = r
    BY <1>f, <2>1, <2>2
  <2>3. CASE t # r
    BY <1>d, <1>f, <2>1, <2>3
  <2> QED BY <2>2, <2>3
<1>1. ASSUME NEW c \in Coordinator,
             \/ StartAdd(c) \/ StartRepair(c) \/ Checked(c) \/ OutOfSync(c) \/ SendChunk(c)
             \/ ChunkDone(c) \/ ChunkFails(c) \/ Polled(c) \/ RepairDone(c)
             \/ CheckFails(c) \/ RepairFails(c) \/ CoordinatorDies(c)
      PROVE  SyncingOK'
  <2>1. UNCHANGED handlers
    BY <1>1 DEF StartAdd, StartRepair, Checked, OutOfSync, SendChunk, ChunkDone, ChunkFails, Polled,
                RepairDone, CheckFails, RepairFails, CoordinatorDies
  <2>2. \A d \in Coordinator : d # c => syncing'[d] = syncing[d] /\ seen'[d] = seen[d]
    BY <1>1 DEF StartAdd, StartRepair, Checked, OutOfSync, SendChunk, ChunkDone, ChunkFails, Polled,
                RepairDone, CheckFails, RepairFails, CoordinatorDies, Leave, TypeOK
  <2>3. syncing'[c] = Nobody
    <3>1. phase[c] # "sync" => syncing[c] = Nobody
      BY DEF CoordinatorsOK, CoordinatorOK
    <3> QED BY <1>1, <3>1
            DEF StartAdd, StartRepair, Checked, OutOfSync, SendChunk, ChunkDone, AllAnswered,
                ChunkFails, Polled, RepairDone, CheckFails, RepairFails, CoordinatorDies, Leave, TypeOK
  <2> QED BY <1>e, <2>1, <2>2, <2>3
<1>2. ASSUME NEW c \in Coordinator, NEW r \in Replica, Status(c, r) \/ Skip(c, r) PROVE SyncingOK'
  <2>1. UNCHANGED <<handlers, syncing>> /\ syncing[c] = Nobody
    BY <1>2 DEF Status, Skip, CoordinatorsOK, CoordinatorOK
  <2>2. \A d \in Coordinator : d # c => seen'[d] = seen[d]
    BY <1>2 DEF Status, Skip, TypeOK
  <2> QED BY <1>e, <2>1, <2>2
<1>3. ASSUME NEW c \in Coordinator, NEW r \in Replica, StartSync(c, r) PROVE SyncingOK'
  <2>1. /\ step'[r] = "log" /\ syncing'[c] = r /\ UNCHANGED <<seen, pending>>
        /\ \A q \in Replica : q # r => step'[q] = step[q]
        /\ \A d \in Coordinator : d # c => syncing'[d] = syncing[d]
    BY <1>3 DEF StartSync, TypeOK
  <2> SUFFICES ASSUME NEW d \in Coordinator, NEW t \in Replica, syncing'[d] = t, step'[t] = "apply"
               PROVE  \A q \in Replica : seen'[d][q] <= Len(log'[t]) + Len(pending'[t])
    BY DEF SyncingOK
  <2>2. t # r /\ d # c
    BY <2>1
  <2> QED BY <1>d, <2>1, <2>2
<1>4. CASE UNCHANGED <<seen, syncing, step, pending>>
  BY <1>4, <1>e
<1>5. ASSUME NEW m \in requests, HandleAdd(m) \/ RejectAdd(m) PROVE SyncingOK'
  BY <1>4, <1>5 DEF HandleAdd, RejectAdd
<1>6. ASSUME NEW r \in Replica, FetchLog(r) PROVE SyncingOK'
  <2>1. UNCHANGED <<coordinators, log>> /\ peer[r] \in Replica /\ step[r] = "log"
    BY <1>6 DEF FetchLog, HandlersOK
  <2>2. \A q \in Replica : q # r => step'[q] = step[q] /\ pending'[q] = pending[q]
    BY <1>6 DEF FetchLog, TypeOK
  <2>3. ASSUME NEW c \in Coordinator, syncing[c] = r, step'[r] = "apply", NEW q \in Replica
        PROVE  seen[c][q] <= Len(log'[r]) + Len(pending'[r])
    <3> DEFINE p == peer[r]  n == Bigger(Len(log[r]), base[p])
    <3>2. Len(log[r]) \in Nat /\ Len(log[p]) \in Nat /\ base[p] \in Nat
      BY <1>b, <2>1 DEF TypeOK
    <3>8. ~Refuses(p, Len(log[r])) /\ pending'[r] = RecordsAfter(p, Len(log[r]))
      <4>1. CASE step' = [step EXCEPT ![r] = "snapshot"]
        BY <2>3, <4>1 DEF TypeOK
      <4>2. CASE /\ ~Refuses(p, Len(log[r]))
                 /\ pending' = [pending EXCEPT ![r] = RecordsAfter(p, Len(log[r]))]
        BY <4>2 DEF TypeOK
      <4> QED BY <1>6, <4>1, <4>2 DEF FetchLog
    <3>1. base[p] <= Len(log[r]) /\ pending'[r] = RecordsAfter(p, Len(log[r]))
      BY <3>2, <3>8 DEF Refuses
    <3>3. n = Len(log[r])
      BY <3>1, <3>2 DEF Bigger
    <3>4. pending'[r] = RecordsAbove(p, Len(log[r]))
      BY <3>1, <3>3 DEF RecordsAfter
    <3>5. Len(pending'[r]) = IF Len(log[r]) <= Len(log[p]) THEN Len(log[p]) - Len(log[r]) ELSE 0
      <4>1. Len(RecordsAbove(p, Len(log[r])))
               = IF Len(log[r]) <= Len(log[p]) THEN Len(log[p]) - Len(log[r]) ELSE 0
        BY <2>1, <3>2, RecordsAboveType
      <4> QED BY <3>4, <4>1
    <3>6. seen[c][q] <= seen[c][p] /\ seen[c][p] <= Len(log[p])
      BY <2>1, <2>3 DEF CoordinatorsOK, CoordinatorOK, IsSource, SeenOK
    <3>7. log'[r] = log[r] /\ seen[c][q] \in Int /\ seen[c][p] \in Int
      BY <1>c, <2>1
    <3> DEFINE i == Len(log[r])  j == Len(log[p])  k == Len(pending'[r])
               x == seen[c][q]   y == seen[c][p]
    <3>9. /\ i \in Int /\ j \in Int /\ x \in Int /\ y \in Int
          /\ x <= y /\ y <= j /\ k = IF i <= j THEN j - i ELSE 0
      BY <3>2, <3>5, <3>6, <3>7
    <3> HIDE DEF i, j, k, x, y
    <3>10. x <= i + k
      BY <3>9
    <3> QED BY <3>7, <3>10 DEF i, k, x
  <2> QED BY <1>f, <2>1, <2>2, <2>3
<1>7. ASSUME NEW r \in Replica, ApplyRecord(r) PROVE SyncingOK'
  <2>1. /\ UNCHANGED <<coordinators, step>> /\ pending[r] \in Seq(Numbered) /\ pending[r] # <<>>
        /\ pending'[r] = Tail(pending[r])
        /\ \A q \in Replica : q # r => pending'[q] = pending[q]
    BY <1>7 DEF ApplyRecord, TypeOK
  <2>2. Len(pending'[r]) = Len(pending[r]) - 1
    BY <2>1, TailRecords
  <2>3. Len(log'[r]) = Len(log[r]) + 1
    BY <1>7, ApplyCopies DEF Copies
  <2>4. ASSUME NEW c \in Coordinator, syncing[c] = r, step'[r] = "apply", NEW q \in Replica
        PROVE  seen[c][q] <= Len(log'[r]) + Len(pending'[r])
    <3>1. seen[c][q] <= Len(log[r]) + Len(pending[r])
      BY <2>1, <2>4 DEF SyncingOK
    <3>2. /\ Len(log[r]) \in Int /\ Len(pending[r]) \in Int
          /\ Len(log'[r]) \in Int /\ Len(pending'[r]) \in Int
      BY <1>b, <2>2
    <3>3. Len(log'[r]) + Len(pending'[r]) = Len(log[r]) + Len(pending[r])
      <4> DEFINE n == Len(log[r])      m == Len(log'[r])
                 k == Len(pending[r])  l == Len(pending'[r])
      <4>1. n \in Int /\ m \in Int /\ k \in Int /\ l \in Int /\ m = n + 1 /\ l = k - 1
        BY <2>2, <2>3, <3>2
      <4> HIDE DEF n, m, k, l
      <4>2. m + l = n + k
        BY <4>1
      <4> QED BY <4>2 DEF n, m, k, l
    <3> QED BY <3>1, <3>3
  <2> QED BY <1>f, <2>1, <2>4
<1>8. ASSUME NEW r \in Replica, FetchSnapshot(r) PROVE SyncingOK'
  <2>1. /\ UNCHANGED <<coordinators, pending>> /\ step'[r] = "log"
        /\ \A q \in Replica : q # r => step'[q] = step[q]
    BY <1>8 DEF FetchSnapshot, InstallFrom, TypeOK
  <2> QED BY <1>f, <2>1
<1>9. ASSUME NEW r \in Replica, NEW ok \in BOOLEAN, Return(r, ok) PROVE SyncingOK'
  <2>1. /\ step'[r] = "idle"
        /\ \A q \in Replica : q # r => step'[q] = step[q] /\ pending'[q] = pending[q]
    BY <1>9, ReturnEffect
  <2>2. \A c \in Coordinator : syncing'[c] # Nobody => syncing'[c] = syncing[c] /\ seen'[c] = seen[c]
    BY <1>9, ReturnEffect
  <2> QED BY <1>e, <2>1, <2>2
<1>10. ASSUME NEW r \in Replica, SyncDone(r) \/ SyncFails(r) \/ Crash(r) PROVE SyncingOK'
  BY <1>9, <1>10 DEF SyncDone, SyncFails, Crash
<1>11. ASSUME NEW r \in Replica, Restart(r) \/ LoseDisk(r) PROVE SyncingOK'
  BY <1>4, <1>11 DEF Restart, LoseDisk
<1>12. ASSUME NEW c \in Coordinator, NEW r \in Replica, CallFails(c, r) PROVE SyncingOK'
  BY <1>4, <1>12 DEF CallFails
<1>13. CASE UNCHANGED vars
  BY <1>4, <1>13 DEF vars
<1> QED
  BY <1>1, <1>2, <1>3, <1>5, <1>6, <1>7, <1>8, <1>10, <1>11, <1>12, <1>13
  DEF Next, Starting, Proceeding, Answering, Handling, CatchingUp, Failing

\* The histories of the replicas under Safe: what the theorems below rest on.
THEOREM HistoryInvariant == Safe /\ Spec => []IInv
<1>1. Safe /\ Init => IInv
  <2> SUFFICES ASSUME Safe, Init PROVE BaseInv /\ NetworkInv /\ HistoryInv
    BY DEF IInv
  <2>1. BaseInv
    BY BaseInit
  <2>2. NetworkInv
    BY DEF Init, NetworkInv, OneWriter, NoStragglers, Writing
  <2>3. Len(<<>>) = 0
    BY EmptySeq
  <2>4. SameNumberSameWrite /\ PendingCopies /\ AckedEverywhere
    BY <2>3 DEF Init, SameNumberSameWrite, PendingCopies, AckedEverywhere
  <2>5. SeenOK /\ PositionsOK /\ SyncingOK
    BY <2>3, ConstantsAssumption
       DEF Init, SeenOK, PositionsOK, PositionOK, SyncingOK, NoAnswers, Unknown, Writing
  <2> QED BY <2>1, <2>2, <2>4, <2>5 DEF HistoryInv
<1>2. IInv /\ [Next]_vars => IInv'
  <2> SUFFICES ASSUME IInv, [Next]_vars PROVE IInv'
    OBVIOUS
  <2>1. Safe'
    BY DEF IInv, Safe
  <2>2. BaseInv'
    BY BaseStep DEF IInv
  <2>3. NetworkInv'
    BY WriterStep, StragglersStep DEF IInv, NetworkInv
  <2>4. HistoryInv'
    BY SameNumberStep, PendingStep, SeenStep, PositionsStep, AckedStep, SyncingStep DEF HistoryInv
  <2> QED BY <2>1, <2>2, <2>3, <2>4 DEF IInv
<1> QED BY <1>1, <1>2, PTL DEF Spec

-----------------------------------------------------------------------------
(***************************************************************************)
(* What follows from the invariant.                                        *)
(***************************************************************************)
\* When no disk is lost and no Add outlives its call, adds, repairs and crashes in any
\* order never give a number to two writes: the logs of two replicas differ only in
\* length.
THEOREM NumbersAgree == Safe /\ Spec => []SameNumberSameWrite
<1>1. IInv => SameNumberSameWrite
  BY DEF IInv, HistoryInv
<1> QED BY <1>1, HistoryInvariant, PTL

\* A snapshot that FetchSnapshot installs is ahead of the replica and begins with
\* what the replica holds, so install_snapshot takes nothing away.
THEOREM InstallsAlwaysAhead == Safe /\ Spec => InstallsAhead
<1> DEFINE Step == \A r \in Replica : FetchSnapshot(r) => Len(log[r]) < Len(log'[r]) /\ Prefix(log[r], log'[r])
<1>1. ASSUME IInv, [Next]_vars, NEW r \in Replica, FetchSnapshot(r)
      PROVE  Len(log[r]) < Len(log'[r]) /\ Prefix(log[r], log'[r])
  <2>1. TypeOK /\ TypeOK' /\ Grown
    BY <1>1, TypeStep, LogsGrow DEF IInv, BaseInv
  <2>2. /\ log[r] \in Seq(Write) /\ Len(log[r]) \in Nat
        /\ log'[r] \in Seq(Write) /\ Len(log'[r]) \in Nat
    <3>1. log' \in [Replica -> Seq(Write)]
      BY <2>1 DEF TypeOK
    <3> QED BY <2>1, <3>1, LogTypes, LenProperties
  <2>3. PICK k \in Nat : Len(log'[r]) = k /\ Len(log[r]) < k
    BY <1>1, InstallCopies DEF Copies, IInv
  <2>4. /\ SubSeq(log'[r], 1, Len(log[r])) \in Seq(Write)
        /\ Len(SubSeq(log'[r], 1, Len(log[r]))) = Len(log[r])
        /\ \A i \in 1 .. Len(log[r]) : SubSeq(log'[r], 1, Len(log[r]))[i] = log'[r][i]
    BY <2>2, <2>3, SubSeqProperties
  <2>5. \A i \in 1 .. Len(log[r]) : log'[r][i] = log[r][i]
    BY <2>1 DEF Grown
  <2>6. SubSeq(log'[r], 1, Len(log[r])) = log[r]
    BY <2>2, <2>4, <2>5, SeqEqual
  <2> QED BY <2>2, <2>3, <2>6 DEF Prefix
<1>2. IInv /\ [Next]_vars => Step
  BY <1>1
<1>3. IInv /\ [Next]_vars => [Step]_vars
  BY <1>2
<1> HIDE DEF Step
<1>4. Safe /\ Spec => [][Step]_vars
  BY <1>3, HistoryInvariant, PTL DEF Spec
<1> QED BY <1>4 DEF Step, InstallsAhead

\* When SyncFrom reports success, the replica has at least as many writes as any
\* replica had when repair() polled them.
THEOREM SyncAlwaysLevels == Safe /\ Spec => SyncLevels
<1> DEFINE Step == \A c \in Coordinator, r \in Replica :
                      /\ syncing[c] = r /\ SyncDone(r)
                      /\ Len(log[peer[r]]) >= seen[c][peer[r]]
                      => \A q \in Replica : seen[c][q] <= Len(log[r])
<1>1. ASSUME IInv, NEW c \in Coordinator, NEW r \in Replica, syncing[c] = r, SyncDone(r),
             NEW q \in Replica
      PROVE  seen[c][q] <= Len(log[r])
  <2>1. step[r] = "apply" /\ Len(pending[r]) = 0
    BY <1>1, EmptySeq DEF SyncDone
  <2>2. seen[c][q] <= Len(log[r]) + Len(pending[r]) /\ Len(log[r]) \in Nat
    BY <1>1, <2>1, LogTypes DEF IInv, BaseInv, HistoryInv, SyncingOK
  <2> QED BY <2>1, <2>2
<1>2. IInv /\ [Next]_vars => [Step]_vars
  BY <1>1
<1> HIDE DEF Step
<1>3. Safe /\ Spec => [][Step]_vars
  BY <1>2, HistoryInvariant, PTL DEF Spec
<1> QED BY <1>3 DEF Step, SyncLevels

-----------------------------------------------------------------------------
(***************************************************************************)
(* The shard as a whole is a durable log.                                  *)
(***************************************************************************)
Top(l) == l[CHOOSE r \in Replica : \A q \in Replica : Len(l[q]) <= Len(l[r])]

\* Which of the most advanced copies is chosen does not matter.
LEMMA TopIs ==
    ASSUME NEW l \in [Replica -> Seq(Write)],
           \A q, r \in Replica : \A s \in 1 .. Len(l[q]) : s <= Len(l[r]) => l[q][s] = l[r][s],
           NEW r \in Replica, \A q \in Replica : Len(l[q]) <= Len(l[r])
    PROVE  Top(l) = l[r]
<1>1. PICK t \in Replica : Top(l) = l[t] /\ \A q \in Replica : Len(l[q]) <= Len(l[t])
  BY DEF Top
<1>2. l[t] \in Seq(Write) /\ l[r] \in Seq(Write) /\ Len(l[t]) \in Nat /\ Len(l[r]) \in Nat
  BY LenProperties
<1>3. Len(l[t]) = Len(l[r])
  BY <1>1, <1>2
<1>4. \A i \in 1 .. Len(l[t]) : l[t][i] = l[r][i]
  BY <1>2, <1>3
<1> QED BY <1>1, <1>2, <1>3, <1>4, SeqEqual

\* One step of the replicas is one step of the log, or none.
LEMMA ShardLogStep ==
    ASSUME IInv, IInv', [Next]_vars
    PROVE  [DurableLog!Next]_<<ShardLog, acked>>
<1>1. /\ log \in [Replica -> Seq(Write)] /\ log' \in [Replica -> Seq(Write)] /\ Grown
      /\ TypeOK /\ TypeOK' /\ SameNumberSameWrite /\ SameNumberSameWrite'
  BY LogsGrow DEF IInv, BaseInv, HistoryInv, TypeOK
<1>2. PICK r \in Replica : \A q \in Replica : Len(log[q]) <= Len(log[r])
  BY <1>1, SomeMostAdvanced DEF MostAdvanced
<1>3. PICK t \in Replica : \A q \in Replica : Len(log'[q]) <= Len(log'[t])
  <2> DEFINE Size == [q \in Replica |-> Len(log'[q])]
  <2>1. Size \in [Replica -> Nat]
    BY <1>1, LenProperties
  <2>2. \A q \in Replica : Size[q] = Len(log'[q])
    OBVIOUS
  <2> HIDE DEF Size
  <2>3. \E u \in Replica : \A q \in Replica : Size[q] <= Size[u]
    BY <2>1, ConstantsAssumption, Greatest
  <2> QED BY <2>2, <2>3
<1>4. ShardLog = log[r]
  <2>1. Top(log) = log[r]
    BY <1>1, <1>2, TopIs DEF SameNumberSameWrite
  <2> QED BY <2>1 DEF Top, ShardLog, MostAdvanced
<1>5. ShardLog' = log'[t]
  <2>1. \A p, q \in Replica : \A s \in 1 .. Len(log'[p]) : s <= Len(log'[q]) => log'[p][s] = log'[q][s]
    BY <1>1 DEF SameNumberSameWrite
  <2>2. PICK l : l = log'
    OBVIOUS
  <2>3. Top(l) = l[t]
    BY <1>1, <1>3, <2>1, <2>2, TopIs
  <2> QED BY <2>2, <2>3 DEF Top, ShardLog, MostAdvanced
<1>6. /\ log[r] \in Seq(Write) /\ Len(log[r]) \in Nat /\ log'[t] \in Seq(Write) /\ Len(log'[t]) \in Nat
      /\ Len(log'[r]) \in Nat
  BY <1>1, LenProperties
<1>7. Len(log[r]) <= Len(log'[t])
  <2>1. Len(log[r]) <= Len(log'[r]) /\ Len(log'[r]) <= Len(log'[t])
    BY <1>1, <1>3 DEF Grown
  <2> QED BY <1>6, <2>1
<1>8. \A i \in 1 .. Len(log[r]) : log'[t][i] = log[r][i]
  <2> SUFFICES ASSUME NEW i \in 1 .. Len(log[r]) PROVE log'[t][i] = log[r][i]
    OBVIOUS
  <2>1. log'[r][i] = log[r][i] /\ i \in 1 .. Len(log'[r]) /\ i <= Len(log'[t])
    BY <1>1, <1>6, <1>7 DEF Grown
  <2>2. log'[r][i] = log'[t][i]
    BY <1>1, <2>1 DEF SameNumberSameWrite
  <2> QED BY <2>1, <2>2
<1>9. CASE Len(log[r]) < Len(log'[t])
  <2>1. SubSeq(log'[t], 1, Len(log[r])) = log[r]
    <3>1. /\ SubSeq(log'[t], 1, Len(log[r])) \in Seq(Write)
          /\ Len(SubSeq(log'[t], 1, Len(log[r]))) = Len(log[r])
          /\ \A i \in 1 .. Len(log[r]) : SubSeq(log'[t], 1, Len(log[r]))[i] = log'[t][i]
      BY <1>6, <1>7, SubSeqProperties
    <3> QED BY <1>6, <1>8, <3>1, SeqEqual
  <2>2. UNCHANGED acked
    <3>1. CASE UNCHANGED log
      BY <1>2, <1>6, <1>9, <3>1
    <3>2. CASE \E m \in requests : HandleAdd(m)
      BY <3>2 DEF HandleAdd
    <3> QED BY <3>1, <3>2, LogSteps
  <2>3. DurableLog!Grow
    BY <1>4, <1>5, <1>6, <1>9, <2>1, <2>2 DEF DurableLog!Grow
  <2> QED BY <2>3 DEF DurableLog!Next
<1>10. CASE Len(log[r]) = Len(log'[t])
  <2>1. ShardLog' = ShardLog
    BY <1>4, <1>5, <1>6, <1>8, <1>10, SeqEqual
  <2>2. CASE acked' = acked
    BY <2>1, <2>2
  <2>3. ASSUME NEW c \in Coordinator, ChunkDone(c) PROVE DurableLog!Acknowledge
    <3>1. acked' = acked \cup {request[c]} /\ request[c] \in [seq : Nat, write : Nat]
      BY <1>1, <2>3 DEF ChunkDone, TypeOK
    <3>2. /\ last_seqs[c] \in Nat /\ request[c].seq = last_seqs[c] + 1
          /\ Len(log[r]) = last_seqs[c] + 1 /\ log[r][last_seqs[c] + 1] = request[c].write
      BY <2>3, ChunkIsEverywhere
    <3>3. request[c] = [seq |-> Len(log[r]), write |-> log[r][Len(log[r])]] /\ Len(log[r]) \in 1 .. Len(log[r])
      BY <3>1, <3>2
    <3> QED BY <1>4, <2>1, <3>1, <3>3 DEF DurableLog!Acknowledge
  <2> QED BY <2>1, <2>2, <2>3, AckedSteps DEF DurableLog!Next
<1> QED BY <1>6, <1>7, <1>9, <1>10

\* When no disk is lost and no Add outlives its call, the replicas of a shard, seen
\* from outside through add() and repair(), behave like one durable log that only
\* grows: the most advanced copy.
THEOREM ReplicationIsADurableLog == Safe /\ Spec => ImplementsDurableLog
<1>1. Init => DurableLog!Init
  <2>1. ASSUME Init PROVE ShardLog = <<>>
    <3>1. PICK r \in Replica : MostAdvanced(r)
      BY <2>1, TypeInit, SomeMostAdvanced
    <3> QED BY <2>1, <3>1 DEF ShardLog, Init
  <2> QED BY <2>1 DEF Init, DurableLog!Init
<1>2. IInv /\ IInv' /\ [Next]_vars => [DurableLog!Next]_<<ShardLog, acked>>
  BY ShardLogStep
<1> QED BY <1>1, <1>2, HistoryInvariant, PTL DEF Spec, ImplementsDurableLog, DurableLog!Spec

-----------------------------------------------------------------------------
(***************************************************************************)
(* With disk losses, up to all disks but one, and whatever repairs of the  *)
(* lost ones are going on, the replicas keep every acknowledged write:     *)
(* what repair() copies from always has them. The results of the sections  *)
(* above that need Safe are not to be had then: two replicas may well      *)
(* disagree on a write that was never acknowledged.                        *)
(***************************************************************************)
\* One disk at least is never lost; no request outlives its call; nobody
\* writes from a position he has not checked since another one wrote.
Recoverable ==
    /\ MaxLosses < Cardinality(Replica) /\ ~Stragglers
    /\ CallersRefresh \/ \A c, d \in Coordinator : c = d

\* If the replica has, or is about to apply, a write with number n, it is w.
LogHas(r, n, w) == n <= Len(log[r]) => log[r][n] = w

PendingHas(r, n, w) ==
    \A i \in 1 .. Len(pending[r]) : pending[r][i].seq = n => pending[r][i].write = w

\* No other write takes the number of an acknowledged one.
AckedKept ==
    \A a \in acked : 1 <= a.seq /\ \A r \in Replica : LogHas(r, a.seq, a.write)
                                                     /\ PendingHas(r, a.seq, a.write)

\* c may send its next chunk, now or when its caller next calls add().
MaySend(c) ==
    \/ phase[c] \in {"send", "wait"}
    \/ ~CallersRefresh /\ phase[c] \notin Writing /\ last_seqs[c] # Unknown

\* A chunk gets a number above those of all acknowledged ones.
AboveAcked == \A c \in Coordinator : MaySend(c) => \A a \in acked : a.seq <= last_seqs[c]

\* The chunk c waits for will not be acknowledged: a call has failed, or is
\* going to be refused because the replica has a write with this number.
Refused(c, r) ==
    \/ calls[c][r] = "failed"
    \/ calls[c][r] = "sent" /\ r \in up /\ Len(log[r]) > last_seqs[c]

Doomed(c) == \E r \in Replica : Refused(c, r)

\* A replica has no other write with the number of the chunk, or has not
\* answered yet: it is stopped, or about to apply that other write.
OnlyThat(c, r) ==
    /\ LogHas(r, last_seqs[c] + 1, request[c].write) \/ (r \notin up /\ calls[c][r] = "sent")
    /\ PendingHas(r, last_seqs[c] + 1, request[c].write) \/ calls[c][r] = "sent"

ChunksOK ==
    \A c \in Coordinator : phase[c] = "wait" => Doomed(c) \/ \A r \in Replica : OnlyThat(c, r)

\* A replica that has all acknowledged writes, and has told of no fewer.
Full(r) ==
    /\ \A a \in acked : a.seq <= Len(log[r])
    /\ \A c \in Coordinator :
          /\ phase[c] = "check" /\ seen[c][r] # Unknown => \A a \in acked : a.seq <= seen[c][r]
          /\ phase[c] = "wait" /\ calls[c][r] = "ok" => last_seqs[c] + 1 <= Len(log[r])

Bare == {r \in Replica : ~Full(r)}

LossInv == /\ Recoverable /\ BaseInv /\ NetworkInv
           /\ AckedKept /\ AboveAcked /\ ChunksOK /\ Cardinality(Bare) <= losses

LEMMA SomeFull == LossInv => \E r \in Replica : Full(r)
<1> SUFFICES ASSUME LossInv, Bare = Replica PROVE FALSE
  BY DEF Bare
<1>1. losses <= MaxLosses /\ losses \in Nat /\ MaxLosses \in Nat
  BY ConstantsAssumption DEF LossInv, BaseInv, TypeOK
<1>2. Cardinality(Replica) \in Nat
  BY ConstantsAssumption, FS_CardinalityType
<1> QED BY <1>1, <1>2 DEF LossInv, Recoverable

LEMMA AckedTypes ==
    ASSUME TypeOK, NEW a \in acked
    PROVE  a.seq \in Nat /\ a.write \in Write
BY DEF TypeOK, Numbered

-----------------------------------------------------------------------------
(***************************************************************************)
(* What a step does to the logs and to the records on their way.           *)
(***************************************************************************)
\* Only a lost disk makes a log shorter.
LEMMA LengthStep ==
    ASSUME BaseInv, NoStragglers, [Next]_vars, NEW r \in Replica
    PROVE  Len(log[r]) <= Len(log'[r]) \/ LoseDisk(r)
<1>1. Len(log[r]) \in Nat
  BY LogTypes DEF BaseInv
<1>2. CASE log'[r] = log[r]
  BY <1>1, <1>2
<1>3. CASE UNCHANGED <<replicas, up, losses, handlers>>
  BY <1>2, <1>3 DEF replicas
<1>4. ASSUME NEW m \in requests, HandleAdd(m) PROVE Len(log[r]) <= Len(log'[r])
  <2>1. PICK c \in Coordinator : Reaches(m, c)
    BY <1>4, AddReaches
  <2> QED BY <1>1, <1>2, <2>1 DEF Reaches
<1>5. ASSUME NEW q \in Replica, ApplyRecord(q) PROVE Len(log[r]) <= Len(log'[r])
  <2>1. Head(pending[q]).write \in Write /\ Extend(q, Head(pending[q]).write)
    BY <1>5, TailRecords DEF ApplyRecord, BaseInv, TypeOK
  <2>2. Len(log'[q]) = Len(log[q]) + 1 /\ (r # q => log'[r] = log[r])
    BY <2>1, ExtendEffect DEF BaseInv
  <2> QED BY <1>1, <1>2, <2>2
<1>6. ASSUME NEW q \in Replica, FetchSnapshot(q) PROVE Len(log[r]) <= Len(log'[r])
  BY <1>1, <1>2, <1>6, InstallCopies DEF Copies
<1>7. ASSUME NEW q \in Replica, LoseDisk(q) PROVE Len(log[r]) <= Len(log'[r]) \/ LoseDisk(r)
  BY <1>2, <1>7 DEF LoseDisk, BaseInv, TypeOK
<1>8. ASSUME NEW q \in Replica, NEW c \in Coordinator,
             StartSync(c, q) \/ FetchLog(q) \/ SyncDone(q) \/ SyncFails(q) \/ Crash(q) \/ Restart(q)
      PROVE  log'[r] = log[r]
  BY <1>8 DEF StartSync, FetchLog, SyncDone, SyncFails, Crash, Restart, replicas
<1>9. PICK c \in Coordinator : TRUE
  BY ConstantsAssumption
<1> QED BY <1>2, <1>3, <1>4, <1>5, <1>6, <1>7, <1>8, <1>9, ReplicaSteps

LEMMA UpStep ==
    ASSUME [Next]_vars, NEW r \in up
    PROVE  r \in up' \/ Crash(r)
<1>1. CASE UNCHANGED <<replicas, up, losses, handlers>>
  BY <1>1
<1>2. ASSUME NEW m \in requests, HandleAdd(m) PROVE up' = up
  BY <1>2 DEF HandleAdd
<1>3. ASSUME NEW c \in Coordinator, NEW q \in Replica, StartSync(c, q) PROVE up' = up
  BY <1>3 DEF StartSync
<1>4. ASSUME NEW q \in Replica,
             \/ FetchLog(q) \/ ApplyRecord(q) \/ FetchSnapshot(q) \/ SyncDone(q) \/ SyncFails(q)
             \/ LoseDisk(q)
      PROVE  up' = up
  BY <1>4 DEF FetchLog, ApplyRecord, FetchSnapshot, InstallFrom, SyncDone, SyncFails, LoseDisk
<1>5. ASSUME NEW q \in Replica, Restart(q) \/ Crash(q), q # r PROVE r \in up'
  BY <1>5 DEF Restart, Crash
<1>6. Restart(r) => r \in up'
  BY DEF Restart
<1> QED BY <1>1, <1>2, <1>3, <1>4, <1>5, <1>6, ReplicaSteps

LEMMA LossesStep ==
    ASSUME [Next]_vars, \A r \in Replica : ~LoseDisk(r)
    PROVE  losses' = losses
<1>1. ASSUME NEW c \in Coordinator, NEW r \in Replica, StartSync(c, r) PROVE losses' = losses
  BY <1>1 DEF StartSync
<1>2. ASSUME NEW m \in requests, HandleAdd(m) PROVE losses' = losses
  BY <1>2 DEF HandleAdd
<1>3. ASSUME NEW r \in Replica, \/ FetchLog(r) \/ ApplyRecord(r) \/ FetchSnapshot(r) \/ SyncDone(r)
                               \/ SyncFails(r) \/ Crash(r) \/ Restart(r)
      PROVE  losses' = losses
  BY <1>3 DEF FetchLog, ApplyRecord, FetchSnapshot, InstallFrom, SyncDone, SyncFails, Crash, Restart
<1> QED BY <1>1, <1>2, <1>3, ReplicaSteps

\* A replica gets another write with number n only from a request, from a
\* record on its way, or from a snapshot that has it.
LEMMA LogHasStep ==
    ASSUME BaseInv, NoStragglers, [Next]_vars, NEW r \in Replica, NEW n \in Nat \ {0},
           NEW w, LogHas(r, n, w)
    PROVE  \/ LogHas(r, n, w)'
           \/ ApplyRecord(r) /\ ~PendingHas(r, n, w)
           \/ FetchSnapshot(r) /\ peer[r] \in Replica \cap up /\ ~LogHas(peer[r], n, w)
           \/ \E m \in requests, c \in Coordinator :
                 Reaches(m, c) /\ m.replica = r /\ last_seqs[c] + 1 = n /\ request[c].write # w
<1>1. Len(log[r]) \in Nat
  BY LogTypes DEF BaseInv
<1>2. ASSUME log'[r] = log[r] PROVE LogHas(r, n, w)'
  BY <1>2 DEF LogHas
<1>3. CASE UNCHANGED <<replicas, up, losses, handlers>>
  BY <1>2, <1>3 DEF replicas
<1>4. ASSUME NEW m \in requests, HandleAdd(m)
      PROVE  \/ LogHas(r, n, w)'
             \/ \E c \in Coordinator :
                   Reaches(m, c) /\ m.replica = r /\ last_seqs[c] + 1 = n /\ request[c].write # w
  <2>1. PICK c \in Coordinator : Reaches(m, c)
    BY <1>4, AddReaches
  <2>2. CASE m.replica # r
    BY <1>2, <2>1, <2>2 DEF Reaches
  <2>3. CASE m.replica = r /\ n # last_seqs[c] + 1
    <3>1. /\ Len(log[r]) = last_seqs[c] /\ Len(log'[r]) = last_seqs[c] + 1
          /\ \A i \in 1 .. last_seqs[c] : log'[r][i] = log[r][i]
      BY <2>1, <2>3 DEF Reaches
    <3>2. n <= Len(log'[r]) => n \in 1 .. last_seqs[c] /\ n <= Len(log[r])
      BY <1>1, <2>3, <3>1
    <3> QED BY <3>1, <3>2 DEF LogHas
  <2>4. CASE m.replica = r /\ n = last_seqs[c] + 1 /\ request[c].write = w
    BY <2>1, <2>4 DEF Reaches, LogHas
  <2> QED BY <2>1, <2>2, <2>3, <2>4
<1>5. ASSUME NEW q \in Replica, ApplyRecord(q)
      PROVE  LogHas(r, n, w)' \/ (q = r /\ ~PendingHas(r, n, w))
  <2>1. /\ Head(pending[q]).write \in Write /\ Extend(q, Head(pending[q]).write)
        /\ Head(pending[q]).seq = Len(log[q]) + 1 /\ Head(pending[q]) = pending[q][1]
        /\ 1 \in 1 .. Len(pending[q])
    <3>1. /\ pending[q] \in Seq(Numbered) /\ pending[q] # <<>>
          /\ Extend(q, Head(pending[q]).write) /\ Head(pending[q]).seq = Len(log[q]) + 1
      BY <1>5 DEF ApplyRecord, BaseInv, TypeOK
    <3>2. /\ Head(pending[q]) = pending[q][1] /\ Head(pending[q]).write \in Write
          /\ Len(pending[q]) \in Nat \ {0}
      BY <3>1, TailRecords
    <3> QED BY <3>1, <3>2
  <2>2. /\ Len(log'[q]) = Len(log[q]) + 1 /\ log'[q][Len(log[q]) + 1] = Head(pending[q]).write
        /\ \A i \in 1 .. Len(log[q]) : log'[q][i] = log[q][i]
        /\ r # q => log'[r] = log[r]
    BY <2>1, ExtendEffect DEF BaseInv
  <2>3. CASE r # q
    BY <1>2, <2>2, <2>3
  <2>4. CASE r = q /\ n # Len(log[r]) + 1
    <3>1. n <= Len(log'[r]) => n \in 1 .. Len(log[r]) /\ n <= Len(log[r])
      BY <1>1, <2>2, <2>4
    <3> QED BY <2>2, <2>4, <3>1 DEF LogHas
  <2>5. CASE r = q /\ n = Len(log[r]) + 1 /\ PendingHas(r, n, w)
    <3>1. Head(pending[r]).write = w
      BY <2>1, <2>5 DEF PendingHas
    <3> QED BY <2>2, <2>5, <3>1 DEF LogHas
  <2> QED BY <2>3, <2>4, <2>5
<1>6. ASSUME NEW q \in Replica, FetchSnapshot(q)
      PROVE  LogHas(r, n, w)' \/ (q = r /\ peer[r] \in Replica \cap up /\ ~LogHas(peer[r], n, w))
  <2>1. PICK k \in Nat : Copies(q, peer[q], k)
    BY <1>6, InstallCopies
  <2>2. peer[q] \in Replica /\ peer[q] \in up
    BY <1>6, InstallCopies DEF FetchSnapshot, InstallFrom, Serves
  <2>3. CASE r # q
    BY <1>2, <2>1, <2>3 DEF Copies
  <2>4. CASE r = q /\ LogHas(peer[r], n, w)
    <3>1. Len(log[peer[r]]) \in Nat
      BY <2>2, <2>4, LogTypes DEF BaseInv
    <3>2. n <= Len(log'[r]) => n \in 1 .. k /\ n <= Len(log[peer[r]])
      BY <2>1, <2>4, <3>1 DEF Copies
    <3> QED BY <2>1, <2>4, <3>2 DEF Copies, LogHas
  <2> QED BY <2>2, <2>3, <2>4
<1>7. ASSUME NEW q \in Replica, LoseDisk(q) PROVE LogHas(r, n, w)'
  <2>1. log'[r] = log[r] \/ log'[r] = <<>>
    BY <1>7 DEF LoseDisk, BaseInv, TypeOK
  <2>2. CASE log'[r] = <<>>
    <3>1. Len(log'[r]) = 0
      BY <2>2, EmptySeq
    <3> QED BY <3>1 DEF LogHas
  <2> QED BY <1>2, <2>1, <2>2
<1>8. ASSUME NEW q \in Replica, NEW c \in Coordinator,
             StartSync(c, q) \/ FetchLog(q) \/ SyncDone(q) \/ SyncFails(q) \/ Crash(q) \/ Restart(q)
      PROVE  log'[r] = log[r]
  BY <1>8 DEF StartSync, FetchLog, SyncDone, SyncFails, Crash, Restart, replicas
<1>9. PICK c \in Coordinator : TRUE
  BY ConstantsAssumption
<1> QED BY <1>2, <1>3, <1>4, <1>5, <1>6, <1>7, <1>8, <1>9, ReplicaSteps

\* A record with number n gets on its way only if the peer has it.
LEMMA PendingHasStep ==
    ASSUME BaseInv, [Next]_vars, NEW r \in Replica, NEW n \in Nat \ {0}, NEW w, PendingHas(r, n, w)
    PROVE  \/ PendingHas(r, n, w)'
           \/ peer[r] \in Replica \cap up /\ ~LogHas(peer[r], n, w)
<1>1. ASSUME pending'[r] = pending[r] PROVE PendingHas(r, n, w)'
  BY <1>1 DEF PendingHas
<1>2. ASSUME pending'[r] = <<>> PROVE PendingHas(r, n, w)'
  BY <1>2, EmptySeq DEF PendingHas
<1>3. ASSUME UNCHANGED pending PROVE PendingHas(r, n, w)'
  BY <1>1, <1>3
<1>4. ASSUME NEW q \in Replica, FetchLog(q), LogHas(peer[r], n, w) PROVE PendingHas(r, n, w)'
  <2>1. UNCHANGED pending \/ pending' = [pending EXCEPT ![q] = RecordsAfter(peer[q], Len(log[q]))]
    BY <1>4 DEF FetchLog
  <2>2. CASE q # r
    <3>1. pending'[r] = pending[r]
      BY <2>1, <2>2 DEF BaseInv, TypeOK
    <3> QED BY <1>1, <3>1
  <2>3. CASE q = r /\ pending' = [pending EXCEPT ![q] = RecordsAfter(peer[q], Len(log[q]))]
    <3> DEFINE k == Bigger(Len(log[r]), base[peer[r]])
    <3>1. peer[r] \in Replica /\ step[r] = "log"
      BY <1>4, <2>3 DEF FetchLog, BaseInv, HandlersOK
    <3>2. k \in Nat
      BY <3>1, LogTypes DEF Bigger, BaseInv
    <3>3. pending'[r] = RecordsAbove(peer[r], k)
      BY <2>3 DEF RecordsAfter, BaseInv, TypeOK
    <3>4. \A i \in 1 .. Len(RecordsAbove(peer[r], k)) :
             /\ RecordsAbove(peer[r], k)[i].seq = k + i /\ k + i \in 1 .. Len(log[peer[r]])
             /\ RecordsAbove(peer[r], k)[i].write = log[peer[r]][k + i]
      BY <3>1, <3>2, RecordsAboveType DEF BaseInv
    <3> HIDE DEF k
    <3> SUFFICES ASSUME NEW i \in 1 .. Len(RecordsAbove(peer[r], k)), RecordsAbove(peer[r], k)[i].seq = n
                 PROVE  RecordsAbove(peer[r], k)[i].write = w
      BY <3>3 DEF PendingHas
    <3>5. n \in 1 .. Len(log[peer[r]]) /\ RecordsAbove(peer[r], k)[i].write = log[peer[r]][n]
      BY <3>4
    <3>6. n <= Len(log[peer[r]])
      BY <3>1, <3>5, LogTypes DEF BaseInv
    <3> QED BY <1>4, <3>5, <3>6 DEF LogHas
  <2> QED BY <1>3, <2>1, <2>2, <2>3
<1>5. ASSUME FetchLog(r) PROVE peer[r] \in Replica \cap up
  BY <1>5 DEF FetchLog, Serves, BaseInv, HandlersOK
<1>6. ASSUME NEW q \in Replica, ApplyRecord(q) PROVE PendingHas(r, n, w)'
  <2>1. /\ pending' = [pending EXCEPT ![q] = Tail(@)] /\ pending[q] \in Seq(Numbered)
        /\ pending[q] # <<>> /\ pending \in [Replica -> Seq(Numbered)]
    BY <1>6 DEF ApplyRecord, BaseInv, TypeOK
  <2>2. CASE q # r
    BY <1>1, <2>1, <2>2
  <2>3. CASE q = r
    <3> DEFINE m == Len(pending[r])
    <3>1. /\ pending'[r] = Tail(pending[r]) /\ m \in Nat \ {0} /\ Len(Tail(pending[r])) = m - 1
          /\ \A i \in 1 .. m - 1 : Tail(pending[r])[i] = pending[r][i + 1]
      BY <2>1, <2>3, TailRecords
    <3>2. \A i \in 1 .. m : pending[r][i].seq = n => pending[r][i].write = w
      BY DEF PendingHas
    <3> HIDE DEF m
    <3>3. \A i \in 1 .. m - 1 : i + 1 \in 1 .. m
      BY <3>1
    <3> QED BY <3>1, <3>2, <3>3 DEF PendingHas
  <2> QED BY <2>2, <2>3
<1>7. ASSUME NEW q \in Replica, SyncDone(q) \/ SyncFails(q) \/ Crash(q) PROVE PendingHas(r, n, w)'
  <2>1. PICK ok \in BOOLEAN : Return(q, ok)
    BY <1>7 DEF SyncDone, SyncFails, Crash
  <2>2. pending'[r] = pending[r] \/ pending'[r] = <<>>
    BY <2>1, ReturnEffect DEF BaseInv
  <2> QED BY <1>1, <1>2, <2>2
<1>8. ASSUME NEW q \in Replica, NEW c \in Coordinator,
             StartSync(c, q) \/ FetchSnapshot(q) \/ Restart(q) \/ LoseDisk(q)
      PROVE  UNCHANGED pending
  BY <1>8 DEF StartSync, FetchSnapshot, InstallFrom, Restart, LoseDisk, handlers
<1>9. ASSUME NEW m \in requests, HandleAdd(m) PROVE UNCHANGED pending
  BY <1>9 DEF HandleAdd, handlers
<1>10. ASSUME UNCHANGED <<replicas, up, losses, handlers>> PROVE UNCHANGED pending
  BY <1>10 DEF handlers
<1>11. ASSUME NEW q \in Replica, FetchLog(q)
       PROVE  PendingHas(r, n, w)' \/ (peer[r] \in Replica \cap up /\ ~LogHas(peer[r], n, w))
  <2>1. CASE q # r
    <3>1. pending'[r] = pending[r]
      BY <1>11, <2>1 DEF FetchLog, BaseInv, TypeOK
    <3> QED BY <1>1, <3>1
  <2>2. CASE q = r
    BY <1>4, <1>5, <1>11, <2>2
  <2> QED BY <2>1, <2>2
<1>12. PICK c \in Coordinator : TRUE
  BY ConstantsAssumption
<1> QED BY <1>3, <1>6, <1>7, <1>8, <1>9, <1>10, <1>11, <1>12, ReplicaSteps

-----------------------------------------------------------------------------
(***************************************************************************)
(* What a step does to a coordinator that writes.                          *)
(***************************************************************************)
\* While c waits, its chunk stays the same; a call ends when it fails or when
\* the replica takes the chunk.
CallGoesOn(c, r) ==
    \/ calls'[c][r] = calls[c][r]
    \/ calls[c][r] = "sent" /\ calls'[c][r] = "failed"
    \/ /\ calls[c][r] = "sent" /\ calls'[c][r] = "ok" /\ r \in up /\ step[r] = "idle"
       /\ \E m \in requests : HandleAdd(m) /\ Reaches(m, c) /\ m.replica = r

KeepsWaiting(c) ==
    /\ last_seqs'[c] = last_seqs[c] /\ request'[c] = request[c]
    /\ \A r \in Replica : CallGoesOn(c, r)

LEMMA WaitStep ==
    ASSUME BaseInv, NetworkInv, ~Stragglers, [Next]_vars, NEW c \in Coordinator,
           phase[c] = "wait", phase'[c] = "wait"
    PROVE  KeepsWaiting(c)
<1>a. TypeOK /\ CoordinatorsOK /\ NoStragglers /\ OneWriter
  BY DEF BaseInv, NetworkInv
<1>1. ASSUME last_seqs'[c] = last_seqs[c], request'[c] = request[c], calls'[c] = calls[c]
      PROVE  KeepsWaiting(c)
  BY <1>1 DEF KeepsWaiting, CallGoesOn
<1>2. ASSUME last_seqs'[c] = last_seqs[c], request'[c] = request[c],
             \A r \in Replica : \/ calls'[c][r] = calls[c][r]
                                \/ calls[c][r] = "sent" /\ calls'[c][r] = "failed"
      PROVE  KeepsWaiting(c)
  BY <1>2 DEF KeepsWaiting, CallGoesOn
<1>3. ASSUME NEW d \in Coordinator,
             \/ StartAdd(d) \/ StartRepair(d) \/ Checked(d) \/ OutOfSync(d) \/ SendChunk(d)
             \/ ChunkDone(d) \/ ChunkFails(d) \/ Polled(d) \/ RepairDone(d)
             \/ CheckFails(d) \/ RepairFails(d) \/ CoordinatorDies(d)
      PROVE  KeepsWaiting(c)
  <2>1. d # c
    BY <1>a, <1>3 DEF StartAdd, StartRepair, Checked, OutOfSync, SendChunk, ChunkDone, ChunkFails, Polled,
                RepairDone, CheckFails, RepairFails, CoordinatorDies, Leave, TypeOK
  <2>2. last_seqs'[c] = last_seqs[c] /\ request'[c] = request[c] /\ calls'[c] = calls[c]
    BY <1>a, <1>3, <2>1
       DEF StartAdd, StartRepair, Checked, OutOfSync, SendChunk, ChunkDone, ChunkFails, Polled,
           RepairDone, CheckFails, RepairFails, CoordinatorDies, Leave, TypeOK
  <2> QED BY <1>1, <2>2
<1>4. ASSUME NEW d \in Coordinator, NEW r \in Replica, Status(d, r) \/ StartSync(d, r) \/ Skip(d, r)
      PROVE  KeepsWaiting(c)
  BY <1>1, <1>4 DEF Status, StartSync, Skip
<1>5. ASSUME NEW d \in Coordinator, NEW r \in Replica, CallFails(d, r) PROVE KeepsWaiting(c)
  <2>1. /\ last_seqs'[c] = last_seqs[c] /\ request'[c] = request[c]
        /\ \A q \in Replica : \/ calls'[c][q] = calls[c][q]
                              \/ calls[c][q] = "sent" /\ calls'[c][q] = "failed"
    BY <1>a, <1>5 DEF CallFails, TypeOK
  <2> QED BY <1>2, <2>1
<1>6. ASSUME NEW m \in requests, HandleAdd(m) PROVE KeepsWaiting(c)
  <2>1. PICK d \in Coordinator : Reaches(m, d)
    BY <1>a, <1>6, AddReaches
  <2>2. d = c
    BY <1>a, <2>1 DEF Reaches, IsWaitedFor, OneWriter, Writing
  <2>3. PICK outcome \in {"ok", "failed"} : Answer(m, outcome)
    BY <1>6 DEF HandleAdd
  <2>4. \A r \in Replica : IF r = m.replica /\ request[c].write = m.write /\ calls[c][r] = "sent"
                             THEN calls'[c][r] = outcome ELSE calls'[c][r] = calls[c][r]
    BY <1>a, <2>3, AnswerEffect
  <2>5. UNCHANGED <<last_seqs, request>> /\ m.replica \in up /\ step[m.replica] = "idle"
    BY <1>6 DEF HandleAdd, Accepts, Serves
  <2> QED BY <1>6, <2>1, <2>2, <2>4, <2>5 DEF KeepsWaiting, CallGoesOn
<1>7. ASSUME NEW m \in requests, RejectAdd(m) PROVE KeepsWaiting(c)
  <2>1. UNCHANGED <<last_seqs, request>> /\ Answer(m, "failed")
    BY <1>7 DEF RejectAdd
  <2>2. \A r \in Replica : IF r = m.replica /\ request[c].write = m.write /\ calls[c][r] = "sent"
                             THEN calls'[c][r] = "failed" ELSE calls'[c][r] = calls[c][r]
    BY <1>a, <2>1, AnswerEffect
  <2>3. /\ last_seqs'[c] = last_seqs[c] /\ request'[c] = request[c]
        /\ \A q \in Replica : \/ calls'[c][q] = calls[c][q]
                              \/ calls[c][q] = "sent" /\ calls'[c][q] = "failed"
    BY <2>1, <2>2
  <2> QED BY <1>2, <2>3
<1>8. ASSUME NEW r \in Replica, Crash(r) PROVE KeepsWaiting(c)
  <2>1. /\ last_seqs'[c] = last_seqs[c] /\ request'[c] = request[c]
        /\ \A q \in Replica : \/ calls'[c][q] = calls[c][q]
                              \/ calls[c][q] = "sent" /\ calls'[c][q] = "failed"
    BY <1>a, <1>8 DEF Crash, TypeOK
  <2> QED BY <1>2, <2>1
<1>9. ASSUME NEW r \in Replica, SyncDone(r) \/ SyncFails(r) PROVE KeepsWaiting(c)
  BY <1>1, <1>9 DEF SyncDone, SyncFails
<1>10. ASSUME NEW r \in Replica, \/ FetchLog(r) \/ ApplyRecord(r) \/ FetchSnapshot(r)
                                \/ Restart(r) \/ LoseDisk(r)
       PROVE  KeepsWaiting(c)
  BY <1>1, <1>10 DEF FetchLog, ApplyRecord, FetchSnapshot, InstallFrom, Restart, LoseDisk, coordinators
<1>11. CASE UNCHANGED vars
  BY <1>1, <1>11 DEF vars, coordinators
<1> QED
  BY <1>3, <1>4, <1>5, <1>6, <1>7, <1>8, <1>9, <1>10, <1>11
  DEF Next, Starting, Proceeding, Answering, Handling, CatchingUp, Failing

\* A coordinator begins to wait when it sends a chunk.
LEMMA WaitStarts ==
    ASSUME BaseInv, [Next]_vars, NEW c \in Coordinator, phase[c] # "wait", phase'[c] = "wait"
    PROVE  SendChunk(c)
<1>a. TypeOK
  BY DEF BaseInv
<1>1. ASSUME NEW d \in Coordinator, \/ StartAdd(d) \/ StartRepair(d) \/ Checked(d) \/ OutOfSync(d)
                                   \/ ChunkDone(d) \/ ChunkFails(d) \/ Polled(d) \/ RepairDone(d)
                                   \/ CheckFails(d) \/ RepairFails(d) \/ CoordinatorDies(d)
      PROVE  FALSE
  BY <1>1, <1>a DEF StartAdd, StartRepair, Checked, OutOfSync, ChunkDone, ChunkFails, Polled,
                    RepairDone, CheckFails, RepairFails, CoordinatorDies, Leave, TypeOK
<1>2. ASSUME NEW d \in Coordinator, d # c PROVE ~SendChunk(d)
  BY <1>2, <1>a DEF SendChunk, TypeOK
<1>3. ASSUME NEW d \in Coordinator, NEW r \in Replica PROVE ~StartSync(d, r)
  BY <1>a DEF StartSync, TypeOK
<1>4. ASSUME NEW r \in Replica, SyncDone(r) \/ SyncFails(r) \/ Crash(r) PROVE FALSE
  <2>1. PICK ok \in BOOLEAN : Return(r, ok)
    BY <1>4 DEF SyncDone, SyncFails, Crash
  <2> QED BY <1>a, <2>1, ReturnEffect
<1>5. phase' # phase
  OBVIOUS
<1>6. ASSUME NEW d \in Coordinator, NEW r \in Replica, Status(d, r) \/ Skip(d, r) \/ CallFails(d, r)
      PROVE  FALSE
  BY <1>5, <1>6 DEF Status, Skip, CallFails
<1>7. ASSUME NEW m \in requests, HandleAdd(m) \/ RejectAdd(m) PROVE FALSE
  BY <1>5, <1>7 DEF HandleAdd, RejectAdd
<1>8. ASSUME NEW r \in Replica, \/ FetchLog(r) \/ ApplyRecord(r) \/ FetchSnapshot(r)
                               \/ Restart(r) \/ LoseDisk(r)
      PROVE  FALSE
  BY <1>5, <1>8 DEF FetchLog, ApplyRecord, FetchSnapshot, InstallFrom, Restart, LoseDisk, coordinators
<1>9. ~UNCHANGED vars
  BY <1>5 DEF vars, coordinators
<1> QED
  BY <1>1, <1>2, <1>3, <1>4, <1>6, <1>7, <1>8, <1>9
  DEF Next, Starting, Proceeding, Answering, Handling, CatchingUp, Failing

\* Where c's position comes from when it may send a chunk after the step.
LEMMA SendStep ==
    ASSUME BaseInv, [Next]_vars, NEW c \in Coordinator, MaySend(c)'
    PROVE  Checked(c) \/ ChunkDone(c) \/ (MaySend(c) /\ last_seqs'[c] = last_seqs[c])
<1>a. TypeOK /\ CoordinatorsOK
  BY DEF BaseInv
<1> USE DEF coordinators
\* It goes on as before ...
<1>b. ASSUME last_seqs'[c] = last_seqs[c],
             \/ phase'[c] = phase[c]
             \/ phase[c] \in {"send", "wait"} /\ phase'[c] \in {"send", "wait"}
             \/ phase[c] \notin Writing /\ phase'[c] \notin Writing
      PROVE  MaySend(c) /\ last_seqs'[c] = last_seqs[c]
  BY <1>b DEF MaySend, Writing
\* ... or forgets what it knew, and then it may not send.
<1>c. ASSUME phase'[c] \notin {"send", "wait"}, last_seqs'[c] = Unknown PROVE FALSE
  BY <1>c DEF MaySend
<1>1. ASSUME NEW d \in Coordinator, StartAdd(d) PROVE MaySend(c) /\ last_seqs'[c] = last_seqs[c]
  <2>1. CASE d # c
    BY <1>a, <1>b, <1>1, <2>1 DEF StartAdd, TypeOK
  <2>2. CASE d = c
    <3>1. /\ phase[c] = "idle" /\ last_seqs'[c] = IF CallersRefresh THEN Unknown ELSE last_seqs[c]
          /\ phase'[c] = IF last_seqs'[c] = Unknown THEN "check" ELSE "send"
      BY <1>a, <1>1, <2>2 DEF StartAdd, TypeOK
    <3>2. last_seqs'[c] # Unknown
      BY <3>1 DEF MaySend, Writing
    <3> QED BY <3>1, <3>2 DEF MaySend, Writing
  <2> QED BY <2>1, <2>2
<1>2. ASSUME NEW d \in Coordinator, Checked(d) \/ ChunkDone(d), d # c
      PROVE  MaySend(c) /\ last_seqs'[c] = last_seqs[c]
  BY <1>a, <1>b, <1>2 DEF Checked, ChunkDone, Leave, TypeOK
<1>3. ASSUME NEW d \in Coordinator,
             \/ StartRepair(d) \/ SendChunk(d) \/ Polled(d) \/ RepairFails(d)
             \/ \E r \in Replica : StartSync(d, r)
      PROVE  MaySend(c) /\ last_seqs'[c] = last_seqs[c]
  BY <1>a, <1>b, <1>3 DEF StartRepair, SendChunk, Polled, RepairFails, Leave, StartSync, TypeOK, Writing
<1>4. ASSUME NEW d \in Coordinator, OutOfSync(d) \/ CheckFails(d)
      PROVE  MaySend(c) /\ last_seqs'[c] = last_seqs[c]
  <2>1. CASE d # c
    BY <1>a, <1>b, <1>4, <2>1 DEF OutOfSync, CheckFails, Leave, TypeOK
  <2>2. CASE d = c
    BY <1>a, <1>c, <1>4, <2>2 DEF OutOfSync, CheckFails, Leave, TypeOK, CoordinatorsOK, CoordinatorOK
  <2> QED BY <2>1, <2>2
<1>5. ASSUME NEW d \in Coordinator, ChunkFails(d) \/ RepairDone(d) \/ CoordinatorDies(d)
      PROVE  MaySend(c) /\ last_seqs'[c] = last_seqs[c]
  <2>1. CASE d # c
    BY <1>a, <1>b, <1>5, <2>1 DEF ChunkFails, RepairDone, CoordinatorDies, Leave, TypeOK
  <2>2. CASE d = c
    BY <1>a, <1>c, <1>5, <2>2 DEF ChunkFails, RepairDone, CoordinatorDies, Leave, TypeOK
  <2> QED BY <2>1, <2>2
<1>6. ASSUME NEW r \in Replica, SyncDone(r) \/ SyncFails(r) \/ Crash(r)
      PROVE  MaySend(c) /\ last_seqs'[c] = last_seqs[c]
  <2>1. PICK ok \in BOOLEAN : Return(r, ok) /\ last_seqs' = last_seqs
    BY <1>6 DEF SyncDone, SyncFails, Crash
  <2>2. CASE syncing[c] # r
    BY <1>a, <1>b, <2>1, <2>2, ReturnEffect
  <2>3. CASE syncing[c] = r
    <3>1. phase[c] = "sync" /\ phase'[c] \in {"repair", "idle"}
      BY <1>a, <2>1, <2>3, ReturnEffect, ConstantsAssumption DEF CoordinatorsOK, CoordinatorOK
    <3> QED BY <1>b, <2>1, <3>1 DEF Writing
  <2> QED BY <2>2, <2>3
<1>7. ASSUME UNCHANGED <<phase, last_seqs>> PROVE MaySend(c) /\ last_seqs'[c] = last_seqs[c]
  BY <1>b, <1>7
<1>8. ASSUME NEW d \in Coordinator, NEW r \in Replica, Status(d, r) \/ Skip(d, r) \/ CallFails(d, r)
      PROVE  UNCHANGED <<phase, last_seqs>>
  BY <1>8 DEF Status, Skip, CallFails
<1>9. ASSUME NEW m \in requests, HandleAdd(m) \/ RejectAdd(m) PROVE UNCHANGED <<phase, last_seqs>>
  BY <1>9 DEF HandleAdd, RejectAdd
<1>10. ASSUME NEW r \in Replica, \/ FetchLog(r) \/ ApplyRecord(r) \/ FetchSnapshot(r)
                                \/ Restart(r) \/ LoseDisk(r)
       PROVE  UNCHANGED <<phase, last_seqs>>
  BY <1>10 DEF FetchLog, ApplyRecord, FetchSnapshot, InstallFrom, Restart, LoseDisk
<1>11. ASSUME UNCHANGED vars PROVE UNCHANGED <<phase, last_seqs>>
  BY <1>11 DEF vars
<1> QED
  BY <1>1, <1>2, <1>3, <1>4, <1>5, <1>6, <1>7, <1>8, <1>9, <1>10, <1>11
  DEF Next, Starting, Proceeding, Answering, Handling, CatchingUp, Failing

\* What c hears from r while it asks for positions.
LEMMA CheckStep ==
    ASSUME BaseInv, [Next]_vars, NEW c \in Coordinator, NEW r \in Replica, phase'[c] = "check"
    PROVE  \/ seen'[c][r] = Unknown
           \/ phase[c] = "check" /\ seen'[c][r] = seen[c][r]
           \/ Status(c, r) /\ phase[c] = "check" /\ seen'[c][r] = Len(log[r])
<1> DEFINE Goal == \/ seen'[c][r] = Unknown
                   \/ phase[c] = "check" /\ seen'[c][r] = seen[c][r]
                   \/ Status(c, r) /\ phase[c] = "check" /\ seen'[c][r] = Len(log[r])
<1>a. TypeOK /\ CoordinatorsOK
  BY DEF BaseInv
<1> USE <1>a DEF coordinators
<1>1. ASSUME phase'[c] = phase[c], seen'[c] = seen[c] PROVE Goal
  BY <1>1
<1>2. ASSUME NEW d \in Coordinator, StartAdd(d) PROVE Goal
  <2>1. CASE d # c
    BY <1>1, <1>2, <2>1 DEF StartAdd, TypeOK
  <2>2. CASE d = c
    BY <1>2, <2>2 DEF StartAdd, NoAnswers, TypeOK
  <2> QED BY <2>1, <2>2
<1>3. ASSUME NEW d \in Coordinator,
             \/ StartRepair(d) \/ Checked(d) \/ OutOfSync(d) \/ SendChunk(d)
             \/ ChunkDone(d) \/ ChunkFails(d) \/ Polled(d) \/ RepairDone(d)
             \/ CheckFails(d) \/ RepairFails(d) \/ CoordinatorDies(d)
      PROVE  Goal
  <2>1. d # c
    BY <1>3 DEF StartRepair, Checked, OutOfSync, SendChunk, ChunkDone, ChunkFails, Polled,
                RepairDone, CheckFails, RepairFails, CoordinatorDies, Leave, TypeOK
  <2>2. phase'[c] = phase[c] /\ seen'[c] = seen[c]
    BY <1>3, <2>1
       DEF StartRepair, Checked, OutOfSync, SendChunk, ChunkDone, ChunkFails, Polled,
           RepairDone, CheckFails, RepairFails, CoordinatorDies, Leave, TypeOK
  <2> QED BY <1>1, <2>2
<1>4. ASSUME NEW d \in Coordinator, NEW q \in Replica, Status(d, q) PROVE Goal
  <2>1. phase' = phase /\ seen' = [seen EXCEPT ![d][q] = Len(log[q])]
    BY <1>4 DEF Status
  <2>2. CASE d = c /\ q = r
    BY <1>4, <2>1, <2>2 DEF TypeOK
  <2>3. CASE d # c \/ q # r
    BY <2>1, <2>3 DEF TypeOK
  <2> QED BY <2>2, <2>3
<1>5. ASSUME NEW d \in Coordinator, NEW q \in Replica, Skip(d, q) PROVE Goal
  <2>1. phase' = phase /\ phase[d] = "poll" /\ seen' = [seen EXCEPT ![d][q] = Settled]
    BY <1>5 DEF Skip
  <2> QED BY <1>1, <2>1 DEF TypeOK
<1>6. ASSUME NEW d \in Coordinator, NEW q \in Replica, StartSync(d, q) \/ CallFails(d, q) PROVE Goal
  BY <1>1, <1>6 DEF StartSync, CallFails, TypeOK
<1>7. ASSUME NEW q \in Replica, SyncDone(q) \/ SyncFails(q) \/ Crash(q) PROVE Goal
  <2>1. PICK ok \in BOOLEAN : Return(q, ok)
    BY <1>7 DEF SyncDone, SyncFails, Crash
  <2> QED BY <1>1, <2>1, ReturnEffect
<1>8. ASSUME NEW m \in requests, HandleAdd(m) \/ RejectAdd(m) PROVE Goal
  BY <1>1, <1>8 DEF HandleAdd, RejectAdd
<1>9. ASSUME NEW q \in Replica, \/ FetchLog(q) \/ ApplyRecord(q) \/ FetchSnapshot(q)
                               \/ Restart(q) \/ LoseDisk(q)
      PROVE  Goal
  BY <1>1, <1>9 DEF FetchLog, ApplyRecord, FetchSnapshot, InstallFrom, Restart, LoseDisk
<1>10. CASE UNCHANGED vars
  BY <1>1, <1>10 DEF vars
<1> QED
  BY <1>2, <1>3, <1>4, <1>5, <1>6, <1>7, <1>8, <1>9, <1>10
  DEF Next, Starting, Proceeding, Answering, Handling, CatchingUp, Failing

-----------------------------------------------------------------------------
(***************************************************************************)
(* The steps keep the invariant.                                           *)
(***************************************************************************)
LEMMA LossTypes ==
    ASSUME LossInv
    PROVE  /\ TypeOK /\ HandlersOK /\ CoordinatorsOK /\ ~Stragglers /\ NoStragglers /\ OneWriter
           /\ \A c \in Coordinator : MaySend(c) => last_seqs[c] \in Nat
           /\ \A c \in Coordinator : phase[c] = "wait" =>
                 /\ last_seqs[c] + 1 \in Nat \ {0} /\ request[c].seq = last_seqs[c] + 1
<1>1. TypeOK /\ HandlersOK /\ CoordinatorsOK /\ ~Stragglers /\ NoStragglers /\ OneWriter
  BY DEF LossInv, Recoverable, BaseInv, NetworkInv
<1>2. ASSUME NEW c \in Coordinator, MaySend(c) PROVE last_seqs[c] \in Nat
  BY <1>1, <1>2 DEF MaySend, TypeOK, CoordinatorsOK, CoordinatorOK
<1>3. ASSUME NEW c \in Coordinator, phase[c] = "wait"
      PROVE  /\ last_seqs[c] + 1 \in Nat \ {0} /\ request[c].seq = last_seqs[c] + 1
  <2>1. last_seqs[c] \in Nat
    BY <1>2, <1>3 DEF MaySend
  <2> QED BY <1>1, <1>3, <2>1 DEF CoordinatorsOK, CoordinatorOK
<1> QED BY <1>1, <1>2, <1>3

\* A chunk that is acknowledged now: no replica has another write in its place.
LEMMA ChunkIsOnlyThat ==
    ASSUME LossInv, NEW c \in Coordinator, ChunkDone(c)
    PROVE  /\ phase[c] = "wait" /\ request[c].seq = last_seqs[c] + 1 /\ last_seqs[c] \in Nat
           /\ acked' = acked \cup {request[c]} /\ UNCHANGED <<log, pending>>
           /\ \A r \in Replica : /\ calls[c][r] = "ok"
                                /\ LogHas(r, last_seqs[c] + 1, request[c].write)
                                /\ PendingHas(r, last_seqs[c] + 1, request[c].write)
<1>1. /\ phase[c] = "wait" /\ \A r \in Replica : calls[c][r] = "ok"
      /\ acked' = acked \cup {request[c]} /\ UNCHANGED <<log, pending>>
  BY DEF ChunkDone, AllAnswered, ChunkOk, replicas, handlers
<1>2. ~Doomed(c)
  BY <1>1 DEF Doomed, Refused
<1>3. \A r \in Replica : OnlyThat(c, r)
  BY <1>1, <1>2 DEF LossInv, ChunksOK
<1>4. request[c].seq = last_seqs[c] + 1 /\ last_seqs[c] \in Nat
  BY <1>1, LossTypes DEF MaySend
<1> QED BY <1>1, <1>3, <1>4 DEF OnlyThat

LEMMA AckedKeptStep == LossInv /\ [Next]_vars => AckedKept'
<1> SUFFICES ASSUME LossInv, [Next]_vars, NEW a \in acked', NEW r \in Replica
             PROVE  /\ 1 <= a.seq /\ (a.seq <= Len(log'[r]) => log'[r][a.seq] = a.write)
                    /\ \A i \in 1 .. Len(pending'[r]) :
                          pending'[r][i].seq = a.seq => pending'[r][i].write = a.write
  BY ConstantsAssumption DEF AckedKept, LogHas, PendingHas
<1>a. BaseInv /\ TypeOK /\ NoStragglers /\ AckedKept /\ AboveAcked
  BY LossTypes DEF LossInv
<1>b. PICK n, w : n = a.seq /\ w = a.write
  OBVIOUS
<1>c. ASSUME 1 <= n, LogHas(r, n, w)', PendingHas(r, n, w)'
      PROVE  /\ 1 <= a.seq /\ (a.seq <= Len(log'[r]) => log'[r][a.seq] = a.write)
             /\ \A i \in 1 .. Len(pending'[r]) :
                   pending'[r][i].seq = a.seq => pending'[r][i].write = a.write
  BY <1>b, <1>c DEF LogHas, PendingHas
<1>1. CASE a \in acked
  <2>1. n \in Nat \ {0}
    BY <1>1, <1>a, <1>b, AckedTypes DEF AckedKept
  <2>2. \A q \in Replica : LogHas(q, n, w) /\ PendingHas(q, n, w)
    BY <1>1, <1>a, <1>b DEF AckedKept
  <2>3. ASSUME NEW m \in requests, NEW c \in Coordinator, Reaches(m, c) PROVE last_seqs[c] + 1 # n
    <3>1. MaySend(c)
      BY <2>3 DEF Reaches, IsWaitedFor, MaySend
    <3>2. n <= last_seqs[c] /\ last_seqs[c] \in Nat
      BY <1>1, <1>a, <1>b, <3>1, LossTypes DEF AboveAcked
    <3> QED BY <2>1, <3>2
  <2>4. LogHas(r, n, w)'
    BY <1>a, <2>1, <2>2, <2>3, LogHasStep
  <2>5. PendingHas(r, n, w)'
    BY <1>a, <2>1, <2>2, PendingHasStep
  <2> QED BY <1>c, <2>1, <2>4, <2>5
<1>2. ASSUME NEW c \in Coordinator, ChunkDone(c), a = request[c]
      PROVE  1 <= n /\ LogHas(r, n, w)' /\ PendingHas(r, n, w)'
  <2>1. /\ UNCHANGED <<log, pending>> /\ n = last_seqs[c] + 1 /\ last_seqs[c] \in Nat
        /\ LogHas(r, n, w) /\ PendingHas(r, n, w)
    BY <1>2, <1>b, ChunkIsOnlyThat
  <2> QED BY <2>1 DEF LogHas, PendingHas
<1>3. ASSUME a \notin acked PROVE \E c \in Coordinator : ChunkDone(c) /\ a = request[c]
  BY <1>3, AckedSteps, ChunkIsOnlyThat
<1> QED BY <1>1, <1>2, <1>3, <1>c

LEMMA AboveAckedStep == LossInv /\ [Next]_vars => AboveAcked'
<1> SUFFICES ASSUME LossInv, [Next]_vars, NEW c \in Coordinator, MaySend(c)', NEW a \in acked'
             PROVE  a.seq <= last_seqs'[c]
  BY DEF AboveAcked
<1>a. /\ BaseInv /\ TypeOK /\ CoordinatorsOK /\ OneWriter /\ AboveAcked
      /\ CallersRefresh \/ \A d, e \in Coordinator : d = e
  BY LossTypes DEF LossInv, Recoverable
<1>1. ASSUME Checked(c) PROVE a.seq <= last_seqs'[c]
  <2>1. PICK p \in Replica : Full(p)
    BY SomeFull
  <2>2. /\ phase[c] = "check" /\ acked' = acked
        /\ \A q, r \in Replica : seen[c][q] = seen[c][r] /\ seen[c][r] # Unknown
        /\ \E r \in Replica : last_seqs' = [last_seqs EXCEPT ![c] = seen[c][r]]
    BY <1>1 DEF Checked, Agree
  <2>3. last_seqs'[c] = seen[c][p]
    BY <1>a, <2>2 DEF TypeOK
  <2> QED BY <2>1, <2>2, <2>3 DEF Full
<1>2. ASSUME ChunkDone(c) PROVE a.seq <= last_seqs'[c]
  <2>1. /\ acked' = acked \cup {request[c]} /\ request[c].seq = last_seqs[c] + 1
        /\ last_seqs[c] \in Nat /\ phase[c] = "wait"
    BY <1>2, ChunkIsOnlyThat
  <2>2. last_seqs'[c] = last_seqs[c] + 1
    BY <1>2, <1>a DEF ChunkDone, TypeOK
  <2>3. CASE a \in acked
    <3>1. a.seq <= last_seqs[c] /\ a.seq \in Nat
      BY <1>a, <2>1, <2>3, AckedTypes DEF AboveAcked, MaySend
    <3> QED BY <2>1, <2>2, <3>1
  <2>4. CASE a = request[c]
    BY <2>1, <2>2, <2>4
  <2> QED BY <2>1, <2>3, <2>4
<1>3. ASSUME MaySend(c), last_seqs'[c] = last_seqs[c] PROVE a.seq <= last_seqs'[c]
  <2>1. CASE acked' = acked
    BY <1>3, <1>a, <2>1 DEF AboveAcked
  <2>2. ASSUME NEW d \in Coordinator, ChunkDone(d) PROVE d = c
    <3>1. phase[d] = "wait"
      BY <2>2, ChunkIsOnlyThat
    <3>2. CASE phase[c] \in {"send", "wait"}
      BY <1>a, <3>1, <3>2 DEF OneWriter, Writing
    <3> QED BY <1>3, <1>a, <3>2 DEF MaySend
  <2> QED BY <1>2, <2>1, <2>2, AckedSteps
<1> QED BY <1>1, <1>2, <1>3, <1>a, SendStep

\* A call that will be refused still will be.
LEMMA DoomedStep ==
    ASSUME LossInv, [Next]_vars, NEW c \in Coordinator, phase[c] = "wait", phase'[c] = "wait",
           Doomed(c)
    PROVE  Doomed(c)'
<1>a. /\ BaseInv /\ TypeOK /\ HandlersOK /\ CoordinatorsOK /\ ~Stragglers /\ NetworkInv /\ NoStragglers
      /\ last_seqs[c] \in Nat
  BY LossTypes DEF LossInv, MaySend
<1>1. last_seqs'[c] = last_seqs[c] /\ \A r \in Replica : CallGoesOn(c, r)
  BY <1>a, WaitStep DEF KeepsWaiting
<1>2. PICK r \in Replica : Refused(c, r)
  BY DEF Doomed
<1>3. CASE calls'[c][r] = "failed"
  BY <1>3 DEF Doomed, Refused
<1>4. CASE calls'[c][r] = calls[c][r] /\ calls[c][r] = "sent" /\ calls'[c][r] # "failed"
  <2>1. r \in up /\ Len(log[r]) > last_seqs[c]
    BY <1>2, <1>4 DEF Refused
  <2>2. ~LoseDisk(r)
    BY <2>1 DEF LoseDisk
  <2>3. Len(log[r]) <= Len(log'[r]) /\ Len(log[r]) \in Nat
    BY <1>a, <2>2, LengthStep, LogTypes
  <2>4. Len(log'[r]) \in Nat
    <3>1. log' \in [Replica -> Seq(Write)]
      BY <1>a, TypeStep DEF TypeOK
    <3> QED BY <3>1, LenProperties
  <2>5. r \in up'
    <3>1. ASSUME Crash(r) PROVE calls'[c][r] = "failed"
      <4>1. calls'[c] = [calls[c] EXCEPT ![r] = "failed"]
        BY <1>4, <3>1 DEF Crash
      <4> QED BY <1>a, <4>1 DEF TypeOK
    <3> QED BY <1>4, <1>a, <2>1, <3>1, UpStep
  <2> QED BY <1>1, <1>4, <1>a, <2>1, <2>3, <2>4, <2>5 DEF Doomed, Refused
<1>5. ASSUME NEW m \in requests, Reaches(m, c), m.replica = r PROVE calls[c][r] = "sent" /\ Len(log[r]) = last_seqs[c]
  BY <1>5 DEF Reaches, IsWaitedFor
<1>6. ASSUME calls[c][r] = "sent", calls'[c][r] = "ok" PROVE Len(log[r]) = last_seqs[c]
  BY <1>1, <1>5, <1>6 DEF CallGoesOn
<1>7. calls[c][r] = "sent" /\ Len(log[r]) = last_seqs[c] => ~Refused(c, r)
  BY <1>a DEF Refused
<1> QED BY <1>1, <1>2, <1>3, <1>4, <1>6, <1>7 DEF CallGoesOn, Refused

\* A replica that is not to have another write in the place of the chunk does
\* not get one, unless the chunk is doomed by it.
LEMMA OnlyThatStep ==
    ASSUME LossInv, [Next]_vars, NEW c \in Coordinator, phase[c] = "wait", phase'[c] = "wait",
           \A q \in Replica : OnlyThat(c, q), NEW r \in Replica
    PROVE  Doomed(c)' \/ OnlyThat(c, r)'
<1>a. /\ BaseInv /\ TypeOK /\ HandlersOK /\ CoordinatorsOK /\ ~Stragglers /\ NetworkInv /\ NoStragglers
      /\ OneWriter
  BY LossTypes DEF LossInv
<1>b. PICK n \in Nat \ {0}, w \in Nat : n = last_seqs[c] + 1 /\ w = request[c].write
  BY <1>a, LossTypes DEF TypeOK
<1>c. last_seqs[c] \in Nat
  BY LossTypes DEF MaySend
<1>d. last_seqs'[c] = last_seqs[c] /\ request'[c] = request[c] /\ CallGoesOn(c, r)
  BY <1>a, WaitStep DEF KeepsWaiting
<1>e. ASSUME calls'[c][r] = "failed" PROVE Doomed(c)'
  BY <1>e DEF Doomed, Refused
<1>f. ASSUME calls'[c][r] = "sent", r \in up', Len(log'[r]) > last_seqs[c] PROVE Doomed(c)'
  BY <1>d, <1>f DEF Doomed, Refused
<1>g. Len(log[r]) \in Nat /\ Len(log'[r]) \in Nat
  <2>1. log' \in [Replica -> Seq(Write)]
    BY <1>a, TypeStep DEF TypeOK
  <2> QED BY <1>a, <2>1, LogTypes, LenProperties
<1>h. ~LogHas(r, n, w)' => Len(log'[r]) > last_seqs[c]
  BY <1>b, <1>c, <1>g DEF LogHas
<1>i. \A q \in Replica \cap up : LogHas(q, n, w)
  BY <1>b DEF OnlyThat
\* Its log.
<1>1. ASSUME LogHas(r, n, w) PROVE Doomed(c)' \/ LogHas(r, n, w)'
  <2>1. ASSUME ApplyRecord(r), ~PendingHas(r, n, w), ~LogHas(r, n, w)' PROVE Doomed(c)'
    <3>1. calls[c][r] = "sent"
      BY <1>b, <2>1 DEF OnlyThat
    <3>2. calls'[c][r] = calls[c][r] /\ r \in up'
      BY <1>a, <2>1 DEF ApplyRecord, coordinators, HandlersOK
    <3> QED BY <1>f, <1>h, <2>1, <3>1, <3>2
  <2>2. ~(FetchSnapshot(r) /\ peer[r] \in Replica \cap up /\ ~LogHas(peer[r], n, w))
    BY <1>i
  <2>3. ASSUME NEW m \in requests, NEW d \in Coordinator, Reaches(m, d) PROVE request[d].write = w
    BY <1>a, <1>b, <2>3 DEF Reaches, IsWaitedFor, OneWriter, Writing
  <2> QED BY <1>1, <1>a, <2>1, <2>2, <2>3, LogHasStep
<1>2. ASSUME r \notin up, calls[c][r] = "sent", ~LogHas(r, n, w)
      PROVE  \/ Doomed(c)' \/ LogHas(r, n, w)'
             \/ r \notin up' /\ calls'[c][r] = "sent"
  <2>1. calls'[c][r] \in {"sent", "failed"}
    BY <1>2, <1>d DEF CallGoesOn
  <2> QED BY <1>e, <1>f, <1>h, <2>1
<1>3. \/ Doomed(c)' \/ LogHas(r, n, w)'
      \/ r \notin up' /\ calls'[c][r] = "sent"
  BY <1>1, <1>2, <1>b DEF OnlyThat
\* The records on their way to it.
<1>4. ASSUME PendingHas(r, n, w) PROVE PendingHas(r, n, w)'
  BY <1>4, <1>a, <1>i, PendingHasStep
<1>5. ASSUME calls[c][r] = "sent", step[r] = "idle", NEW m \in requests, HandleAdd(m)
      PROVE  PendingHas(r, n, w)'
  <2>1. pending'[r] = <<>>
    BY <1>5, <1>a DEF HandlersOK, HandleAdd, handlers
  <2> QED BY <2>1, EmptySeq DEF PendingHas
<1>6. Doomed(c)' \/ PendingHas(r, n, w)' \/ calls'[c][r] = "sent"
  <2>1. CASE PendingHas(r, n, w)
    BY <1>4, <2>1
  <2>2. CASE calls[c][r] = "sent"
    BY <1>5, <1>d, <1>e, <2>2 DEF CallGoesOn
  <2> QED BY <1>b, <2>1, <2>2 DEF OnlyThat
<1>7. ASSUME LogHas(r, n, w)' PROVE LogHas(r, last_seqs[c] + 1, request[c].write)'
  BY <1>7, <1>b, <1>d DEF LogHas
<1>8. ASSUME PendingHas(r, n, w)' PROVE PendingHas(r, last_seqs[c] + 1, request[c].write)'
  BY <1>8, <1>b, <1>d DEF PendingHas
<1> QED BY <1>3, <1>6, <1>7, <1>8 DEF OnlyThat

LEMMA ChunksStep == LossInv /\ [Next]_vars => ChunksOK'
<1> SUFFICES ASSUME LossInv, [Next]_vars, NEW c \in Coordinator, phase'[c] = "wait"
             PROVE  Doomed(c)' \/ \A r \in Replica : OnlyThat(c, r)'
  BY DEF ChunksOK
<1>a. BaseInv /\ TypeOK /\ CoordinatorsOK
  BY LossTypes DEF LossInv
<1>1. CASE phase[c] = "wait"
  BY <1>1, DoomedStep, OnlyThatStep DEF LossInv, ChunksOK
<1>2. CASE phase[c] # "wait"
  <2>1. SendChunk(c)
    BY <1>2, <1>a, WaitStarts
  <2>2. /\ UNCHANGED <<log, up, last_seqs>> /\ last_seqs[c] \in Nat
        /\ \A r \in Replica : calls'[c][r] = "sent"
    BY <1>a, <2>1 DEF SendChunk, replicas, TypeOK, CoordinatorsOK, CoordinatorOK
  <2>3. ASSUME ~Doomed(c)', NEW r \in Replica PROVE OnlyThat(c, r)'
    <3>1. CASE r \notin up
      BY <2>2, <3>1 DEF OnlyThat
    <3>2. CASE r \in up
      <4>1. Len(log[r]) \in Nat /\ ~(Len(log[r]) > last_seqs[c])
        BY <1>a, <2>2, <2>3, <3>2, LogTypes DEF Doomed, Refused
      <4>2. ~(last_seqs'[c] + 1 <= Len(log'[r]))
        BY <2>2, <4>1
      <4> QED BY <2>2, <4>2 DEF OnlyThat, LogHas
    <3> QED BY <3>1, <3>2
  <2> QED BY <2>3
<1> QED BY <1>1, <1>2

\* A replica that has all acknowledged writes keeps having them as long as its
\* disk is not lost.
LEMMA FullStep ==
    ASSUME LossInv, [Next]_vars, NEW r \in Replica, Full(r), ~LoseDisk(r)
    PROVE  Full(r)'
<1>a. /\ BaseInv /\ TypeOK /\ CoordinatorsOK /\ NetworkInv /\ ~Stragglers /\ NoStragglers /\ OneWriter
  BY LossTypes DEF LossInv
<1>b. Len(log[r]) \in Nat /\ Len(log'[r]) \in Nat /\ Len(log[r]) <= Len(log'[r])
  <2>1. log' \in [Replica -> Seq(Write)]
    BY <1>a, TypeStep DEF TypeOK
  <2> QED BY <1>a, <2>1, LogTypes, LenProperties, LengthStep
<1>c. ASSUME acked' # acked PROVE \E c \in Coordinator : ChunkDone(c)
  BY <1>c, AckedSteps
<1>1. ASSUME NEW a \in acked' PROVE a.seq <= Len(log'[r])
  <2>1. CASE a \in acked
    <3>1. a.seq <= Len(log[r]) /\ a.seq \in Nat
      BY <1>a, <2>1, AckedTypes DEF Full
    <3> QED BY <1>b, <3>1
  <2>2. ASSUME NEW c \in Coordinator, ChunkDone(c), a = request[c] PROVE a.seq <= Len(log'[r])
    <3>1. /\ phase[c] = "wait" /\ a.seq = last_seqs[c] + 1 /\ last_seqs[c] \in Nat
          /\ calls[c][r] = "ok"
      BY <2>2, ChunkIsOnlyThat
    <3>2. last_seqs[c] + 1 <= Len(log[r])
      BY <3>1 DEF Full
    <3> QED BY <1>b, <3>1, <3>2
  <2>3. ASSUME a \notin acked PROVE \E c \in Coordinator : ChunkDone(c) /\ a = request[c]
    BY <2>3, AckedSteps, ChunkIsOnlyThat
  <2> QED BY <2>1, <2>2, <2>3
<1>2. ASSUME NEW c \in Coordinator, phase'[c] = "check", seen'[c][r] # Unknown, NEW a \in acked'
      PROVE  a.seq <= seen'[c][r]
  <2>1. phase[c] = "check"
    BY <1>2, <1>a, CheckStep
  <2>2. acked' = acked
    <3>1. ASSUME NEW d \in Coordinator, ChunkDone(d) PROVE FALSE
      <4>1. phase[d] = "wait"
        BY <3>1, ChunkIsOnlyThat
      <4> QED BY <1>a, <2>1, <4>1 DEF OneWriter, Writing
    <3> QED BY <1>c, <3>1
  <2>3. CASE seen'[c][r] = seen[c][r]
    BY <1>2, <2>1, <2>2, <2>3 DEF Full
  <2>4. CASE seen'[c][r] = Len(log[r])
    BY <2>2, <2>4, <1>2 DEF Full
  <2> QED BY <1>2, <1>a, <2>3, <2>4, CheckStep
<1>3. ASSUME NEW c \in Coordinator, phase'[c] = "wait", calls'[c][r] = "ok"
      PROVE  last_seqs'[c] + 1 <= Len(log'[r])
  <2>1. CASE phase[c] # "wait"
    <3>1. SendChunk(c)
      BY <1>3, <1>a, <2>1, WaitStarts
    <3>2. calls'[c][r] = "sent"
      BY <1>a, <3>1 DEF SendChunk, TypeOK
    <3> QED BY <1>3, <3>2
  <2>2. CASE phase[c] = "wait"
    <3>1. last_seqs'[c] = last_seqs[c] /\ CallGoesOn(c, r) /\ last_seqs[c] \in Nat
      BY <1>3, <1>a, <2>2, WaitStep, LossTypes DEF KeepsWaiting, MaySend
    <3>2. CASE calls[c][r] = "ok"
      <4>1. last_seqs[c] + 1 <= Len(log[r])
        BY <2>2, <3>2 DEF Full
      <4> QED BY <1>b, <3>1, <4>1
    <3>3. CASE calls[c][r] # "ok"
      <4>1. PICK m \in requests : Reaches(m, c) /\ m.replica = r
        BY <1>3, <3>1, <3>3 DEF CallGoesOn
      <4> QED BY <3>1, <4>1 DEF Reaches
    <3> QED BY <3>2, <3>3
  <2> QED BY <2>1, <2>2
<1> QED BY <1>1, <1>2, <1>3 DEF Full

\* Every lost disk makes at most one more replica bare.
LEMMA BareStep == LossInv /\ [Next]_vars => (Cardinality(Bare) <= losses)'
<1> SUFFICES ASSUME LossInv, [Next]_vars PROVE Cardinality(Bare') <= losses'
  OBVIOUS
<1>1. TypeOK /\ TypeOK' /\ Cardinality(Bare) <= losses
  BY LossTypes, TypeStep DEF LossInv
<1>2. losses \in Nat /\ losses' \in Nat
  BY <1>1, ConstantsAssumption DEF TypeOK
<1>3. /\ Bare \subseteq Replica /\ Bare' \subseteq Replica
      /\ IsFiniteSet(Bare) /\ IsFiniteSet(Bare') /\ Cardinality(Bare) \in Nat /\ Cardinality(Bare') \in Nat
  <2>1. Bare \subseteq Replica /\ Bare' \subseteq Replica
    BY DEF Bare
  <2> QED BY <2>1, ConstantsAssumption, FS_Subset, FS_CardinalityType
<1>4. CASE \A r \in Replica : ~LoseDisk(r)
  <2>1. Bare' \subseteq Bare
    BY <1>4, FullStep DEF Bare
  <2>2. Cardinality(Bare') <= Cardinality(Bare)
    BY <1>3, <2>1, FS_Subset
  <2>3. losses <= losses'
    BY <1>2, <1>4, LossesStep
  <2> QED BY <1>1, <1>2, <1>3, <2>2, <2>3
<1>5. ASSUME NEW r \in Replica, LoseDisk(r) PROVE Cardinality(Bare') <= losses'
  <2>1. losses' = losses + 1 /\ r \notin up /\ log' = [log EXCEPT ![r] = <<>>]
    BY <1>5 DEF LoseDisk
  <2>2. ASSUME NEW q \in Replica, q # r, LoseDisk(q), Full(q) PROVE Full(q)'
    BY <1>1, <1>5, <2>1, <2>2 DEF LoseDisk, coordinators, Full, TypeOK
  <2>3. Bare' \subseteq Bare \cup {r}
    BY <2>2, FullStep DEF Bare
  <2>4. /\ IsFiniteSet(Bare \cup {r})
        /\ Cardinality(Bare \cup {r}) = Cardinality(Bare) \/ Cardinality(Bare \cup {r}) = Cardinality(Bare) + 1
    BY <1>3, FS_AddElement
  <2>5. Cardinality(Bare') <= Cardinality(Bare \cup {r}) /\ Cardinality(Bare \cup {r}) \in Nat
    BY <2>3, <2>4, FS_Subset, FS_CardinalityType
  <2> QED BY <1>1, <1>2, <1>3, <2>1, <2>4, <2>5
<1> QED BY <1>4, <1>5

\* The most advanced replica, which repair() copies from, has every write whose
\* add() reported success, although disks were lost.
THEOREM SourceAlwaysHasAcked == Recoverable /\ Spec => []SourceHasAcked
<1>1. Recoverable /\ Init => LossInv
  <2> SUFFICES ASSUME Recoverable, Init
               PROVE  BaseInv /\ NetworkInv /\ AckedKept /\ AboveAcked /\ ChunksOK /\ Cardinality(Bare) <= losses
    BY DEF LossInv
  <2>1. BaseInv
    BY BaseInit
  <2>2. NetworkInv /\ AckedKept /\ AboveAcked /\ ChunksOK
    BY DEF Init, NetworkInv, OneWriter, NoStragglers, Writing, AckedKept, AboveAcked, ChunksOK
  <2>3. Bare = {}
    BY DEF Init, Bare, Full
  <2>4. Cardinality(Bare) = 0 /\ losses = 0
    BY <2>3, FS_EmptySet DEF Init
  <2> QED BY <2>1, <2>2, <2>4
<1>2. LossInv /\ [Next]_vars => LossInv'
  <2> SUFFICES ASSUME LossInv, [Next]_vars PROVE LossInv'
    OBVIOUS
  <2>1. Recoverable'
    BY DEF LossInv, Recoverable
  <2>2. BaseInv' /\ NetworkInv'
    BY BaseStep, WriterStep, StragglersStep DEF LossInv, NetworkInv
  <2> QED BY <2>1, <2>2, AckedKeptStep, AboveAckedStep, ChunksStep, BareStep DEF LossInv
<1>3. LossInv => SourceHasAcked
  <2> SUFFICES ASSUME LossInv, NEW r \in Replica, MostAdvanced(r), NEW a \in acked PROVE Holds(r, a)
    BY DEF SourceHasAcked
  <2>1. PICK p \in Replica : Full(p)
    BY SomeFull
  <2>2. a.seq \in Nat /\ 1 <= a.seq /\ LogHas(r, a.seq, a.write)
    BY LossTypes, AckedTypes DEF LossInv, AckedKept
  <2>3. a.seq <= Len(log[p]) /\ Len(log[p]) <= Len(log[r])
    BY <2>1 DEF Full, MostAdvanced
  <2>4. Len(log[p]) \in Nat /\ Len(log[r]) \in Nat
    BY LossTypes, LogTypes
  <2>5. a.seq \in 1 .. Len(log[r]) /\ a.seq <= Len(log[r])
    BY <2>2, <2>3, <2>4
  <2> QED BY <2>2, <2>5 DEF Holds, LogHas
<1> QED BY <1>1, <1>2, <1>3, PTL DEF Spec

=============================================================================
