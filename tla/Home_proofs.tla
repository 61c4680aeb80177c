----------------------------- MODULE Home_proofs -----------------------------
(***************************************************************************)
(* Proofs about Home that hold for all values of its constants: any number *)
(* of servers, files and process ids, any limits of the operator, any      *)
(* number of commands, crashes and failures.                               *)
(***************************************************************************)
EXTENDS Home, FiniteOrders, FiniteSetTheorems, TLAPS

-----------------------------------------------------------------------------
(***************************************************************************)
(* The domains, whether commands overlap or not.                           *)
(***************************************************************************)
Process == [pid : Pid, is : {"starting", "serving", "hung"}]

\* What a command and the operator keep between their steps.
ActingRec   == [pc : {"act"}, gave_up_on : {watch.gave_up_on}, calls : 0..MaxCalls,
                restarts : Restarts]
WritingRec  == [pc : {"write"}, gave_up_on : {watch.gave_up_on}, calls : 0..MaxCalls,
                restarts : Restarts, copy : State]
WatchOK     == watch.pc = "rest" \/ watch \in ActingRec \/ watch \in WritingRec

UserOK ==
    \/ user = Idle
    \/ user \in [pc : {"write"}, copy : State]
    \/ user \in [pc : {"ingest"}, copy : State, left : SUBSET File]
    \/ user \in [pc : {"record"}, copy : State, left : SUBSET File, now : File]

Types ==
    /\ file \in State /\ proc \in [Server -> SUBSET Process]
    /\ last_seq \in [Server -> Nat] /\ stored \in [File -> Nat]
    /\ WatchOK /\ UserOK
    /\ cut_short \in Nat /\ events \in 0..MaxEvents

LEMMA TypesAreTypeOK == Types => TypeOK
BY DEF Types, TypeOK, WatchOK, UserOK, ActingRec, WritingRec, Process

LEMMA MostAdvanced ==
    ASSUME Types, NEW done \in SUBSET Answering, CatchUp(done)
    PROVE  last_seq' \in [Server -> Nat]
<1> DEFINE S == {last_seq[t] : t \in Answering}
<1>1. \A s \in Server : last_seq[s] \in Nat
  BY DEF Types
<1>2. ASSUME NEW s \in done PROVE Max(S) \in Nat
  <2>1. Answering \subseteq Server /\ s \in Answering
    BY DEF Answering
  <2>2. IsFiniteSet(Answering)
    BY <2>1, ConstantsAssumption, FS_Subset
  <2> DEFINE Size == [t \in Answering |-> last_seq[t]]
  <2>3. Size \in [Answering -> Nat] /\ \A t \in Answering : Size[t] = last_seq[t]
    BY <1>1, <2>1
  <2> HIDE DEF Size
  <2>4. PICK t \in Answering : \A u \in Answering : Size[u] <= Size[t]
    BY <2>1, <2>2, <2>3, Greatest
  <2>5. last_seq[t] \in S /\ S \subseteq Nat
    BY <1>1, <2>1
  <2>6. \A y \in S : last_seq[t] >= y
    BY <1>1, <2>1, <2>3, <2>4
  <2> HIDE DEF S
  <2>7. Max(S) \in S
    BY <2>5, <2>6 DEF Max
  <2> QED BY <2>5, <2>7
<1> HIDE DEF S
<1>3. last_seq' = [s \in Server |-> IF s \in done THEN Max(S) ELSE last_seq[s]]
  BY DEF CatchUp, S
<1> QED BY <1>1, <1>2, <1>3

LEMMA SpawnKeeps ==
    ASSUME Types, NEW ss \in SUBSET Server, NEW pid \in Fresh(ss), Spawn(ss, pid)
    PROVE  /\ proc' \in [Server -> SUBSET Process] /\ Recording(file, ss, pid) \in State
           /\ \A s \in Server : IF s \in ss
                 THEN proc'[s] = proc[s] \cup {[pid |-> pid[s], is |-> "starting"]}
                      /\ Recording(file, ss, pid).pid[s] = pid[s]
                 ELSE proc'[s] = proc[s] /\ Recording(file, ss, pid).pid[s] = file.pid[s]
           /\ Recording(file, ss, pid).files = file.files
<1>1. pid \in [ss -> Pid]
  BY DEF Fresh
<1>2. proc \in [Server -> SUBSET Process] /\ file \in State
  BY DEF Types
<1>3. \A s \in ss : [pid |-> pid[s], is |-> "starting"] \in Process
  BY <1>1 DEF Process
<1>4. \A s \in Server : proc'[s] = proc[s] \cup
          (IF s \in ss THEN {[pid |-> pid[s], is |-> "starting"]} ELSE {})
  BY DEF Spawn
<1>5. proc' \in [Server -> SUBSET Process]
  BY <1>2, <1>3 DEF Spawn
<1> DEFINE f == [s \in Server |-> IF s \in ss THEN pid[s] ELSE file.pid[s]]
<1>6. f \in [Server -> Pid \cup {0}]
  BY <1>1, <1>2 DEF State
<1>7. Recording(file, ss, pid) = [file EXCEPT !.pid = f]
  BY DEF Recording
<1>8. \A s \in Server : f[s] = IF s \in ss THEN pid[s] ELSE file.pid[s]
  OBVIOUS
<1> HIDE DEF f
<1>9. Recording(file, ss, pid) \in State /\ Recording(file, ss, pid).pid = f
      /\ Recording(file, ss, pid).files = file.files
  BY <1>2, <1>6, <1>7 DEF State
<1> QED BY <1>4, <1>5, <1>8, <1>9

\* What becomes of the processes of a server that ends, hangs or starts to serve.
LEMMA MoveKeeps ==
    ASSUME Types, NEW s \in Server, NEW from, NEW to \in {"serving", "hung", "gone"},
           Move(s, from, to)
    PROVE  /\ proc' \in [Server -> SUBSET Process]
           /\ \A t \in Server : t # s => proc'[t] = proc[t]
           /\ \E p \in proc[s] : \/ proc'[s] = proc[s] \ {p}
                                 \/ \E q \in Process : q.pid = p.pid /\ proc'[s] = (proc[s] \ {p}) \cup {q}
<1>1. proc \in [Server -> SUBSET Process]
  BY DEF Types
<1>2. PICK p \in proc[s] : proc' = [proc EXCEPT ![s] = (@ \ {p}) \cup
                              (IF to = "gone" THEN {} ELSE {[p EXCEPT !.is = to]})]
  BY DEF Move
<1>3. p \in Process
  BY <1>1
<1>4. CASE to = "gone"
  BY <1>1, <1>2, <1>4
<1>5. CASE to # "gone"
  <2> DEFINE q == [p EXCEPT !.is = to]
  <2>1. q \in Process /\ q.pid = p.pid
    BY <1>3, <1>5 DEF Process
  <2>2. proc' = [proc EXCEPT ![s] = (@ \ {p}) \cup {q}]
    BY <1>2, <1>5
  <2> HIDE DEF q
  <2> QED BY <1>1, <2>1, <2>2
<1> QED BY <1>4, <1>5

LEMMA StopKeeps ==
    ASSUME Types, NEW ss \in SUBSET Server, Stop(ss)
    PROVE  proc' \in [Server -> SUBSET Process] /\ \A s \in Server : proc'[s] \subseteq proc[s]
BY DEF Types, Stop

LEMMA SendKeeps ==
    ASSUME Types, NEW f \in File, NEW ss, Send(f, ss)
    PROVE  last_seq' \in [Server -> Nat] /\ stored' \in [File -> Nat]
BY DEF Types, Send

LEMMA EventKeeps ==
    ASSUME Types, Event
    PROVE  events' \in 0..MaxEvents
BY ConstantsAssumption DEF Types, Event

-----------------------------------------------------------------------------
(***************************************************************************)
(* What the user's command and the operator do to their own variables.     *)
(***************************************************************************)
LEMMA WatchFacts ==
    ASSUME Types
    PROVE  /\ watch.pc = "act" => watch \in ActingRec
           /\ watch.pc = "write" => watch \in WritingRec
BY DEF Types, WatchOK, ActingRec, WritingRec

LEMMA UserFacts ==
    ASSUME Types
    PROVE  /\ user.pc = "write" => user \in [pc : {"write"}, copy : State]
           /\ user.pc = "ingest" => user \in [pc : {"ingest"}, copy : State, left : SUBSET File]
           /\ user.pc = "record" =>
                 user \in [pc : {"record"}, copy : State, left : SUBSET File, now : File]
BY DEF Types, UserOK, Idle

LEMMA OperatorKeeps ==
    ASSUME Types, Operator
    PROVE  WatchOK'
<1>1. ASSUME Round PROVE WatchOK'
  <2>1. 0 \in 0..MaxCalls /\ [s \in Server |-> 0] \in Restarts
    BY ConstantsAssumption DEF Restarts
  <2>2. \/ watch' = [watch EXCEPT !.gave_up_on = {}] \/ watch' = watch
        \/ watch' = [pc |-> "act", gave_up_on |-> watch.gave_up_on, calls |-> 0,
                     restarts |-> [s \in Server |-> 0]]
    BY <1>1 DEF Round
  <2>3. CASE watch' = [watch EXCEPT !.gave_up_on = {}] \/ watch' = watch
    <3>1. watch'.pc = "rest"
      BY <1>1, <2>3 DEF Round
    <3> QED BY <3>1 DEF WatchOK
  <2>4. CASE watch' = [pc |-> "act", gave_up_on |-> watch.gave_up_on, calls |-> 0,
                       restarts |-> [s \in Server |-> 0]]
    <3> DEFINE none == [s \in Server |-> 0]
    <3>1. none \in Restarts
      BY <2>1
    <3> HIDE DEF none
    <3>2. watch' \in ActingRec'
      BY <2>1, <2>4, <3>1 DEF ActingRec, none
    <3> QED BY <3>2 DEF WatchOK
  <2> QED BY <2>2, <2>3, <2>4
<1>2. ASSUME NEW s \in Server, RestartServer(s) PROVE WatchOK'
  <2>1. watch \in ActingRec /\ watch.calls < MaxCalls /\ watch.restarts[s] < MaxRestarts
    BY <1>2, WatchFacts DEF RestartServer, Acting, WithinLimit
  <2>2. PICK pid \in Fresh({s}) :
           /\ Spawn({s}, pid)
           /\ watch' = [pc |-> "write", gave_up_on |-> watch.gave_up_on, calls |-> watch.calls + 1,
                        restarts |-> [watch.restarts EXCEPT ![s] = @ + 1],
                        copy |-> Recording(file, {s}, pid)]
    BY <1>2 DEF RestartServer
  <2>3. Recording(file, {s}, pid) \in State
    BY <2>2, SpawnKeeps
  <2>4. watch.calls + 1 \in 0..MaxCalls
    BY <2>1, ConstantsAssumption DEF ActingRec
  <2>5. [watch.restarts EXCEPT ![s] = @ + 1] \in Restarts
    BY <2>1, ConstantsAssumption DEF ActingRec, Restarts
  <2>6. watch' \in WritingRec'
    <3> DEFINE more == [watch.restarts EXCEPT ![s] = @ + 1]
    <3>1. more \in Restarts
      BY <2>5
    <3> HIDE DEF more
    <3> QED BY <2>2, <2>3, <2>4, <3>1 DEF WritingRec, more
  <2> QED BY <2>6 DEF WatchOK
<1>3. ASSUME RestartRecorded PROVE WatchOK'
  <2>1. watch \in WritingRec
    BY <1>3, WatchFacts DEF RestartRecorded
  <2>2. watch' \in ActingRec'
    BY <1>3, <2>1 DEF RestartRecorded, ActingRec, WritingRec
  <2> QED BY <2>2 DEF WatchOK
<1>4. ASSUME RepairTool PROVE WatchOK'
  <2>1. watch \in ActingRec /\ watch.calls < MaxCalls /\ watch' = [watch EXCEPT !.calls = @ + 1]
    BY <1>4, WatchFacts DEF RepairTool, Acting
  <2>2. watch.calls + 1 \in 0..MaxCalls
    BY <2>1, ConstantsAssumption DEF ActingRec
  <2>3. watch' \in ActingRec'
    BY <2>1, <2>2 DEF ActingRec
  <2> QED BY <2>3 DEF WatchOK
<1>5. ASSUME Report PROVE WatchOK'
  BY <1>5 DEF Report, WatchOK
<1> QED BY <1>1, <1>2, <1>3, <1>4, <1>5 DEF Operator

LEMMA CommandKeeps ==
    ASSUME Types, Command
    PROVE  UserOK'
<1>1. file \in State
  BY DEF Types
<1>2. ASSUME NEW ss \in SUBSET Server, Starting(ss) PROVE UserOK'
  <2>1. PICK pid \in Fresh(ss) :
           Spawn(ss, pid) /\ user' = [pc |-> "write", copy |-> Recording(file, ss, pid)]
    BY <1>2 DEF Starting
  <2>2. Recording(file, ss, pid) \in State
    BY <2>1, SpawnKeeps
  <2> QED BY <2>1, <2>2 DEF UserOK
<1>3. ASSUME Up \/ \E s \in Server : Restart(s) PROVE UserOK'
  BY <1>2, <1>3 DEF Up, Restart
<1>4. ASSUME user' = user \/ user' = Idle PROVE UserOK'
  BY <1>4 DEF Types, UserOK
<1>5. ASSUME NEW fs \in SUBSET File, StartIngest(fs) PROVE UserOK'
  BY <1>1, <1>5 DEF StartIngest, UserOK
<1>6. ASSUME NEW f \in File, Store(f) PROVE UserOK'
  BY <1>6, UserFacts DEF Store, UserOK
<1>7. ASSUME Record PROVE UserOK'
  <2>1. user \in [pc : {"record"}, copy : State, left : SUBSET File, now : File]
    BY <1>7, UserFacts DEF Record
  <2>2. Recorded \in State
    BY <2>1 DEF Recorded, State
  <2> QED BY <1>7, <2>1, <2>2 DEF Record, UserOK
<1>8. ASSUME \/ Down \/ Repair \/ WriteState \/ IngestEnds \/ IngestKilled
             \/ (\E s \in Server : Kill(s)) \/ \E f \in File : StoreFails(f)
      PROVE  user' = user \/ user' = Idle
  BY <1>8 DEF Down, Repair, WriteState, IngestEnds, IngestKilled, Kill, StoreFails
<1>9. ASSUME \E fs \in (SUBSET File) \ {{}} : StartIngest(fs) PROVE UserOK'
  BY <1>5, <1>9
<1> QED BY <1>3, <1>4, <1>6, <1>7, <1>8, <1>9 DEF Command

-----------------------------------------------------------------------------
(***************************************************************************)
(* The domains are kept.                                                   *)
(***************************************************************************)
LEMMA InitTypes == Init => Types
BY ConstantsAssumption DEF Init, Types, State, WatchOK, UserOK

\* A step is a command's, the operator's or a server's.
LEMMA Untouched ==
    /\ Command => UNCHANGED watch
    /\ Operator => UNCHANGED <<user, stored, cut_short, events>>
    /\ (\E s \in Server : Serves(s) \/ Fails(s)) => UNCHANGED <<file, last_seq, stored, watch, user, cut_short>>
<1>1. ASSUME Command PROVE UNCHANGED watch
  BY <1>1 DEF Command, Up, Down, Repair, WriteState, Record, IngestEnds, IngestKilled, Restart, Kill,
         StartIngest, Store, StoreFails
<1>2. ASSUME Operator PROVE UNCHANGED <<user, stored, cut_short, events>>
  BY <1>2 DEF Operator, Round, RestartRecorded, RepairTool, Report, RestartServer
<1> QED BY <1>1, <1>2 DEF Serves, Fails

LEMMA FileKept ==
    ASSUME Types, [Next]_vars
    PROVE  file' \in State
<1>1. file \in State
  BY DEF Types
<1>2. CASE WriteState
  BY <1>2, UserFacts DEF WriteState
<1>3. CASE Record
  <2>1. user \in [pc : {"record"}, copy : State, left : SUBSET File, now : File]
    BY <1>3, UserFacts DEF Record
  <2> QED BY <1>3, <2>1 DEF Record, Recorded, State
<1>4. CASE RestartRecorded
  BY <1>4, WatchFacts DEF RestartRecorded, WritingRec
<1>5. CASE ~WriteState /\ ~Record /\ ~RestartRecorded
  BY <1>1, <1>5, Untouched DEF Next, Command, Operator, Up, Down, Repair, IngestEnds, IngestKilled, Restart,
         Kill, StartIngest, Store, StoreFails, Round, RepairTool, Report, RestartServer, vars
<1> QED BY <1>2, <1>3, <1>4, <1>5

LEMMA ProcKept ==
    ASSUME Types, [Next]_vars
    PROVE  proc' \in [Server -> SUBSET Process]
<1>1. proc \in [Server -> SUBSET Process]
  BY DEF Types
<1>2. ASSUME NEW ss \in SUBSET Server, Starting(ss) PROVE proc' \in [Server -> SUBSET Process]
  BY <1>2, SpawnKeeps DEF Starting
<1>3. CASE Up \/ \E s \in Server : Restart(s)
  BY <1>2, <1>3 DEF Up, Restart
<1>4. ASSUME NEW s \in Server, RestartServer(s) PROVE proc' \in [Server -> SUBSET Process]
  BY <1>4, SpawnKeeps DEF RestartServer
<1>5. CASE Down \/ \E s \in Server : Kill(s)
  BY <1>5, StopKeeps DEF Down, Kill
<1>6. ASSUME NEW s \in Server, Serves(s) \/ Fails(s) PROVE proc' \in [Server -> SUBSET Process]
  BY <1>6, MoveKeeps DEF Serves, Fails
<1>7. ASSUME \/ Repair \/ WriteState \/ Record \/ IngestEnds \/ IngestKilled
             \/ (\E fs \in (SUBSET File) \ {{}} : StartIngest(fs))
             \/ (\E f \in File : Store(f) \/ StoreFails(f))
             \/ Round \/ RestartRecorded \/ RepairTool \/ Report \/ UNCHANGED vars
      PROVE  proc' = proc
  BY <1>7 DEF Repair, WriteState, Record, IngestEnds, IngestKilled, StartIngest, Store, StoreFails,
         Round, RestartRecorded, RepairTool, Report, vars
<1> QED BY <1>1, <1>3, <1>4, <1>5, <1>6, <1>7 DEF Next, Command, Operator

LEMMA DataKept ==
    ASSUME Types, [Next]_vars
    PROVE  last_seq' \in [Server -> Nat] /\ stored' \in [File -> Nat]
<1>1. last_seq \in [Server -> Nat] /\ stored \in [File -> Nat]
  BY DEF Types
<1>2. CASE Repair
  BY <1>1, <1>2, MostAdvanced DEF Repair
<1>3. CASE RepairTool
  BY <1>1, <1>3, MostAdvanced DEF RepairTool
<1>4. ASSUME NEW f \in File, Store(f)
      PROVE  last_seq' \in [Server -> Nat] /\ stored' \in [File -> Nat]
  BY <1>4, SendKeeps DEF Store
<1>5. ASSUME NEW f \in File, StoreFails(f)
      PROVE  last_seq' \in [Server -> Nat] /\ stored' \in [File -> Nat]
  BY <1>1, <1>5, SendKeeps DEF StoreFails
<1>6. ASSUME \/ Up \/ Down \/ WriteState \/ Record \/ IngestEnds \/ IngestKilled
             \/ (\E s \in Server : Restart(s) \/ Kill(s))
             \/ (\E fs \in (SUBSET File) \ {{}} : StartIngest(fs))
             \/ Round \/ RestartRecorded \/ Report \/ (\E s \in Server : RestartServer(s))
             \/ (\E s \in Server : Serves(s) \/ Fails(s)) \/ UNCHANGED vars
      PROVE  last_seq' = last_seq /\ stored' = stored
  BY <1>6 DEF Up, Down, WriteState, Record, IngestEnds, IngestKilled, Restart, Kill, StartIngest,
         Round, RestartRecorded, Report, RestartServer, Serves, Fails, vars
<1> QED BY <1>1, <1>2, <1>3, <1>4, <1>5, <1>6 DEF Next, Command, Operator

LEMMA CountsKept ==
    ASSUME Types, [Next]_vars
    PROVE  cut_short' \in Nat /\ events' \in 0..MaxEvents
<1>1. cut_short \in Nat /\ events \in 0..MaxEvents
  BY DEF Types
<1>2. cut_short' \in {cut_short, cut_short + 1}
  BY Untouched DEF Next, Command, Up, Down, Repair, WriteState, Record, IngestEnds, IngestKilled, Restart,
         Kill, StartIngest, Store, StoreFails, vars
<1>3. events' = events \/ Event
  BY Untouched DEF Next, Command, Up, Down, Repair, WriteState, Record, IngestEnds, IngestKilled, Restart,
         Kill, StartIngest, Store, StoreFails, MayStart, Serves, Fails, vars
<1> QED BY <1>1, <1>2, <1>3, EventKeeps

LEMMA NextTypes == Types /\ [Next]_vars => Types'
<1> SUFFICES ASSUME Types, [Next]_vars PROVE Types'
  OBVIOUS
<1>1. WatchOK'
  <2>1. UNCHANGED watch \/ Operator
    BY Untouched DEF Next, vars
  <2>2. ASSUME UNCHANGED watch PROVE WatchOK'
    BY <2>2 DEF Types, WatchOK, ActingRec, WritingRec
  <2> QED BY <2>1, <2>2, OperatorKeeps
<1>2. UserOK'
  <2>1. UNCHANGED user \/ Command
    BY Untouched DEF Next, vars
  <2>2. ASSUME UNCHANGED user PROVE UserOK'
    BY <2>2 DEF Types, UserOK
  <2> QED BY <2>1, <2>2, CommandKeeps
<1> QED BY <1>1, <1>2, FileKept, ProcKept, DataKept, CountsKept DEF Types

\* The state stays in its domains, and one run of the operator restarts no server more
\* often than it may, also when commands overlap.
THEOREM TypeCorrect == Spec => []TypeOK
<1>1. Spec => []Types
  BY InitTypes, NextTypes, PTL DEF Spec
<1> QED BY <1>1, TypesAreTypeOK, PTL

-----------------------------------------------------------------------------
(***************************************************************************)
(* No process is lost, if commands and the operator do not overlap.        *)
(***************************************************************************)
Exclusive == user # Idle => watch.pc = "rest"
Single    == \A s \in Server : \A p, q \in proc[s] : p = q
AllIn(pids) == \A s \in Server : \A p \in proc[s] : p.pid = pids[s]

\* Whoever is about to write the state has all processes in what it writes.
Found ==
    /\ user.pc = "write" => AllIn(user.copy.pid)
    /\ watch.pc = "write" => AllIn(watch.copy.pid)
    /\ user.pc # "write" /\ watch.pc # "write" => AllIn(file.pid)
    /\ user.pc \in {"ingest", "record"} => user.copy.pid = file.pid

IInv == ~Overlap /\ Types /\ Exclusive /\ Single /\ Found

LEMMA InitIInv == ~Overlap /\ Init => IInv
BY InitTypes DEF Init, IInv, Exclusive, Single, Found, AllIn, Idle

\* What has become of the processes is nothing new.
LEMMA FewerProcesses ==
    ASSUME IInv, \A s \in Server : \A p \in proc'[s] : \E q \in proc[s] : p.pid = q.pid,
           \A s \in Server : \A p, q \in proc'[s] : p = q
    PROVE  /\ Single' /\ \A pids : AllIn(pids) => AllIn(pids)'
BY DEF Single, AllIn

\* Spawning for servers that do not run: they had no process.
LEMMA SpawnFinds ==
    ASSUME IInv, AllIn(file.pid), NEW ss \in SUBSET Server, NEW pid \in Fresh(ss), Spawn(ss, pid),
           \A s \in ss : ~IsRunning(file, s)
    PROVE  /\ Single'
           /\ \A s \in Server : \A p \in proc'[s] : p.pid = Recording(file, ss, pid).pid[s]
<1>1. \A s \in ss : proc[s] = {}
  BY DEF AllIn, IsRunning
<1> DEFINE pids == Recording(file, ss, pid).pid
<1>2. \A s \in Server : IF s \in ss
         THEN proc'[s] = {[pid |-> pid[s], is |-> "starting"]} /\ pids[s] = pid[s]
         ELSE proc'[s] = proc[s] /\ pids[s] = file.pid[s]
  BY <1>1, SpawnKeeps DEF IInv
<1>3. Single'
  BY <1>2 DEF IInv, Single
<1>4. ASSUME NEW s \in Server, NEW p \in proc'[s] PROVE p.pid = pids[s]
  <2> HIDE DEF pids
  <2> QED BY <1>2, <1>4 DEF AllIn
<1> QED BY <1>3, <1>4

LEMMA NextIInv == IInv /\ [Next]_vars => IInv'
<1> SUFFICES ASSUME IInv, [Next]_vars PROVE IInv'
  OBVIOUS
<1>1. /\ Types /\ Types' /\ ~Overlap /\ Exclusive /\ Single
      /\ user = Idle => user.pc = "idle"
  BY NextTypes DEF IInv, Idle
<1> DEFINE Goal == Exclusive' /\ Single' /\ Found'
<1>2. ASSUME NEW ss \in SUBSET Server, MayStart, Starting(ss), UNCHANGED <<file, watch>>,
             \A s \in ss : ~IsRunning(file, s)
      PROVE  Goal
  <2>1. user = Idle /\ watch.pc = "rest" /\ AllIn(file.pid)
    BY <1>1, <1>2 DEF MayStart, IInv, Found
  <2>2. PICK pid \in Fresh(ss) :
           Spawn(ss, pid) /\ user' = [pc |-> "write", copy |-> Recording(file, ss, pid)]
    BY <1>2 DEF Starting
  <2>3. /\ Single'
        /\ \A s \in Server : \A p \in proc'[s] : p.pid = Recording(file, ss, pid).pid[s]
    BY <1>2, <2>1, <2>2, SpawnFinds
  <2>4. user'.pc = "write" /\ user'.copy = Recording(file, ss, pid) /\ watch'.pc = "rest"
    BY <1>2, <2>1, <2>2
  <2> QED BY <2>3, <2>4 DEF Exclusive, Found, AllIn
<1>3. ASSUME Up PROVE Goal
  <2> HIDE DEF Goal
  <2> QED BY <1>2, <1>3 DEF Up
<1>4. ASSUME NEW s \in Server, Restart(s) PROVE Goal
  <2> HIDE DEF Goal
  <2> QED BY <1>2, <1>4 DEF Restart
<1>5. ASSUME WriteState PROVE Goal
  <2>1. user.pc = "write" /\ user # Idle /\ watch.pc = "rest"
    BY <1>1, <1>5 DEF WriteState, Exclusive
  <2>2. file' = user.copy /\ user' = Idle /\ UNCHANGED <<proc, watch>>
    BY <1>5 DEF WriteState
  <2> QED BY <1>1, <2>1, <2>2 DEF Exclusive, Single, IInv, Found, AllIn, Idle
<1>6. ASSUME NEW ss \in SUBSET Server, MayStart, Stop(ss), UNCHANGED <<file, watch, user>> PROVE Goal
  <2>1. \A s \in Server : proc'[s] \subseteq proc[s]
    BY <1>1, <1>6, StopKeeps
  <2> QED BY <1>1, <1>6, <2>1 DEF Exclusive, Single, IInv, Found, AllIn
<1>7. ASSUME Down \/ \E s \in Server : Kill(s) PROVE Goal
  <2> HIDE DEF Goal
  <2> QED BY <1>6, <1>7 DEF Down, Kill
<1>8. ASSUME UNCHANGED <<file, proc, watch>>, user' = Idle \/ user' = user, user.pc # "write" PROVE Goal
  BY <1>1, <1>8 DEF Exclusive, Single, IInv, Found, AllIn, Idle
<1>9. ASSUME Repair \/ IngestEnds \/ IngestKilled \/ \E f \in File : StoreFails(f) PROVE Goal
  <2>1. UNCHANGED <<file, proc, watch>> /\ (user' = Idle \/ user' = user) /\ user.pc # "write"
    BY <1>1, <1>9 DEF Repair, IngestEnds, IngestKilled, StoreFails, MayStart
  <2> HIDE DEF Goal
  <2> QED BY <1>8, <2>1
<1>10. ASSUME NEW fs, StartIngest(fs) PROVE Goal
  <2>1. user = Idle /\ watch.pc = "rest" /\ UNCHANGED <<file, proc, watch>>
        /\ user' = [pc |-> "ingest", copy |-> file, left |-> fs \ file.files]
    BY <1>1, <1>10 DEF StartIngest, MayStart
  <2> QED BY <1>1, <2>1 DEF Exclusive, Single, IInv, Found, AllIn
<1>11. ASSUME NEW f \in File, Store(f) PROVE Goal
  <2>1. user.pc = "ingest" /\ user # Idle /\ UNCHANGED <<file, proc, watch>>
        /\ user' = [pc |-> "record", copy |-> user.copy, left |-> user.left \ {f}, now |-> f]
    BY <1>1, <1>11 DEF Store
  <2> QED BY <1>1, <2>1 DEF Exclusive, Single, IInv, Found, AllIn
<1>12. ASSUME Record PROVE Goal
  <2>1. user.pc = "record" /\ user # Idle /\ watch.pc = "rest" /\ UNCHANGED <<proc, watch>>
        /\ file' = Recorded /\ user' = [pc |-> "ingest", copy |-> Recorded, left |-> user.left]
    BY <1>1, <1>12 DEF Record, Exclusive
  <2>2. Recorded.pid = file.pid
    <3>1. user.copy \in State /\ user.copy.pid = file.pid
      BY <1>1, <2>1, UserFacts DEF IInv, Found
    <3> QED BY <3>1 DEF Recorded, State
  <2>3. AllIn(file.pid)
    BY <2>1 DEF IInv, Found
  <2> QED BY <1>1, <2>1, <2>2, <2>3 DEF Exclusive, Single, Found, AllIn
<1>13. ASSUME Round PROVE Goal
  <2>1. user = Idle /\ watch.pc = "rest" /\ UNCHANGED <<file, proc, user>>
    BY <1>1, <1>13 DEF Round
  <2>2. watch'.pc # "write"
    BY <1>13, <2>1 DEF Round
  <2> QED BY <1>1, <2>1, <2>2 DEF Exclusive, Single, IInv, Found, AllIn
<1>14. ASSUME NEW s \in Server, RestartServer(s) PROVE Goal
  <2>1. user = Idle /\ watch.pc = "act" /\ UNCHANGED <<file, user>> /\ ~IsRunning(file, s)
    BY <1>1, <1>14 DEF RestartServer, Acting, Exclusive
  <2>2. PICK pid \in Fresh({s}) :
           /\ Spawn({s}, pid)
           /\ watch'.pc = "write" /\ watch'.copy = Recording(file, {s}, pid)
    BY <1>14 DEF RestartServer
  <2>3. AllIn(file.pid)
    BY <1>1, <2>1 DEF IInv, Found
  <2>4. /\ Single'
        /\ \A t \in Server : \A p \in proc'[t] : p.pid = Recording(file, {s}, pid).pid[t]
    BY <2>1, <2>2, <2>3, SpawnFinds
  <2> QED BY <1>1, <2>1, <2>2, <2>4 DEF Exclusive, Found, AllIn
<1>15. ASSUME RestartRecorded PROVE Goal
  <2>1. user = Idle /\ watch.pc = "write" /\ UNCHANGED <<proc, user>> /\ file' = watch.copy
        /\ watch'.pc = "act"
    BY <1>1, <1>15 DEF RestartRecorded, Exclusive
  <2> QED BY <1>1, <2>1 DEF Exclusive, Single, IInv, Found, AllIn
<1>16. ASSUME RepairTool \/ Report PROVE Goal
  <2>1. user = Idle /\ watch.pc = "act" /\ UNCHANGED <<file, proc, user>>
    BY <1>1, <1>16 DEF RepairTool, Report, Acting, Exclusive
  <2>2. watch'.pc # "write"
    BY <1>1, <1>16, <2>1, WatchFacts DEF RepairTool, Report, ActingRec
  <2> QED BY <1>1, <2>1, <2>2 DEF Exclusive, Single, IInv, Found, AllIn
<1>17. ASSUME NEW s \in Server, Serves(s) \/ Fails(s) PROVE Goal
  <2>1. UNCHANGED <<file, watch, user>>
    BY <1>17 DEF Serves, Fails
  <2>2. /\ \A t \in Server : t # s => proc'[t] = proc[t]
        /\ \E p \in proc[s] : \/ proc'[s] = proc[s] \ {p}
                              \/ \E q \in Process : q.pid = p.pid /\ proc'[s] = (proc[s] \ {p}) \cup {q}
    BY <1>1, <1>17, MoveKeeps DEF Serves, Fails
  <2>3. \A t \in Server : \A p \in proc'[t] : \E q \in proc[t] : p.pid = q.pid
    BY <2>2
  <2>4. \A t \in Server : \A p, q \in proc'[t] : p = q
    BY <1>1, <2>2 DEF Single
  <2>5. Single' /\ \A pids : AllIn(pids) => AllIn(pids)'
    BY <2>3, <2>4, FewerProcesses
  <2>6. Exclusive'
    BY <1>1, <2>1 DEF Exclusive
  <2>7. Found'
    BY <2>1, <2>3 DEF IInv, Found, AllIn
  <2> QED BY <2>5, <2>6, <2>7
<1>18. ASSUME UNCHANGED vars PROVE Goal
  BY <1>1, <1>18 DEF vars, Exclusive, Single, IInv, Found, AllIn
<1>19. ASSUME Command PROVE Goal
  <2> HIDE DEF Goal
  <2> QED BY <1>3, <1>4, <1>5, <1>7, <1>9, <1>10, <1>11, <1>12, <1>19 DEF Command
<1>20. ASSUME Operator PROVE Goal
  <2> HIDE DEF Goal
  <2> QED BY <1>13, <1>14, <1>15, <1>16, <1>20 DEF Operator
<1>21. Goal
  <2> HIDE DEF Goal
  <2> QED BY <1>17, <1>18, <1>19, <1>20 DEF Next
<1> QED BY <1>1, <1>21 DEF IInv

\* If commands and the operator take turns, every process that was started is the only
\* one of its server and can be found by its recorded pid.
THEOREM ProcessesAreFound == ~Overlap /\ Spec => []NoneLost
<1>1. ~Overlap /\ Spec => []IInv
  BY InitIInv, NextIInv, PTL DEF Spec
<1>2. IInv => NoneLost
  <2> SUFFICES ASSUME IInv, NEW s \in Server
               PROVE  /\ Cardinality(proc[s]) <= 1
                      /\ \A p \in proc[s] :
                            file.pid[s] = p.pid \/ Held(watch, s, p) \/ Held(user, s, p)
    BY DEF NoneLost
  <2>1. Cardinality(proc[s]) <= 1
    <3>1. CASE proc[s] = {}
      BY <3>1, FS_EmptySet
    <3>2. ASSUME NEW p \in proc[s] PROVE Cardinality(proc[s]) <= 1
      <4>1. proc[s] = {p}
        BY DEF IInv, Single
      <4>2. Cardinality({p}) = 1
        BY FS_Singleton
      <4> QED BY <4>1, <4>2
    <3> QED BY <3>1, <3>2
  <2>2. \A p \in proc[s] : file.pid[s] = p.pid \/ Held(watch, s, p) \/ Held(user, s, p)
    BY DEF IInv, Found, AllIn, Held
  <2> QED BY <2>1, <2>2
<1> QED BY <1>1, <1>2, PTL

-----------------------------------------------------------------------------
(***************************************************************************)
(* How often files are stored, if commands and the operator do not overlap.*)
(***************************************************************************)
Recording1 == IF user.pc = "record" THEN 1 ELSE 0

\* All copies of the state know the same files; what is left to ingest is not
\* among them, and the file being recorded has been stored.
IngestInv ==
    /\ IsFiniteSet(Times)
    /\ Cardinality(Times) <= Cardinality(file.files) + cut_short + Recording1
    /\ \A f \in file.files : stored[f] > 0
    /\ user # Idle => user.copy.files = file.files
    /\ watch.pc = "write" => watch.copy.files = file.files
    /\ user.pc \in {"ingest", "record"} => user.left \cap file.files = {}
    /\ user.pc = "record" => /\ user.now \notin file.files /\ user.now \notin user.left
                             /\ stored[user.now] > 0

TimesShape ==
    /\ \A f, n : <<f, n>> \in Times <=> f \in File /\ n \in 1..stored[f]
    /\ \A x \in Times : \E f \in File : \E n \in 1..stored[f] : x = <<f, n>>

LEMMA TimesElements == TimesShape
<1>1. \A f : \A x : x \in {f} \X (1..stored[f]) <=> \E n \in 1..stored[f] : x = <<f, n>>
  OBVIOUS
<1>2. \A x : x \in Times <=> \E f \in File : x \in {f} \X (1..stored[f])
  BY DEF Times
<1>3. \A x : x \in Times <=> \E f \in File : \E n \in 1..stored[f] : x = <<f, n>>
  BY <1>1, <1>2
<1> QED BY <1>3 DEF TimesShape

LEMMA FilesFinite ==
    ASSUME Types
    PROVE  /\ IsFiniteSet(file.files) /\ Cardinality(file.files) \in Nat
           /\ file.files \in SUBSET File
<1>1. file.files \in SUBSET File
  BY DEF Types, State
<1>2. IsFiniteSet(file.files)
  BY <1>1, ConstantsAssumption, FS_Subset
<1> QED BY <1>1, <1>2, FS_CardinalityType

\* Sending a file once more adds one to how often files were stored.
LEMMA OnceMore ==
    ASSUME Types, IsFiniteSet(Times), NEW f \in File, NEW ss, Send(f, ss)
    PROVE  /\ IsFiniteSet(Times') /\ Cardinality(Times') = Cardinality(Times) + 1
           /\ stored'[f] > 0 /\ \A g \in File : stored[g] > 0 => stored'[g] > 0
<1>1. /\ stored \in [File -> Nat] /\ stored' = [stored EXCEPT ![f] = @ + 1]
  BY DEF Types, Send
<1>2. /\ stored[f] \in Nat /\ stored'[f] = stored[f] + 1
      /\ \A g \in File : g # f => stored'[g] = stored[g]
  BY <1>1
<1> DEFINE x == <<f, stored[f] + 1>>
<1>3. x \notin Times
  BY <1>2, TimesElements DEF TimesShape
<1>4. /\ \A g, n : <<g, n>> \in Times' <=> g \in File /\ n \in 1..stored'[g]
      /\ \A y \in Times' : \E g \in File : \E n \in 1..stored'[g] : y = <<g, n>>
  <2>1. TimesShape'
    BY TimesElements, PTL
  <2> QED BY <2>1 DEF TimesShape
<1>5. Times' = Times \cup {x}
  <2>1. ASSUME NEW y \in Times' PROVE y \in Times \cup {x}
    <3>0. PICK g \in File : \E n \in 1..stored'[g] : y = <<g, n>>
      BY <1>4
    <3>1. PICK n \in 1..stored'[g] : y = <<g, n>>
      BY <3>0
    <3>2. n \in 1..stored[g] \/ (g = f /\ n = stored[f] + 1)
      BY <1>2, <3>1
    <3> QED BY <3>1, <3>2, TimesElements DEF TimesShape
  <2>2. ASSUME NEW y \in Times PROVE y \in Times'
    <3>0. PICK g \in File : \E n \in 1..stored[g] : y = <<g, n>>
      BY TimesElements DEF TimesShape
    <3>1. PICK n \in 1..stored[g] : y = <<g, n>>
      BY <3>0
    <3>2. n \in 1..stored'[g]
      BY <1>2, <3>1
    <3> QED BY <1>4, <3>1, <3>2
  <2>3. x \in Times'
    <3>1. stored[f] + 1 \in 1..stored'[f]
      BY <1>2
    <3> QED BY <1>4, <3>1
  <2> QED BY <2>1, <2>2, <2>3
<1> HIDE DEF x
<1>6. IsFiniteSet(Times') /\ Cardinality(Times') = Cardinality(Times) + 1
  BY <1>3, <1>5, FS_AddElement
<1>7. \A g \in File : stored[g] > 0 => stored'[g] > 0
  BY <1>1, <1>2
<1> QED BY <1>2, <1>6, <1>7

LEMMA InitIngest == Init => IngestInv
<1> SUFFICES ASSUME Init PROVE IngestInv
  OBVIOUS
<1>1. file.files = {} /\ user = Idle /\ cut_short = 0 /\ watch.pc = "rest" /\ user.pc = "idle"
      /\ \A f \in File : stored[f] = 0
  BY DEF Init, Idle
<1>2. Times = {}
  <2>1. \A x \in Times : FALSE
    BY <1>1, TimesElements DEF TimesShape
  <2> QED BY <2>1
<1>3. IsFiniteSet({}) /\ Cardinality({}) = 0
  BY FS_EmptySet
<1> QED BY <1>1, <1>2, <1>3 DEF IngestInv, Recording1

\* Steps that store nothing and leave the recorded files and the ingest as they are.
LEMMA IngestUntouched ==
    ASSUME IngestInv, stored' = stored, file'.files = file.files, cut_short' = cut_short,
           \/ user' = user
           \/ user'.pc = "write" /\ user'.copy.files = file.files
           \/ user' = Idle /\ user.pc # "record"
           \/ user'.pc = "ingest" /\ user'.copy.files = file.files
                 /\ user'.left \cap file.files = {} /\ user.pc # "record",
           user.pc # "record" \/ user' = user,
           watch'.pc = "write" => watch'.copy.files = file.files
    PROVE  IngestInv'
<1>1. Times' = Times
  BY DEF Times
<1>2. Recording1' = Recording1
  BY DEF Recording1, Idle
<1>3. user'.pc = "record" => user' = user
  BY DEF Idle
<1> QED BY <1>1, <1>2, <1>3 DEF IngestInv, Idle

LEMMA NextIngest == IInv /\ IngestInv /\ [Next]_vars => IngestInv'
<1> SUFFICES ASSUME IInv, IngestInv, [Next]_vars PROVE IngestInv'
  OBVIOUS
<1>1. /\ Types /\ Types' /\ Exclusive
      /\ user = Idle => user.pc = "idle"
      /\ user # Idle => watch.pc = "rest"
      /\ cut_short \in Nat
      /\ Cardinality(file.files) \in Nat /\ Cardinality(file'.files) \in Nat
      /\ IsFiniteSet(file.files)
  <2>1. Types /\ Types' /\ Exclusive /\ cut_short \in Nat
    BY NextTypes DEF IInv, Types
  <2>2. IsFiniteSet(file.files) /\ Cardinality(file.files) \in Nat
    BY <2>1, FilesFinite
  <2>3. file'.files \in SUBSET File
    BY <2>1 DEF Types, State
  <2>4. IsFiniteSet(file'.files) /\ Cardinality(file'.files) \in Nat
    BY <2>3, ConstantsAssumption, FS_Subset, FS_CardinalityType
  <2> QED BY <2>1, <2>2, <2>4 DEF Exclusive, Idle
<1>2. /\ IsFiniteSet(Times) /\ Cardinality(Times) \in Nat
      /\ Cardinality(Times) <= Cardinality(file.files) + cut_short + Recording1
      /\ \A f \in file.files : stored[f] > 0
      /\ user # Idle => user.copy.files = file.files
      /\ watch.pc = "write" => watch.copy.files = file.files
      /\ user.pc \in {"ingest", "record"} => user.left \cap file.files = {}
      /\ user.pc = "record" => /\ user.now \notin file.files /\ user.now \notin user.left
                               /\ stored[user.now] > 0
  BY FS_CardinalityType DEF IngestInv
<1> DEFINE Same == stored' = stored /\ file'.files = file.files /\ cut_short' = cut_short
<1>3. ASSUME NEW ss \in SUBSET Server, MayStart, Starting(ss),
             UNCHANGED <<file, stored, watch, cut_short>>
      PROVE  IngestInv'
  <2>1. PICK pid \in Fresh(ss) :
           Spawn(ss, pid) /\ user' = [pc |-> "write", copy |-> Recording(file, ss, pid)]
    BY <1>3 DEF Starting
  <2>2. Recording(file, ss, pid).files = file.files
    BY <1>1, <2>1, SpawnKeeps
  <2>3. user.pc = "idle" /\ user'.pc = "write" /\ user'.copy.files = file.files
    BY <1>1, <1>3, <2>1, <2>2 DEF MayStart
  <2> QED BY <1>2, <1>3, <2>3, IngestUntouched
<1>4. ASSUME Up \/ \E s \in Server : Restart(s) PROVE IngestInv'
  BY <1>3, <1>4 DEF Up, Restart
<1>5. ASSUME WriteState PROVE IngestInv'
  <2>1. user.pc = "write" /\ user # Idle /\ file' = user.copy /\ user' = Idle
        /\ UNCHANGED <<stored, watch, cut_short>>
    BY <1>1, <1>5 DEF WriteState
  <2> QED BY <1>2, <2>1, IngestUntouched
<1>6. ASSUME Down \/ Repair \/ \E s \in Server : Kill(s) PROVE IngestInv'
  <2>1. UNCHANGED <<file, stored, watch, user, cut_short>>
    BY <1>6 DEF Down, Repair, Kill
  <2> QED BY <1>2, <2>1, IngestUntouched
<1>7. ASSUME NEW fs, StartIngest(fs) PROVE IngestInv'
  <2>1. /\ user = Idle /\ UNCHANGED <<file, stored, watch, cut_short>>
        /\ user' = [pc |-> "ingest", copy |-> file, left |-> fs \ file.files]
    BY <1>7 DEF StartIngest, MayStart
  <2>2. /\ user.pc # "record" /\ user'.pc = "ingest" /\ user'.copy.files = file.files
        /\ user'.left \cap file.files = {}
    BY <1>1, <2>1
  <2> QED BY <1>2, <2>1, <2>2, IngestUntouched
<1>8. ASSUME NEW f \in File, Store(f) PROVE IngestInv'
  <2>1. /\ user.pc = "ingest" /\ f \in user.left /\ Send(f, Server)
        /\ user' = [pc |-> "record", copy |-> user.copy, left |-> user.left \ {f}, now |-> f]
        /\ UNCHANGED <<file, watch, cut_short>>
    BY <1>8 DEF Store
  <2>2. /\ IsFiniteSet(Times') /\ Cardinality(Times') = Cardinality(Times) + 1
        /\ stored'[f] > 0 /\ \A g \in File : stored[g] > 0 => stored'[g] > 0
    BY <1>1, <1>2, <2>1, OnceMore
  <2>3. Recording1 = 0 /\ Recording1' = 1
    BY <2>1 DEF Recording1
  <2>4. /\ user.copy.files = file.files /\ f \notin file.files /\ watch.pc = "rest"
    BY <1>1, <1>2, <2>1
  <2>5. Cardinality(Times') <= Cardinality(file'.files) + cut_short' + Recording1'
    BY <1>1, <1>2, <2>1, <2>2, <2>3
  <2>6. \A g \in file'.files : stored'[g] > 0
    BY <1>1, <1>2, <2>1, <2>2, FilesFinite
  <2>7. /\ user'.pc = "record" /\ user'.copy = user.copy /\ user'.left = user.left \ {f}
        /\ user'.now = f
    BY <2>1
  <2> QED BY <1>2, <2>1, <2>2, <2>4, <2>5, <2>6, <2>7 DEF IngestInv
<1>9. ASSUME NEW f \in File, StoreFails(f) PROVE IngestInv'
  <2>1. /\ user.pc = "ingest" /\ user' = Idle /\ cut_short' = cut_short + 1
        /\ UNCHANGED <<file, watch>>
        /\ (\E ss \in SUBSET Answering : Send(f, ss)) \/ stored' = stored
    BY <1>9 DEF StoreFails
  <2>2. Recording1 = 0 /\ Recording1' = 0 /\ user'.pc = "idle"
    BY <2>1 DEF Recording1, Idle
  <2>3. /\ IsFiniteSet(Times') /\ Cardinality(Times') <= Cardinality(Times) + 1
        /\ Cardinality(Times') \in Nat /\ \A g \in File : stored[g] > 0 => stored'[g] > 0
    <3>1. CASE stored' = stored
      <4>1. Times' = Times
        BY <3>1 DEF Times
      <4> QED BY <1>2, <3>1, <4>1
    <3>2. ASSUME NEW ss \in SUBSET Answering, Send(f, ss)
          PROVE  /\ IsFiniteSet(Times') /\ Cardinality(Times') = Cardinality(Times) + 1
                 /\ \A g \in File : stored[g] > 0 => stored'[g] > 0
      BY <1>1, <1>2, <3>2, OnceMore
    <3> QED BY <1>2, <2>1, <3>1, <3>2
  <2>4. Cardinality(Times') <= Cardinality(file'.files) + cut_short' + Recording1'
    BY <1>1, <1>2, <2>1, <2>2, <2>3
  <2>5. \A g \in file'.files : stored'[g] > 0
    BY <1>1, <1>2, <2>1, <2>3, FilesFinite
  <2>6. watch'.pc = "write" => watch'.copy.files = file'.files
    BY <1>2, <2>1
  <2> QED BY <2>1, <2>2, <2>3, <2>4, <2>5, <2>6 DEF IngestInv
<1>10. ASSUME Record PROVE IngestInv'
  <2>1. /\ user.pc = "record" /\ file' = Recorded
        /\ user' = [pc |-> "ingest", copy |-> Recorded, left |-> user.left]
        /\ UNCHANGED <<stored, watch, cut_short>>
    BY <1>10 DEF Record
  <2>2. user # Idle /\ watch.pc = "rest"
    BY <1>1, <2>1
  <2>3. Recorded.files = file.files \cup {user.now}
    <3>1. user.copy \in State
      BY <1>1, <2>1, UserFacts
    <3>2. Recorded.files = user.copy.files \cup {user.now}
      BY <3>1 DEF Recorded, State
    <3> QED BY <1>2, <2>2, <3>2
  <2>4. Cardinality(file'.files) = Cardinality(file.files) + 1
    BY <1>1, <1>2, <2>1, <2>3, FS_AddElement
  <2>5. Recording1 = 1 /\ Recording1' = 0 /\ Times' = Times
    BY <2>1 DEF Recording1, Times
  <2>6. Cardinality(Times') <= Cardinality(file'.files) + cut_short' + Recording1'
    BY <1>1, <1>2, <2>1, <2>4, <2>5
  <2>7. \A g \in file'.files : stored'[g] > 0
    BY <1>2, <2>1, <2>3
  <2>8. user'.pc = "ingest" /\ user'.copy.files = file'.files /\ user'.left = user.left
        /\ user'.left \cap file'.files = {}
    BY <1>2, <2>1, <2>3
  <2> QED BY <1>2, <2>1, <2>2, <2>5, <2>6, <2>7, <2>8 DEF IngestInv
<1>11. ASSUME IngestEnds PROVE IngestInv'
  <2>1. user.pc = "ingest" /\ user' = Idle /\ UNCHANGED <<file, stored, watch, cut_short>>
    BY <1>11 DEF IngestEnds
  <2> QED BY <1>2, <2>1, IngestUntouched
<1>12. ASSUME IngestKilled PROVE IngestInv'
  <2>1. user' = Idle /\ cut_short' = cut_short + 1 /\ UNCHANGED <<file, stored, watch>>
    BY <1>12 DEF IngestKilled
  <2>2. Recording1 \in {0, 1} /\ Recording1' = 0 /\ Times' = Times /\ user'.pc = "idle"
    BY <2>1 DEF Recording1, Times, Idle
  <2>3. Cardinality(Times') <= Cardinality(file'.files) + cut_short' + Recording1'
    BY <1>1, <1>2, <2>1, <2>2
  <2> QED BY <1>2, <2>1, <2>2, <2>3 DEF IngestInv
<1>13. ASSUME Round \/ RepairTool \/ Report PROVE IngestInv'
  <2>1. UNCHANGED <<file, stored, user, cut_short>> /\ watch'.pc # "write"
    <3>1. UNCHANGED <<file, stored, user, cut_short>>
      BY <1>13 DEF Round, RepairTool, Report
    <3>2. watch'.pc # "write"
      <4>1. CASE Round
        BY <4>1 DEF Round
      <4>2. CASE RepairTool
        <5>1. watch \in ActingRec /\ watch' = [watch EXCEPT !.calls = @ + 1]
          BY <1>1, <4>2, WatchFacts DEF RepairTool, Acting
        <5> QED BY <5>1 DEF ActingRec
      <4>3. CASE Report
        BY <4>3 DEF Report
      <4> QED BY <1>13, <4>1, <4>2, <4>3
    <3> QED BY <3>1, <3>2
  <2> QED BY <1>2, <2>1, IngestUntouched
<1>14. ASSUME NEW s \in Server, RestartServer(s) PROVE IngestInv'
  <2>1. PICK pid \in Fresh({s}) :
           /\ Spawn({s}, pid)
           /\ watch'.pc = "write" /\ watch'.copy = Recording(file, {s}, pid)
    BY <1>14 DEF RestartServer
  <2>2. Recording(file, {s}, pid).files = file.files
    BY <1>1, <2>1, SpawnKeeps
  <2>3. UNCHANGED <<file, stored, user, cut_short>>
    BY <1>14 DEF RestartServer
  <2> QED BY <1>2, <2>1, <2>2, <2>3, IngestUntouched
<1>15. ASSUME RestartRecorded PROVE IngestInv'
  <2>1. /\ file'.files = file.files /\ UNCHANGED <<stored, user, cut_short>>
        /\ watch'.pc = "act"
    BY <1>2, <1>15 DEF RestartRecorded
  <2> QED BY <1>2, <2>1, IngestUntouched
<1>16. ASSUME (\E s \in Server : Serves(s) \/ Fails(s)) \/ UNCHANGED vars PROVE IngestInv'
  <2>1. UNCHANGED <<file, stored, watch, user, cut_short>>
    BY <1>16 DEF Serves, Fails, vars
  <2> QED BY <1>2, <2>1, IngestUntouched
<1> QED
  BY <1>4, <1>5, <1>6, <1>7, <1>8, <1>9, <1>10, <1>11, <1>12, <1>13, <1>14, <1>15, <1>16
  DEF Next, Command, Operator

\* Files are never stored more often than they are recorded, plus once for every ingest
\* that was cut short, however many of them were, and wherever (ingest_files).
THEOREM IngestRepeatsOneAtMost == ~Overlap /\ Spec => []LosesOneAtMost
<1>1. ~Overlap /\ Init => IInv /\ IngestInv
  BY InitIInv, InitIngest
<1>2. IInv /\ IngestInv /\ [Next]_vars => IInv' /\ IngestInv'
  BY NextIInv, NextIngest
<1>3. IngestInv => LosesOneAtMost
  BY DEF IngestInv, LosesOneAtMost, Recording1
<1> QED BY <1>1, <1>2, <1>3, PTL DEF Spec
=============================================================================
