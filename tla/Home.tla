-------------------------------- MODULE Home --------------------------------
(***************************************************************************)
(* A local cluster as its home directory knows it: cluster.json records    *)
(* the process ids of the servers and the files that were ingested         *)
(* (vsearch/state.py), every command reads it whole, and some write it     *)
(* back whole (vsearch/cli.py, documents.py, ops.py).  Beside the user's   *)
(* commands there is `ops watch`, which lets an operator (a runbook or a   *)
(* model) restart servers and repair replicas when something is wrong.     *)
(*                                                                         *)
(* The servers are the replicas of one shard.  Data is reduced to last_seq *)
(* and to how often the passages of a file were stored.                    *)
(***************************************************************************)
EXTENDS Integers, FiniteSets, FiniteSetsExt, Functions

CONSTANTS
    Server, Pid, File,
    MaxRestarts,   \* restarts of one server in one run of the operator
    MaxCalls,      \* bound on the tools an operator calls in one run
    MaxEvents,     \* bound on commands, crashes and failures in a behaviour
    Overlap        \* may commands and the operator overlap?

ASSUME ConstantsAssumption ==
    /\ IsFiniteSet(Server) /\ Pid \subseteq Nat \ {0} /\ IsFiniteSet(File)
    /\ MaxRestarts \in Nat /\ MaxCalls \in Nat /\ MaxEvents \in Nat /\ Overlap \in BOOLEAN

VARIABLES
    file,       \* cluster.json: the recorded pids and ingested files
    proc,       \* proc[s]: the processes started for server s, with the state they are in
    last_seq,   \* last_seq[s]: the last write on the disk of s
    stored,     \* stored[f]: how often the passages of f were sent to the servers
    watch,      \* ops_watch and the operator it runs
    user,       \* the command a user is running
    cut_short,  \* ingest commands that were killed or stopped by a failing write
    events

vars == <<file, proc, last_seq, stored, watch, user, cut_short, events>>

Idle == [pc |-> "idle"]

Init ==
    /\ file = [pid |-> [s \in Server |-> 0], files |-> {}]     \* 0 for None
    /\ proc = [s \in Server |-> {}] /\ last_seq = [s \in Server |-> 0]
    /\ stored = [f \in File |-> 0]
    /\ watch = [pc |-> "rest", gave_up_on |-> {}]
    /\ user = Idle /\ cut_short = 0 /\ events = 0

Event == events < MaxEvents /\ events' = events + 1

\* Mutant: a process is there if it answers.
IsRunningAnswers(state, s) == \E p \in proc[s] : p.pid = state.pid[s] /\ p.is = "serving"

\* is_running: the recorded process exists and was started for this server.
IsRunning(state, s) == \E p \in proc[s] : p.pid = state.pid[s]

\* server_status: something answers at the address of s.
Answers(s) == \E p \in proc[s] : p.is = "serving"
Answering  == {s \in Server : Answers(s)}

\* find_problems, for one shard.
Problems ==
    {[what |-> IF IsRunning(file, s) THEN "does not answer" ELSE "is down", who |-> {s}] :
        s \in Server \ Answering}
    \cup IF Answering = {} THEN {[what |-> "no live replica", who |-> {}]}
         ELSE IF Cardinality({last_seq[s] : s \in Answering}) > 1
         THEN {[what |-> "out of sync", who |-> {<<s, last_seq[s]>> : s \in Answering}]} ELSE {}

\* spawn: every server of ss gets a new process, its pid any that is not in use.
Fresh(ss) == {pid \in [ss -> Pid] : /\ IsInjective(pid)
                                    /\ \A s \in ss, t \in Server : \A p \in proc[t] : p.pid # pid[s]}
Spawn(ss, pid) ==
    proc' = [s \in Server |-> proc[s] \cup
                (IF s \in ss THEN {[pid |-> pid[s], is |-> "starting"]} ELSE {})]
Recording(state, ss, pid) ==
    [state EXCEPT !.pid = [s \in Server |-> IF s \in ss THEN pid[s] ELSE state.pid[s]]]

\* stop: the recorded processes of these servers are signalled.  Some may not have
\* ended after 10 s, when it no longer waits for them.
Stop(ss) ==
    \E ending \in SUBSET ss :
        proc' = [s \in Server |-> IF s \in ending THEN {p \in proc[s] : p.pid # file.pid[s]}
                                  ELSE proc[s]]

\* Commands start when nothing else is going on, unless they may overlap.
MayStart ==
    /\ user = Idle /\ Event
    /\ Overlap \/ watch.pc = "rest"

-----------------------------------------------------------------------------
(***************************************************************************)
(* Commands that start and stop servers.  Between spawn and write_state a  *)
(* command holds its own copy of the state.                                *)
(***************************************************************************)
Starting(ss) ==
    \E pid \in Fresh(ss) :
        /\ Spawn(ss, pid)
        /\ user' = [pc |-> "write", copy |-> Recording(file, ss, pid)]

\* cluster_up
Up ==
    /\ MayStart /\ \A s \in Server : ~IsRunning(file, s)
    /\ Starting(Server)
    /\ UNCHANGED <<file, last_seq, stored, watch, cut_short>>

\* cluster_restart
Restart(s) ==
    /\ MayStart /\ ~IsRunning(file, s)
    /\ Starting({s})
    /\ UNCHANGED <<file, last_seq, stored, watch, cut_short>>

\* What is left is to wait for the servers, which changes nothing.
WriteState ==
    /\ user.pc = "write"
    /\ file' = user.copy /\ user' = Idle
    /\ UNCHANGED <<proc, last_seq, stored, watch, cut_short, events>>

\* cluster_down
Down ==
    /\ MayStart /\ Stop(Server)
    /\ UNCHANGED <<file, last_seq, stored, watch, user, cut_short>>

\* cluster_kill
Kill(s) ==
    /\ MayStart /\ IsRunning(file, s) /\ Stop({s})
    /\ UNCHANGED <<file, last_seq, stored, watch, user, cut_short>>

\* GrpcCoordinator.repair: those of the servers that answer take over what the
\* most advanced one has; `done` are the ones it got to.
CatchUp(done) ==
    last_seq' = [s \in Server |-> IF s \in done
                    THEN Max({last_seq[t] : t \in Answering}) ELSE last_seq[s]]

\* The command `repair`.
Repair ==
    /\ MayStart
    /\ \E done \in SUBSET Answering : CatchUp(done)
    /\ UNCHANGED <<file, proc, stored, watch, user, cut_short>>

-----------------------------------------------------------------------------
(***************************************************************************)
(* ingest: one file after the other is stored and then recorded, in the    *)
(* state read at the start.                                                *)
(***************************************************************************)
\* writable, and the checks of ingest_files.
StartIngest(fs) ==
    /\ MayStart
    /\ Answering = Server
    /\ file.files = {} => \A s \in Server : last_seq[s] = 0
    /\ user' = [pc |-> "ingest", copy |-> file, left |-> fs \ file.files]
    /\ UNCHANGED <<file, proc, last_seq, stored, watch, cut_short>>

Send(f, ss) ==
    /\ last_seq' = [s \in Server |-> IF s \in ss THEN last_seq[s] + 1 ELSE last_seq[s]]
    /\ stored' = [stored EXCEPT ![f] = @ + 1]

\* ingest_passages: an add() takes all replicas, in agreement.
Storable == Answering = Server /\ \A s, t \in Server : last_seq[s] = last_seq[t]

Store(f) ==
    /\ user.pc = "ingest" /\ f \in user.left /\ Storable
    /\ Send(f, Server)
    /\ user' = [pc |-> "record", copy |-> user.copy, left |-> user.left \ {f}, now |-> f]
    /\ UNCHANGED <<file, proc, watch, cut_short, events>>

\* An add() that fails, maybe after some of the replicas took it.
StoreFails(f) ==
    /\ user.pc = "ingest" /\ f \in user.left
    /\ IF Storable THEN Event ELSE UNCHANGED events
    /\ \/ \E ss \in SUBSET Answering : Send(f, ss)
       \/ UNCHANGED <<last_seq, stored>>
    /\ user' = Idle /\ cut_short' = cut_short + 1
    /\ UNCHANGED <<file, proc, watch>>

Recorded == [user.copy EXCEPT !.files = @ \cup {user.now}]

\* Mutant: the state is written when the last file is stored.
RecordAtEnd ==
    /\ user.pc = "record"
    /\ file' = IF user.left = {} THEN Recorded ELSE file
    /\ user' = [pc |-> "ingest", copy |-> Recorded, left |-> user.left]
    /\ UNCHANGED <<proc, last_seq, stored, watch, cut_short, events>>

\* write_state after every file.
Record ==
    /\ user.pc = "record"
    /\ file' = Recorded
    /\ user' = [pc |-> "ingest", copy |-> Recorded, left |-> user.left]
    /\ UNCHANGED <<proc, last_seq, stored, watch, cut_short, events>>

IngestEnds ==
    /\ user.pc = "ingest" /\ user.left = {} /\ user' = Idle
    /\ UNCHANGED <<file, proc, last_seq, stored, watch, cut_short, events>>

\* The process that ingests is killed.
IngestKilled ==
    /\ user.pc \in {"ingest", "record"} /\ Event
    /\ user' = Idle /\ cut_short' = cut_short + 1
    /\ UNCHANGED <<file, proc, last_seq, stored, watch>>

-----------------------------------------------------------------------------
(***************************************************************************)
(* ops_watch and the operator.  The operator may call its tools in any     *)
(* order and stop at any time (run_agent); run_runbook is one way to do    *)
(* so.  Tools that only look are left out.                                 *)
(***************************************************************************)
Round ==
    /\ watch.pc = "rest" /\ (Overlap \/ user = Idle)
    /\ watch' = IF Problems = {} THEN [watch EXCEPT !.gave_up_on = {}]
                ELSE IF Problems = watch.gave_up_on THEN watch
                ELSE [pc |-> "act", gave_up_on |-> watch.gave_up_on, calls |-> 0,
                      restarts |-> [s \in Server |-> 0]]
    /\ UNCHANGED <<file, proc, last_seq, stored, user, cut_short, events>>

Acting == watch.pc = "act" /\ watch.calls < MaxCalls

\* Mutant: one restart too many.
WithinLimitPlusOne(s) == watch.restarts[s] <= MaxRestarts

WithinLimit(s) == watch.restarts[s] < MaxRestarts

\* restart_server: refused if s answers, if its process is there, or too often.
RestartServer(s) ==
    /\ Acting
    /\ ~Answers(s) /\ ~IsRunning(file, s) /\ WithinLimit(s)
    /\ \E pid \in Fresh({s}) :
          /\ Spawn({s}, pid)
          /\ watch' = [pc |-> "write", gave_up_on |-> watch.gave_up_on, calls |-> watch.calls + 1,
                       restarts |-> [watch.restarts EXCEPT ![s] = @ + 1],
                       copy |-> Recording(file, {s}, pid)]
    /\ UNCHANGED <<file, last_seq, stored, user, cut_short, events>>

\* It writes the state it read, and waits for the server, for as long as that
\* or its timeout takes.
RestartRecorded ==
    /\ watch.pc = "write"
    /\ file' = watch.copy
    /\ watch' = [pc |-> "act", gave_up_on |-> watch.gave_up_on, calls |-> watch.calls,
                 restarts |-> watch.restarts]
    /\ UNCHANGED <<proc, last_seq, stored, user, cut_short, events>>

\* The tool repair; it may fail half-way.
RepairTool ==
    /\ Acting
    /\ \E done \in SUBSET Answering : CatchUp(done)
    /\ watch' = [watch EXCEPT !.calls = @ + 1]
    /\ UNCHANGED <<file, proc, stored, user, cut_short, events>>

\* Mutant: what is left is not kept.
ReportForgets ==
    /\ watch.pc = "act" /\ watch' = [pc |-> "rest", gave_up_on |-> {}]
    /\ UNCHANGED <<file, proc, last_seq, stored, user, cut_short, events>>

\* Whatever the operator reports, the problems are looked up again (_check_once).
Report ==
    /\ watch.pc = "act" /\ watch' = [pc |-> "rest", gave_up_on |-> Problems]
    /\ UNCHANGED <<file, proc, last_seq, stored, user, cut_short, events>>

-----------------------------------------------------------------------------
(***************************************************************************)
(* Server processes.                                                       *)
(***************************************************************************)
Move(s, from, to) ==
    \E p \in proc[s] : /\ p.is \in from
                       /\ proc' = [proc EXCEPT ![s] = (@ \ {p}) \cup
                                      (IF to = "gone" THEN {} ELSE {[p EXCEPT !.is = to]})]

Serves(s) ==
    /\ Move(s, {"starting"}, "serving")
    /\ UNCHANGED <<file, last_seq, stored, watch, user, cut_short, events>>

\* A process ends, maybe long after it was told to, or stops answering.
Fails(s) ==
    /\ Event
    /\ \/ Move(s, {"starting", "serving", "hung"}, "gone")
       \/ Move(s, {"serving"}, "hung")
    /\ UNCHANGED <<file, last_seq, stored, watch, user, cut_short>>

Command ==
    \/ Up \/ Down \/ Repair \/ WriteState \/ Record \/ IngestEnds \/ IngestKilled
    \/ \E s \in Server : Restart(s) \/ Kill(s)
    \/ \E fs \in (SUBSET File) \ {{}} : StartIngest(fs)
    \/ \E f \in File : Store(f) \/ StoreFails(f)

Operator ==
    Round \/ RestartRecorded \/ RepairTool \/ Report \/ \E s \in Server : RestartServer(s)

Next == Command \/ Operator \/ \E s \in Server : Serves(s) \/ Fails(s)

\* A command that was started goes on, so does the watch, and what it calls on
\* ends; servers may start or not.
Spec ==
    /\ Init /\ [][Next]_vars
    /\ WF_vars(WriteState \/ Record \/ IngestEnds \/ \E f \in File : Store(f) \/ StoreFails(f))
    /\ WF_vars(Operator)

-----------------------------------------------------------------------------
State    == [pid : [Server -> Pid \cup {0}], files : SUBSET File]
Restarts == [Server -> 0..MaxRestarts]

\* The state stays in its domains; one run of the operator restarts no server more
\* often than it may (restart_server).
TypeOK ==
    /\ file \in State
    /\ proc \in [Server -> SUBSET [pid : Pid, is : {"starting", "serving", "hung"}]]
    /\ last_seq \in [Server -> Nat] /\ stored \in [File -> Nat]
    /\ \/ watch.pc = "rest"
       \/ watch.pc \in {"act", "write"} /\ watch.restarts \in Restarts
                                        /\ watch.calls \in 0..MaxCalls
    /\ \/ user = Idle
       \/ user.pc \in {"write", "ingest", "record"} /\ user.copy \in State
    /\ cut_short \in Nat /\ events \in 0..MaxEvents

Held(a, s, p) == a.pc = "write" /\ a.copy.pid[s] = p.pid

\* Every process that was started for a server can be found again: it is the one
\* process of its server, and its pid is recorded or about to be.  So no server
\* runs twice on one data directory, and `cluster down` can signal all
\* (restart_server, cluster_up, is_running).
NoneLost ==
    \A s \in Server : /\ Cardinality(proc[s]) <= 1
                      /\ \A p \in proc[s] : file.pid[s] = p.pid \/ Held(watch, s, p) \/ Held(user, s, p)

\* Every time that a file was stored: <<f, 2>> for the second time of f.
Times == UNION {{f} \X (1..stored[f]) : f \in File}

\* An ingest that is cut short leaves at most one file that was stored and not
\* recorded, whatever it had stored before; and what is recorded was stored.
LosesOneAtMost ==
    /\ Cardinality(Times) <= Cardinality(file.files) + cut_short
                               + (IF user.pc = "record" THEN 1 ELSE 0)
    /\ \A f \in file.files : stored[f] > 0

\* When nothing new happens the watch comes to rest: with a healthy cluster, or
\* with problems it has given up on and does not try again (ops_watch).
Settles == <>[](watch = [pc |-> "rest", gave_up_on |-> Problems])
=============================================================================
