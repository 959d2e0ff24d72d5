----------------------------- MODULE Jobs_proofs -----------------------------
(***************************************************************************)
(* Proofs about jobs that follow one another, for any jobs, stages, hosts,  *)
(* source files and bounds.                                                 *)
(***************************************************************************)
EXTENDS Jobs, TLAPS

----------------------------------------------------------------------------
(* Types.                                                                   *)

\* TypeOK by who keeps the state.  The leader's part says besides what SubmitJob
\* relies on at each of its steps: what it has set by then, and that a source that
\* has something to send has a topology to send it to.
Known(j) ==
  /\ submit[j].pc = "kill" /\ submit[j].left # {} => spec # NoJob
  /\ submit[j].pc \in {"create", "assign", "prepare", "init"} => spec # NoJob
  /\ submit[j].pc \in {"assign", "prepare", "init"} => topology # NoJob
  /\ submit[j].pc = "init" => submit[j].topo # NoJob
  /\ stream[j].unread # {} => stream[j].topo # NoJob

SubmitType == [pc : {"new", "kill", "create", "assign", "prepare", "init", "done", "failed"},
               left : SUBSET (Tasks \cup Nodes), topo : Jobs \cup {NoJob}, err : BOOLEAN]
StreamType == [topo : Jobs \cup {NoJob}, unread : SUBSET Lines]

LeaderOK ==
  /\ scenario \in Scenarios
  /\ spec \in Jobs \cup {NoJob} /\ topology \in Jobs \cup {NoJob} /\ assigned \in Jobs \cup {NoJob}
  /\ last \in Jobs \cup {NoJob}
  /\ submit \in [Jobs -> SubmitType] /\ stream \in [Jobs -> StreamType]
  /\ topology # NoJob => spec # NoJob
  /\ \A j \in Jobs : Known(j)
HealthOK ==
  stopped \subseteq Tasks /\ restarting \subseteq Tasks
  /\ monitor \subseteq RequestType /\ late \subseteq RequestType
NodesOK ==
  /\ running \subseteq used /\ used \subseteq Tasks
  /\ current \in [Nodes -> Jobs \cup {NoJob}] /\ before \in [Nodes -> Jobs \cup {NoJob}]
  /\ \A u \in running : current[Host[u]] # NoJob
ManagersOK ==
  /\ received \in [Tasks -> SUBSET Lines] /\ pipe \in [Tasks -> SUBSET Lines]
  /\ processed \in [Tasks -> SUBSET Lines] /\ sent \in [Tasks -> SUBSET Lines]
  /\ wal \in [Tasks -> [rec : SUBSET Lines, sent : SUBSET Lines]]
  /\ drained \subseteq [task : Tasks, id : Lines]
  /\ \A u \in Tasks \ running : received[u] = {} /\ pipe[u] = {} /\ processed[u] = {} /\ sent[u] = {}
WireOK ==
  /\ leaderSent \subseteq [id : Lines, dest : Tasks]
  /\ acks \subseteq [to : Tasks \cup {Leader}, id : Lines]
OutOK ==
  /\ outputBuffer \in [Nodes -> LineCount] /\ out \in [Jobs -> LineCount]
  /\ timeouts \in Nat /\ losses \in Nat /\ busy \in BOOLEAN /\ stale \in BOOLEAN

AllOK == LeaderOK /\ HealthOK /\ NodesOK /\ ManagersOK /\ WireOK /\ OutOK

\* Together they are the type invariant.
LEMMA PartsAreTypes == AllOK /\ mistaken \in BOOLEAN => TypeOK
<1> SUFFICES ASSUME AllOK, mistaken \in BOOLEAN PROVE TypeOK
  OBVIOUS
<1>1. {spec, topology, assigned, last} \subseteq Jobs \cup {NoJob} /\ {busy, stale, mistaken} \subseteq BOOLEAN
  BY DEF AllOK, LeaderOK, OutOK
<1>2. \A f \in {received, pipe, processed, sent} : f \in [Tasks -> SUBSET Lines]
  BY DEF AllOK, ManagersOK
<1> QED
  BY <1>1, <1>2 DEF AllOK, TypeOK, LeaderOK, HealthOK, NodesOK, ManagersOK, WireOK, OutOK,
                    SubmitType, StreamType

\* What the tasks of a job are.
LEMMA TaskFacts ==
  /\ \A j \in Jobs \cup {NoJob} : TasksOf(j) \subseteq Tasks
  /\ TasksOf(NoJob) = {}
  /\ \A j \in Jobs : <<j, 1>> \in TasksOf(j) /\ <<j, 1>> \in Tasks
  /\ \A u \in Tasks : /\ u[1] \in Jobs /\ u[2] \in 1..NStages[u[1]] /\ u = <<u[1], u[2]>>
                      /\ u \in TasksOf(u[1]) /\ Host[u] \in Nodes
                      /\ Sender(u) \in Tasks \cup {Leader}
<1>1. \A j \in Jobs : NStages[j] \in Nat \ {0} /\ TasksOf(j) = {j} \X (1..NStages[j])
  BY JobsAssumption DEF TasksOf
<1>2. \A j \in Jobs \cup {NoJob} : TasksOf(j) \subseteq Tasks
  BY DEF Tasks, TasksOf
<1>3. TasksOf(NoJob) = {}
  BY DEF TasksOf
<1>4. \A j \in Jobs : <<j, 1>> \in TasksOf(j) /\ <<j, 1>> \in Tasks
  BY <1>1, <1>2
<1>5. ASSUME NEW u \in Tasks
      PROVE  /\ u[1] \in Jobs /\ u[2] \in 1..NStages[u[1]] /\ u = <<u[1], u[2]>>
             /\ u \in TasksOf(u[1]) /\ Host[u] \in Nodes /\ Sender(u) \in Tasks \cup {Leader}
  <2>1. PICK j \in Jobs : u \in TasksOf(j)
    BY DEF Tasks
  <2>2. u[1] = j /\ u[2] \in 1..NStages[j] /\ u = <<u[1], u[2]>>
    BY <1>1, <2>1
  <2>3. Host[u] \in Nodes
    BY DEF Nodes
  <2>4. u[2] # 1 => <<u[1], u[2] - 1>> \in TasksOf(j)
    BY <1>1, <2>2
  <2> QED
    BY <1>2, <2>1, <2>2, <2>3, <2>4 DEF Sender
<1> QED
  BY <1>2, <1>3, <1>4, <1>5

\* Initially nothing has been submitted.
LEMMA TypeInit == Init => AllOK
<1> SUFFICES ASSUME Init PROVE AllOK
  OBVIOUS
<1>1. NoLines \in LineCount
  BY DEF NoLines, LineCount
<1>2. LeaderOK
  <2>1. NewSubmit \in SubmitType /\ NewSubmit.pc = "new" /\ NoStream \in StreamType /\ NoStream.unread = {}
    BY DEF NewSubmit, NoStream, SubmitType, StreamType
  <2> QED
    BY <2>1 DEF Init, LeaderOK, Known
<1>3. ManagersOK
  BY DEF Init, ManagersOK
<1> QED
  BY <1>1, <1>2, <1>3 DEF Init, AllOK, HealthOK, NodesOK, WireOK, OutOK

\* What is not touched keeps its type.
LEMMA Untouched ==
  /\ LeaderOK /\ UNCHANGED <<leaderVars, last, submit, stream>> => LeaderOK'
  /\ HealthOK /\ UNCHANGED <<healthVars, late>> => HealthOK'
  /\ NodesOK /\ UNCHANGED taskVars => NodesOK'
  /\ ManagersOK /\ UNCHANGED <<tupleVars, running>> => ManagersOK'
  /\ WireOK /\ UNCHANGED <<leaderSent, acks>> => WireOK'
  /\ OutOK /\ UNCHANGED <<outVars, timeouts, losses, busy, stale>> => OutOK'
BY DEF LeaderOK, Known, HealthOK, NodesOK, ManagersOK, WireOK, OutOK, leaderVars, healthVars, taskVars,
       tupleVars, outVars

\* A kill takes the task's state away.
LEMMA KillTypes ==
  ASSUME NodesOK, ManagersOK, NEW u \in Tasks, KillTaskProcess(u)
  PROVE  NodesOK' /\ ManagersOK' /\ used' = used /\ running' \subseteq running
<1>1. NodesOK' /\ used' = used /\ running' \subseteq running
  BY DEF KillTaskProcess, NodesOK
<1>2. CASE u \notin running
  <2>1. running' = running /\ UNCHANGED <<received, pipe, processed, sent, wal, drained>>
    BY <1>2 DEF KillTaskProcess, tupleVars
  <2> QED
    BY <1>1, <2>1 DEF ManagersOK
<1>3. CASE u \in running
  <2>1. PICK S \in SUBSET pipe[u] : drained' = drained \cup {[task |-> u, id |-> t] : t \in S}
    BY <1>3 DEF KillTaskProcess
  <2>2. drained' \subseteq [task : Tasks, id : Lines]
    BY <2>1 DEF ManagersOK
  <2>3. /\ received' = [received EXCEPT ![u] = {}] /\ processed' = [processed EXCEPT ![u] = {}]
        /\ sent' = [sent EXCEPT ![u] = {}] /\ pipe' = [pipe EXCEPT ![u] = {}] /\ wal' = wal
        /\ running' = running \ {u}
    BY <1>3 DEF KillTaskProcess
  <2>4. /\ received' \in [Tasks -> SUBSET Lines] /\ processed' \in [Tasks -> SUBSET Lines]
        /\ sent' \in [Tasks -> SUBSET Lines] /\ pipe' \in [Tasks -> SUBSET Lines]
    BY <2>3 DEF ManagersOK
  <2>5. ASSUME NEW v \in Tasks \ running'
        PROVE  received'[v] = {} /\ pipe'[v] = {} /\ processed'[v] = {} /\ sent'[v] = {}
    BY <2>3 DEF ManagersOK
  <2> QED
    BY <1>1, <2>2, <2>3, <2>4, <2>5 DEF ManagersOK
<1> QED
  BY <1>1, <1>2, <1>3

\* Tasks that start get what their log has.
LEMMA StartTypes ==
  ASSUME NodesOK, ManagersOK, NEW S \in SUBSET Tasks, StartTasks(S), NEW n \in Nodes, NEW s \in Jobs,
         \A u \in S : Host[u] = n,
         SetCurrent(n, s) \/ (S = {} /\ UNCHANGED <<current, before>>)
  PROVE  NodesOK' /\ ManagersOK' /\ used' = used \cup S
<1>1. /\ used' = used \cup S /\ running' = running \cup S
      /\ UNCHANGED <<pipe, processed, wal, drained>>
      /\ received' = [u \in Tasks |-> IF u \in S THEN wal[u].rec ELSE received[u]]
      /\ sent' = [u \in Tasks |-> IF u \in S THEN wal[u].sent ELSE sent[u]]
  BY DEF StartTasks
<1>2. ManagersOK'
  BY <1>1 DEF ManagersOK
<1>3. \A u \in Tasks : Host[u] \in Nodes
  BY TaskFacts
<1>4. s # NoJob
  BY JobsAssumption
<1>5. CASE SetCurrent(n, s)
  <2>1. /\ current' = [current EXCEPT ![n] = s]
        /\ before' = before \/ before' = [before EXCEPT ![n] = current[n]]
    BY <1>5 DEF SetCurrent
  <2>2. current' \in [Nodes -> Jobs \cup {NoJob}] /\ before' \in [Nodes -> Jobs \cup {NoJob}]
    BY <2>1 DEF NodesOK
  <2>3. \A u \in running' : current'[Host[u]] # NoJob
    BY <1>1, <1>3, <1>4, <2>1 DEF NodesOK
  <2> QED
    BY <1>1, <1>2, <2>2, <2>3 DEF NodesOK
<1>6. CASE S = {} /\ UNCHANGED <<current, before>>
  BY <1>1, <1>2, <1>6 DEF NodesOK
<1> QED
  BY <1>5, <1>6

\* The two requests that start tasks; one that refuses nothing starts all of them.
LEMMA InitTypes ==
  ASSUME NodesOK, ManagersOK, NEW n \in Nodes, NEW k \in Jobs \cup {NoJob}, NEW s \in Jobs,
         InitializeNode(n, k, s)
  PROVE  /\ NodesOK' /\ ManagersOK' /\ used \subseteq used'
         /\ AllStart(n, k, s) => Mine(n, k) \subseteq used'
<1>1. Mine(n, k) \subseteq Tasks /\ \A u \in Mine(n, k) : Host[u] = n
  BY TaskFacts DEF Mine
<1>2. PICK S \in SUBSET Mine(n, k) : StartTasks(S) /\ (AllStart(n, k, s) => S = Mine(n, k))
  BY DEF InitializeNode
<1>3. SetCurrent(n, s) \/ (S = {} /\ UNCHANGED <<current, before>>)
  BY <1>2 DEF InitializeNode
<1>4. NodesOK' /\ ManagersOK' /\ used' = used \cup S
  BY <1>1, <1>2, <1>3, StartTypes
<1> QED
  BY <1>2, <1>4

LEMMA AddTypes ==
  ASSUME NodesOK, ManagersOK, NEW u \in Tasks, NEW s \in Jobs, InitializeTask(u, s)
  PROVE  NodesOK' /\ ManagersOK' /\ used \subseteq used'
<1>1. PICK S \in SUBSET {u} : StartTasks(S)
  BY DEF InitializeTask
<1>2. Host[u] \in Nodes /\ SetCurrent(Host[u], s)
  BY TaskFacts DEF InitializeTask
<1>3. S \in SUBSET Tasks /\ \A v \in S : Host[v] = Host[u]
  OBVIOUS
<1> QED
  BY <1>1, <1>2, <1>3, StartTypes

\* A delivery adds to what a running task has received, or acknowledges.
LEMMA DeliverTypes ==
  ASSUME ManagersOK, NodesOK, WireOK, losses \in Nat, NEW u, NEW t \in Lines,
         NEW rest \in [Tasks -> SUBSET Lines], \A v \in Tasks : rest[v] \subseteq pipe[v],
         Deliver(u, t, rest)
  PROVE  /\ received' \in [Tasks -> SUBSET Lines] /\ pipe' \in [Tasks -> SUBSET Lines]
         /\ \A v \in Tasks \ running : received'[v] = {} /\ pipe'[v] = {}
         /\ acks' \subseteq [to : Tasks \cup {Leader}, id : Lines]
         /\ losses' \in Nat
<1>1. CASE /\ u \in running /\ received' = [received EXCEPT ![u] = @ \cup {t}]
           /\ pipe' = [rest EXCEPT ![u] = @ \cup {t}] /\ UNCHANGED <<acks, losses>>
  BY <1>1 DEF ManagersOK, NodesOK, WireOK
<1>2. CASE /\ u \in running /\ acks' = acks \cup {[to |-> Sender(u), id |-> t]}
           /\ pipe' = rest /\ UNCHANGED <<received, losses>>
  <2>1. Sender(u) \in Tasks \cup {Leader}
    BY <1>2, TaskFacts DEF NodesOK
  <2> QED
    BY <1>2, <2>1 DEF ManagersOK, WireOK
<1>3. CASE /\ losses' = IF u \in running THEN losses + 1 ELSE losses
           /\ pipe' = rest /\ UNCHANGED <<received, acks>>
  BY <1>3 DEF ManagersOK, WireOK
<1> QED
  BY <1>1, <1>2, <1>3 DEF Deliver

\* The tasks that a line may be sent to exist.
LEMMA SelectTypes ==
  ASSUME LeaderOK, NEW u \in Tasks
  PROVE  SelectTask(u) \in Tasks
BY TaskFacts DEF SelectTask, LeaderOK

\* The steps of SubmitJob that change only what the leader has.
LEMMA LeaderTypes ==
  ASSUME LeaderOK, NEW j \in Jobs,
         \/ SubmitJob(j) \/ SetJobSpec(j) \/ CreateTopology(j) \/ computeTaskAssignments(j)
         \/ InitializeTasks(j) \/ StartStreaming(j)
  PROVE  LeaderOK'
<1>a. /\ submit[j] \in SubmitType /\ j # NoJob /\ \A k \in Jobs : submit[k] \in SubmitType
      /\ Known(j) /\ \A k \in Jobs : Known(k)
  BY JobsAssumption DEF LeaderOK
<1>1. CASE SubmitJob(j)
  <2>1. UNCHANGED <<scenario, spec, topology, assigned, stream>> /\ last' = j
    BY <1>1 DEF SubmitJob, leaderVars
  <2>2. PICK L \in SUBSET Tasks :
          /\ submit' = [submit EXCEPT ![j] = [@ EXCEPT !.pc = "kill", !.left = L]]
          /\ L # {} => topology # NoJob
    BY <1>1, TaskFacts DEF SubmitJob, LeaderOK
  <2>3. /\ submit'[j] \in SubmitType /\ submit'[j].pc = "kill" /\ submit'[j].left = L
        /\ \A k \in Jobs \ {j} : submit'[k] = submit[k]
        /\ submit' \in [Jobs -> SubmitType]
    BY <1>a, <2>2 DEF LeaderOK, SubmitType
  <2> QED
    BY <1>a, <2>1, <2>2, <2>3 DEF LeaderOK, Known
<1>2. CASE SetJobSpec(j) \/ CreateTopology(j) \/ computeTaskAssignments(j)
  <2>1. PICK c \in {"create", "assign", "prepare"} :
          /\ submit' = [submit EXCEPT ![j].pc = c]
          /\ c = "create" => spec' = j /\ UNCHANGED <<topology, assigned>>
          /\ c = "assign" => submit[j].pc = "create" /\ topology' = j /\ UNCHANGED <<spec, assigned>>
          /\ c = "prepare" => submit[j].pc = "assign" /\ assigned' = j /\ UNCHANGED <<spec, topology>>
          /\ UNCHANGED <<scenario, stream, last>>
    BY <1>2 DEF SetJobSpec, CreateTopology, computeTaskAssignments, ghosts
  <2>2. /\ submit'[j] \in SubmitType /\ submit'[j].pc = c
        /\ \A k \in Jobs \ {j} : submit'[k] = submit[k]
        /\ submit' \in [Jobs -> SubmitType]
    BY <1>a, <2>1 DEF LeaderOK, SubmitType
  <2>3. /\ spec # NoJob => spec' # NoJob
        /\ topology # NoJob => topology' # NoJob
        /\ spec' \in Jobs
        /\ c \in {"assign", "prepare"} => topology' \in Jobs
        /\ topology' \in Jobs \cup {NoJob} /\ assigned' \in Jobs \cup {NoJob}
    BY <1>a, <2>1 DEF LeaderOK, Known
  <2>4. \A k \in Jobs : Known(k)'
    BY <1>a, <2>1, <2>2, <2>3 DEF Known
  <2> QED
    BY JobsAssumption, <2>1, <2>2, <2>3, <2>4 DEF LeaderOK
<1>3. CASE InitializeTasks(j)
  <2>1. /\ UNCHANGED <<scenario, spec, topology, assigned, stream, last>>
        /\ submit[j].pc = "prepare"
    BY <1>3 DEF InitializeTasks, leaderVars, ghosts
  <2>2. {Host[u] : u \in TasksOf(assigned)} \subseteq Nodes
    BY TaskFacts DEF LeaderOK
  <2>3. PICK L \in SUBSET Nodes :
          submit' = [submit EXCEPT ![j] = [@ EXCEPT !.pc = "init", !.topo = topology, !.left = L]]
    BY <1>3, <2>2 DEF InitializeTasks
  <2>4. /\ submit'[j] \in SubmitType /\ submit'[j].pc = "init" /\ submit'[j].topo = topology
        /\ \A k \in Jobs \ {j} : submit'[k] = submit[k]
        /\ submit' \in [Jobs -> SubmitType]
    BY <1>a, <2>3 DEF LeaderOK, SubmitType
  <2> QED
    BY <1>a, <2>1, <2>4 DEF LeaderOK, Known
<1>4. CASE StartStreaming(j)
  <2>1. /\ UNCHANGED <<scenario, spec, topology, assigned, last>>
        /\ submit[j].pc = "init" /\ topology # NoJob /\ spec \in Jobs
    BY <1>4, <1>a DEF StartStreaming, leaderVars, ghosts, Known, LeaderOK
  <2>2. PICK c \in {"failed", "done"} : submit' = [submit EXCEPT ![j].pc = c]
    BY <1>4 DEF StartStreaming
  <2>3. /\ submit'[j] \in SubmitType /\ submit'[j].pc = c
        /\ \A k \in Jobs \ {j} : submit'[k] = submit[k]
        /\ submit' \in [Jobs -> SubmitType]
    BY <1>a, <2>2 DEF LeaderOK, SubmitType
  <2>4. File(spec) \subseteq Lines
    BY <2>1, ScenariosAssumption DEF LeaderOK, File
  <2>5. stream' = stream \/ stream' = [stream EXCEPT ![j] = [topo |-> topology, unread |-> File(spec)]]
    BY <1>4 DEF StartStreaming
  <2>6. /\ stream' \in [Jobs -> StreamType]
        /\ \A k \in Jobs : stream'[k] = stream[k] \/ stream'[k].topo # NoJob
    BY <2>1, <2>4, <2>5 DEF LeaderOK, StreamType
  <2> QED
    BY <1>a, <2>1, <2>3, <2>6 DEF LeaderOK, Known
<1> QED
  BY <1>1, <1>2, <1>3, <1>4

\* The steps of SubmitJob that answer, or end with an error, only move on.
LEMMA MoveOnTypes ==
  ASSUME LeaderOK, NEW j \in Jobs, UNCHANGED <<leaderVars, stream, last>>,
         \/ submit' = [submit EXCEPT ![j].pc = "failed"]
         \/ \E u : submit' = [submit EXCEPT ![j].left = @ \ {u}]
         \/ \E u, e : e \in BOOLEAN /\ submit' = [submit EXCEPT ![j].left = @ \ {u}, ![j].err = e]
  PROVE  LeaderOK'
<1>a. submit[j] \in SubmitType
  BY DEF LeaderOK
<1>b. submit \in [Jobs -> SubmitType]
  BY DEF LeaderOK
<1> DEFINE Further(x) == \/ x.pc = "failed"
                         \/ /\ x.pc = submit[j].pc /\ x.topo = submit[j].topo
                            /\ x.left \subseteq submit[j].left
<1>c. PICK x \in SubmitType : submit' = [submit EXCEPT ![j] = x] /\ Further(x)
  <2>1. ASSUME submit' = [submit EXCEPT ![j].pc = "failed"]
        PROVE  \E x \in SubmitType : submit' = [submit EXCEPT ![j] = x] /\ Further(x)
    <3> DEFINE x == [submit[j] EXCEPT !.pc = "failed"]
    <3>1. x \in SubmitType /\ Further(x)
      BY <1>a DEF SubmitType
    <3>2. submit' = [submit EXCEPT ![j] = x]
      BY <1>b, <2>1
    <3> HIDE DEF x, Further
    <3> QED
      BY <3>1, <3>2
  <2>2. ASSUME NEW u, submit' = [submit EXCEPT ![j].left = @ \ {u}]
        PROVE  \E x \in SubmitType : submit' = [submit EXCEPT ![j] = x] /\ Further(x)
    <3> DEFINE x == [submit[j] EXCEPT !.left = @ \ {u}]
    <3>1. x \in SubmitType /\ Further(x)
      BY <1>a DEF SubmitType
    <3>2. submit' = [submit EXCEPT ![j] = x]
      BY <1>b, <2>2
    <3> HIDE DEF x, Further
    <3> QED
      BY <3>1, <3>2
  <2>3. ASSUME NEW u, NEW e \in BOOLEAN, submit' = [submit EXCEPT ![j].left = @ \ {u}, ![j].err = e]
        PROVE  \E x \in SubmitType : submit' = [submit EXCEPT ![j] = x] /\ Further(x)
    <3> DEFINE x == [submit[j] EXCEPT !.left = @ \ {u}, !.err = e]
    <3>1. x \in SubmitType /\ Further(x)
      BY <1>a DEF SubmitType
    <3>2. submit' = [submit EXCEPT ![j] = x]
      BY <1>b, <2>3
    <3> HIDE DEF x, Further
    <3> QED
      BY <3>1, <3>2
  <2> HIDE DEF Further
  <2> QED
    BY <2>1, <2>2, <2>3
<1>1. /\ submit' \in [Jobs -> SubmitType]
      /\ \A k \in Jobs : \/ submit'[k].pc = "failed"
                         \/ /\ submit'[k].pc = submit[k].pc /\ submit'[k].topo = submit[k].topo
                            /\ submit'[k].left \subseteq submit[k].left
  BY <1>b, <1>c
<1> QED
  BY <1>1 DEF LeaderOK, Known, leaderVars

\* The steps of a submission keep the types.
LEMMA SubmissionTypes == AllOK /\ Submission => AllOK'
<1> SUFFICES ASSUME AllOK, Submission PROVE AllOK'
  OBVIOUS
<1>a. LeaderOK /\ HealthOK /\ NodesOK /\ ManagersOK /\ WireOK /\ OutOK
  BY DEF AllOK
<1>b. ASSUME LeaderOnly, LeaderOK', busy' \in BOOLEAN, stale' = stale PROVE AllOK'
  <2>1. /\ UNCHANGED <<healthVars, late, taskVars, tupleVars, leaderSent, acks, outVars, losses, timeouts>>
        /\ running' = running
    BY <1>b DEF LeaderOnly, taskVars
  <2>2. HealthOK' /\ NodesOK' /\ ManagersOK' /\ WireOK'
    BY <1>a, <2>1, Untouched
  <2>3. OutOK'
    BY <1>a, <1>b, <2>1 DEF OutOK, outVars
  <2> QED
    BY <1>b, <2>2, <2>3 DEF AllOK
<1>c. ASSUME RpcStep, LeaderOK', HealthOK', NodesOK', ManagersOK', timeouts' \in Nat, busy' = busy,
             stale' \in BOOLEAN
      PROVE  AllOK'
  <2>1. WireOK'
    BY <1>a, <1>c, Untouched DEF RpcStep
  <2>2. OutOK'
    BY <1>a, <1>c DEF RpcStep, OutOK, outVars
  <2> QED
    BY <1>c, <2>1, <2>2 DEF AllOK
<1>d. timeouts \in Nat /\ busy \in BOOLEAN /\ stale \in BOOLEAN
  BY <1>a DEF OutOK
<1>e. ASSUME NEW j \in Jobs PROVE submit[j] \in SubmitType /\ j # NoJob /\ Known(j)
  BY <1>a, JobsAssumption DEF LeaderOK
<1>1. ASSUME NEW j \in Jobs, SubmitJob(j) PROVE AllOK'
  BY <1>1, <1>a, <1>b, <1>d, LeaderTypes DEF SubmitJob
<1>2. ASSUME NEW j \in Jobs,
             \/ SetJobSpec(j) \/ CreateTopology(j) \/ computeTaskAssignments(j)
             \/ InitializeTasks(j) \/ StartStreaming(j)
      PROVE  AllOK'
  <2>1. LeaderOnly /\ UNCHANGED <<busy, stale>>
    BY <1>2 DEF SetJobSpec, CreateTopology, computeTaskAssignments, InitializeTasks, StartStreaming, ghosts
  <2>2. LeaderOK'
    BY <1>2, <1>a, LeaderTypes
  <2> QED
    BY <1>b, <1>d, <2>1, <2>2
<1>3. ASSUME NEW j \in Jobs, NoMembers(j) PROVE AllOK'
  <2>1. /\ RpcStep /\ UNCHANGED <<late, taskVars, tupleVars, last, busy, stale>> /\ timeouts' = timeouts + 1
        /\ submit' = [submit EXCEPT ![j].pc = "failed"]
    BY <1>3 DEF NoMembers, ghosts
  <2>2. LeaderOK' /\ HealthOK' /\ NodesOK' /\ ManagersOK'
    <3>1. UNCHANGED <<leaderVars, stream, last, healthVars, running>>
      BY <2>1 DEF RpcStep, taskVars
    <3> QED
      BY <1>a, <2>1, <3>1, MoveOnTypes, Untouched
  <2> QED
    BY <1>c, <1>d, <2>1, <2>2
<1>4. ASSUME NEW j \in Jobs, NEW u \in Tasks, killExistingJobTasks(j, u) PROVE AllOK'
  <2>1. /\ RpcStep /\ UNCHANGED <<late, timeouts, last, busy, stale>> /\ KillTaskProcess(u)
        /\ submit' = [submit EXCEPT ![j].left = @ \ {u}]
        /\ UNCHANGED <<leaderVars, stream, healthVars>>
    BY <1>4 DEF killExistingJobTasks, ghosts, RpcStep
  <2>2. LeaderOK' /\ HealthOK'
    BY <1>a, <2>1, MoveOnTypes, Untouched
  <2>3. NodesOK' /\ ManagersOK'
    BY <1>a, <2>1, KillTypes
  <2> QED
    BY <1>c, <1>d, <2>1, <2>2, <2>3
<1>5. ASSUME NEW j \in Jobs, NEW u \in Tasks, KillTimesOut(j, u) PROVE AllOK'
  <2> DEFINE r == [what |-> "kill", task |-> u, node |-> Host[u], spec |-> spec]
  <2>1. /\ RpcStep /\ UNCHANGED <<taskVars, tupleVars, last, busy, stale>> /\ timeouts' = timeouts + 1
        /\ submit' = [submit EXCEPT ![j].left = @ \ {u}] /\ late' = late \cup {r}
        /\ submit[j].pc = "kill" /\ submit[j].left # {}
        /\ UNCHANGED <<leaderVars, stream, healthVars, running>>
    BY <1>5 DEF KillTimesOut, ghosts, RpcStep, taskVars
  <2>2. LeaderOK' /\ NodesOK' /\ ManagersOK'
    BY <1>a, <2>1, MoveOnTypes, Untouched
  <2>3. spec \in Jobs
    BY <1>a, <1>e, <2>1 DEF LeaderOK, Known
  <2>4. r \in RequestType
    BY <2>3, TaskFacts DEF RequestType
  <2>5. HealthOK'
    BY <1>a, <2>1, <2>4 DEF HealthOK, healthVars
  <2> QED
    BY <1>c, <1>d, <2>1, <2>2, <2>5
<1>6. ASSUME NEW j \in Jobs, NEW n \in Nodes, InitializeOn(j, n) PROVE AllOK'
  <2> DEFINE e == submit[j].err \/ ~AllStart(n, submit[j].topo, spec)
  <2>1. /\ RpcStep /\ UNCHANGED <<late, timeouts, last, busy, stale>>
        /\ InitializeNode(n, submit[j].topo, spec) /\ submit[j].pc = "init"
        /\ UNCHANGED <<leaderVars, stream, healthVars>>
    BY <1>6 DEF InitializeOn, ghosts, RpcStep
  <2>2. submit' = [submit EXCEPT ![j].left = @ \ {n}, ![j].err = e]
    BY <1>6, <1>e DEF InitializeOn
  <2>3. e \in BOOLEAN /\ submit[j].topo \in Jobs \cup {NoJob} /\ spec \in Jobs
    BY <1>a, <1>e, <2>1 DEF SubmitType, LeaderOK, Known
  <2> HIDE DEF e
  <2>4. LeaderOK' /\ HealthOK'
    BY <1>a, <2>1, <2>2, <2>3, MoveOnTypes, Untouched
  <2>5. NodesOK' /\ ManagersOK'
    BY <1>a, <2>1, <2>3, InitTypes
  <2> QED
    BY <1>c, <1>d, <2>1, <2>4, <2>5
<1>7. ASSUME NEW j \in Jobs, NEW n \in Nodes, InitTimesOut(j, n) PROVE AllOK'
  <2> DEFINE r == [what |-> "init", task |-> <<submit[j].topo, 1>>, node |-> n, spec |-> spec]
  <2>1. /\ RpcStep /\ UNCHANGED <<taskVars, tupleVars, last, busy, stale>> /\ timeouts' = timeouts + 1
        /\ submit' = [submit EXCEPT ![j].left = @ \ {n}, ![j].err = TRUE] /\ late' = late \cup {r}
        /\ submit[j].pc = "init"
        /\ UNCHANGED <<leaderVars, stream, healthVars, running>>
    BY <1>7 DEF InitTimesOut, ghosts, RpcStep, taskVars
  <2>2. LeaderOK' /\ NodesOK' /\ ManagersOK'
    BY <1>a, <2>1, MoveOnTypes, Untouched
  <2>3. spec \in Jobs /\ submit[j].topo \in Jobs
    BY <1>a, <1>e, <2>1 DEF LeaderOK, Known, SubmitType
  <2>4. r \in RequestType
    BY <2>3, TaskFacts DEF RequestType
  <2>5. HealthOK'
    BY <1>a, <2>1, <2>4 DEF HealthOK, healthVars
  <2> QED
    BY <1>c, <1>d, <2>1, <2>2, <2>5
<1>8. ASSUME NEW r \in late, LateRequest(r) PROVE AllOK'
  <2>1. /\ RpcStep /\ UNCHANGED <<submit, timeouts, last, busy>> /\ late' = late \ {r}
        /\ stale' = (stale \/ OfEarlier(r))
        /\ \/ KillTaskProcess(r.task)
           \/ InitializeNode(r.node, r.task[1], r.spec)
           \/ InitializeTask(r.task, r.spec)
        /\ UNCHANGED <<leaderVars, stream, healthVars>>
    BY <1>8 DEF LateRequest, RpcStep
  <2>2. r.task \in Tasks /\ r.node \in Nodes /\ r.spec \in Jobs
    BY <1>a DEF HealthOK, RequestType
  <2>3. r.task[1] \in Jobs
    BY <2>2, TaskFacts
  <2>4. NodesOK' /\ ManagersOK'
    BY <1>a, <2>1, <2>2, <2>3, KillTypes, InitTypes, AddTypes
  <2>5. LeaderOK' /\ HealthOK'
    BY <1>a, <2>1, Untouched DEF HealthOK, healthVars
  <2> QED
    BY <1>c, <1>d, <2>1, <2>4, <2>5
<1> QED
  BY <1>1, <1>2, <1>3, <1>4, <1>5, <1>6, <1>7, <1>8 DEF Submission

\* So do the steps of the health monitor.
LEMMA HealthTypes == AllOK /\ Health => AllOK'
<1> SUFFICES ASSUME AllOK, Health PROVE AllOK'
  OBVIOUS
<1>a. LeaderOK /\ HealthOK /\ NodesOK /\ ManagersOK /\ WireOK /\ OutOK
  BY DEF AllOK
<1>b. ASSUME UNCHANGED <<leaderVars, last, submit, stream, leaderSent, acks, outVars, losses, busy>>,
             timeouts' \in Nat, stale' \in BOOLEAN, HealthOK', NodesOK', ManagersOK'
      PROVE  AllOK'
  <2>1. LeaderOK' /\ WireOK'
    BY <1>a, <1>b, Untouched
  <2>2. OutOK'
    BY <1>a, <1>b DEF OutOK, outVars
  <2> QED
    BY <1>b, <2>1, <2>2 DEF AllOK
<1>c. timeouts \in Nat /\ stale \in BOOLEAN
  BY <1>a DEF OutOK
<1>d. UNCHANGED <<taskVars, tupleVars>> => NodesOK' /\ ManagersOK'
  <2>1. UNCHANGED taskVars => running' = running
    BY DEF taskVars
  <2> QED
    BY <1>a, <2>1, Untouched
<1>1. ASSUME NEW n \in Nodes, ReportMetrics(n) PROVE AllOK'
  <2>1. /\ UNCHANGED <<leaderVars, last, submit, stream, leaderSent, acks, outVars, losses, busy>>
        /\ UNCHANGED <<timeouts, stale, taskVars, tupleVars>>
    BY <1>1 DEF ReportMetrics, ghosts
  <2>2. HealthOK'
    BY <1>1, <1>a DEF ReportMetrics, HealthOK, NodesOK
  <2> QED
    BY <1>b, <1>c, <1>d, <2>1, <2>2
<1>2. ASSUME startTaskHealthMonitor PROVE AllOK'
  <2>1. /\ UNCHANGED <<leaderVars, last, submit, stream, leaderSent, acks, outVars, losses, busy>>
        /\ UNCHANGED <<timeouts, stale, taskVars, tupleVars>>
    BY <1>2 DEF startTaskHealthMonitor, ghosts
  <2>2. HealthOK'
    BY <1>2, <1>a DEF startTaskHealthMonitor, HealthOK
  <2> QED
    BY <1>b, <1>c, <1>d, <2>1, <2>2
<1>3. ASSUME NEW u \in Tasks, Restart(u) PROVE AllOK'
  <2>1. /\ UNCHANGED <<leaderVars, last, submit, stream, leaderSent, acks, outVars, losses, busy>>
        /\ UNCHANGED <<timeouts, stale, taskVars, tupleVars>>
    BY <1>3 DEF Restart, ghosts
  <2>2. u \in TasksOf(topology) => spec \in Jobs
    BY <1>a, TaskFacts DEF LeaderOK
  <2>3. u \in TasksOf(topology) => [what |-> "add", task |-> u, node |-> Host[u], spec |-> spec] \in RequestType
    BY <2>2, TaskFacts DEF RequestType
  <2>4. HealthOK'
    BY <1>3, <1>a, <2>3 DEF Restart, HealthOK
  <2> QED
    BY <1>b, <1>c, <1>d, <2>1, <2>4
<1>4. ASSUME NEW r \in monitor, RestartAdds(r) PROVE AllOK'
  <2>1. /\ UNCHANGED <<leaderVars, last, submit, stream, leaderSent, acks, outVars, losses, busy>>
        /\ UNCHANGED <<timeouts, stopped, restarting, late>> /\ monitor' = {}
        /\ InitializeTask(r.task, r.spec) /\ stale' = (stale \/ OfEarlier(r))
    BY <1>4 DEF RestartAdds
  <2>2. r.task \in Tasks /\ r.spec \in Jobs
    BY <1>a DEF HealthOK, RequestType
  <2>3. NodesOK' /\ ManagersOK'
    BY <1>a, <2>1, <2>2, AddTypes
  <2>4. HealthOK'
    BY <1>a, <2>1 DEF HealthOK
  <2> QED
    BY <1>b, <1>c, <2>1, <2>3, <2>4
<1>5. ASSUME RestartTimesOut PROVE AllOK'
  <2>1. /\ UNCHANGED <<leaderVars, last, submit, stream, leaderSent, acks, outVars, losses, busy>>
        /\ UNCHANGED <<stale, taskVars, tupleVars>> /\ timeouts' = timeouts + 1
    BY <1>5 DEF RestartTimesOut, ghosts
  <2>2. HealthOK'
    BY <1>5, <1>a DEF RestartTimesOut, HealthOK
  <2> QED
    BY <1>b, <1>c, <1>d, <2>1, <2>2
<1> QED
  BY <1>1, <1>2, <1>3, <1>4, <1>5 DEF Health

\* And so do the steps of the tuples.
LEMMA FlowTypes == AllOK /\ TupleFlow => AllOK'
<1> SUFFICES ASSUME AllOK, TupleFlow PROVE AllOK'
  OBVIOUS
<1>a. LeaderOK /\ HealthOK /\ NodesOK /\ ManagersOK /\ WireOK /\ OutOK
  BY DEF AllOK
<1>b. ASSUME FlowStep, LeaderOK', before' \in [Nodes -> Jobs \cup {NoJob}], ManagersOK', WireOK',
             outputBuffer' \in [Nodes -> LineCount], out' \in [Jobs -> LineCount],
             losses' \in Nat, stale' \in BOOLEAN
      PROVE  AllOK'
  <2>1. HealthOK'
    BY <1>a, <1>b, Untouched DEF FlowStep
  <2>2. NodesOK'
    BY <1>a, <1>b DEF NodesOK, FlowStep
  <2>3. OutOK'
    BY <1>a, <1>b DEF OutOK, FlowStep
  <2> QED
    BY <1>b, <2>1, <2>2, <2>3 DEF AllOK
<1>c. /\ before \in [Nodes -> Jobs \cup {NoJob}] /\ outputBuffer \in [Nodes -> LineCount]
      /\ out \in [Jobs -> LineCount] /\ losses \in Nat /\ stale \in BOOLEAN
      /\ pipe \in [Tasks -> SUBSET Lines] /\ \A v \in Tasks : pipe[v] \subseteq pipe[v]
  BY <1>a DEF NodesOK, OutOK, ManagersOK
<1>d. FlowStep => running' = running /\ UNCHANGED <<leaderVars, last, submit>>
  BY DEF FlowStep
<1>e. FlowStep /\ stream' = stream => LeaderOK'
  BY <1>a, <1>d, Untouched
<1>1. ASSUME NEW j \in Jobs, NEW t \in Lines, readFileAndEmitTuples(j, t) PROVE AllOK'
  <2> DEFINE u == SelectTask(<<stream[j].topo, 1>>)
  <2>1. /\ t \in stream[j].unread /\ stream' = [stream EXCEPT ![j].unread = @ \ {t}]
        /\ leaderSent' = {e \in leaderSent : e.id # t} \cup {[id |-> t, dest |-> u]}
        /\ Deliver(u, t, pipe) /\ FlowStep
        /\ UNCHANGED <<processed, sent, wal, drained, before, outVars, stale>>
    BY <1>1 DEF readFileAndEmitTuples
  <2>2. stream[j] \in StreamType /\ stream[j].topo \in Jobs
    BY <1>a, <2>1 DEF LeaderOK, Known, StreamType
  <2>3. u \in Tasks
    BY <1>a, <2>2, TaskFacts, SelectTypes
  <2> HIDE DEF u
  <2>4. LeaderOK'
    <3>1. /\ stream' \in [Jobs -> StreamType]
          /\ \A k \in Jobs : stream'[k].topo = stream[k].topo /\ stream'[k].unread \subseteq stream[k].unread
      BY <1>a, <2>1, <2>2 DEF LeaderOK, StreamType
    <3>2. UNCHANGED <<scenario, spec, topology, assigned, last, submit>>
      BY <1>d, <2>1 DEF leaderVars
    <3> QED
      BY <1>a, <3>1, <3>2 DEF LeaderOK, Known
  <2>5. /\ received' \in [Tasks -> SUBSET Lines] /\ pipe' \in [Tasks -> SUBSET Lines]
        /\ \A v \in Tasks \ running : received'[v] = {} /\ pipe'[v] = {}
        /\ acks' \subseteq [to : Tasks \cup {Leader}, id : Lines] /\ losses' \in Nat
    BY <1>a, <1>c, <2>1, DeliverTypes
  <2>6. ManagersOK'
    BY <1>a, <1>d, <2>1, <2>5 DEF ManagersOK
  <2>7. WireOK'
    BY <1>a, <2>1, <2>3, <2>5 DEF WireOK
  <2> QED
    BY <1>b, <1>c, <2>1, <2>4, <2>5, <2>6, <2>7 DEF outVars
<1>2. ASSUME NEW e \in leaderSent, RetryFromSource(e) PROVE AllOK'
  <2>1. /\ leaderSent' = (leaderSent \ {e}) \cup {[e EXCEPT !.dest = SelectTask(e.dest)]}
        /\ Deliver(SelectTask(e.dest), e.id, pipe) /\ FlowStep
        /\ UNCHANGED <<stream, processed, sent, wal, drained, before, outVars, stale>>
    BY <1>2 DEF RetryFromSource
  <2>2. e \in [id : Lines, dest : Tasks] /\ e.id \in Lines /\ e.dest \in Tasks
    BY <1>a DEF WireOK
  <2>3. SelectTask(e.dest) \in Tasks
    BY <1>a, <2>2, SelectTypes
  <2>4. [e EXCEPT !.dest = SelectTask(e.dest)] \in [id : Lines, dest : Tasks]
    BY <2>2, <2>3
  <2>5. /\ received' \in [Tasks -> SUBSET Lines] /\ pipe' \in [Tasks -> SUBSET Lines]
        /\ \A v \in Tasks \ running : received'[v] = {} /\ pipe'[v] = {}
        /\ acks' \subseteq [to : Tasks \cup {Leader}, id : Lines] /\ losses' \in Nat
    BY <1>a, <1>c, <2>1, <2>2, DeliverTypes
  <2>6. ManagersOK'
    BY <1>a, <1>d, <2>1, <2>5 DEF ManagersOK
  <2>7. WireOK'
    BY <1>a, <2>1, <2>4, <2>5 DEF WireOK
  <2> QED
    BY <1>b, <1>c, <1>e, <2>1, <2>5, <2>6, <2>7 DEF outVars
<1>f. ASSUME NEW u \in Tasks, NEW t \in Lines, NEW rest \in [Tasks -> SUBSET Lines],
             \A v \in Tasks : rest[v] \subseteq pipe[v], Forward(u, t, rest)
      PROVE  /\ received' \in [Tasks -> SUBSET Lines] /\ pipe' \in [Tasks -> SUBSET Lines]
             /\ \A v \in Tasks \ running : received'[v] = {} /\ pipe'[v] = {}
             /\ acks' \subseteq [to : Tasks \cup {Leader}, id : Lines] /\ losses' \in Nat
             /\ outputBuffer' \in [Nodes -> LineCount] /\ FlowStep
             /\ UNCHANGED <<stream, leaderSent, before, wal, out, stale>>
  <2>1. /\ FlowStep /\ UNCHANGED <<stream, leaderSent, before, wal, out, stale>>
        /\ \/ Deliver(NextStage(u), t, rest)
           \/ pipe' = rest /\ UNCHANGED <<received, acks, losses>>
        /\ \/ outputBuffer' = [outputBuffer EXCEPT ![Host[u]][t] = @ + 1]
           \/ outputBuffer' = outputBuffer
    BY <1>f DEF Forward
  <2>2. outputBuffer' \in [Nodes -> LineCount]
    <3>1. Host[u] \in Nodes
      BY TaskFacts
    <3>2. outputBuffer[Host[u]] \in [Lines -> Nat]
      BY <1>c, <3>1 DEF LineCount
    <3>3. [outputBuffer[Host[u]] EXCEPT ![t] = @ + 1] \in LineCount
      BY <3>2 DEF LineCount
    <3>4. \/ outputBuffer' = [outputBuffer EXCEPT ![Host[u]] = [outputBuffer[Host[u]] EXCEPT ![t] = @ + 1]]
          \/ outputBuffer' = outputBuffer
      BY <1>c, <2>1, <3>1
    <3> QED
      BY <1>c, <3>1, <3>3, <3>4
  <2>3. CASE Deliver(NextStage(u), t, rest)
    BY <1>a, <1>c, <1>f, <2>1, <2>2, <2>3, DeliverTypes
  <2>4. CASE pipe' = rest /\ UNCHANGED <<received, acks, losses>>
    <3>1. \A v \in Tasks \ running : received'[v] = {} /\ pipe'[v] = {}
      BY <1>a, <1>f, <2>4 DEF ManagersOK
    <3> QED
      BY <1>a, <1>c, <2>1, <2>2, <2>4, <3>1 DEF ManagersOK, WireOK
  <2> QED
    BY <2>1, <2>3, <2>4
<1>3. ASSUME NEW u \in Tasks, NEW t \in Lines, forwardTupleToDownstream(u, t) PROVE AllOK'
  <2> DEFINE rest == [pipe EXCEPT ![u] = @ \ {t}]
  <2>1. /\ u \in running /\ Forward(u, t, rest)
        /\ processed' = [processed EXCEPT ![u] = @ \cup {t}]
        /\ sent' = sent \/ sent' = [sent EXCEPT ![u] = @ \cup {t}]
        /\ drained' = drained
    BY <1>3 DEF forwardTupleToDownstream
  <2>2. rest \in [Tasks -> SUBSET Lines] /\ \A v \in Tasks : rest[v] \subseteq pipe[v]
    BY <1>c
  <2> HIDE DEF rest
  <2>3. /\ received' \in [Tasks -> SUBSET Lines] /\ pipe' \in [Tasks -> SUBSET Lines]
        /\ \A v \in Tasks \ running : received'[v] = {} /\ pipe'[v] = {}
        /\ acks' \subseteq [to : Tasks \cup {Leader}, id : Lines] /\ losses' \in Nat
        /\ outputBuffer' \in [Nodes -> LineCount] /\ FlowStep
        /\ UNCHANGED <<stream, leaderSent, before, wal, out, stale>>
    BY <1>f, <2>1, <2>2
  <2>4. /\ processed' \in [Tasks -> SUBSET Lines] /\ sent' \in [Tasks -> SUBSET Lines]
        /\ \A v \in Tasks \ running : processed'[v] = processed[v] /\ sent'[v] = sent[v]
    BY <1>a, <2>1 DEF ManagersOK
  <2>5. ManagersOK'
    BY <1>a, <1>d, <2>1, <2>3, <2>4 DEF ManagersOK
  <2>6. WireOK'
    BY <1>a, <2>3 DEF WireOK
  <2> QED
    BY <1>b, <1>c, <1>e, <2>3, <2>5, <2>6
<1>4. ASSUME NEW d \in drained, readTaskOutput(d) PROVE AllOK'
  <2>1. d.task \in Tasks /\ d.id \in Lines
    BY <1>a DEF ManagersOK
  <2>2. drained' = drained \ {d} /\ Forward(d.task, d.id, pipe) /\ UNCHANGED <<processed, sent>>
    BY <1>4 DEF readTaskOutput
  <2>3. /\ received' \in [Tasks -> SUBSET Lines] /\ pipe' \in [Tasks -> SUBSET Lines]
        /\ \A v \in Tasks \ running : received'[v] = {} /\ pipe'[v] = {}
        /\ acks' \subseteq [to : Tasks \cup {Leader}, id : Lines] /\ losses' \in Nat
        /\ outputBuffer' \in [Nodes -> LineCount] /\ FlowStep
        /\ UNCHANGED <<stream, leaderSent, before, wal, out, stale>>
    BY <1>c, <1>f, <2>1, <2>2
  <2>4. ManagersOK'
    BY <1>a, <1>d, <2>2, <2>3 DEF ManagersOK
  <2>5. WireOK'
    BY <1>a, <2>3 DEF WireOK
  <2> QED
    BY <1>b, <1>c, <1>e, <2>3, <2>4, <2>5
<1>5. ASSUME NEW u \in Tasks, NEW t \in Lines, RetryFromTask(u, t) PROVE AllOK'
  <2>1. /\ Deliver(NextStage(u), t, pipe) /\ FlowStep
        /\ UNCHANGED <<stream, leaderSent, processed, sent, wal, drained, before, outVars, stale>>
    BY <1>5 DEF RetryFromTask
  <2>2. /\ received' \in [Tasks -> SUBSET Lines] /\ pipe' \in [Tasks -> SUBSET Lines]
        /\ \A v \in Tasks \ running : received'[v] = {} /\ pipe'[v] = {}
        /\ acks' \subseteq [to : Tasks \cup {Leader}, id : Lines] /\ losses' \in Nat
    BY <1>a, <1>c, <2>1, DeliverTypes
  <2>3. ManagersOK'
    BY <1>a, <1>d, <2>1, <2>2 DEF ManagersOK
  <2>4. WireOK'
    BY <1>a, <2>1, <2>2 DEF WireOK
  <2> QED
    BY <1>b, <1>c, <1>e, <2>1, <2>2, <2>3, <2>4 DEF outVars
<1>6. ASSUME NEW u \in Tasks, FlushAcks(u) PROVE AllOK'
  <2>1. /\ u \in running /\ FlowStep
        /\ wal' = [wal EXCEPT ![u] = Durable(u)] /\ processed' = [processed EXCEPT ![u] = {}]
        /\ acks' = acks \cup {[to |-> Sender(u), id |-> t] : t \in processed[u]}
        /\ UNCHANGED <<stream, leaderSent, received, pipe, sent, drained, before, outVars, losses, stale>>
    BY <1>6 DEF FlushAcks
  <2>2. Durable(u) \in [rec : SUBSET Lines, sent : SUBSET Lines]
    BY <1>a DEF Durable, ManagersOK
  <2>3. ManagersOK'
    BY <1>a, <1>d, <2>1, <2>2 DEF ManagersOK
  <2>4. WireOK'
    <3>1. Sender(u) \in Tasks \cup {Leader} /\ processed[u] \subseteq Lines
      BY <1>a, TaskFacts DEF ManagersOK
    <3> QED
      BY <1>a, <2>1, <3>1 DEF WireOK
  <2> QED
    BY <1>b, <1>c, <1>e, <2>1, <2>3, <2>4 DEF outVars
<1>7. ASSUME NEW a \in acks, handleACKMessage(a) PROVE AllOK'
  <2>1. /\ FlowStep /\ acks' = acks \ {a} /\ leaderSent' \subseteq leaderSent
        /\ UNCHANGED <<stream, received, pipe, processed, wal, drained, before, outVars, losses, stale>>
    BY <1>7 DEF handleACKMessage
  <2>2. sent' = sent \/ \E u \in running : sent' = [sent EXCEPT ![u] = @ \ {a.id}]
    BY <1>7 DEF handleACKMessage, ACKOwners
  <2>3. sent' \in [Tasks -> SUBSET Lines] /\ \A v \in Tasks : sent'[v] \subseteq sent[v]
    BY <1>a, <2>2 DEF ManagersOK
  <2>4. ManagersOK'
    BY <1>a, <1>d, <2>1, <2>3 DEF ManagersOK
  <2>5. WireOK'
    BY <1>a, <2>1 DEF WireOK
  <2> QED
    BY <1>b, <1>c, <1>e, <2>1, <2>4, <2>5 DEF outVars
<1>8. ASSUME NEW n \in Nodes, NEW j \in Jobs, startOutputFlushLoop(n, j) PROVE AllOK'
  <2>1. /\ FlowStep
        /\ out' = [out EXCEPT ![j] = [t \in Lines |-> @[t] + outputBuffer[n][t]]]
        /\ outputBuffer' = [outputBuffer EXCEPT ![n] = NoLines]
        /\ before' = [before EXCEPT ![n] = NoJob] /\ stale' = (stale \/ j # current[n])
        /\ UNCHANGED <<stream, leaderSent, tupleVars, acks, losses>>
    BY <1>8 DEF startOutputFlushLoop
  <2>2. /\ NoLines \in LineCount /\ before' \in [Nodes -> Jobs \cup {NoJob}] /\ stale' \in BOOLEAN
        /\ outputBuffer' \in [Nodes -> LineCount]
    BY <1>c, <2>1 DEF NoLines, LineCount
  <2>3. out' \in [Jobs -> LineCount]
    <3>1. out[j] \in [Lines -> Nat] /\ outputBuffer[n] \in [Lines -> Nat]
      BY <1>c DEF LineCount
    <3>2. [t \in Lines |-> out[j][t] + outputBuffer[n][t]] \in LineCount
      BY <3>1 DEF LineCount
    <3> QED
      BY <1>c, <2>1, <3>2
  <2>4. ManagersOK' /\ WireOK'
    BY <1>a, <1>d, <2>1, Untouched
  <2> QED
    BY <1>b, <1>c, <1>e, <2>1, <2>2, <2>3, <2>4
<1> QED
  BY <1>1, <1>2, <1>3, <1>4, <1>5, <1>6, <1>7, <1>8 DEF TupleFlow

\* Only an ACK changes who is mistaken, and what has happened stays so.
LEMMA MistakenByAck ==
  ASSUME [Next]_vars
  PROVE  mistaken' = mistaken \/ \E a \in acks : handleACKMessage(a)
<1>1. CASE UNCHANGED vars
  BY <1>1 DEF vars
<1>2. CASE Submission
  <2>1. ASSUME NEW j \in Jobs,
               \/ SubmitJob(j) \/ SetJobSpec(j) \/ CreateTopology(j) \/ computeTaskAssignments(j)
               \/ NoMembers(j) \/ InitializeTasks(j) \/ StartStreaming(j)
        PROVE  mistaken' = mistaken
    BY <2>1 DEF SubmitJob, SetJobSpec, CreateTopology, computeTaskAssignments, NoMembers, InitializeTasks,
                StartStreaming, ghosts
  <2>2. ASSUME NEW j \in Jobs, NEW u \in Tasks, killExistingJobTasks(j, u) \/ KillTimesOut(j, u)
        PROVE  mistaken' = mistaken
    BY <2>2 DEF killExistingJobTasks, KillTimesOut, ghosts
  <2>4. ASSUME NEW j \in Jobs, NEW n \in Nodes, InitializeOn(j, n) \/ InitTimesOut(j, n)
        PROVE  mistaken' = mistaken
    BY <2>4 DEF InitializeOn, InitTimesOut, ghosts
  <2>3. ASSUME NEW r \in late, LateRequest(r) PROVE mistaken' = mistaken
    BY <2>3 DEF LateRequest
  <2> QED
    BY <1>2, <2>1, <2>2, <2>3, <2>4 DEF Submission
<1>3. CASE Health
  BY <1>3 DEF Health, ReportMetrics, startTaskHealthMonitor, RestartTimesOut, Restart, RestartAdds, ghosts
<1>5. CASE TupleFlow /\ ~\E a \in acks : handleACKMessage(a)
  BY <1>5 DEF TupleFlow, readFileAndEmitTuples, RetryFromSource, forwardTupleToDownstream, RetryFromTask,
              readTaskOutput, FlushAcks, startOutputFlushLoop, Forward
<1> QED
  BY <1>1, <1>2, <1>3, <1>5 DEF Next

LEMMA MistakenNext == mistaken \in BOOLEAN /\ [Next]_vars => mistaken' \in BOOLEAN /\ (~mistaken' => ~mistaken)
<1> SUFFICES ASSUME mistaken \in BOOLEAN, [Next]_vars
             PROVE  mistaken' \in BOOLEAN /\ (~mistaken' => ~mistaken)
  OBVIOUS
<1>1. CASE \E a \in acks : handleACKMessage(a)
  BY <1>1 DEF handleACKMessage
<1> QED
  BY <1>1, MistakenByAck

LEMMA TypeNext == AllOK /\ [Next]_vars => AllOK'
<1> SUFFICES ASSUME AllOK, [Next]_vars PROVE AllOK'
  OBVIOUS
<1>1. CASE UNCHANGED vars
  <2>1. /\ UNCHANGED <<leaderVars, last, submit, stream>> /\ UNCHANGED <<healthVars, late>>
        /\ UNCHANGED taskVars /\ UNCHANGED <<tupleVars, running>> /\ UNCHANGED <<leaderSent, acks>>
        /\ UNCHANGED <<outVars, timeouts, losses, busy, stale>>
    BY <1>1 DEF vars, leaderVars, healthVars, taskVars, tupleVars, outVars
  <2> QED
    BY <2>1, Untouched DEF AllOK
<1> QED
  BY <1>1, SubmissionTypes, HealthTypes, FlowTypes DEF Next

\* Every variable keeps its shape: in particular each request, also one that is
\* executed long after its job has gone, names a task and the spec of a job, a node
\* on which a task runs has a job, and a task that does not run has no state.
THEOREM JobsTypeCorrect == Spec => []TypeOK
<1>1. Init => mistaken \in BOOLEAN
  BY DEF Init
<1>2. mistaken \in BOOLEAN /\ [Next]_vars => (mistaken \in BOOLEAN)'
  BY MistakenNext
<1> QED
  BY <1>1, <1>2, TypeInit, TypeNext, PartsAreTypes, PTL DEF Spec

----------------------------------------------------------------------------
(* A source starts when its tasks have been started.                        *)

\* How far SubmitJob of job j has come: it is the only submission under way, what it
\* has set is its own, and once the nodes are asked to start the tasks, those of the
\* nodes that have answered have been started, unless one has failed.
Submitting(j) ==
  /\ \A k \in Jobs : UnderWay(j) /\ UnderWay(k) => k = j
  /\ submit[j].pc \in {"create", "assign", "prepare", "init"} => spec = j
  /\ submit[j].pc \in {"assign", "prepare", "init"} => topology = j
  /\ submit[j].pc \in {"prepare", "init"} => assigned = j
  /\ submit[j].pc = "init" => submit[j].topo = j
  /\ submit[j].pc = "init" /\ ~submit[j].err =>
       \A u \in TasksOf(j) : Host[u] \in submit[j].left \/ u \in used

Orderly == \A j \in Jobs : Submitting(j)

\* What a step does to the submissions and to the tasks that were ever started: it moves
\* the one submission that is under way, or begins one when there is none.
LEMMA OrderlyStep ==
  ASSUME Orderly, used \subseteq used', UNCHANGED <<spec, topology, assigned, submit>>
  PROVE  Orderly'
BY DEF Orderly, Submitting, UnderWay

LEMMA OrderlyMove ==
  ASSUME LeaderOK, Orderly, NEW j \in Jobs, UnderWay(j), used \subseteq used',
         \A k \in Jobs \ {j} : submit'[k] = submit[k],
         UnderWay(j)' =>
           /\ submit'[j].pc \in {"create", "assign", "prepare", "init"} => spec' = j
           /\ submit'[j].pc \in {"assign", "prepare", "init"} => topology' = j
           /\ submit'[j].pc \in {"prepare", "init"} => assigned' = j
           /\ submit'[j].pc = "init" => submit'[j].topo = j
           /\ submit'[j].pc = "init" /\ ~submit'[j].err =>
                \A u \in TasksOf(j) : Host[u] \in submit'[j].left \/ u \in used'
  PROVE  Orderly'
<1>1. \A k \in Jobs \ {j} : ~UnderWay(k)
  BY DEF Orderly, Submitting
<1>2. \A k \in Jobs \ {j} : ~UnderWay(k)' /\ submit'[k].pc \in {"new", "done", "failed"}
  BY <1>1 DEF UnderWay
<1>3. ASSUME NEW k \in Jobs \ {j} PROVE Submitting(k)'
  BY <1>2 DEF Submitting
<1>4. Submitting(j)'
  <2>1. submit'[j].pc \in {"create", "assign", "prepare", "init"} => UnderWay(j)'
    BY DEF UnderWay
  <2> QED
    BY <1>2, <2>1 DEF Submitting
<1> QED
  BY <1>3, <1>4 DEF Orderly

\* Every step keeps the order.
LEMMA OrderlyNext == AllOK /\ Orderly /\ [Next]_vars => Orderly'
<1> SUFFICES ASSUME AllOK, Orderly, [Next]_vars PROVE Orderly'
  OBVIOUS
<1>a. /\ LeaderOK /\ HealthOK /\ NodesOK /\ ManagersOK
      /\ submit \in [Jobs -> SubmitType] /\ \A j \in Jobs : submit[j] \in SubmitType
  BY DEF AllOK, LeaderOK
<1>b. \A j \in Jobs : Submitting(j)
  BY DEF Orderly
<1>1. ASSUME NEW j \in Jobs, SubmitJob(j) PROVE Orderly'
  <2>1. /\ \A k \in Jobs : ~UnderWay(k)
        /\ \A k \in Jobs \ {j} : submit'[k] = submit[k]
    BY <1>1, <1>a DEF SubmitJob
  <2>2. submit'[j].pc = "kill"
    BY <1>1, <1>a DEF SubmitJob, SubmitType
  <2>3. \A k \in Jobs \ {j} : submit'[k].pc \in {"new", "done", "failed"} /\ ~UnderWay(k)'
    BY <2>1 DEF UnderWay
  <2> QED
    BY <2>2, <2>3 DEF Orderly, Submitting
<1>2. ASSUME NEW j \in Jobs, SetJobSpec(j) \/ CreateTopology(j) \/ computeTaskAssignments(j)
      PROVE  Orderly'
  <2>1. PICK c \in {"create", "assign", "prepare"} :
          /\ submit' = [submit EXCEPT ![j].pc = c]
          /\ submit[j].pc = (CASE c = "create" -> "kill" [] c = "assign" -> "create" [] c = "prepare" -> "assign")
          /\ c = "create" => spec' = j
          /\ c = "assign" => topology' = j /\ UNCHANGED spec
          /\ c = "prepare" => assigned' = j /\ UNCHANGED <<spec, topology>>
          /\ used' = used
    BY <1>2 DEF SetJobSpec, CreateTopology, computeTaskAssignments, LeaderOnly, taskVars
  <2>2. submit'[j].pc = c /\ \A k \in Jobs \ {j} : submit'[k] = submit[k]
    BY <1>a, <2>1 DEF SubmitType
  <2>3. UnderWay(j)
    BY <2>1 DEF UnderWay
  <2> QED
    BY <1>a, <1>b, <2>1, <2>2, <2>3, OrderlyMove DEF Submitting
<1>3. ASSUME NEW j \in Jobs, InitializeTasks(j) PROVE Orderly'
  <2>1. /\ submit[j].pc = "prepare" /\ used' = used /\ UNCHANGED <<spec, topology, assigned>>
        /\ submit' = [submit EXCEPT ![j] = [@ EXCEPT !.pc = "init", !.topo = topology,
                        !.left = {Host[u] : u \in TasksOf(assigned)}]]
    BY <1>3 DEF InitializeTasks, LeaderOnly, taskVars, leaderVars
  <2>2. /\ submit'[j].pc = "init" /\ submit'[j].topo = topology
        /\ submit'[j].left = {Host[u] : u \in TasksOf(assigned)}
        /\ \A k \in Jobs \ {j} : submit'[k] = submit[k]
    BY <1>a, <2>1 DEF SubmitType
  <2>3. UnderWay(j) /\ spec = j /\ topology = j /\ assigned = j
    BY <1>b, <2>1 DEF UnderWay, Submitting
  <2> QED
    BY <1>a, <2>1, <2>2, <2>3, OrderlyMove
<1>4. ASSUME NEW j \in Jobs, StartStreaming(j) \/ NoMembers(j) PROVE Orderly'
  <2>1. PICK c \in {"failed", "done"} :
          /\ submit' = [submit EXCEPT ![j].pc = c] /\ used' = used
          /\ submit[j].pc \in {"init", "create", "assign"}
    BY <1>4 DEF StartStreaming, NoMembers, LeaderOnly, taskVars
  <2>2. submit'[j].pc = c /\ \A k \in Jobs \ {j} : submit'[k] = submit[k]
    BY <1>a, <2>1 DEF SubmitType
  <2>3. UnderWay(j) /\ ~UnderWay(j)'
    BY <2>1, <2>2 DEF UnderWay
  <2> QED
    BY <1>a, <2>1, <2>2, <2>3, OrderlyMove
<1>5. ASSUME NEW j \in Jobs, NEW u \in Tasks, killExistingJobTasks(j, u) \/ KillTimesOut(j, u)
      PROVE  Orderly'
  <2>1. submit' = [submit EXCEPT ![j].left = @ \ {u}] /\ used' = used /\ submit[j].pc = "kill"
    BY <1>5 DEF killExistingJobTasks, KillTimesOut, KillTaskProcess, taskVars
  <2>2. submit'[j].pc = "kill" /\ \A k \in Jobs \ {j} : submit'[k] = submit[k]
    BY <1>a, <2>1 DEF SubmitType
  <2>3. UnderWay(j)
    BY <2>1 DEF UnderWay
  <2> QED
    BY <1>a, <2>1, <2>2, <2>3, OrderlyMove
<1>6. ASSUME NEW j \in Jobs, NEW n \in Nodes, InitializeOn(j, n) PROVE Orderly'
  <2>1. /\ submit[j].pc = "init" /\ InitializeNode(n, submit[j].topo, spec)
        /\ submit' = [submit EXCEPT ![j].left = @ \ {n},
                                    ![j].err = @ \/ ~AllStart(n, submit[j].topo, spec)]
        /\ UNCHANGED <<spec, topology, assigned>>
    BY <1>6 DEF InitializeOn, RpcStep, leaderVars
  <2>2. /\ submit'[j].pc = "init" /\ submit'[j].left = submit[j].left \ {n}
        /\ submit'[j].topo = submit[j].topo
        /\ submit'[j].err = (submit[j].err \/ ~AllStart(n, submit[j].topo, spec))
        /\ \A k \in Jobs \ {j} : submit'[k] = submit[k]
    BY <1>a, <2>1 DEF SubmitType
  <2>3. UnderWay(j) /\ spec = j /\ topology = j /\ assigned = j /\ submit[j].topo = j
    BY <1>b, <2>1 DEF UnderWay, Submitting
  <2>4. used \subseteq used' /\ (AllStart(n, j, j) => Mine(n, j) \subseteq used')
    BY <1>a, <2>1, <2>3, InitTypes
  <2>5. ~submit'[j].err => \A u \in TasksOf(j) : Host[u] \in submit'[j].left \/ u \in used'
    <3> SUFFICES ASSUME ~submit'[j].err, NEW u \in TasksOf(j), u \notin used'
                 PROVE  Host[u] \in submit'[j].left
      OBVIOUS
    <3>1. ~submit[j].err /\ AllStart(n, j, j)
      BY <2>2, <2>3
    <3>2. Host[u] \in submit[j].left
      BY <1>b, <2>1, <2>4, <3>1 DEF Submitting
    <3>3. Host[u] # n
      BY <2>4, <3>1 DEF Mine
    <3> QED
      BY <2>2, <3>2, <3>3
  <2> QED
    BY <1>a, <2>1, <2>2, <2>3, <2>4, <2>5, OrderlyMove
<1>7. ASSUME NEW j \in Jobs, NEW n \in Nodes, InitTimesOut(j, n) PROVE Orderly'
  <2>1. /\ submit' = [submit EXCEPT ![j].left = @ \ {n}, ![j].err = TRUE]
        /\ submit[j].pc = "init" /\ used' = used /\ UNCHANGED <<spec, topology, assigned>>
    BY <1>7 DEF InitTimesOut, RpcStep, leaderVars, taskVars
  <2>2. /\ submit'[j].pc = "init" /\ submit'[j].topo = submit[j].topo /\ submit'[j].err
        /\ \A k \in Jobs \ {j} : submit'[k] = submit[k]
    BY <1>a, <2>1 DEF SubmitType
  <2>3. UnderWay(j) /\ spec = j /\ topology = j /\ assigned = j /\ submit[j].topo = j
    BY <1>b, <2>1 DEF UnderWay, Submitting
  <2> QED
    BY <1>a, <2>1, <2>2, <2>3, OrderlyMove
<1>8. ASSUME NEW r \in late, LateRequest(r) PROVE Orderly'
  <2>1. /\ r.task \in Tasks /\ r.node \in Nodes /\ r.spec \in Jobs
        /\ r.task[1] \in Jobs
    BY <1>a, TaskFacts DEF HealthOK, RequestType
  <2>2. /\ \/ KillTaskProcess(r.task) \/ InitializeNode(r.node, r.task[1], r.spec)
           \/ InitializeTask(r.task, r.spec)
        /\ UNCHANGED <<spec, topology, assigned, submit>>
    BY <1>8 DEF LateRequest, RpcStep, leaderVars
  <2>3. used \subseteq used'
    BY <1>a, <2>1, <2>2, KillTypes, InitTypes, AddTypes
  <2> QED
    BY <2>2, <2>3, OrderlyStep
<1>9. CASE Health
  <2>1. UNCHANGED <<spec, topology, assigned, submit>>
    BY <1>9 DEF Health, ReportMetrics, startTaskHealthMonitor, Restart, RestartAdds, RestartTimesOut, leaderVars
  <2>2. used' = used \/ \E r \in monitor : InitializeTask(r.task, r.spec)
    BY <1>9 DEF Health, ReportMetrics, startTaskHealthMonitor, Restart, RestartAdds, RestartTimesOut, taskVars
  <2>3. \A r \in monitor : r.task \in Tasks /\ r.spec \in Jobs
    BY <1>a DEF HealthOK, RequestType
  <2>4. used \subseteq used'
    BY <1>a, <2>2, <2>3, AddTypes
  <2> QED
    BY <2>1, <2>4, OrderlyStep
<1>10. CASE TupleFlow
  <2>1. FlowStep
    BY <1>10 DEF TupleFlow, readFileAndEmitTuples, RetryFromSource, forwardTupleToDownstream, RetryFromTask,
                 readTaskOutput, FlushAcks, handleACKMessage, startOutputFlushLoop, Forward
  <2>2. UNCHANGED <<spec, topology, assigned, submit, used>>
    BY <2>1 DEF FlowStep, leaderVars
  <2> QED
    BY <2>2, OrderlyStep
<1>11. CASE UNCHANGED vars
  BY <1>11, OrderlyStep DEF vars
<1> QED
  BY <1>1, <1>2, <1>3, <1>4, <1>5, <1>6, <1>7, <1>8, <1>9, <1>10, <1>11 DEF Next, Submission

LEMMA OrderlyInit == Init => Orderly
<1>1. NewSubmit.pc = "new"
  BY DEF NewSubmit
<1> QED
  BY <1>1 DEF Init, Orderly, Submitting, UnderWay

\* Only the end of a submission gives a source a topology.
LEMMA StreamStep ==
  ASSUME AllOK, [Next]_vars, NEW j \in Jobs, stream'[j].topo # stream[j].topo
  PROVE  /\ StartStreaming(j) /\ submit[j].pc = "init" /\ submit[j].left = {} /\ ~submit[j].err
         /\ stream'[j].topo = topology
<1>a. stream \in [Jobs -> StreamType] /\ \A k \in Jobs : stream[k] \in StreamType
  BY DEF AllOK, LeaderOK
<1>1. CASE stream' = stream
  BY <1>1
<1>2. ASSUME NEW k \in Jobs, NEW t \in Lines, readFileAndEmitTuples(k, t) PROVE stream'[j].topo = stream[j].topo
  BY <1>2, <1>a DEF readFileAndEmitTuples, StreamType
<1>3. ASSUME NEW k \in Jobs, StartStreaming(k)
      PROVE  /\ StartStreaming(j) /\ submit[j].pc = "init" /\ submit[j].left = {} /\ ~submit[j].err
             /\ stream'[j].topo = topology
  <2>1. /\ submit[k].pc = "init" /\ submit[k].left = {} /\ ~submit[k].err
        /\ stream' = [stream EXCEPT ![k] = [topo |-> topology, unread |-> File(spec)]]
    BY <1>3 DEF StartStreaming
  <2>2. k = j
    BY <1>a, <2>1
  <2> QED
    BY <1>3, <1>a, <2>1, <2>2
<1>4. \/ stream' = stream
      \/ \E k \in Jobs, t \in Lines : readFileAndEmitTuples(k, t)
      \/ \E k \in Jobs : StartStreaming(k)
  <2>1. CASE Submission
    BY <2>1 DEF Submission, SubmitJob, SetJobSpec, CreateTopology, computeTaskAssignments, NoMembers,
                InitializeTasks, killExistingJobTasks, KillTimesOut, InitializeOn, InitTimesOut,
                LateRequest, RpcStep
  <2>2. CASE Health
    BY <2>2 DEF Health, ReportMetrics, startTaskHealthMonitor, Restart, RestartAdds, RestartTimesOut
  <2>3. CASE TupleFlow
    BY <2>3 DEF TupleFlow, RetryFromSource, forwardTupleToDownstream, RetryFromTask,
                readTaskOutput, FlushAcks, handleACKMessage, startOutputFlushLoop, Forward
  <2>4. CASE UNCHANGED vars
    BY <2>4 DEF vars
  <2> QED
    BY <2>1, <2>2, <2>3, <2>4 DEF Next
<1> QED
  BY <1>1, <1>2, <1>3, <1>4

\* When a source goroutine starts, every task of the topology it streams to has been
\* started by its node, whatever RPCs have timed out, been executed late, or been
\* repeated by the health monitor meanwhile.
THEOREM StreamsAfterTasks == Spec => StreamsWhenStarted
<1>1. AllOK /\ Orderly /\ [Next]_vars =>
        [\A j \in Jobs : stream'[j].topo # stream[j].topo => TasksOf(stream'[j].topo) \subseteq used]_vars
  <2> SUFFICES ASSUME AllOK, Orderly, [Next]_vars, NEW j \in Jobs, stream'[j].topo # stream[j].topo
               PROVE  TasksOf(stream'[j].topo) \subseteq used
    OBVIOUS
  <2>1. /\ submit[j].pc = "init" /\ submit[j].left = {} /\ ~submit[j].err
        /\ stream'[j].topo = topology
    BY StreamStep
  <2>2. Submitting(j)
    BY DEF Orderly
  <2> QED
    BY <2>1, <2>2 DEF Submitting
<1> QED
  BY <1>1, TypeInit, TypeNext, OrderlyInit, OrderlyNext, PTL DEF Spec, StreamsWhenStarted

----------------------------------------------------------------------------
(* The output of jobs that follow one another: what is put into the output  *)
(* file of the latest job, and that none of its lines is lost.  Every part  *)
(* of the invariant is about one line t, so that a step for one line leaves *)
(* the part of every other line alone.                                      *)

----------------------------------------------------------------------------
(* What the phase of a submission says of the rest of the system.           *)

\* Until its nodes are asked to start tasks nobody has heard of the tasks of job j,
\* and until its spec is set nobody has heard of job j.
Unheard(j) ==
  /\ submit[j].pc \in {"new", "kill", "create", "assign", "prepare"} =>
       (\A u \in used : u[1] # j) /\ (\A r \in late \cup monitor : r.task[1] # j)
  /\ submit[j].pc \in {"new", "kill", "create"} => topology # j
  /\ submit[j].pc \in {"new", "kill", "create", "assign"} => assigned # j
  /\ submit[j].pc \in {"new", "kill"} =>
       /\ spec # j /\ \A n \in Nodes : current[n] # j /\ before[n] # j
       /\ \A r \in late \cup monitor : r.spec # j
       /\ out[j] = NoLines
  /\ submit[j].pc = "kill" => \A u \in submit[j].left : u[1] = assigned

\* A job that streams has its own topology and file.
Streaming(j) ==
  stream[j] # NoStream =>
    submit[j].pc = "done" /\ stream[j].topo = j /\ stream[j].unread \subseteq File(j)

\* The tasks of the latest job are never killed, hence never restarted.
LatestRuns ==
  /\ last = NoJob => ~busy /\ \A j \in Jobs : submit[j].pc = "new"
  /\ last # NoJob => submit[last].pc # "new"
  /\ \A j \in Jobs : UnderWay(j) => j = last
  /\ last # NoJob => (submit[last].pc = "done" => spec = last /\ topology = last)
  /\ \A u \in used : u[1] = last => u \in running /\ topology = last /\ spec = last
  /\ stopped \subseteq used /\ restarting \subseteq used
  /\ \A u \in stopped \cup restarting : u[1] # last
  /\ \A r \in monitor : r.what = "add" /\ r.task[1] # last
  /\ \A r \in late : r.task[1] = last => r.what = "init" /\ topology = last /\ spec = last

\* A running task has received what its log has and what it works on.
Managed ==
  /\ \A u \in Tasks \ used : wal[u] = [rec |-> {}, sent |-> {}]
  /\ \A u \in running : received[u] = wal[u].rec \cup pipe[u] \cup processed[u]

Phases == /\ \A j \in Jobs : Unheard(j) /\ Streaming(j)
          /\ LatestRuns /\ Managed


\* The phases in which nobody knows of the tasks of a job.
Early == {"new", "kill", "create", "assign", "prepare"}

\* Tasks S, which do not run, start on node n under the spec of job s.
Starts(S, n, s) ==
  /\ S \subseteq Tasks /\ S \cap running = {} /\ \A u \in S : Host[u] = n
  /\ StartTasks(S)
  /\ SetCurrent(n, s) \/ (S = {} /\ UNCHANGED <<current, before>>)

\* Both requests start tasks that do not run.
LEMMA RequestStarts ==
  /\ \A n, s : \A k \in Jobs \cup {NoJob} :
       InitializeNode(n, k, s) => \E S \in SUBSET TasksOf(k) : Starts(S, n, s)
  /\ \A s : \A u \in Tasks : InitializeTask(u, s) => \E S \in SUBSET {u} : Starts(S, Host[u], s)
<1>1. ASSUME NEW n, NEW s, NEW k \in Jobs \cup {NoJob}, InitializeNode(n, k, s)
      PROVE  \E S \in SUBSET TasksOf(k) : Starts(S, n, s)
  <2>1. Mine(n, k) \subseteq TasksOf(k) /\ Mine(n, k) \subseteq Tasks /\ \A u \in Mine(n, k) : Host[u] = n
    BY TaskFacts DEF Mine
  <2>2. PICK S \in SUBSET Mine(n, k) : StartTasks(S) /\ \A u \in S : CanStart(u, s)
    BY <1>1 DEF InitializeNode, AllStart
  <2>3. S \cap running = {}
    BY <2>2 DEF CanStart
  <2>4. SetCurrent(n, s) \/ (S = {} /\ UNCHANGED <<current, before>>)
    BY <1>1, <2>2 DEF InitializeNode
  <2>5. S \in SUBSET TasksOf(k)
    BY <2>1, <2>2
  <2> QED
    BY <2>1, <2>2, <2>3, <2>4, <2>5 DEF Starts
<1>2. ASSUME NEW s, NEW u \in Tasks, InitializeTask(u, s)
      PROVE  \E S \in SUBSET {u} : Starts(S, Host[u], s)
  <2> DEFINE S == IF CanStart(u, s) THEN {u} ELSE {}
  <2>1. StartTasks(S) /\ SetCurrent(Host[u], s)
    BY <1>2 DEF InitializeTask
  <2>2. S \in SUBSET {u} /\ S \cap running = {}
    BY DEF CanStart
  <2> HIDE DEF S
  <2> QED
    BY <2>1, <2>2 DEF Starts
<1> QED
  BY <1>1, <1>2

\* What the steps that start tasks do: they start tasks of a job k under the spec of s.
StartStep(k, s, n, S) ==
  /\ S \subseteq TasksOf(k) /\ Starts(S, n, s)
  /\ k = last => topology = last /\ spec = last
  /\ \A j \in Jobs : /\ submit[j].pc \in Early => k # j
                     /\ submit[j].pc \in {"new", "kill"} => s # j
  /\ stale' \in BOOLEAN /\ (~stale' => ~stale /\ k = topology /\ s = spec)
  /\ UNCHANGED <<leaderVars, last, busy, stream, leaderSent, acks, outVars, stopped, restarting>>
  /\ late' \subseteq late /\ monitor' \subseteq monitor
  /\ \A j \in Jobs : submit'[j].pc = submit[j].pc /\ submit'[j].left \subseteq submit[j].left

LEMMA StartKinds ==
  ASSUME AllOK, Orderly, Phases,
         \/ \E j \in Jobs, n \in Nodes : InitializeOn(j, n)
         \/ \E r \in late : LateRequest(r) /\ ~(r.what = "kill" /\ KillTaskProcess(r.task))
         \/ \E r \in monitor : RestartAdds(r)
  PROVE  \E k \in Jobs, s \in Jobs, n \in Nodes : \E S \in SUBSET TasksOf(k) : StartStep(k, s, n, S)
<1>a. /\ LeaderOK /\ HealthOK /\ stale \in BOOLEAN
      /\ submit \in [Jobs -> SubmitType] /\ \A j \in Jobs : submit[j] \in SubmitType
  BY DEF AllOK, LeaderOK, OutOK
<1>b. /\ \A j \in Jobs : Unheard(j) /\ Submitting(j)
      /\ LatestRuns
  BY DEF Phases, Orderly
<1>c. \A r \in late \cup monitor :
        r.task \in Tasks /\ r.node \in Nodes /\ r.spec \in Jobs /\ r.task[1] \in Jobs /\ r.what \in {"kill", "init", "add"}
        /\ Host[r.task] \in Nodes /\ r.task \in TasksOf(r.task[1])
  BY <1>a, TaskFacts DEF HealthOK, RequestType
<1>1. ASSUME NEW j \in Jobs, NEW n \in Nodes, InitializeOn(j, n)
      PROVE  \E k \in Jobs, s \in Jobs, m \in Nodes : \E S \in SUBSET TasksOf(k) : StartStep(k, s, m, S)
  <2>1. /\ submit[j].pc = "init" /\ InitializeNode(n, submit[j].topo, spec)
        /\ submit' = [submit EXCEPT ![j].left = @ \ {n},
                                    ![j].err = @ \/ ~AllStart(n, submit[j].topo, spec)]
        /\ UNCHANGED <<leaderVars, last, busy, stale, stream, leaderSent, acks, outVars, stopped,
                       restarting, monitor, late>>
    BY <1>1 DEF InitializeOn, RpcStep, ghosts, healthVars
  <2>2. /\ submit'[j].pc = "init" /\ submit'[j].left \subseteq submit[j].left
        /\ \A k \in Jobs \ {j} : submit'[k] = submit[k]
    BY <1>a, <2>1 DEF SubmitType
  <2>3. UnderWay(j) /\ spec = j /\ topology = j /\ submit[j].topo = j /\ j = last
    BY <1>b, <2>1 DEF UnderWay, Submitting, LatestRuns
  <2>4. PICK S \in SUBSET TasksOf(j) : Starts(S, n, j)
    BY <2>1, <2>3, RequestStarts
  <2>5. \A k \in Jobs : submit[k].pc \in Early => k # j
    BY <2>1 DEF Early
  <2>6. \A k \in Jobs : submit[k].pc \in {"new", "kill"} => k # j
    BY <2>1
  <2> QED
    BY <1>a, <2>1, <2>2, <2>3, <2>4, <2>5, <2>6 DEF StartStep
<1>2. ASSUME NEW r \in late \cup monitor, stale' = (stale \/ OfEarlier(r)), r.what # "kill",
             UNCHANGED <<leaderVars, last, busy, stream, leaderSent, acks, outVars, stopped, restarting, submit>>,
             late' \subseteq late, monitor' \subseteq monitor, r.task[1] = last => r \in late,
             \/ r.what = "init" /\ InitializeNode(r.node, r.task[1], r.spec)
             \/ InitializeTask(r.task, r.spec)
      PROVE  \E k \in Jobs, s \in Jobs, m \in Nodes : \E S \in SUBSET TasksOf(k) : StartStep(k, s, m, S)
  <2>1. PICK m \in Nodes : \E S \in SUBSET TasksOf(r.task[1]) : Starts(S, m, r.spec)
    <3>1. CASE InitializeNode(r.node, r.task[1], r.spec)
      BY <1>c, <3>1, RequestStarts
    <3>2. CASE InitializeTask(r.task, r.spec)
      <4>1. PICK S \in SUBSET {r.task} : Starts(S, Host[r.task], r.spec)
        BY <1>c, <3>2, RequestStarts
      <4>2. S \in SUBSET TasksOf(r.task[1])
        BY <1>c
      <4> QED
        BY <1>c, <4>1, <4>2
    <3> QED
      BY <1>2, <3>1, <3>2
  <2>2. PICK S \in SUBSET TasksOf(r.task[1]) : Starts(S, m, r.spec)
    BY <2>1
  <2>3. r.task[1] = last => topology = last /\ spec = last
    BY <1>2, <1>b DEF LatestRuns
  <2>4. \A j \in Jobs : /\ submit[j].pc \in Early => r.task[1] # j
                        /\ submit[j].pc \in {"new", "kill"} => r.spec # j
    BY <1>b DEF Unheard, Early
  <2>5. stale' \in BOOLEAN /\ (~stale' => ~stale /\ r.task[1] = topology /\ r.spec = spec)
    BY <1>2, <1>a DEF OfEarlier
  <2>6. StartStep(r.task[1], r.spec, m, S)
    BY <1>2, <2>2, <2>3, <2>4, <2>5 DEF StartStep
  <2> QED
    BY <1>c, <2>6
<1>3. ASSUME NEW r \in late, LateRequest(r), ~(r.what = "kill" /\ KillTaskProcess(r.task))
      PROVE  \E k \in Jobs, s \in Jobs, m \in Nodes : \E S \in SUBSET TasksOf(k) : StartStep(k, s, m, S)
  <2>1. /\ UNCHANGED <<leaderVars, last, busy, stream, leaderSent, acks, outVars, stopped, restarting, submit>>
        /\ late' \subseteq late /\ monitor' = monitor /\ stale' = (stale \/ OfEarlier(r))
    BY <1>3 DEF LateRequest, RpcStep, healthVars
  <2>2. \/ r.what = "init" /\ InitializeNode(r.node, r.task[1], r.spec)
        \/ r.what = "add" /\ InitializeTask(r.task, r.spec)
    BY <1>3 DEF LateRequest
  <2> QED
    BY <1>2, <2>1, <2>2
<1>4. ASSUME NEW r \in monitor, RestartAdds(r)
      PROVE  \E k \in Jobs, s \in Jobs, m \in Nodes : \E S \in SUBSET TasksOf(k) : StartStep(k, s, m, S)
  <2>1. /\ UNCHANGED <<leaderVars, last, busy, stream, leaderSent, acks, outVars, stopped, restarting, submit>>
        /\ late' = late /\ monitor' = {} /\ stale' = (stale \/ OfEarlier(r))
        /\ InitializeTask(r.task, r.spec)
    BY <1>4 DEF RestartAdds
  <2>2. r.task[1] # last
    BY <1>b DEF LatestRuns
  <2>3. r.what # "kill"
    BY <1>b DEF LatestRuns
  <2> QED
    BY <1>2, <2>1, <2>2, <2>3
<1> QED
  BY <1>1, <1>3, <1>4

\* What the steps that kill a task do: it is not one of the latest job.
KillStep(u) ==
  /\ u[1] # last /\ KillTaskProcess(u)
  /\ UNCHANGED <<leaderVars, last, busy, stale, stream, leaderSent, acks, outVars, healthVars>>
  /\ late' \subseteq late
  /\ \A j \in Jobs : submit'[j].pc = submit[j].pc /\ submit'[j].left \subseteq submit[j].left

LEMMA KillKinds ==
  ASSUME AllOK, Phases,
         \/ \E j \in Jobs, u \in Tasks : killExistingJobTasks(j, u)
         \/ \E r \in late : LateRequest(r) /\ r.what = "kill" /\ KillTaskProcess(r.task)
  PROVE  \E u \in Tasks : KillStep(u)
<1>a. /\ HealthOK /\ stale \in BOOLEAN
      /\ submit \in [Jobs -> SubmitType] /\ \A j \in Jobs : submit[j] \in SubmitType
  BY DEF AllOK, LeaderOK, OutOK
<1>b. LatestRuns /\ \A j \in Jobs : Unheard(j)
  BY DEF Phases
<1>1. ASSUME NEW j \in Jobs, NEW u \in Tasks, killExistingJobTasks(j, u) PROVE KillStep(u)
  <2>1. /\ submit[j].pc = "kill" /\ u \in submit[j].left /\ KillTaskProcess(u)
        /\ submit' = [submit EXCEPT ![j].left = @ \ {u}] /\ late' = late
        /\ UNCHANGED <<leaderVars, last, busy, stale, stream, leaderSent, acks, outVars, healthVars>>
    BY <1>1 DEF killExistingJobTasks, RpcStep, ghosts
  <2>2. \A k \in Jobs : submit'[k].pc = submit[k].pc /\ submit'[k].left \subseteq submit[k].left
    BY <1>a, <2>1 DEF SubmitType
  <2>3. j = last
    BY <1>b, <2>1 DEF LatestRuns, UnderWay
  <2>4. u[1] # last
    BY <1>b, <2>1, <2>3 DEF Unheard
  <2> QED
    BY <2>1, <2>2, <2>4 DEF KillStep
<1>2. ASSUME NEW r \in late, LateRequest(r), r.what = "kill", KillTaskProcess(r.task)
      PROVE  r.task \in Tasks /\ KillStep(r.task)
  <2>1. /\ UNCHANGED <<leaderVars, last, busy, stream, leaderSent, acks, outVars, healthVars, submit>>
        /\ late' \subseteq late /\ stale' = (stale \/ OfEarlier(r))
    BY <1>2 DEF LateRequest, RpcStep
  <2>2. stale' = stale
    BY <1>2, <1>a, <2>1 DEF OfEarlier
  <2>3. r.task \in Tasks /\ r.task[1] # last
    BY <1>2, <1>a, <1>b DEF LatestRuns, HealthOK, RequestType
  <2> QED
    BY <1>2, <2>1, <2>2, <2>3 DEF KillStep
<1> QED
  BY <1>1, <1>2

\* The steps that start tasks keep the phases.
LEMMA StartPhases ==
  ASSUME AllOK, Phases, NEW k \in Jobs, NEW s \in Jobs, NEW n \in Nodes, NEW S \in SUBSET TasksOf(k),
         StartStep(k, s, n, S)
  PROVE  Phases'
<1>a. /\ NodesOK /\ ManagersOK
      /\ \A j \in Jobs : Unheard(j) /\ Streaming(j)
      /\ LatestRuns /\ Managed
  BY DEF Phases, AllOK
<1>b. /\ S \subseteq Tasks /\ S \cap running = {} /\ \A u \in S : u[1] = k
      /\ used' = used \cup S /\ running' = running \cup S /\ UNCHANGED <<pipe, processed, wal>>
      /\ received' = [u \in Tasks |-> IF u \in S THEN wal[u].rec ELSE received[u]]
      /\ \A m \in Nodes : /\ current'[m] = current[m] \/ current'[m] = s
                          /\ before'[m] = before[m] \/ before'[m] = current[m]
  BY <1>a DEF StartStep, Starts, StartTasks, SetCurrent, TasksOf, NodesOK
<1>c. /\ k = last => topology = last /\ spec = last
      /\ UNCHANGED <<scenario, spec, topology, assigned, last, busy, stream, out, stopped, restarting>>
      /\ late' \subseteq late /\ monitor' \subseteq monitor
      /\ \A j \in Jobs : submit'[j].pc = submit[j].pc /\ submit'[j].left \subseteq submit[j].left
      /\ \A j \in Jobs : /\ submit[j].pc \in Early => k # j
                         /\ submit[j].pc \in {"new", "kill"} => s # j
  BY DEF StartStep, leaderVars, outVars
<1>1. ASSUME NEW j \in Jobs PROVE Unheard(j)'
  <2>1. submit'[j].pc \in Early =>
          (\A u \in used' : u[1] # j) /\ (\A r \in late' \cup monitor' : r.task[1] # j)
    BY <1>a, <1>b, <1>c DEF Unheard, Early
  <2>2. submit'[j].pc \in {"new", "kill"} =>
          /\ \A m \in Nodes : current'[m] # j /\ before'[m] # j
          /\ \A r \in late' \cup monitor' : r.spec # j
    BY <1>a, <1>b, <1>c DEF Unheard
  <2> QED
    BY <1>a, <1>c, <2>1, <2>2 DEF Unheard, Early
<1>2. ASSUME NEW j \in Jobs PROVE Streaming(j)'
  BY <1>a, <1>c DEF Streaming, File
<1>3. LatestRuns'
  <2>1. \A u \in used' : u[1] = last' => u \in running' /\ topology' = last' /\ spec' = last'
    BY <1>a, <1>b, <1>c DEF LatestRuns
  <2>2. \A j \in Jobs : UnderWay(j)' = UnderWay(j)
    BY <1>c DEF UnderWay
  <2>3. last # NoJob => last \in Jobs
    BY DEF AllOK, LeaderOK
  <2> QED
    BY <1>a, <1>b, <1>c, <2>1, <2>2, <2>3 DEF LatestRuns
<1>4. Managed'
  <2>1. ASSUME NEW u \in running' PROVE received'[u] = wal'[u].rec \cup pipe'[u] \cup processed'[u]
    BY <1>a, <1>b DEF Managed, ManagersOK, NodesOK
  <2> QED
    BY <1>a, <1>b, <2>1 DEF Managed
<1> QED
  BY <1>1, <1>2, <1>3, <1>4 DEF Phases

\* So do the steps that kill one.
LEMMA KillPhases ==
  ASSUME AllOK, Phases, NEW v \in Tasks, KillStep(v)
  PROVE  Phases'
<1>a. /\ NodesOK /\ ManagersOK
      /\ \A j \in Jobs : Unheard(j) /\ Streaming(j)
      /\ LatestRuns /\ Managed
  BY DEF Phases, AllOK
<1>b. /\ UNCHANGED <<scenario, spec, topology, assigned, last, busy, stream, out, stopped, restarting, monitor>>
      /\ late' \subseteq late /\ v[1] # last
      /\ \A j \in Jobs : submit'[j].pc = submit[j].pc /\ submit'[j].left \subseteq submit[j].left
      /\ running' = running \ {v} /\ UNCHANGED <<used, current, before, wal>>
      /\ \A u \in running' : /\ received'[u] = received[u] /\ pipe'[u] = pipe[u]
                             /\ processed'[u] = processed[u]
  BY <1>a DEF KillStep, KillTaskProcess, leaderVars, outVars, healthVars, tupleVars, ManagersOK, NodesOK
<1>1. ASSUME NEW j \in Jobs PROVE Unheard(j)' /\ Streaming(j)'
  BY <1>a, <1>b DEF Unheard, Streaming, File
<1>2. LatestRuns'
  <2>1. \A j \in Jobs : UnderWay(j)' = UnderWay(j)
    BY <1>b DEF UnderWay
  <2>2. last # NoJob => last \in Jobs
    BY DEF AllOK, LeaderOK
  <2> QED
    BY <1>a, <1>b, <2>1, <2>2 DEF LatestRuns
<1>3. Managed'
  BY <1>a, <1>b DEF Managed
<1> QED
  BY <1>1, <1>2, <1>3 DEF Phases

\* And the steps of the leader that neither start nor kill.
LEMMA LeaderPhases ==
  ASSUME AllOK, Orderly, Phases, NEW j \in Jobs,
         \/ SubmitJob(j) \/ SetJobSpec(j) \/ CreateTopology(j) \/ computeTaskAssignments(j)
         \/ NoMembers(j) \/ InitializeTasks(j) \/ StartStreaming(j)
  PROVE  Phases'
<1>a. /\ \A k \in Jobs : Unheard(k) /\ Streaming(k) /\ Submitting(k)
      /\ LatestRuns /\ Managed /\ j # NoJob
      /\ submit \in [Jobs -> SubmitType] /\ \A k \in Jobs : submit[k] \in SubmitType
      /\ stream \in [Jobs -> StreamType] /\ last \in Jobs \cup {NoJob}
  BY JobsAssumption DEF Phases, Orderly, AllOK, LeaderOK
<1>b. UNCHANGED <<scenario, stopped, restarting, monitor, late, used, running, current, before, received, pipe,
                  processed, wal, out>>
  BY DEF SubmitJob, SetJobSpec, CreateTopology, computeTaskAssignments, NoMembers, InitializeTasks,
         StartStreaming, LeaderOnly, RpcStep, leaderVars, healthVars, taskVars, tupleVars, outVars
<1>c. Managed'
  BY <1>a, <1>b DEF Managed
<1>1. CASE SubmitJob(j)
  <2>1. /\ UNCHANGED <<spec, topology, assigned, stream>> /\ last' = j
        /\ submit[j].pc = "new" /\ \A k \in Jobs : ~UnderWay(k)
        /\ \A k \in Jobs \ {j} : submit'[k] = submit[k]
        /\ submit'[j].pc = "kill"
        /\ submit'[j].left = IF topology = NoJob THEN {} ELSE TasksOf(assigned)
    BY <1>1, <1>a DEF SubmitJob, SubmitType, leaderVars
  <2>2. \A u \in submit'[j].left : u[1] = assigned
    BY <2>1 DEF TasksOf
  <2>3. ASSUME NEW k \in Jobs PROVE Unheard(k)' /\ Streaming(k)'
    BY <1>a, <1>b, <2>1, <2>2 DEF Unheard, Streaming, File
  <2>4. \A k \in Jobs : UnderWay(k)' => k = j
    BY <2>1 DEF UnderWay
  <2>5. \A u \in used : u[1] # j
    BY <1>a, <2>1 DEF Unheard
  <2>6. \A r \in late \cup monitor : r.task[1] # j
    BY <1>a, <2>1 DEF Unheard
  <2>7. LatestRuns'
    BY <1>a, <1>b, <2>1, <2>4, <2>5, <2>6 DEF LatestRuns
  <2> QED
    BY <1>c, <2>3, <2>7 DEF Phases
<1>2. CASE ~SubmitJob(j)
  <2>1. PICK c \in {"create", "assign", "prepare", "init", "failed", "done"} :
          /\ submit'[j].pc = c /\ \A k \in Jobs \ {j} : submit'[k] = submit[k]
          /\ submit[j].pc = (CASE c = "create" -> "kill" [] c = "assign" -> "create"
                               [] c = "prepare" -> "assign" [] c = "init" -> "prepare"
                               [] OTHER -> submit[j].pc)
          /\ c = "failed" => submit[j].pc \in {"create", "assign", "init"}
          /\ c = "done" => submit[j].pc = "init"
          /\ spec' = IF c = "create" THEN j ELSE spec
          /\ topology' = IF c = "assign" THEN j ELSE topology
          /\ assigned' = IF c = "prepare" THEN j ELSE assigned
          /\ stream' = IF c = "done" THEN [stream EXCEPT ![j] = [topo |-> topology, unread |-> File(spec)]]
                                     ELSE stream
          /\ UNCHANGED <<last, busy>>
    <3>1. CASE SetJobSpec(j)
      BY <3>1, <1>a DEF SetJobSpec, SubmitType, ghosts
    <3>2. CASE CreateTopology(j)
      BY <3>2, <1>a DEF CreateTopology, SubmitType, ghosts
    <3>3. CASE computeTaskAssignments(j)
      BY <3>3, <1>a DEF computeTaskAssignments, SubmitType, ghosts
    <3>4. CASE NoMembers(j)
      BY <3>4, <1>a DEF NoMembers, SubmitType, ghosts, RpcStep, leaderVars
    <3>5. CASE InitializeTasks(j)
      BY <3>5, <1>a DEF InitializeTasks, SubmitType, ghosts, leaderVars
    <3>6. CASE StartStreaming(j)
      BY <3>6, <1>a DEF StartStreaming, SubmitType, ghosts, leaderVars
    <3> QED
      BY <1>2, <3>1, <3>2, <3>3, <3>4, <3>5, <3>6
  <2>2. UnderWay(j) /\ j = last
    BY <1>a, <2>1 DEF UnderWay, LatestRuns
  <2>3. \A k \in Jobs \ {j} : ~UnderWay(k)
    BY <1>a, <2>2 DEF LatestRuns
  <2>4. ASSUME NEW k \in Jobs PROVE Unheard(k)'
    <3>1. CASE k # j
      <4>1. submit'[k] = submit[k] /\ submit[k].pc \in {"new", "done", "failed"}
        BY <2>1, <2>3, <3>1 DEF UnderWay
      <4> QED
        BY <1>a, <1>b, <2>1, <3>1, <4>1 DEF Unheard
    <3>2. CASE k = j
      <4>1. Unheard(j)
        BY <1>a
      <4> QED
        BY <1>b, <2>1, <3>2, <4>1 DEF Unheard
    <3> QED
      BY <3>1, <3>2
  <2>5. ASSUME NEW k \in Jobs PROVE Streaming(k)'
    <3>1. CASE k # j
      BY <1>a, <1>b, <2>1, <3>1 DEF Streaming, File
    <3>2. CASE k = j /\ submit'[j].pc # "done"
      <4>1. stream' = stream /\ stream[j] = NoStream
        BY <1>a, <2>1, <2>2, <3>2 DEF Streaming, UnderWay
      <4> QED
        BY <3>2, <4>1 DEF Streaming
    <3>3. CASE k = j /\ submit'[j].pc = "done"
      <4>1. spec = j /\ topology = j
        BY <1>a, <2>1, <3>3 DEF Submitting
      <4>2. stream'[j] = [topo |-> topology, unread |-> File(spec)]
        BY <1>a, <2>1, <3>3
      <4>3. stream'[j].topo = j /\ stream'[j].unread = File(j)
        BY <4>1, <4>2
      <4> QED
        BY <1>b, <3>3, <4>3 DEF Streaming, File
    <3> QED
      BY <3>1, <3>2, <3>3
  <2>6. LatestRuns'
    <3>1. \A k \in Jobs : UnderWay(k)' => k = j
      BY <2>1, <2>3 DEF UnderWay
    <3>2. submit'[j].pc \in {"create", "assign", "prepare"} =>
            (\A u \in used : u[1] # j) /\ (\A r \in late \cup monitor : r.task[1] # j)
      BY <1>a, <2>1 DEF Unheard
    <3>3. submit'[j].pc = "done" => spec = j /\ topology = j
      BY <1>a, <2>1 DEF Submitting
    <3>4. submit'[j].pc \notin {"create", "assign", "prepare"} => UNCHANGED <<spec, topology>>
      BY <2>1
    <3>5. \A u \in used' : u[1] = last' => u \in running' /\ topology' = last' /\ spec' = last'
      BY <1>a, <1>b, <2>1, <2>2, <3>2, <3>4 DEF LatestRuns
    <3>6. \A r \in late' : r.task[1] = last' => r.what = "init" /\ topology' = last' /\ spec' = last'
      BY <1>a, <1>b, <2>1, <2>2, <3>2, <3>4 DEF LatestRuns
    <3> QED
      BY <1>a, <1>b, <2>1, <2>2, <3>1, <3>3, <3>5, <3>6 DEF LatestRuns
  <2> QED
    BY <1>c, <2>4, <2>5, <2>6 DEF Phases
<1> QED
  BY <1>1, <1>2

\* And RPCs that time out, and the health monitor.
LEMMA HealthPhases ==
  ASSUME AllOK, Orderly, Phases,
         \/ \E j \in Jobs, u \in Tasks : KillTimesOut(j, u)
         \/ \E j \in Jobs, n \in Nodes : InitTimesOut(j, n)
         \/ \E n \in Nodes : ReportMetrics(n)
         \/ startTaskHealthMonitor \/ RestartTimesOut
         \/ \E u \in Tasks : Restart(u)
  PROVE  Phases'
<1>a. /\ \A k \in Jobs : Unheard(k) /\ Streaming(k) /\ Submitting(k)
      /\ LatestRuns /\ Managed /\ NodesOK /\ HealthOK
      /\ submit \in [Jobs -> SubmitType] /\ \A k \in Jobs : submit[k] \in SubmitType
      /\ last \in Jobs \cup {NoJob}
  BY DEF Phases, Orderly, AllOK, LeaderOK
<1>b. UNCHANGED <<scenario, spec, topology, assigned, last, busy, stream, used, running, current, before,
                  received, pipe, processed, wal, out>>
  BY DEF KillTimesOut, InitTimesOut, ReportMetrics, startTaskHealthMonitor, RestartTimesOut, Restart,
         RpcStep, leaderVars, taskVars, tupleVars, outVars, ghosts
<1> DEFINE Fits(r) == /\ \A k \in Jobs : submit[k].pc \in Early => r.task[1] # k
                      /\ r.spec = spec
<1>c. ASSUME \A j \in Jobs : submit'[j].pc = submit[j].pc /\ submit'[j].left \subseteq submit[j].left,
             \A r \in late' \cup monitor' : r \in late \cup monitor \/ Fits(r),
             \A r \in late' : r \in late \/ (r.task[1] = last => r.what = "init" /\ topology = last /\ spec = last),
             \A r \in monitor' : r \in monitor \/ (r.what = "add" /\ r.task[1] # last),
             stopped' \subseteq used, restarting' \subseteq used,
             \A u \in stopped' \cup restarting' : u[1] # last
      PROVE  Phases'
  <2>1. ASSUME NEW k \in Jobs PROVE Unheard(k)' /\ Streaming(k)'
    <3>1. Streaming(k)'
      BY <1>a, <1>b, <1>c DEF Streaming, File
    <3>2. submit'[k].pc \in Early =>
            (\A u \in used' : u[1] # k) /\ (\A r \in late' \cup monitor' : r.task[1] # k)
      BY <1>a, <1>b, <1>c DEF Unheard, Early
    <3>3. submit'[k].pc \in {"new", "kill"} => \A r \in late' \cup monitor' : r.spec # k
      BY <1>a, <1>b, <1>c DEF Unheard
    <3>4. submit'[k].pc = "kill" => \A u \in submit'[k].left : u[1] = assigned'
      BY <1>a, <1>b, <1>c DEF Unheard
    <3> QED
      BY <1>a, <1>b, <1>c, <3>1, <3>2, <3>3, <3>4 DEF Unheard, Early
  <2>2. LatestRuns'
    <3>1. \A j \in Jobs : UnderWay(j)' = UnderWay(j)
      BY <1>c DEF UnderWay
    <3> QED
      BY <1>a, <1>b, <1>c, <3>1 DEF LatestRuns
  <2>3. Managed'
    BY <1>a, <1>b DEF Managed
  <2> QED
    BY <2>1, <2>2, <2>3 DEF Phases
<1>d. /\ stopped \subseteq used /\ restarting \subseteq used /\ \A u \in stopped \cup restarting : u[1] # last
      /\ \A k \in Jobs : submit[k].left \subseteq submit[k].left
  BY <1>a DEF LatestRuns
<1>1. ASSUME NEW j \in Jobs, NEW u \in Tasks, KillTimesOut(j, u) PROVE Phases'
  <2> DEFINE q == [what |-> "kill", task |-> u, node |-> Host[u], spec |-> spec]
  <2>1. /\ submit[j].pc = "kill" /\ u \in submit[j].left /\ submit' = [submit EXCEPT ![j].left = @ \ {u}]
        /\ late' = late \cup {q} /\ UNCHANGED <<stopped, restarting, monitor>>
    BY <1>1 DEF KillTimesOut, RpcStep, healthVars
  <2>2. \A k \in Jobs : submit'[k].pc = submit[k].pc /\ submit'[k].left \subseteq submit[k].left
    BY <1>a, <2>1 DEF SubmitType
  <2>3. j = last /\ u[1] = assigned /\ assigned # last
    BY <1>a, <2>1 DEF LatestRuns, UnderWay, Unheard
  <2>4. ASSUME NEW k \in Jobs, submit[k].pc \in Early PROVE u[1] # k
    <3>1. k = j \/ submit[k].pc = "new"
      BY <1>a, <2>3, <2>4 DEF LatestRuns, UnderWay, Early
    <3> QED
      BY <1>a, <2>3, <3>1 DEF Unheard
  <2>5. Fits(q) /\ q.task[1] # last
    BY <2>3, <2>4
  <2> HIDE DEF q, Fits
  <2> QED
    BY <1>c, <1>d, <2>1, <2>2, <2>5
<1>2. ASSUME NEW j \in Jobs, NEW n \in Nodes, InitTimesOut(j, n) PROVE Phases'
  <2> DEFINE q == [what |-> "init", task |-> <<submit[j].topo, 1>>, node |-> n, spec |-> spec]
  <2>1. /\ submit[j].pc = "init" /\ submit' = [submit EXCEPT ![j].left = @ \ {n}, ![j].err = TRUE]
        /\ late' = late \cup {q} /\ UNCHANGED <<stopped, restarting, monitor>>
    BY <1>2 DEF InitTimesOut, RpcStep, healthVars
  <2>2. \A k \in Jobs : submit'[k].pc = submit[k].pc /\ submit'[k].left \subseteq submit[k].left
    BY <1>a, <2>1 DEF SubmitType
  <2>3. submit[j].topo = j /\ spec = j /\ topology = j /\ j = last
    BY <1>a, <2>1 DEF LatestRuns, UnderWay, Submitting
  <2>4. Fits(q) /\ q.what = "init"
    BY <2>1, <2>3 DEF Early
  <2> HIDE DEF q, Fits
  <2> QED
    BY <1>c, <1>d, <2>1, <2>2, <2>3, <2>4
<1>3. ASSUME NEW n \in Nodes, ReportMetrics(n) PROVE Phases'
  <2>1. /\ UNCHANGED <<restarting, monitor, late, submit>>
        /\ stopped' \subseteq stopped \cup (used \ running)
    BY <1>3 DEF ReportMetrics
  <2>2. \A u \in used \ running : u[1] # last
    BY <1>a DEF LatestRuns
  <2>3. stopped' \subseteq used /\ \A u \in stopped' \cup restarting' : u[1] # last
    BY <1>d, <2>1, <2>2
  <2> QED
    BY <1>c, <1>d, <2>1, <2>3
<1>4. ASSUME startTaskHealthMonitor PROVE Phases'
  <2>1. UNCHANGED <<stopped, monitor, late, submit>> /\ restarting' \subseteq stopped
    BY <1>4 DEF startTaskHealthMonitor
  <2> QED
    BY <1>c, <1>d, <2>1
<1>5. ASSUME RestartTimesOut PROVE Phases'
  <2>1. UNCHANGED <<stopped, restarting, submit>> /\ late' = late \cup monitor /\ monitor' = {}
    BY <1>5 DEF RestartTimesOut
  <2>2. \A r \in monitor : r.task[1] # last
    BY <1>a DEF LatestRuns
  <2> QED
    BY <1>c, <1>d, <2>1, <2>2
<1>6. ASSUME NEW u \in Tasks, Restart(u) PROVE Phases'
  <2> DEFINE q == [what |-> "add", task |-> u, node |-> Host[u], spec |-> spec]
  <2>1. /\ u \in restarting /\ restarting' \subseteq restarting /\ monitor' \subseteq {q}
        /\ UNCHANGED <<stopped, late, submit>>
    BY <1>6 DEF Restart
  <2>2. \A k \in Jobs : submit[k].pc \in Early => u[1] # k
    BY <1>a, <1>d, <2>1 DEF Unheard, Early
  <2>3. Fits(q) /\ q.what = "add" /\ q.task[1] # last
    BY <1>d, <2>1, <2>2
  <2> HIDE DEF q, Fits
  <2> QED
    BY <1>c, <1>d, <2>1, <2>3
<1> QED
  BY <1>1, <1>2, <1>3, <1>4, <1>5, <1>6

\* What a delivery of line x to task v can do.
LEMMA DeliverKinds ==
  ASSUME NEW v, NEW x, NEW rest, Deliver(v, x, rest)
  PROVE  \/ /\ v \in running /\ x \notin received[v] /\ acks' = acks
            /\ received' = [received EXCEPT ![v] = @ \cup {x}]
            /\ pipe' = [rest EXCEPT ![v] = @ \cup {x}]
         \/ /\ v \in running /\ x \in received[v] /\ acks' = acks \cup {[to |-> Sender(v), id |-> x]}
            /\ pipe' = rest /\ received' = received
         \/ pipe' = rest /\ received' = received /\ acks' = acks
BY DEF Deliver

\* The steps of the tuples keep the phases.
LEMMA FlowPhases == AllOK /\ Phases /\ TupleFlow => Phases'
<1> SUFFICES ASSUME AllOK, Phases, TupleFlow PROVE Phases'
  OBVIOUS
<1>a. /\ \A k \in Jobs : Unheard(k) /\ Streaming(k)
      /\ LatestRuns /\ Managed /\ NodesOK /\ ManagersOK /\ OutOK
      /\ stream \in [Jobs -> StreamType] /\ last \in Jobs \cup {NoJob}
  BY DEF Phases, AllOK, LeaderOK
<1>b. FlowStep
  BY DEF TupleFlow, readFileAndEmitTuples, RetryFromSource, forwardTupleToDownstream, RetryFromTask,
         readTaskOutput, FlushAcks, handleACKMessage, startOutputFlushLoop, Forward
<1>c. UNCHANGED <<scenario, spec, topology, assigned, last, busy, submit, late, stopped, restarting, monitor,
                  used, running, current>>
  BY <1>b DEF FlowStep, leaderVars, healthVars
<1>d. LatestRuns'
  BY <1>a, <1>c DEF LatestRuns, UnderWay
<1>e. ASSUME \A n \in Nodes : before'[n] = before[n] \/ before'[n] = NoJob,
             \A j \in Jobs : out'[j] = out[j] \/ \E n \in Nodes : j \in {current[n], before[n]}
      PROVE  \A k \in Jobs : Unheard(k)'
  <2> SUFFICES ASSUME NEW k \in Jobs PROVE Unheard(k)'
    OBVIOUS
  <2>1. k # NoJob
    BY JobsAssumption
  <2>2. submit[k].pc \in {"new", "kill"} => out'[k] = NoLines
    BY <1>a, <1>e DEF Unheard
  <2>3. submit[k].pc \in {"new", "kill"} => \A n \in Nodes : before'[n] # k
    BY <1>a, <1>e, <2>1 DEF Unheard
  <2>4. NoLines' = NoLines
    BY DEF NoLines
  <2> QED
    BY <1>a, <1>c, <2>2, <2>3, <2>4 DEF Unheard
<1>f. ASSUME \A j \in Jobs : \/ stream'[j] = stream[j]
                             \/ /\ stream[j].unread # {} /\ stream'[j].topo = stream[j].topo
                                /\ stream'[j].unread \subseteq stream[j].unread
      PROVE  \A k \in Jobs : Streaming(k)'
  <2>1. \A k \in Jobs : stream[k].unread # {} => stream[k] # NoStream
    BY DEF NoStream
  <2> QED
    BY <1>a, <1>c, <1>f, <2>1 DEF Streaming, File
<1>g. ASSUME NEW v, NEW x, NEW rest \in [Tasks -> SUBSET Lines], Deliver(v, x, rest), NEW u \in running
      PROVE  \E D \in SUBSET {x} : received'[u] = received[u] \cup D /\ pipe'[u] = rest[u] \cup D
  <2>1. u \in Tasks /\ running \subseteq Tasks /\ received \in [Tasks -> SUBSET Lines]
    BY <1>a DEF NodesOK, ManagersOK
  <2>2. CASE received' = received /\ pipe' = rest
    <3>1. received'[u] = received[u] \cup {} /\ pipe'[u] = rest[u] \cup {}
      BY <2>2
    <3> QED
      BY <3>1
  <2>3. CASE v \in running /\ received' = [received EXCEPT ![v] = @ \cup {x}] /\ pipe' = [rest EXCEPT ![v] = @ \cup {x}]
    <3>1. CASE u = v
      BY <2>1, <2>3, <3>1
    <3>2. CASE u # v
      <4>1. received'[u] = received[u] \cup {} /\ pipe'[u] = rest[u] \cup {}
        BY <2>1, <2>3, <3>2
      <4> QED
        BY <4>1
    <3> QED
      BY <3>1, <3>2
  <2> QED
    BY <1>g, <2>2, <2>3, DeliverKinds
<1>h. ASSUME NEW v, NEW x, Deliver(v, x, pipe), UNCHANGED <<wal, processed>> PROVE Managed'
  <2>1. pipe \in [Tasks -> SUBSET Lines]
    BY <1>a DEF ManagersOK
  <2>2. ASSUME NEW u \in running PROVE received'[u] = wal'[u].rec \cup pipe'[u] \cup processed'[u]
    <3>1. PICK D \in SUBSET {x} : received'[u] = received[u] \cup D /\ pipe'[u] = pipe[u] \cup D
      BY <1>g, <1>h, <2>1
    <3> QED
      BY <1>a, <1>h, <3>1 DEF Managed
  <2> QED
    BY <1>a, <1>c, <1>h, <2>2 DEF Managed
<1>1. ASSUME NEW j \in Jobs, NEW t \in Lines, readFileAndEmitTuples(j, t) PROVE Phases'
  <2>1. /\ t \in stream[j].unread /\ stream' = [stream EXCEPT ![j].unread = @ \ {t}]
        /\ Deliver(SelectTask(<<stream[j].topo, 1>>), t, pipe)
        /\ UNCHANGED <<wal, processed, before, out>>
    BY <1>1 DEF readFileAndEmitTuples, outVars
  <2>2. Managed'
    BY <1>h, <2>1
  <2>3. \A k \in Jobs : \/ stream'[k] = stream[k]
                        \/ /\ stream[k].unread # {} /\ stream'[k].topo = stream[k].topo
                           /\ stream'[k].unread \subseteq stream[k].unread
    BY <1>a, <2>1 DEF StreamType
  <2> QED
    BY <1>d, <1>e, <1>f, <2>1, <2>2, <2>3 DEF Phases
<1>2. ASSUME NEW e \in leaderSent, RetryFromSource(e) PROVE Phases'
  <2>1. /\ Deliver(SelectTask(e.dest), e.id, pipe) /\ UNCHANGED <<wal, processed, before, out, stream>>
    BY <1>2 DEF RetryFromSource, outVars
  <2> QED
    BY <1>d, <1>e, <1>f, <1>h, <2>1 DEF Phases
<1>3. ASSUME NEW u \in Tasks, NEW t \in Lines, forwardTupleToDownstream(u, t) PROVE Phases'
  <2> DEFINE rest == [pipe EXCEPT ![u] = @ \ {t}]
  <2>1. /\ u \in running /\ t \in pipe[u]
        /\ Deliver(NextStage(u), t, rest) \/ (pipe' = rest /\ received' = received)
        /\ processed' = [processed EXCEPT ![u] = @ \cup {t}]
        /\ UNCHANGED <<wal, before, out, stream>>
    BY <1>3 DEF forwardTupleToDownstream, Forward
  <2>2. rest \in [Tasks -> SUBSET Lines]
    BY <1>a DEF ManagersOK
  <2>3. ASSUME NEW w \in running PROVE received'[w] = wal'[w].rec \cup pipe'[w] \cup processed'[w]
    <3>1. PICK D \in SUBSET {t} : received'[w] = received[w] \cup D /\ pipe'[w] = rest[w] \cup D
      <4>1. CASE Deliver(NextStage(u), t, rest)
        <5> HIDE DEF rest
        <5> QED
          BY <1>g, <2>2, <4>1
      <4>2. CASE pipe' = rest /\ received' = received
        <5>1. received'[w] = received[w] \cup {} /\ pipe'[w] = rest[w] \cup {}
          BY <4>2
        <5> QED
          BY <5>1
      <4> QED
        BY <2>1, <4>1, <4>2
    <3>2. received[w] = wal[w].rec \cup pipe[w] \cup processed[w] /\ w \in Tasks
      BY <1>a DEF Managed, NodesOK
    <3>3. rest[w] \cup processed'[w] = pipe[w] \cup processed[w]
      BY <1>a, <2>1, <3>2 DEF ManagersOK
    <3> HIDE DEF rest
    <3> QED
      BY <2>1, <3>1, <3>2, <3>3
  <2>4. Managed'
    BY <1>a, <1>c, <2>1, <2>3 DEF Managed
  <2> QED
    BY <1>d, <1>e, <1>f, <2>1, <2>4 DEF Phases
<1>4. ASSUME NEW d \in drained, readTaskOutput(d) PROVE Phases'
  <2>1. /\ Deliver(NextStage(d.task), d.id, pipe) \/ (pipe' = pipe /\ received' = received)
        /\ UNCHANGED <<wal, before, out, stream, processed>>
    BY <1>4 DEF readTaskOutput, Forward
  <2>2. Managed'
    BY <1>a, <1>c, <1>h, <2>1 DEF Managed
  <2> QED
    BY <1>d, <1>e, <1>f, <2>1, <2>2 DEF Phases
<1>5. ASSUME NEW u \in Tasks, NEW t \in Lines, RetryFromTask(u, t) PROVE Phases'
  <2>1. Deliver(NextStage(u), t, pipe) /\ UNCHANGED <<wal, before, out, stream, processed>>
    BY <1>5 DEF RetryFromTask, outVars
  <2> QED
    BY <1>d, <1>e, <1>f, <1>h, <2>1 DEF Phases
<1>6. ASSUME NEW u \in Tasks, FlushAcks(u) PROVE Phases'
  <2>1. /\ u \in running /\ wal' = [wal EXCEPT ![u] = Durable(u)]
        /\ processed' = [processed EXCEPT ![u] = {}]
        /\ UNCHANGED <<before, out, stream, received, pipe>>
    BY <1>6 DEF FlushAcks, outVars
  <2>2. Durable(u).rec = wal[u].rec \cup processed[u]
    BY DEF Durable
  <2>3. ASSUME NEW w \in running PROVE received'[w] = wal'[w].rec \cup pipe'[w] \cup processed'[w]
    <3>1. received[w] = wal[w].rec \cup pipe[w] \cup processed[w] /\ w \in Tasks
      BY <1>a DEF Managed, NodesOK
    <3>2. CASE w = u
      BY <1>a, <2>1, <2>2, <3>1, <3>2 DEF ManagersOK
    <3>3. CASE w # u
      BY <1>a, <2>1, <3>1, <3>3 DEF ManagersOK
    <3> QED
      BY <3>2, <3>3
  <2>4. \A w \in Tasks \ used : wal'[w] = wal[w]
    BY <1>a, <2>1 DEF NodesOK, ManagersOK
  <2>5. Managed'
    BY <1>a, <1>c, <2>3, <2>4 DEF Managed
  <2> QED
    BY <1>d, <1>e, <1>f, <2>1, <2>5 DEF Phases
<1>7. ASSUME NEW a \in acks, handleACKMessage(a) PROVE Phases'
  <2>1. UNCHANGED <<wal, before, out, stream, processed, received, pipe>>
    BY <1>7 DEF handleACKMessage, outVars
  <2>2. Managed'
    BY <1>a, <1>c, <2>1 DEF Managed
  <2> QED
    BY <1>d, <1>e, <1>f, <2>1, <2>2 DEF Phases
<1>8. ASSUME NEW n \in Nodes, NEW j \in Jobs, startOutputFlushLoop(n, j) PROVE Phases'
  <2>1. /\ j \in {current[n], before[n]}
        /\ out' = [out EXCEPT ![j] = [t \in Lines |-> @[t] + outputBuffer[n][t]]]
        /\ before' = [before EXCEPT ![n] = NoJob]
        /\ UNCHANGED <<wal, stream, processed, received, pipe>>
    BY <1>8 DEF startOutputFlushLoop, tupleVars
  <2>2. /\ \A m \in Nodes : before'[m] = before[m] \/ before'[m] = NoJob
        /\ \A k \in Jobs : out'[k] = out[k] \/ \E m \in Nodes : k \in {current[m], before[m]}
    BY <1>a, <2>1 DEF NodesOK, OutOK
  <2>3. Managed'
    BY <1>a, <1>c, <2>1 DEF Managed
  <2> QED
    BY <1>d, <1>e, <1>f, <2>1, <2>2, <2>3 DEF Phases
<1> QED
  BY <1>1, <1>2, <1>3, <1>4, <1>5, <1>6, <1>7, <1>8 DEF TupleFlow

\* Every step keeps the phases.
LEMMA PhasesNext == AllOK /\ Orderly /\ Phases /\ [Next]_vars => Phases'
<1> SUFFICES ASSUME AllOK, Orderly, Phases, [Next]_vars PROVE Phases'
  OBVIOUS
<1>1. ASSUME NEW r \in late, LateRequest(r) PROVE Phases'
  <2>1. CASE r.what = "kill" /\ KillTaskProcess(r.task)
    BY <1>1, <2>1, KillKinds, KillPhases
  <2>2. CASE ~(r.what = "kill" /\ KillTaskProcess(r.task))
    BY <1>1, <2>2, StartKinds, StartPhases
  <2> QED
    BY <2>1, <2>2
<1>2. CASE Submission
  <2>1. ASSUME NEW j \in Jobs, NEW u \in Tasks, killExistingJobTasks(j, u) PROVE Phases'
    BY <2>1, KillKinds, KillPhases
  <2>2. ASSUME NEW j \in Jobs, NEW n \in Nodes, InitializeOn(j, n) PROVE Phases'
    BY <2>2, StartKinds, StartPhases
  <2> QED
    BY <1>1, <1>2, <2>1, <2>2, LeaderPhases, HealthPhases DEF Submission
<1>3. CASE Health
  <2>1. ASSUME NEW r \in monitor, RestartAdds(r) PROVE Phases'
    BY <2>1, StartKinds, StartPhases
  <2> QED
    BY <1>3, <2>1, HealthPhases DEF Health
<1>4. CASE UNCHANGED vars
  BY <1>4 DEF vars, Phases, Unheard, Streaming, LatestRuns, Managed, UnderWay, File, NoLines
<1> QED
  BY <1>2, <1>3, <1>4, FlowPhases DEF Next

LEMMA PhasesInit == Init => Phases
<1> SUFFICES ASSUME Init PROVE Phases
  OBVIOUS
<1>1. NewSubmit.pc = "new"
  BY DEF NewSubmit
<1>2. \A j \in Jobs : j # NoJob
  BY JobsAssumption
<1>3. \A j \in Jobs : Unheard(j) /\ Streaming(j)
  BY <1>1, <1>2 DEF Init, Unheard, Streaming
<1>4. LatestRuns
  BY <1>1 DEF Init, LatestRuns, UnderWay
<1> QED
  BY <1>3, <1>4 DEF Phases, Init, Managed

----------------------------------------------------------------------------
(* Where a line is.                                                         *)

\* The line is somewhere.
Present(t) ==
  \/ \E j \in Jobs : t \in stream[j].unread \/ out[j][t] > 0
  \/ \E e \in leaderSent : e.id = t
  \/ \E a \in acks : a.id = t
  \/ \E d \in drained : d.id = t
  \/ \E u \in Tasks : \/ t \in received[u] \/ t \in pipe[u] \/ t \in processed[u] \/ t \in sent[u]
                      \/ t \in wal[u].rec \/ t \in wal[u].sent
  \/ \E n \in Nodes : outputBuffer[n][t] > 0

\* A line that is somewhere was read from the source of a job.
Origin(t) == Present(t) => \E j \in Jobs : submit[j].pc = "done" /\ t \in File(j)

FinalTask == <<last, NStages[last]>>
OfLast(t) == last # NoJob /\ t \in File(last)

\* A line on its way is one of the latest job, and its tasks have it.
OnlyLast(t) ==
  /\ \A j \in Jobs : t \in stream[j].unread => j = last
  /\ \A e \in leaderSent : e.id = t => OfLast(t) /\ submit[last].pc = "done" /\ e.dest[1] = last
  /\ \A u \in Tasks : t \in pipe[u] \cup processed[u] => OfLast(t) /\ u[1] = last
  /\ \A d \in drained : d.id # t
  /\ \A n \in Nodes : outputBuffer[n][t] > 0 => OfLast(t) /\ n = Host[FinalTask]

\* A task of an earlier job that comes back with an unacknowledged line sends a duplicate.
\* What a task of the latest job has sent and has no longer is at the next task.
SentOnward(t) ==
  /\ \A u \in Tasks : t \in sent[u] \cup wal[u].sent =>
       /\ NextStage(u) \in Tasks
       /\ IF u[1] # last THEN t \in wal[NextStage(u)].rec
          ELSE OfLast(t) /\ (t \in sent[u] \/ t \in received[NextStage(u)])
  /\ \A a \in acks : a.id = t =>
       /\ a.to = Leader => last # NoJob /\ t \in received[<<last, 1>>]
       /\ a.to # Leader /\ a.to[1] = last => NextStage(a.to) \in Tasks /\ t \in received[NextStage(a.to)]

\* The last task puts a line of the latest job out once.
OnceOut(t) ==
  /\ OfLast(t) =>
       LET f == FinalTask
           buffered == outputBuffer[Host[FinalTask]][t]
       IN  /\ t \in pipe[f] => buffered = 0 /\ out[last][t] = 0
           /\ buffered > 0 => buffered = 1 /\ out[last][t] = 0
           /\ out[last][t] <= 1
           /\ buffered > 0 \/ out[last][t] > 0 => t \in received[f]
  /\ \A j \in Jobs : ~(OfLast(t) /\ j = last) => out[j][t] <= (IF t \in File(j) THEN 1 ELSE 0)

\* Every task of the latest job that has received a line has it, or has handed it on to
\* one that has it, or it is in the output.
Handed(t) ==
  OfLast(t) =>
    /\ \/ stream[last].topo = NoJob \/ t \in stream[last].unread \/ \E e \in leaderSent : e.id = t
       \/ t \in received[<<last, 1>>]
    /\ \A u \in TasksOf(last) : t \in received[u] =>
         \/ \E w \in TasksOf(last) : w[2] >= u[2] /\ t \in pipe[w] \cup sent[w]
         \/ outputBuffer[Host[FinalTask]][t] > 0 \/ out[last][t] > 0

\* The lines that the properties speak of, as long as they do.
Counts(t) ==
  /\ ~stale /\ ~mistaken
  /\ busy => t \in File(last) /\ \A k \in Jobs \ {last} : t \notin File(k)

\* The node of a task of the latest job has its job spec.
SpecTaken == \A u \in running : u[1] = last => current[Host[u]] = last

LineInv(t) == OnlyLast(t) /\ SentOnward(t) /\ OnceOut(t) /\ Handed(t)

OutputInv == /\ Phases /\ (~stale => SpecTaken) /\ mistaken \in BOOLEAN
             /\ \A t \in Lines : Origin(t) /\ (Counts(t) => LineInv(t))

----------------------------------------------------------------------------
(* Kinds of steps.                                                          *)

\* The leader or the health monitor moves on; nothing happens to lines or tasks.
IdleStep ==
  /\ UNCHANGED <<scenario, taskVars, tupleVars, stream, leaderSent, acks, outVars, last, busy, stale>>
  /\ \A j \in Jobs : (submit'[j].pc = "done") = (submit[j].pc = "done")

\* The source of the latest job starts.
StreamStart ==
  /\ last \in Jobs /\ stream[last] = NoStream
  /\ stream' = [stream EXCEPT ![last] = [topo |-> last, unread |-> File(last)]]
  /\ submit'[last].pc = "done" /\ \A k \in Jobs \ {last} : submit'[k] = submit[k]
  /\ UNCHANGED <<scenario, taskVars, tupleVars, leaderSent, acks, outVars, last, busy, stale>>

LEMMA StepKinds ==
  ASSUME AllOK, Orderly, Phases, [Next]_vars
  PROVE  \/ IdleStep \/ StreamStart \/ TupleFlow
         \/ \E j \in Jobs : SubmitJob(j)
         \/ \E k \in Jobs, s \in Jobs, n \in Nodes : \E S \in SUBSET TasksOf(k) : StartStep(k, s, n, S)
         \/ \E u \in Tasks : KillStep(u)
<1>a. /\ \A k \in Jobs : Streaming(k) /\ Submitting(k)
      /\ LatestRuns /\ submit \in [Jobs -> SubmitType] /\ \A k \in Jobs : submit[k] \in SubmitType
      /\ stream \in [Jobs -> StreamType] /\ last \in Jobs \cup {NoJob}
  BY DEF Phases, Orderly, AllOK, LeaderOK
<1>b. ASSUME NEW j \in Jobs, NEW c, c # "done", submit[j].pc # "done", submit'[j].pc = c,
             \A k \in Jobs \ {j} : submit'[k] = submit[k]
      PROVE  \A k \in Jobs : (submit'[k].pc = "done") = (submit[k].pc = "done")
  BY <1>b
<1>1. ASSUME NEW j \in Jobs, SetJobSpec(j) \/ CreateTopology(j) \/ computeTaskAssignments(j)
      PROVE  IdleStep
  <2>1. PICK c \in {"create", "assign", "prepare"} : submit' = [submit EXCEPT ![j].pc = c]
    BY <1>1 DEF SetJobSpec, CreateTopology, computeTaskAssignments
  <2>2. /\ UNCHANGED <<scenario, taskVars, tupleVars, stream, leaderSent, acks, outVars, last, busy, stale>>
        /\ submit[j].pc # "done"
    BY <1>1 DEF SetJobSpec, CreateTopology, computeTaskAssignments, LeaderOnly, ghosts
  <2>3. submit'[j].pc = c /\ \A k \in Jobs \ {j} : submit'[k] = submit[k]
    BY <1>a, <2>1 DEF SubmitType
  <2> QED
    BY <1>b, <2>2, <2>3 DEF IdleStep
<1>2. ASSUME NEW j \in Jobs, InitializeTasks(j) PROVE IdleStep
  <2>1. /\ UNCHANGED <<scenario, taskVars, tupleVars, stream, leaderSent, acks, outVars, last, busy, stale>>
        /\ submit[j].pc # "done"
    BY <1>2 DEF InitializeTasks, LeaderOnly, ghosts, leaderVars
  <2>2. submit'[j].pc = "init" /\ \A k \in Jobs \ {j} : submit'[k] = submit[k]
    BY <1>2, <1>a DEF InitializeTasks, SubmitType
  <2> QED
    BY <1>b, <2>1, <2>2 DEF IdleStep
<1>3. ASSUME NEW j \in Jobs, NoMembers(j) PROVE IdleStep
  <2>1. /\ UNCHANGED <<scenario, taskVars, tupleVars, stream, leaderSent, acks, outVars, last, busy, stale>>
        /\ submit[j].pc # "done" /\ submit' = [submit EXCEPT ![j].pc = "failed"]
    BY <1>3 DEF NoMembers, RpcStep, ghosts, leaderVars
  <2>2. submit'[j].pc = "failed" /\ \A k \in Jobs \ {j} : submit'[k] = submit[k]
    BY <1>a, <2>1 DEF SubmitType
  <2> QED
    BY <1>b, <2>1, <2>2 DEF IdleStep
<1>4. ASSUME NEW j \in Jobs, StartStreaming(j) PROVE IdleStep \/ StreamStart
  <2>1. /\ UNCHANGED <<scenario, taskVars, tupleVars, leaderSent, acks, outVars, last, busy, stale>>
        /\ submit[j].pc = "init"
    BY <1>4 DEF StartStreaming, LeaderOnly, ghosts, leaderVars
  <2>2. CASE submit[j].err
    <3>1. stream' = stream /\ submit' = [submit EXCEPT ![j].pc = "failed"]
      BY <1>4, <2>2 DEF StartStreaming
    <3>2. submit'[j].pc = "failed" /\ \A k \in Jobs \ {j} : submit'[k] = submit[k]
      BY <1>a, <3>1 DEF SubmitType
    <3> QED
      BY <1>b, <2>1, <3>1, <3>2 DEF IdleStep
  <2>3. CASE ~submit[j].err
    <3>1. /\ stream' = [stream EXCEPT ![j] = [topo |-> topology, unread |-> File(spec)]]
          /\ submit' = [submit EXCEPT ![j].pc = "done"]
      BY <1>4, <2>3 DEF StartStreaming
    <3>2. submit'[j].pc = "done" /\ \A k \in Jobs \ {j} : submit'[k] = submit[k]
      BY <1>a, <3>1 DEF SubmitType
    <3>3. j = last /\ spec = j /\ topology = j /\ stream[j] = NoStream
      BY <1>a, <2>1 DEF LatestRuns, UnderWay, Submitting, Streaming
    <3> QED
      BY <2>1, <3>1, <3>2, <3>3 DEF StreamStart
  <2> QED
    BY <2>2, <2>3
<1>5. ASSUME \/ \E j \in Jobs, u \in Tasks : KillTimesOut(j, u)
             \/ \E j \in Jobs, n \in Nodes : InitTimesOut(j, n)
      PROVE  IdleStep
  <2>1. UNCHANGED <<scenario, taskVars, tupleVars, stream, leaderSent, acks, outVars, last, busy, stale>>
    BY <1>5 DEF KillTimesOut, InitTimesOut, RpcStep, ghosts, leaderVars
  <2>2. PICK j \in Jobs, u \in Tasks \cup Nodes : \/ submit' = [submit EXCEPT ![j].left = @ \ {u}]
                                                  \/ submit' = [submit EXCEPT ![j].left = @ \ {u}, ![j].err = TRUE]
    BY <1>5 DEF KillTimesOut, InitTimesOut
  <2>3. \A k \in Jobs : submit'[k].pc = submit[k].pc
    BY <1>a, <2>2 DEF SubmitType
  <2> QED
    BY <2>1, <2>3 DEF IdleStep
<1>6. ASSUME \/ \E n \in Nodes : ReportMetrics(n)
             \/ startTaskHealthMonitor \/ RestartTimesOut
             \/ \E u \in Tasks : Restart(u)
      PROVE  IdleStep
  BY <1>6 DEF ReportMetrics, startTaskHealthMonitor, RestartTimesOut, Restart, ghosts, leaderVars, IdleStep
<1>7. ASSUME NEW r \in late, LateRequest(r)
      PROVE  \/ \E k \in Jobs, s \in Jobs, n \in Nodes : \E S \in SUBSET TasksOf(k) : StartStep(k, s, n, S)
             \/ \E u \in Tasks : KillStep(u)
  <2>1. CASE r.what = "kill" /\ KillTaskProcess(r.task)
    BY <1>7, <2>1, KillKinds
  <2>2. CASE ~(r.what = "kill" /\ KillTaskProcess(r.task))
    BY <1>7, <2>2, StartKinds
  <2> QED
    BY <2>1, <2>2
<1>8. CASE Submission
  <2>1. CASE \E j \in Jobs, u \in Tasks : killExistingJobTasks(j, u)
    BY <2>1, KillKinds
  <2>2. CASE \E j \in Jobs, n \in Nodes : InitializeOn(j, n)
    BY <2>2, StartKinds
  <2> QED
    BY <1>1, <1>2, <1>3, <1>4, <1>5, <1>7, <1>8, <2>1, <2>2 DEF Submission
<1>9. CASE Health
  <2>1. CASE \E r \in monitor : RestartAdds(r)
    BY <2>1, StartKinds
  <2> QED
    BY <1>6, <1>9, <2>1 DEF Health
<1>10. CASE UNCHANGED vars
  BY <1>10 DEF vars, IdleStep, taskVars, tupleVars, outVars
<1> QED
  BY <1>8, <1>9, <1>10 DEF Next

\* What no step of the tuples changes.
LEMMA FlowFrame ==
  ASSUME stale \in BOOLEAN, TupleFlow
  PROVE  FlowStep /\ (~stale' => ~stale)
<1>1. FlowStep
  BY DEF TupleFlow, readFileAndEmitTuples, RetryFromSource, forwardTupleToDownstream, RetryFromTask,
         readTaskOutput, FlushAcks, handleACKMessage, startOutputFlushLoop, Forward
<1>2. stale' = stale \/ \E n \in Nodes, j \in Jobs : startOutputFlushLoop(n, j)
  BY DEF TupleFlow, readFileAndEmitTuples, RetryFromSource, forwardTupleToDownstream, RetryFromTask,
         readTaskOutput, FlushAcks, handleACKMessage, Forward
<1>3. ASSUME NEW n \in Nodes, NEW j \in Jobs, startOutputFlushLoop(n, j) PROVE ~stale' => ~stale
  BY <1>3 DEF startOutputFlushLoop
<1> QED
  BY <1>1, <1>2, <1>3

\* The nodes keep the spec of the latest job as long as nothing of an earlier one arrives.
LEMMA SpecNext ==
  ASSUME AllOK, Orderly, Phases, ~stale => SpecTaken, [Next]_vars
  PROVE  ~stale' => SpecTaken'
<1>a. /\ LatestRuns /\ \A j \in Jobs : Unheard(j)
      /\ NodesOK /\ stale \in BOOLEAN /\ \A u \in Tasks : Host[u] \in Nodes
  BY TaskFacts DEF Phases, AllOK, OutOK
<1>1. CASE IdleStep \/ StreamStart
  BY <1>1 DEF IdleStep, StreamStart, taskVars, SpecTaken
<1>2. CASE TupleFlow
  <2>1. FlowStep /\ (~stale' => ~stale)
    BY <1>2, <1>a, FlowFrame
  <2> QED
    BY <2>1 DEF FlowStep, SpecTaken
<1>3. ASSUME NEW j \in Jobs, SubmitJob(j) PROVE SpecTaken'
  <2>1. last' = j /\ running' = running /\ submit[j].pc = "new"
    BY <1>3 DEF SubmitJob, LeaderOnly, taskVars
  <2>2. \A u \in running : u[1] # j
    BY <1>a, <2>1 DEF Unheard, NodesOK
  <2> QED
    BY <2>1, <2>2 DEF SpecTaken
<1>4. ASSUME NEW k \in Jobs, NEW s \in Jobs, NEW n \in Nodes, NEW S \in SUBSET TasksOf(k),
             StartStep(k, s, n, S), ~stale'
      PROVE  SpecTaken'
  <2>1. /\ ~stale /\ k = topology /\ s = spec /\ last' = last /\ running' = running \cup S
        /\ \A u \in S : Host[u] = n /\ u[1] = k
        /\ S # {} => current' = [current EXCEPT ![n] = s]
        /\ current' = current \/ current' = [current EXCEPT ![n] = s]
        /\ k = last => spec = last
    BY <1>4 DEF StartStep, Starts, StartTasks, SetCurrent, TasksOf
  <2>2. ASSUME NEW u \in running', u[1] = last PROVE current'[Host[u]] = last
    <3>1. CASE u \in S
      BY <1>a, <2>1, <2>2, <3>1 DEF NodesOK
    <3>2. CASE u \in running
      <4>1. spec = last /\ current[Host[u]] = last /\ Host[u] \in Nodes
        BY <1>a, <2>1, <2>2, <3>2 DEF LatestRuns, NodesOK, SpecTaken
      <4> QED
        BY <1>a, <2>1, <4>1 DEF NodesOK
    <3> QED
      BY <2>1, <3>1, <3>2
  <2> QED
    BY <2>1, <2>2 DEF SpecTaken
<1>5. ASSUME NEW u \in Tasks, KillStep(u) PROVE ~stale' => SpecTaken'
  BY <1>5 DEF KillStep, KillTaskProcess, SpecTaken
<1> QED
  BY <1>1, <1>2, <1>3, <1>4, <1>5, StepKinds

----------------------------------------------------------------------------
(* Steps that are about other lines.                                        *)

\* Nothing happens to line t.
Same(t) ==
  /\ \A j \in Jobs : /\ t \in stream'[j].unread <=> t \in stream[j].unread
                     /\ stream'[j].topo = stream[j].topo /\ out'[j][t] = out[j][t]
  /\ {e \in leaderSent' : e.id = t} = {e \in leaderSent : e.id = t}
  /\ {a \in acks' : a.id = t} = {a \in acks : a.id = t}
  /\ {d \in drained' : d.id = t} = {d \in drained : d.id = t}
  /\ \A u \in Tasks : /\ t \in received'[u] <=> t \in received[u]
                      /\ t \in pipe'[u] <=> t \in pipe[u]
                      /\ t \in processed'[u] <=> t \in processed[u]
                      /\ t \in sent'[u] <=> t \in sent[u]
                      /\ t \in wal'[u].rec <=> t \in wal[u].rec
                      /\ t \in wal'[u].sent <=> t \in wal[u].sent
  /\ \A n \in Nodes : outputBuffer'[n][t] = outputBuffer[n][t]

\* Nor to the jobs that a line may belong to.
SameJobs ==
  /\ UNCHANGED <<scenario, last, busy>>
  /\ \A j \in Jobs : (submit'[j].pc = "done") = (submit[j].pc = "done")

\* The task that puts out the lines of the latest job.
LEMMA FinalFacts ==
  ASSUME last \in Jobs
  PROVE  /\ FinalTask \in TasksOf(last) /\ FinalTask \in Tasks /\ Host[FinalTask] \in Nodes
         /\ FinalTask[1] = last /\ FinalTask[2] = NStages[last]
         /\ <<last, 1>> \in TasksOf(last) /\ <<last, 1>> \in Tasks /\ <<last, 1>>[1] = last
         /\ TasksOf(last) \subseteq Tasks /\ \A u \in TasksOf(last) : u[1] = last /\ u[2] \in 1..NStages[last]
         /\ \A u \in Tasks : u[1] = last => u \in TasksOf(last)
<1>1. NStages[last] \in Nat \ {0} /\ TasksOf(last) = {last} \X (1..NStages[last])
  BY JobsAssumption DEF TasksOf
<1>2. FinalTask \in TasksOf(last) /\ FinalTask[1] = last /\ FinalTask[2] = NStages[last]
  BY <1>1 DEF FinalTask
<1> QED
  BY <1>1, <1>2, TaskFacts

\* Then what holds of it goes on to hold.
LEMMA SameKeeps ==
  ASSUME LeaderOK, NEW t, Same(t), SameJobs
  PROVE  /\ LineInv(t) => LineInv(t)'
         /\ Origin(t) => Origin(t)'
<1>a. /\ \A e : e.id = t => (e \in leaderSent' <=> e \in leaderSent)
      /\ \A a : a.id = t => (a \in acks' <=> a \in acks)
      /\ \A d : d.id = t => (d \in drained' <=> d \in drained)
  BY DEF Same
<1>b. /\ OfLast(t)' = OfLast(t) /\ FinalTask' = FinalTask /\ last' = last
      /\ last # NoJob => last \in Jobs /\ FinalTask \in Tasks /\ Host[FinalTask] \in Nodes /\ <<last, 1>> \in Tasks
      /\ \A j \in Jobs : File(j)' = File(j)
  BY FinalFacts DEF SameJobs, OfLast, FinalTask, File, LeaderOK
<1>1. ASSUME OnlyLast(t) PROVE OnlyLast(t)'
  BY <1>1, <1>a, <1>b DEF OnlyLast, Same, SameJobs, OfLast
<1>2. ASSUME SentOnward(t) PROVE SentOnward(t)'
  <2>1. ASSUME NEW u \in Tasks, t \in sent'[u] \cup wal'[u].sent
        PROVE  /\ NextStage(u) \in Tasks
               /\ IF u[1] # last' THEN t \in wal'[NextStage(u)].rec
                  ELSE OfLast(t)' /\ (t \in sent'[u] \/ t \in received'[NextStage(u)])
    BY <1>2, <1>b, <2>1 DEF SentOnward, Same
  <2>2. ASSUME NEW a \in acks', a.id = t
        PROVE  /\ a.to = Leader => last' # NoJob /\ t \in received'[<<last', 1>>]
               /\ a.to # Leader /\ a.to[1] = last' =>
                    NextStage(a.to) \in Tasks /\ t \in received'[NextStage(a.to)]
    BY <1>2, <1>a, <1>b, <2>2 DEF SentOnward, Same
  <2> QED
    BY <2>1, <2>2 DEF SentOnward, NextStage
<1>3. ASSUME OnceOut(t) PROVE OnceOut(t)'
  <2>1. ASSUME OfLast(t)
        PROVE  /\ out'[last][t] = out[last][t]
               /\ t \in pipe'[FinalTask] <=> t \in pipe[FinalTask]
               /\ t \in received'[FinalTask] <=> t \in received[FinalTask]
               /\ outputBuffer'[Host[FinalTask]][t] = outputBuffer[Host[FinalTask]][t]
    BY <1>b, <2>1 DEF Same, OfLast
  <2>2. \A j \in Jobs : out'[j][t] = out[j][t] /\ (t \in File(j)' <=> t \in File(j))
    BY <1>b DEF Same
  <2>3. ASSUME OfLast(t)'
        PROVE  /\ t \in pipe'[FinalTask] => outputBuffer'[Host[FinalTask]][t] = 0 /\ out'[last][t] = 0
               /\ outputBuffer'[Host[FinalTask]][t] > 0 => outputBuffer'[Host[FinalTask]][t] = 1 /\ out'[last][t] = 0
               /\ out'[last][t] <= 1
               /\ outputBuffer'[Host[FinalTask]][t] > 0 \/ out'[last][t] > 0 => t \in received'[FinalTask]
    BY <1>3, <1>b, <2>1, <2>3 DEF OnceOut
  <2>4. \A j \in Jobs : ~(OfLast(t)' /\ j = last') => out'[j][t] <= (IF t \in File(j)' THEN 1 ELSE 0)
    BY <1>3, <1>b, <2>2 DEF OnceOut
  <2> QED
    BY <1>b, <2>3, <2>4 DEF OnceOut
<1>4. ASSUME Handed(t) PROVE Handed(t)'
  <2>0. TasksOf(last)' = TasksOf(last)
    BY <1>b DEF TasksOf
  <2> SUFFICES ASSUME OfLast(t)'
               PROVE  /\ \/ stream'[last].topo = NoJob \/ t \in stream'[last].unread
                         \/ (\E e \in leaderSent' : e.id = t) \/ t \in received'[<<last, 1>>]
                      /\ \A u \in TasksOf(last) : t \in received'[u] =>
                           \/ \E w \in TasksOf(last) : w[2] >= u[2] /\ t \in pipe'[w] \cup sent'[w]
                           \/ outputBuffer'[Host[FinalTask]][t] > 0 \/ out'[last][t] > 0
    BY <1>b, <2>0 DEF Handed
  <2>1. OfLast(t) /\ last \in Jobs /\ TasksOf(last) \subseteq Tasks /\ stream'[last].topo = stream[last].topo
    BY <1>b, FinalFacts DEF OfLast, Same
  <2>2. /\ \/ stream[last].topo = NoJob \/ t \in stream[last].unread \/ \E e \in leaderSent : e.id = t
           \/ t \in received[<<last, 1>>]
        /\ \A u \in TasksOf(last) : t \in received[u] =>
             \/ \E w \in TasksOf(last) : w[2] >= u[2] /\ t \in pipe[w] \cup sent[w]
             \/ outputBuffer[Host[FinalTask]][t] > 0 \/ out[last][t] > 0
    BY <1>4, <2>1 DEF Handed
  <2>3. /\ t \in stream'[last].unread <=> t \in stream[last].unread
        /\ out'[last][t] = out[last][t] /\ outputBuffer'[Host[FinalTask]][t] = outputBuffer[Host[FinalTask]][t]
        /\ \A u \in TasksOf(last) : /\ t \in received'[u] <=> t \in received[u]
                                    /\ t \in pipe'[u] <=> t \in pipe[u]
                                    /\ t \in sent'[u] <=> t \in sent[u]
    <3>1. Host[FinalTask] \in Nodes /\ \A u \in TasksOf(last) : u \in Tasks
      BY <2>1, FinalFacts
    <3>2. /\ t \in stream'[last].unread <=> t \in stream[last].unread
          /\ out'[last][t] = out[last][t]
      BY <2>1 DEF Same
    <3>3. outputBuffer'[Host[FinalTask]][t] = outputBuffer[Host[FinalTask]][t]
      BY <3>1 DEF Same
    <3>4. \A u \in Tasks : /\ t \in received'[u] <=> t \in received[u]
                           /\ t \in pipe'[u] <=> t \in pipe[u]
                           /\ t \in sent'[u] <=> t \in sent[u]
      BY DEF Same
    <3> QED
      BY <3>1, <3>2, <3>3, <3>4
  <2>4. <<last, 1>> \in TasksOf(last)
    BY <2>1, FinalFacts
  <2>5. (\E e \in leaderSent : e.id = t) => \E e \in leaderSent' : e.id = t
    BY <1>a
  <2>6. ASSUME NEW u \in TasksOf(last), t \in received'[u]
        PROVE  \/ \E w \in TasksOf(last) : w[2] >= u[2] /\ t \in pipe'[w] \cup sent'[w]
               \/ outputBuffer'[Host[FinalTask]][t] > 0 \/ out'[last][t] > 0
    BY <2>2, <2>3, <2>6
  <2> QED
    BY <2>1, <2>2, <2>3, <2>4, <2>5, <2>6
<1>5. ASSUME Origin(t) PROVE Origin(t)'
  <2>1. Present(t)' => Present(t)
    <3>1. (\E e \in leaderSent' : e.id = t) => Present(t)
      BY <1>a DEF Present
    <3>2. (\E a \in acks' : a.id = t) => Present(t)
      BY <1>a DEF Present
    <3>3. (\E d \in drained' : d.id = t) => Present(t)
      BY <1>a DEF Present
    <3>4. (\E j \in Jobs : t \in stream'[j].unread \/ out'[j][t] > 0) => Present(t)
      BY DEF Present, Same
    <3>5. (\E n \in Nodes : outputBuffer'[n][t] > 0) => Present(t)
      BY DEF Present, Same
    <3>6. (\E u \in Tasks : \/ t \in received'[u] \/ t \in pipe'[u] \/ t \in processed'[u] \/ t \in sent'[u]
                            \/ t \in wal'[u].rec \/ t \in wal'[u].sent) => Present(t)
      BY DEF Present, Same
    <3> QED
      BY <3>1, <3>2, <3>3, <3>4, <3>5, <3>6 DEF Present
  <2> QED
    BY <1>5, <1>b, <2>1 DEF Origin, SameJobs
<1> QED
  BY <1>1, <1>2, <1>3, <1>4, <1>5 DEF LineInv

\* A delivery of line x does nothing to another line.
LEMMA DeliverOther ==
  ASSUME ManagersOK, running \subseteq Tasks, NEW v, NEW x, NEW t, t # x, NEW rest \in [Tasks -> SUBSET Lines],
         \A u \in Tasks : t \in rest[u] <=> t \in pipe[u], Deliver(v, x, rest)
  PROVE  /\ \A u \in Tasks : (t \in received'[u] <=> t \in received[u]) /\ (t \in pipe'[u] <=> t \in pipe[u])
         /\ {a \in acks' : a.id = t} = {a \in acks : a.id = t}
<1>a. received \in [Tasks -> SUBSET Lines]
  BY DEF ManagersOK
<1>1. CASE /\ v \in running /\ acks' = acks /\ received' = [received EXCEPT ![v] = @ \cup {x}]
           /\ pipe' = [rest EXCEPT ![v] = @ \cup {x}]
  <2>1. ASSUME NEW u \in Tasks
        PROVE  (t \in received'[u] <=> t \in received[u]) /\ (t \in pipe'[u] <=> t \in rest[u])
    <3>1. CASE u = v
      BY <1>a, <1>1, <3>1
    <3>2. CASE u # v
      BY <1>a, <1>1, <3>2
    <3> QED
      BY <3>1, <3>2
  <2> QED
    BY <1>1, <2>1
<1>2. CASE acks' = acks \cup {[to |-> Sender(v), id |-> x]} /\ pipe' = rest /\ received' = received
  <2>1. [to |-> Sender(v), id |-> x].id # t
    OBVIOUS
  <2>2. {a \in acks' : a.id = t} = {a \in acks : a.id = t}
    BY <1>2, <2>1
  <2> QED
    BY <1>2, <2>2
<1>3. CASE pipe' = rest /\ received' = received /\ acks' = acks
  BY <1>3
<1> QED
  BY <1>1, <1>2, <1>3, DeliverKinds

\* A step for one line does nothing to another one.
LEMMA FlowSame ==
  ASSUME AllOK, NEW t \in Lines,
         \/ \E j \in Jobs, x \in Lines \ {t} : readFileAndEmitTuples(j, x)
         \/ \E e \in leaderSent : e.id # t /\ RetryFromSource(e)
         \/ \E u \in Tasks, x \in Lines \ {t} : forwardTupleToDownstream(u, x) \/ RetryFromTask(u, x)
         \/ \E d \in drained : d.id # t /\ readTaskOutput(d)
         \/ \E a \in acks : a.id # t /\ handleACKMessage(a)
  PROVE  Same(t)
<1>a. /\ ManagersOK /\ OutOK /\ running \subseteq Tasks /\ pipe \in [Tasks -> SUBSET Lines]
      /\ stream \in [Jobs -> StreamType] /\ sent \in [Tasks -> SUBSET Lines] /\ processed \in [Tasks -> SUBSET Lines]
      /\ outputBuffer \in [Nodes -> LineCount]
  BY DEF AllOK, NodesOK, ManagersOK, LeaderOK, OutOK
<1>1. ASSUME NEW j \in Jobs, NEW x \in Lines \ {t}, readFileAndEmitTuples(j, x) PROVE Same(t)
  <2> DEFINE v == SelectTask(<<stream[j].topo, 1>>)
  <2>1. /\ stream' = [stream EXCEPT ![j].unread = @ \ {x}] /\ Deliver(v, x, pipe)
        /\ leaderSent' = {e \in leaderSent : e.id # x} \cup {[id |-> x, dest |-> v]}
        /\ UNCHANGED <<processed, sent, wal, drained, outputBuffer, out>>
    BY <1>1 DEF readFileAndEmitTuples, outVars
  <2>2. \A k \in Jobs : /\ t \in stream'[k].unread <=> t \in stream[k].unread
                        /\ stream'[k].topo = stream[k].topo
    BY <1>a, <2>1 DEF StreamType
  <2> HIDE DEF v
  <2>3. [id |-> x, dest |-> v].id # t
    OBVIOUS
  <2>4. {e \in leaderSent' : e.id = t} = {e \in leaderSent : e.id = t}
    BY <2>1, <2>3
  <2>5. /\ \A u \in Tasks : (t \in received'[u] <=> t \in received[u]) /\ (t \in pipe'[u] <=> t \in pipe[u])
        /\ {a \in acks' : a.id = t} = {a \in acks : a.id = t}
    <3>1. t # x /\ \A u \in Tasks : t \in pipe[u] <=> t \in pipe[u]
      OBVIOUS
    <3>2. ManagersOK /\ running \subseteq Tasks /\ pipe \in [Tasks -> SUBSET Lines] /\ Deliver(v, x, pipe)
      BY <1>a, <2>1
    <3> QED
      BY <3>1, <3>2, DeliverOther
  <2> QED
    BY <2>1, <2>2, <2>4, <2>5 DEF Same
<1>2. ASSUME NEW e \in leaderSent, e.id # t, RetryFromSource(e) PROVE Same(t)
  <2> DEFINE q == [e EXCEPT !.dest = SelectTask(e.dest)]
  <2>1. /\ Deliver(SelectTask(e.dest), e.id, pipe) /\ leaderSent' = (leaderSent \ {e}) \cup {q}
        /\ UNCHANGED <<stream, processed, sent, wal, drained, outputBuffer, out>>
    BY <1>2 DEF RetryFromSource, outVars
  <2>2. q.id # t
    <3>1. e \in [id : Lines, dest : Tasks]
      BY DEF AllOK, WireOK
    <3> QED
      BY <1>2, <3>1
  <2> HIDE DEF q
  <2>3. {f \in leaderSent' : f.id = t} = {f \in leaderSent : f.id = t}
    BY <1>2, <2>1, <2>2
  <2> QED
    BY <1>a, <1>2, <2>1, <2>3, DeliverOther DEF Same
<1>b. ASSUME NEW u \in Tasks, NEW x \in Lines \ {t}, NEW rest \in [Tasks -> SUBSET Lines],
             \A w \in Tasks : t \in rest[w] <=> t \in pipe[w], Forward(u, x, rest)
      PROVE  /\ \A w \in Tasks : (t \in received'[w] <=> t \in received[w]) /\ (t \in pipe'[w] <=> t \in pipe[w])
             /\ {a \in acks' : a.id = t} = {a \in acks : a.id = t}
             /\ \A n \in Nodes : outputBuffer'[n][t] = outputBuffer[n][t]
             /\ UNCHANGED <<stream, leaderSent, wal, out>>
  <2>1. /\ Deliver(NextStage(u), x, rest) \/ (pipe' = rest /\ UNCHANGED <<received, acks>>)
        /\ outputBuffer' = [outputBuffer EXCEPT ![Host[u]][x] = @ + 1] \/ outputBuffer' = outputBuffer
        /\ UNCHANGED <<stream, leaderSent, wal, out>>
    BY <1>b DEF Forward
  <2>2. \A n \in Nodes : outputBuffer'[n][t] = outputBuffer[n][t]
    <3>1. CASE outputBuffer' = [outputBuffer EXCEPT ![Host[u]] = [outputBuffer[Host[u]] EXCEPT ![x] = @ + 1]]
      BY <1>a, <3>1 DEF LineCount
    <3> QED
      BY <2>1, <3>1
  <2>3. CASE Deliver(NextStage(u), x, rest)
    <3>1. t # x /\ \A w \in Tasks : t \in rest[w] <=> t \in pipe[w]
      BY <1>b
    <3>3. ManagersOK /\ running \subseteq Tasks
      BY <1>a
    <3>2. /\ \A w \in Tasks : (t \in received'[w] <=> t \in received[w]) /\ (t \in pipe'[w] <=> t \in pipe[w])
          /\ {a \in acks' : a.id = t} = {a \in acks : a.id = t}
      BY <2>3, <3>1, <3>3, DeliverOther
    <3> QED
      BY <2>1, <2>2, <3>2
  <2>4. CASE pipe' = rest /\ UNCHANGED <<received, acks>>
    BY <1>b, <2>1, <2>2, <2>4
  <2> QED
    BY <2>1, <2>3, <2>4
<1>3. ASSUME NEW u \in Tasks, NEW x \in Lines \ {t}, forwardTupleToDownstream(u, x) PROVE Same(t)
  <2> DEFINE rest == [pipe EXCEPT ![u] = @ \ {x}]
  <2>1. /\ Forward(u, x, rest) /\ processed' = [processed EXCEPT ![u] = @ \cup {x}]
        /\ sent' = [sent EXCEPT ![u] = @ \cup {x}] \/ sent' = sent
        /\ drained' = drained
    BY <1>3 DEF forwardTupleToDownstream
  <2>2. rest \in [Tasks -> SUBSET Lines] /\ \A w \in Tasks : t \in rest[w] <=> t \in pipe[w]
    BY <1>a
  <2>3. \A w \in Tasks : /\ t \in processed'[w] <=> t \in processed[w]
                         /\ t \in sent'[w] <=> t \in sent[w]
    BY <1>a, <2>1
  <2> HIDE DEF rest
  <2> QED
    BY <1>b, <2>1, <2>2, <2>3 DEF Same
<1>4. ASSUME NEW u \in Tasks, NEW x \in Lines \ {t}, RetryFromTask(u, x) PROVE Same(t)
  <2>1. /\ Deliver(NextStage(u), x, pipe)
        /\ UNCHANGED <<stream, leaderSent, processed, sent, wal, drained, outputBuffer, out>>
    BY <1>4 DEF RetryFromTask, outVars
  <2> QED
    BY <1>a, <2>1, DeliverOther DEF Same
<1>5. ASSUME NEW d \in drained, d.id # t, readTaskOutput(d) PROVE Same(t)
  <2>1. d.task \in Tasks /\ d.id \in Lines \ {t}
    BY <1>a, <1>5 DEF ManagersOK
  <2>2. Forward(d.task, d.id, pipe) /\ drained' = drained \ {d} /\ UNCHANGED <<processed, sent>>
    BY <1>5 DEF readTaskOutput
  <2>3. {c \in drained' : c.id = t} = {c \in drained : c.id = t}
    BY <1>5, <2>2
  <2> QED
    BY <1>a, <1>b, <2>1, <2>2, <2>3 DEF Same
<1>6. ASSUME NEW a \in acks, a.id # t, handleACKMessage(a) PROVE Same(t)
  <2>1. /\ acks' = acks \ {a}
        /\ leaderSent' = leaderSent \/ leaderSent' = {e \in leaderSent : e.id # a.id}
        /\ sent' = sent \/ \E u \in running : sent' = [sent EXCEPT ![u] = @ \ {a.id}]
        /\ UNCHANGED <<stream, received, pipe, processed, wal, drained, outputBuffer, out>>
    BY <1>6 DEF handleACKMessage, outVars, ACKOwners
  <2>2. {b \in acks' : b.id = t} = {b \in acks : b.id = t}
    BY <1>6, <2>1
  <2>3. {e \in leaderSent' : e.id = t} = {e \in leaderSent : e.id = t}
    BY <1>6, <2>1
  <2>4. \A u \in Tasks : t \in sent'[u] <=> t \in sent[u]
    BY <1>a, <1>6, <2>1
  <2> QED
    BY <2>1, <2>2, <2>3, <2>4 DEF Same
<1> QED
  BY <1>1, <1>2, <1>3, <1>4, <1>5, <1>6

----------------------------------------------------------------------------
(* Every line that is somewhere was read from a source.                     *)

\* A step that puts line t nowhere unless it was somewhere keeps its origin.
LEMMA OriginKept ==
  ASSUME NEW t, Origin(t), scenario' = scenario, Present(t)' => Present(t),
         \A j \in Jobs : submit[j].pc = "done" => submit'[j].pc = "done"
  PROVE  Origin(t)'
BY DEF Origin, File

\* What starts or kills tasks takes the lines from their logs and pipes.
LEMMA OriginTasks ==
  ASSUME ManagersOK, NEW t \in Lines, Origin(t),
         \/ \E k \in Jobs, s \in Jobs, n \in Nodes : \E S \in SUBSET TasksOf(k) : StartStep(k, s, n, S)
         \/ \E u \in Tasks : KillStep(u)
  PROVE  Origin(t)'
<1>a. /\ UNCHANGED <<scenario, stream, leaderSent, acks, out, outputBuffer>>
      /\ \A j \in Jobs : submit'[j].pc = submit[j].pc
  BY DEF StartStep, KillStep, leaderVars, outVars
<1>b. ASSUME \A u \in Tasks : /\ received'[u] \subseteq received[u] \cup wal[u].rec /\ pipe'[u] \subseteq pipe[u]
                              /\ processed'[u] \subseteq processed[u] /\ sent'[u] \subseteq sent[u] \cup wal[u].sent
                              /\ wal'[u] = wal[u],
             \A d \in drained' : d \in drained \/ \E u \in Tasks : d.id \in pipe[u]
      PROVE  Origin(t)'
  <2>1. (\E d \in drained' : d.id = t) => Present(t)
    BY <1>b DEF Present
  <2>2. (\E u \in Tasks : \/ t \in received'[u] \/ t \in pipe'[u] \/ t \in processed'[u] \/ t \in sent'[u]
                          \/ t \in wal'[u].rec \/ t \in wal'[u].sent) => Present(t)
    BY <1>b DEF Present
  <2>3. Present(t)' => Present(t)
    BY <1>a, <2>1, <2>2 DEF Present
  <2> QED
    BY <1>a, <2>3, OriginKept
<1>1. ASSUME NEW k \in Jobs, NEW s \in Jobs, NEW n \in Nodes, NEW S \in SUBSET TasksOf(k), StartStep(k, s, n, S)
      PROVE  Origin(t)'
  <2>1. /\ received' = [u \in Tasks |-> IF u \in S THEN wal[u].rec ELSE received[u]]
        /\ sent' = [u \in Tasks |-> IF u \in S THEN wal[u].sent ELSE sent[u]]
        /\ UNCHANGED <<pipe, processed, wal, drained>>
    BY <1>1 DEF StartStep, Starts, StartTasks
  <2> QED
    BY <1>b, <2>1
<1>2. ASSUME NEW u \in Tasks, KillStep(u) PROVE Origin(t)'
  <2>1. CASE u \notin running
    BY <1>b, <1>2, <2>1 DEF KillStep, KillTaskProcess, tupleVars
  <2>2. CASE u \in running
    <3>1. PICK S \in SUBSET pipe[u] : drained' = drained \cup {[task |-> u, id |-> x] : x \in S}
      BY <1>2, <2>2 DEF KillStep, KillTaskProcess
    <3>2. /\ received' = [received EXCEPT ![u] = {}] /\ processed' = [processed EXCEPT ![u] = {}]
          /\ sent' = [sent EXCEPT ![u] = {}] /\ pipe' = [pipe EXCEPT ![u] = {}] /\ wal' = wal
      BY <1>2, <2>2 DEF KillStep, KillTaskProcess
    <3>3. \A d \in drained' : d \in drained \/ \E w \in Tasks : d.id \in pipe[w]
      BY <3>1
    <3> QED
      BY <1>b, <3>2, <3>3 DEF ManagersOK
  <2> QED
    BY <2>1, <2>2
<1> QED
  BY <1>1, <1>2

\* The steps of the tuples take a line from where it is.
LEMMA OriginFlow ==
  ASSUME AllOK, NEW t \in Lines, Origin(t), TupleFlow
  PROVE  Origin(t)'
<1>a. FlowStep /\ stale \in BOOLEAN /\ scenario' = scenario /\ submit' = submit
  BY FlowFrame DEF AllOK, OutOK, FlowStep, leaderVars
<1>b. LeaderOK /\ SameJobs /\ ManagersOK /\ OutOK
  BY <1>a DEF AllOK, SameJobs, FlowStep
<1>c. Present(t) => Origin(t)'
  BY <1>a, OriginKept
<1>d. Same(t) => Origin(t)'
  BY <1>b, SameKeeps
<1>1. ASSUME NEW j \in Jobs, NEW x \in Lines, readFileAndEmitTuples(j, x) PROVE Origin(t)'
  <2>1. x = t => Present(t)
    BY <1>1 DEF readFileAndEmitTuples, Present
  <2>2. x # t => Same(t)
    BY <1>1, FlowSame
  <2> QED
    BY <1>c, <1>d, <2>1, <2>2
<1>2. ASSUME NEW e \in leaderSent, RetryFromSource(e) PROVE Origin(t)'
  <2>1. e.id = t => Present(t)
    BY DEF Present
  <2>2. e.id # t => Same(t)
    BY <1>2, FlowSame
  <2> QED
    BY <1>c, <1>d, <2>1, <2>2
<1>3. ASSUME NEW u \in Tasks, NEW x \in Lines, forwardTupleToDownstream(u, x) \/ RetryFromTask(u, x)
      PROVE  Origin(t)'
  <2>1. x = t => Present(t)
    BY <1>3 DEF forwardTupleToDownstream, RetryFromTask, Present
  <2>2. x # t => Same(t)
    BY <1>3, FlowSame
  <2> QED
    BY <1>c, <1>d, <2>1, <2>2
<1>4. ASSUME NEW d \in drained, readTaskOutput(d) PROVE Origin(t)'
  <2>1. d.id = t => Present(t)
    BY DEF Present
  <2>2. d.id # t => Same(t)
    BY <1>4, FlowSame
  <2> QED
    BY <1>c, <1>d, <2>1, <2>2
<1>5. ASSUME NEW a \in acks, handleACKMessage(a) PROVE Origin(t)'
  <2>1. a.id = t => Present(t)
    BY DEF Present
  <2>2. a.id # t => Same(t)
    BY <1>5, FlowSame
  <2> QED
    BY <1>c, <1>d, <2>1, <2>2
<1>6. ASSUME NEW u \in Tasks, FlushAcks(u) PROVE Origin(t)'
  <2>1. /\ wal' = [wal EXCEPT ![u] = Durable(u)]
        /\ acks' = acks \cup {[to |-> Sender(u), id |-> x] : x \in processed[u]}
        /\ processed' = [processed EXCEPT ![u] = {}]
        /\ UNCHANGED <<stream, leaderSent, received, pipe, sent, drained, outputBuffer, out>>
    BY <1>6 DEF FlushAcks, outVars
  <2>2. Durable(u).rec = wal[u].rec \cup processed[u] /\ Durable(u).sent = sent[u]
    BY DEF Durable
  <2>3. \A w \in Tasks : t \in processed'[w] \/ t \in wal'[w].rec \/ t \in wal'[w].sent => Present(t)
    BY <1>b, <2>1, <2>2 DEF Present, ManagersOK
  <2>4. (\E a \in acks' : a.id = t) => Present(t)
    BY <2>1 DEF Present
  <2>5. Present(t)' => Present(t)
    BY <2>1, <2>3, <2>4 DEF Present
  <2> QED
    BY <1>a, <2>5, OriginKept
<1>7. ASSUME NEW n \in Nodes, NEW j \in Jobs, startOutputFlushLoop(n, j) PROVE Origin(t)'
  <2>1. /\ out' = [out EXCEPT ![j] = [x \in Lines |-> @[x] + outputBuffer[n][x]]]
        /\ outputBuffer' = [outputBuffer EXCEPT ![n] = NoLines]
        /\ UNCHANGED <<stream, leaderSent, acks, received, pipe, processed, sent, wal, drained>>
    BY <1>7 DEF startOutputFlushLoop, tupleVars
  <2>2. NoLines[t] = 0 /\ out[j][t] \in Nat /\ outputBuffer[n][t] \in Nat
    BY <1>b DEF NoLines, OutOK, LineCount
  <2>3. \A m \in Nodes : outputBuffer'[m][t] > 0 => Present(t)
    BY <1>b, <2>1, <2>2 DEF OutOK, Present
  <2>4. \A k \in Jobs : out'[k][t] > 0 => Present(t)
    <3>1. out'[j][t] = out[j][t] + outputBuffer[n][t] /\ \A k \in Jobs \ {j} : out'[k] = out[k]
      BY <1>b, <2>1 DEF OutOK
    <3>2. out'[j][t] > 0 => out[j][t] > 0 \/ outputBuffer[n][t] > 0
      BY <2>2, <3>1
    <3> QED
      BY <3>1, <3>2 DEF Present
  <2>5. Present(t)' => Present(t)
    BY <2>1, <2>3, <2>4 DEF Present
  <2> QED
    BY <1>a, <2>5, OriginKept
<1> QED
  BY <1>1, <1>2, <1>3, <1>4, <1>5, <1>6, <1>7 DEF TupleFlow

LEMMA OriginNext ==
  ASSUME AllOK, Orderly, Phases, NEW t \in Lines, Origin(t), [Next]_vars
  PROVE  Origin(t)'
<1>a. /\ submit \in [Jobs -> SubmitType] /\ stream \in [Jobs -> StreamType] /\ ManagersOK
  BY DEF AllOK, LeaderOK
<1>1. CASE IdleStep
  <2>1. Present(t)' => Present(t)
    BY <1>1 DEF IdleStep, Present, tupleVars, outVars
  <2> QED
    BY <1>1, <2>1, OriginKept DEF IdleStep
<1>2. CASE StreamStart
  <2>1. /\ stream' = [stream EXCEPT ![last] = [topo |-> last, unread |-> File(last)]] /\ last \in Jobs
        /\ submit'[last].pc = "done" /\ \A k \in Jobs \ {last} : submit'[k] = submit[k]
        /\ UNCHANGED <<scenario, received, pipe, processed, sent, wal, drained, leaderSent, acks, out, outputBuffer>>
    BY <1>2 DEF StreamStart, tupleVars, outVars
  <2>2. \A j \in Jobs : t \in stream'[j].unread => t \in stream[j].unread \/ t \in File(last)
    BY <1>a, <2>1
  <2>3. Present(t)' => Present(t) \/ t \in File(last)
    BY <2>1, <2>2 DEF Present
  <2>4. \A j \in Jobs : submit[j].pc = "done" => submit'[j].pc = "done"
    BY <2>1
  <2>5. CASE t \in File(last)
    BY <2>1, <2>5 DEF Origin, File
  <2>6. CASE t \notin File(last)
    BY <2>1, <2>3, <2>4, <2>6, OriginKept
  <2> QED
    BY <2>5, <2>6
<1>3. ASSUME NEW j \in Jobs, SubmitJob(j) PROVE Origin(t)'
  <2>1. /\ submit[j].pc = "new" /\ \A k \in Jobs \ {j} : submit'[k] = submit[k]
        /\ UNCHANGED <<scenario, stream, received, pipe, processed, sent, wal, drained, leaderSent, acks, out, outputBuffer>>
    BY <1>3, <1>a DEF SubmitJob, LeaderOnly, leaderVars, tupleVars, outVars, SubmitType
  <2>2. Present(t)' => Present(t)
    BY <2>1 DEF Present
  <2>3. \A k \in Jobs : submit[k].pc = "done" => submit'[k].pc = "done"
    BY <2>1
  <2> QED
    BY <2>1, <2>2, <2>3, OriginKept
<1> QED
  BY <1>a, <1>1, <1>2, <1>3, StepKinds, OriginTasks, OriginFlow

----------------------------------------------------------------------------
(* What holds of a line of the latest job.                                  *)

\* What the parts of the invariant say after a step in which the latest job and the
\* files stay the same.
LEMMA LineGoals ==
  ASSUME LeaderOK, UNCHANGED <<scenario, last>>, NEW t
  PROVE  /\ OfLast(t)' = OfLast(t) /\ FinalTask' = FinalTask /\ TasksOf(last)' = TasksOf(last)
         /\ OfLast(t) => last \in Jobs
         /\ \A j \in Jobs : File(j)' = File(j)
         /\ (/\ OfLast(t) =>
                  /\ t \in pipe'[FinalTask] => outputBuffer'[Host[FinalTask]][t] = 0 /\ out'[last][t] = 0
                  /\ outputBuffer'[Host[FinalTask]][t] > 0 =>
                       outputBuffer'[Host[FinalTask]][t] = 1 /\ out'[last][t] = 0
                  /\ out'[last][t] <= 1
                  /\ outputBuffer'[Host[FinalTask]][t] > 0 \/ out'[last][t] > 0 => t \in received'[FinalTask]
             /\ \A j \in Jobs : ~(OfLast(t) /\ j = last) => out'[j][t] <= (IF t \in File(j) THEN 1 ELSE 0))
            => OnceOut(t)'
         /\ (OfLast(t) =>
                  /\ \/ stream'[last].topo = NoJob \/ t \in stream'[last].unread
                     \/ (\E e \in leaderSent' : e.id = t) \/ t \in received'[<<last, 1>>]
                  /\ \A u \in TasksOf(last) : t \in received'[u] =>
                       \/ \E w \in TasksOf(last) : w[2] >= u[2] /\ t \in pipe'[w] \cup sent'[w]
                       \/ outputBuffer'[Host[FinalTask]][t] > 0 \/ out'[last][t] > 0)
            => Handed(t)'
<1>1. OfLast(t)' = OfLast(t) /\ FinalTask' = FinalTask /\ TasksOf(last)' = TasksOf(last)
  BY DEF OfLast, FinalTask, TasksOf, File
<1>2. (OfLast(t) => last \in Jobs) /\ \A j \in Jobs : File(j)' = File(j)
  BY DEF OfLast, LeaderOK, File
<1> QED
  BY <1>1, <1>2 DEF OnceOut, Handed

\* Steps that start or kill tasks of earlier jobs, or start tasks of the latest one.
LEMMA TaskLines ==
  ASSUME AllOK, NEW t \in Lines, LineInv(t),
         UNCHANGED <<scenario, last, stream, leaderSent, acks, out, outputBuffer, wal>>,
         \A j \in Jobs : submit'[j].pc = submit[j].pc,
         \A u \in Tasks : u[1] = last => received'[u] = received[u] /\ pipe'[u] = pipe[u] /\ sent'[u] = sent[u],
         \A u \in Tasks : /\ pipe'[u] \subseteq pipe[u] /\ processed'[u] \subseteq processed[u]
                          /\ sent'[u] \subseteq sent[u] \cup wal[u].sent,
         \A d \in drained' : d.id = t => d \in drained
  PROVE  LineInv(t)'
<1>a. LeaderOK /\ OnlyLast(t) /\ SentOnward(t) /\ OnceOut(t) /\ Handed(t)
  BY DEF AllOK, LineInv
<1>b. /\ OfLast(t)' = OfLast(t) /\ FinalTask' = FinalTask /\ last' = last
      /\ OfLast(t) => last \in Jobs
  BY <1>a, LineGoals
<1>c. ASSUME last \in Jobs
      PROVE  /\ FinalTask \in Tasks /\ FinalTask[1] = last /\ <<last, 1>> \in Tasks /\ <<last, 1>>[1] = last
             /\ \A u \in TasksOf(last) : u \in Tasks /\ u[1] = last
  BY <1>c, FinalFacts
<1>1. OnlyLast(t)'
  <2>1. \A e \in leaderSent' : e.id = t => OfLast(t)' /\ submit'[last'].pc = "done" /\ e.dest[1] = last'
    BY <1>a, <1>b DEF OnlyLast
  <2>2. \A u \in Tasks : t \in pipe'[u] \cup processed'[u] => OfLast(t)' /\ u[1] = last'
    BY <1>a, <1>b DEF OnlyLast
  <2>3. \A d \in drained' : d.id # t
    BY <1>a DEF OnlyLast
  <2> QED
    BY <1>a, <1>b, <2>1, <2>2, <2>3 DEF OnlyLast
<1>2. SentOnward(t)'
  <2>1. ASSUME NEW u \in Tasks, t \in sent'[u] \cup wal'[u].sent
        PROVE  /\ NextStage(u) \in Tasks
               /\ IF u[1] # last' THEN t \in wal'[NextStage(u)].rec
                  ELSE OfLast(t)' /\ (t \in sent'[u] \/ t \in received'[NextStage(u)])
    <3>1. /\ NextStage(u) \in Tasks
          /\ IF u[1] # last THEN t \in wal[NextStage(u)].rec
             ELSE OfLast(t) /\ (t \in sent[u] \/ t \in received[NextStage(u)])
      BY <1>a, <2>1 DEF SentOnward
    <3>2. NextStage(u)[1] = u[1]
      BY DEF NextStage
    <3> QED
      BY <1>b, <3>1, <3>2
  <2>2. ASSUME NEW a \in acks', a.id = t
        PROVE  /\ a.to = Leader => last' # NoJob /\ t \in received'[<<last', 1>>]
               /\ a.to # Leader /\ a.to[1] = last' => NextStage(a.to) \in Tasks /\ t \in received'[NextStage(a.to)]
    <3>1. /\ a.to = Leader => last # NoJob /\ t \in received[<<last, 1>>]
          /\ a.to # Leader /\ a.to[1] = last => NextStage(a.to) \in Tasks /\ t \in received[NextStage(a.to)]
      BY <1>a, <2>2 DEF SentOnward
    <3>2. NextStage(a.to)[1] = a.to[1]
      BY DEF NextStage
    <3>3. last # NoJob => last \in Jobs
      BY <1>a DEF LeaderOK
    <3> QED
      BY <1>b, <1>c, <3>1, <3>2, <3>3
  <2> QED
    BY <2>1, <2>2 DEF SentOnward, NextStage
<1>3. OnceOut(t)'
  <2>1. ASSUME OfLast(t)
        PROVE  pipe'[FinalTask] = pipe[FinalTask] /\ received'[FinalTask] = received[FinalTask]
    BY <1>b, <1>c, <2>1
  <2> QED
    BY <1>a, <2>1, LineGoals DEF OnceOut
<1>4. Handed(t)'
  <2>1. ASSUME OfLast(t)
        PROVE  /\ received'[<<last, 1>>] = received[<<last, 1>>]
               /\ \A u \in TasksOf(last) : received'[u] = received[u] /\ pipe'[u] = pipe[u] /\ sent'[u] = sent[u]
    BY <1>b, <1>c, <2>1
  <2> QED
    BY <1>a, <2>1, LineGoals DEF Handed
<1> QED
  BY <1>1, <1>2, <1>3, <1>4 DEF LineInv

LEMMA StartLines ==
  ASSUME AllOK, Phases, NEW t \in Lines, LineInv(t), NEW k \in Jobs, NEW s \in Jobs, NEW n \in Nodes,
         NEW S \in SUBSET TasksOf(k), StartStep(k, s, n, S)
  PROVE  LineInv(t)'
<1>a. ManagersOK /\ NodesOK /\ LatestRuns /\ Managed
  BY DEF AllOK, Phases
<1>1. /\ UNCHANGED <<scenario, last, stream, leaderSent, acks, out, outputBuffer, wal, pipe, processed, drained>>
      /\ \A j \in Jobs : submit'[j].pc = submit[j].pc
      /\ received' = [u \in Tasks |-> IF u \in S THEN wal[u].rec ELSE received[u]]
      /\ sent' = [u \in Tasks |-> IF u \in S THEN wal[u].sent ELSE sent[u]]
      /\ S \cap running = {}
  BY DEF StartStep, Starts, StartTasks, leaderVars, outVars
<1>2. ASSUME NEW u \in Tasks, u[1] = last PROVE received'[u] = received[u] /\ sent'[u] = sent[u]
  <2>1. CASE u \in S
    <3>1. u \notin used
      BY <1>a, <1>1, <1>2, <2>1 DEF LatestRuns
    <3>2. wal[u].rec = {} /\ wal[u].sent = {}
      BY <1>a, <3>1 DEF Managed
    <3>3. received[u] = {} /\ sent[u] = {}
      BY <1>a, <1>1, <2>1 DEF ManagersOK
    <3> QED
      BY <1>1, <2>1, <3>2, <3>3
  <2>2. CASE u \notin S
    BY <1>1, <2>2
  <2> QED
    BY <2>1, <2>2
<1>3. \A u \in Tasks : sent'[u] \subseteq sent[u] \cup wal[u].sent
  BY <1>1
<1> QED
  BY <1>1, <1>2, <1>3, TaskLines

LEMMA KillLines ==
  ASSUME AllOK, NEW t \in Lines, LineInv(t), NEW v \in Tasks, KillStep(v)
  PROVE  LineInv(t)'
<1>a. ManagersOK /\ OnlyLast(t)
  BY DEF AllOK, LineInv
<1>1. /\ UNCHANGED <<scenario, last, stream, leaderSent, acks, out, outputBuffer, wal>>
      /\ \A j \in Jobs : submit'[j].pc = submit[j].pc
      /\ v[1] # last
  BY DEF KillStep, KillTaskProcess, leaderVars, outVars, tupleVars
<1>2. CASE v \notin running
  BY <1>1, <1>2, TaskLines DEF KillStep, KillTaskProcess, tupleVars
<1>3. CASE v \in running
  <2>1. /\ received' = [received EXCEPT ![v] = {}] /\ processed' = [processed EXCEPT ![v] = {}]
        /\ sent' = [sent EXCEPT ![v] = {}] /\ pipe' = [pipe EXCEPT ![v] = {}]
    BY <1>3 DEF KillStep, KillTaskProcess
  <2>2. PICK D \in SUBSET pipe[v] : drained' = drained \cup {[task |-> v, id |-> x] : x \in D}
    BY <1>3 DEF KillStep, KillTaskProcess
  <2>3. t \notin pipe[v]
    BY <1>a, <1>1 DEF OnlyLast
  <2>4. \A d \in drained' : d.id = t => d \in drained
    BY <2>2, <2>3
  <2>5. \A u \in Tasks : u[1] = last => received'[u] = received[u] /\ pipe'[u] = pipe[u] /\ sent'[u] = sent[u]
    BY <1>a, <1>1, <2>1 DEF ManagersOK
  <2>6. \A u \in Tasks : /\ pipe'[u] \subseteq pipe[u] /\ processed'[u] \subseteq processed[u]
                         /\ sent'[u] \subseteq sent[u] \cup wal[u].sent
    BY <1>a, <2>1 DEF ManagersOK
  <2> QED
    BY <1>1, <2>4, <2>5, <2>6, TaskLines
<1> QED
  BY <1>2, <1>3

\* The source of the latest job starts: each of its lines is unread.
LEMMA StreamLines ==
  ASSUME AllOK, NEW t \in Lines, LineInv(t), StreamStart
  PROVE  LineInv(t)'
<1>a. /\ LeaderOK /\ OnlyLast(t) /\ SentOnward(t) /\ OnceOut(t) /\ Handed(t)
      /\ stream \in [Jobs -> StreamType]
  BY DEF AllOK, LineInv, LeaderOK
<1>1. /\ stream' = [stream EXCEPT ![last] = [topo |-> last, unread |-> File(last)]] /\ last \in Jobs
      /\ submit'[last].pc = "done"
      /\ UNCHANGED <<scenario, last, received, pipe, processed, sent, wal, drained, leaderSent, acks, out, outputBuffer>>
  BY DEF StreamStart, tupleVars, outVars
<1>b. OfLast(t)' = OfLast(t) /\ FinalTask' = FinalTask
  BY <1>a, <1>1, LineGoals
<1>2. OnlyLast(t)'
  <2>1. \A j \in Jobs : t \in stream'[j].unread => j = last
    BY <1>a, <1>1 DEF OnlyLast
  <2> QED
    BY <1>a, <1>b, <1>1, <2>1 DEF OnlyLast
<1>3. SentOnward(t)'
  BY <1>a, <1>b, <1>1 DEF SentOnward, NextStage
<1>4. OnceOut(t)'
  BY <1>a, <1>1, LineGoals DEF OnceOut
<1>5. Handed(t)'
  <2>1. OfLast(t) => t \in stream'[last].unread
    BY <1>a, <1>1 DEF OfLast
  <2> QED
    BY <1>a, <1>1, <2>1, LineGoals DEF Handed
<1> QED
  BY <1>2, <1>3, <1>4, <1>5 DEF LineInv

\* A job is submitted, and its lines become those of the latest job.  Either nothing is
\* on its way, or they are in no other file and were never read.
LEMMA SubmitLines ==
  ASSUME AllOK, Phases, NEW t \in Lines, Origin(t), Counts(t) => LineInv(t), NEW j \in Jobs, SubmitJob(j), Counts(t)'
  PROVE  LineInv(t)'
<1>a. /\ LeaderOK /\ ManagersOK /\ NodesOK /\ OutOK /\ Unheard(j) /\ Streaming(j) /\ Managed /\ j # NoJob
  BY JobsAssumption DEF AllOK, Phases
<1>b. /\ submit[j].pc = "new" /\ last' = j /\ busy' = (busy \/ ~Rest)
      /\ UNCHANGED <<scenario, stream, received, pipe, processed, sent, wal, drained, leaderSent, acks, out,
                     outputBuffer, stale, mistaken>>
  BY DEF SubmitJob, LeaderOnly, leaderVars, tupleVars, outVars
<1>c. /\ \A k \in Jobs : File(k)' = File(k)
      /\ OfLast(t)' <=> t \in File(j)
      /\ FinalTask' = <<j, NStages[j]>> /\ FinalTask' \in Tasks /\ Host[FinalTask'] \in Nodes
      /\ TasksOf(j) \subseteq Tasks /\ TasksOf(last)' = TasksOf(j) /\ \A u \in Tasks : u[1] = j => u \in TasksOf(j)
  <2>1. /\ \A k \in Jobs : File(k)' = File(k)
        /\ OfLast(t)' <=> t \in File(j)
        /\ FinalTask' = <<j, NStages[j]>>
    BY <1>a, <1>b DEF File, OfLast, FinalTask
  <2>2. <<j, NStages[j]>> \in TasksOf(j) /\ TasksOf(j) \subseteq Tasks
    BY <1>a, JobsAssumption, TaskFacts DEF TasksOf
  <2>3. Host[<<j, NStages[j]>>] \in Nodes /\ \A u \in Tasks : u[1] = j => u \in TasksOf(j)
    BY <2>2, TaskFacts
  <2>4. TasksOf(last)' = TasksOf(j)
    BY <1>b DEF TasksOf
  <2> QED
    BY <2>1, <2>2, <2>3, <2>4
<1>d. /\ \A u \in TasksOf(j) : /\ received[u] = {} /\ pipe[u] = {} /\ processed[u] = {} /\ sent[u] = {}
                               /\ wal[u].rec = {} /\ wal[u].sent = {}
      /\ out[j][t] = 0 /\ stream[j].topo = NoJob
  <2>1. \A u \in TasksOf(j) : u \in Tasks /\ u \notin used /\ u \notin running
    BY <1>a, <1>b, <1>c, TaskFacts DEF Unheard, NodesOK, TasksOf
  <2>2. out[j] = NoLines /\ stream[j] = NoStream
    BY <1>a, <1>b DEF Unheard, Streaming
  <2> QED
    BY <1>a, <2>1, <2>2 DEF Managed, ManagersOK, NoLines, NoStream
<1>e. <<j, NStages[j]>> \in TasksOf(j)
  BY <1>a, JobsAssumption DEF TasksOf
<1>f. \A k \in Jobs : out[k][t] \in Nat
  BY <1>a DEF OutOK, LineCount
<1>g. \A n \in Nodes : outputBuffer[n][t] \in Nat
  BY <1>a DEF OutOK, LineCount
<1>1. ASSUME \A n \in Nodes : outputBuffer[n][t] = 0, \A k \in Jobs \ {j} : out[k][t] <= (IF t \in File(k) THEN 1 ELSE 0)
      PROVE  OnceOut(t)'
  <2>1. outputBuffer'[Host[FinalTask']][t] = 0 /\ out'[j][t] = 0
    BY <1>1, <1>b, <1>c, <1>d
  <2>2. t \notin pipe'[FinalTask']
    BY <1>b, <1>c, <1>d, <1>e
  <2>3. \A k \in Jobs : out'[k][t] <= (IF t \in File(k)' THEN 1 ELSE 0)
    BY <1>1, <1>b, <1>c, <1>d
  <2> QED
    BY <1>b, <2>1, <2>2, <2>3 DEF OnceOut
<1>2. Handed(t)'
  BY <1>b, <1>c, <1>d DEF Handed
<1>3. CASE busy'
  <2>1. t \in File(j) /\ \A k \in Jobs \ {j} : t \notin File(k)
    BY <1>3, <1>b, <1>c DEF Counts
  <2>2. ~Present(t)
    BY <1>b, <2>1 DEF Origin
  <2>3. /\ \A k \in Jobs : t \notin stream[k].unread /\ ~(out[k][t] > 0)
        /\ \A e \in leaderSent : e.id # t
        /\ \A a \in acks : a.id # t
        /\ \A d \in drained : d.id # t
        /\ \A u \in Tasks : t \notin pipe[u] \cup processed[u] /\ t \notin sent[u] \cup wal[u].sent
        /\ \A n \in Nodes : ~(outputBuffer[n][t] > 0)
    BY <2>2 DEF Present
  <2>4. OnlyLast(t)'
    BY <1>b, <2>3 DEF OnlyLast
  <2>5. SentOnward(t)'
    BY <1>b, <2>3 DEF SentOnward
  <2>6. OnceOut(t)'
    BY <1>1, <1>f, <1>g, <2>3
  <2> QED
    BY <1>2, <2>4, <2>5, <2>6 DEF LineInv
<1>4. CASE ~busy'
  <2>1. ~busy /\ Rest /\ Counts(t)
    BY <1>4, <1>b DEF Counts
  <2>2. OnlyLast(t) /\ SentOnward(t) /\ OnceOut(t)
    BY <2>1 DEF LineInv
  <2>3. /\ \A k \in Jobs : stream[k].unread = {}
        /\ leaderSent = {} /\ acks = {} /\ drained = {}
        /\ \A u \in Tasks : pipe[u] = {} /\ processed[u] = {} /\ sent[u] = {}
        /\ \A n \in Nodes : outputBuffer[n][t] = 0
    BY <1>a, <2>1 DEF Rest, ManagersOK, NoLines
  <2>4. OnlyLast(t)'
    BY <1>b, <2>3 DEF OnlyLast
  <2>5. SentOnward(t)'
    <3>1. ASSUME NEW u \in Tasks, t \in wal[u].sent
          PROVE  NextStage(u) \in Tasks /\ u[1] # j /\ t \in wal[NextStage(u)].rec
      <4>1. /\ NextStage(u) \in Tasks
            /\ IF u[1] # last THEN t \in wal[NextStage(u)].rec
               ELSE OfLast(t) /\ (t \in sent[u] \/ t \in received[NextStage(u)])
        BY <2>2, <3>1 DEF SentOnward
      <4>2. u[1] # j
        BY <1>c, <1>d, <3>1
      <4>3. t \in received[NextStage(u)] => t \in wal[NextStage(u)].rec
        BY <1>a, <2>3, <4>1 DEF Managed, ManagersOK
      <4> QED
        BY <2>3, <4>1, <4>2, <4>3
    <3> QED
      BY <1>b, <2>3, <3>1 DEF SentOnward, NextStage
  <2>6. \A k \in Jobs \ {j} : out[k][t] <= (IF t \in File(k) THEN 1 ELSE 0)
    BY <2>2 DEF OnceOut, OfLast
  <2>7. OnceOut(t)'
    BY <1>1, <2>3, <2>6
  <2> QED
    BY <1>2, <2>4, <2>5, <2>7 DEF LineInv
<1> QED
  BY <1>3, <1>4

\* The sender of a task of a later stage is the task before it.
LEMMA SenderIsTask ==
  ASSUME NEW v \in Tasks
  PROVE  /\ v[2] = 1 => Sender(v) = Leader /\ v = <<v[1], 1>>
         /\ v[2] # 1 => /\ Sender(v) \in Tasks /\ Sender(v) # Leader /\ Sender(v)[1] = v[1]
                        /\ NextStage(Sender(v)) = v
<1>1. v[1] \in Jobs /\ v[2] \in 1..NStages[v[1]] /\ v = <<v[1], v[2]>> /\ Leader \notin Tasks
      /\ NStages[v[1]] \in Nat
  BY TaskFacts, JobsAssumption
<1>2. v[2] # 1 => Sender(v) = <<v[1], v[2] - 1>> /\ NextStage(Sender(v)) = v
  BY <1>1 DEF Sender, NextStage
<1>3. v[2] # 1 => <<v[1], v[2] - 1>> \in Tasks
  <2>1. ASSUME v[2] # 1 PROVE <<v[1], v[2] - 1>> \in TasksOf(v[1])
    BY <1>1, <2>1, JobsAssumption DEF TasksOf
  <2> QED
    BY <1>1, <2>1, TaskFacts
<1> QED
  BY <1>1, <1>2, <1>3 DEF Sender

\* A delivery of a line of the latest job to one of its tasks.  Whoever sent it still has
\* it, or it is not its turn to be sent away.
LEMMA DeliverLines ==
  ASSUME AllOK, NEW t \in Lines, LineInv(t), OfLast(t), NEW v \in TasksOf(last), Deliver(v, t, pipe),
         UNCHANGED <<scenario, last, submit, processed, sent, wal, drained, out, outputBuffer>>,
         \A j \in Jobs : /\ t \in stream'[j].unread => t \in stream[j].unread
                         /\ stream'[j].topo = stream[j].topo,
         \A e \in leaderSent' : e.id = t => submit[last].pc = "done" /\ e.dest[1] = last,
         (\E e \in leaderSent' : e.id = t) \/ UNCHANGED <<leaderSent, stream>>
  PROVE  LineInv(t)'
<1>a. /\ LeaderOK /\ ManagersOK /\ OutOK /\ OnlyLast(t) /\ SentOnward(t) /\ OnceOut(t) /\ Handed(t)
      /\ received \in [Tasks -> SUBSET Lines] /\ pipe \in [Tasks -> SUBSET Lines] /\ last \in Jobs
  BY DEF AllOK, LineInv, ManagersOK, LeaderOK, OfLast
<1>b. OfLast(t)' = OfLast(t) /\ FinalTask' = FinalTask
  BY <1>a, LineGoals
<1>c. /\ FinalTask \in Tasks /\ Host[FinalTask] \in Nodes /\ <<last, 1>> \in TasksOf(last)
      /\ \A u \in TasksOf(last) : u \in Tasks /\ u[1] = last /\ u[2] \in Nat
  BY <1>a, JobsAssumption, FinalFacts
<1>d. \A u \in Tasks : /\ received[u] \subseteq received'[u] /\ pipe[u] \subseteq pipe'[u]
                       /\ t \in received'[u] => t \in received[u] \/ u = v
                       /\ t \in pipe'[u] => t \in pipe[u] \/ u = v
                       /\ t \in received'[u] => t \in received[u] \/ t \in pipe'[u]
                       /\ t \in pipe'[u] => t \in pipe[u] \/ t \notin received[u]
  BY <1>a, DeliverKinds
<1>e. \A a \in acks' : a \in acks \/ (a = [to |-> Sender(v), id |-> t] /\ t \in received[v])
  BY DeliverKinds
<1>1. OnlyLast(t)'
  <2>1. \A e \in leaderSent' : e.id = t => OfLast(t)' /\ submit'[last'].pc = "done" /\ e.dest[1] = last'
    BY <1>b
  <2>2. \A u \in Tasks : t \in pipe'[u] \cup processed'[u] => OfLast(t)' /\ u[1] = last'
    BY <1>a, <1>b, <1>c, <1>d DEF OnlyLast
  <2> QED
    BY <1>a, <1>b, <2>1, <2>2 DEF OnlyLast
<1>2. SentOnward(t)'
  <2>1. ASSUME NEW u \in Tasks, t \in sent'[u] \cup wal'[u].sent
        PROVE  /\ NextStage(u) \in Tasks
               /\ IF u[1] # last' THEN t \in wal'[NextStage(u)].rec
                  ELSE OfLast(t)' /\ (t \in sent'[u] \/ t \in received'[NextStage(u)])
    BY <1>a, <1>b, <1>d, <2>1 DEF SentOnward
  <2>2. ASSUME NEW a \in acks', a.id = t
        PROVE  /\ a.to = Leader => last # NoJob /\ t \in received'[<<last, 1>>]
               /\ a.to # Leader /\ a.to[1] = last => NextStage(a.to) \in Tasks /\ t \in received'[NextStage(a.to)]
    <3>1. CASE a \in acks
      BY <1>a, <1>c, <1>d, <2>2, <3>1 DEF SentOnward
    <3>2. CASE a = [to |-> Sender(v), id |-> t] /\ t \in received[v]
      <4>1. v \in Tasks /\ v[1] = last /\ last # NoJob
        BY <1>a, <1>c, JobsAssumption
      <4> QED
        BY <1>d, <3>2, <4>1, SenderIsTask
    <3> QED
      BY <1>e, <3>1, <3>2
  <2> QED
    BY <2>1, <2>2 DEF SentOnward, NextStage
<1>3. OnceOut(t)'
  <2>1. /\ outputBuffer[Host[FinalTask]][t] \in Nat /\ out[last][t] \in Nat
    BY <1>a, <1>c DEF OutOK, LineCount
  <2>2. /\ t \in pipe[FinalTask] => outputBuffer[Host[FinalTask]][t] = 0 /\ out[last][t] = 0
        /\ outputBuffer[Host[FinalTask]][t] > 0 => outputBuffer[Host[FinalTask]][t] = 1 /\ out[last][t] = 0
        /\ out[last][t] <= 1
        /\ outputBuffer[Host[FinalTask]][t] > 0 \/ out[last][t] > 0 => t \in received[FinalTask]
    BY <1>a DEF OnceOut
  <2>3. t \in pipe'[FinalTask] => outputBuffer[Host[FinalTask]][t] = 0 /\ out[last][t] = 0
    BY <1>c, <1>d, <2>1, <2>2
  <2>4. t \in received[FinalTask] => t \in received'[FinalTask]
    BY <1>c, <1>d
  <2>5. \A j \in Jobs : ~(OfLast(t) /\ j = last) => out[j][t] <= (IF t \in File(j) THEN 1 ELSE 0)
    BY <1>a DEF OnceOut
  <2> QED
    BY <1>a, <2>2, <2>3, <2>4, <2>5, LineGoals
<1>4. Handed(t)'
  <2>1. /\ \/ stream[last].topo = NoJob \/ t \in stream[last].unread \/ \E e \in leaderSent : e.id = t
           \/ t \in received[<<last, 1>>]
        /\ \A u \in TasksOf(last) : t \in received[u] =>
             \/ \E w \in TasksOf(last) : w[2] >= u[2] /\ t \in pipe[w] \cup sent[w]
             \/ outputBuffer[Host[FinalTask]][t] > 0 \/ out[last][t] > 0
    BY <1>a DEF Handed
  <2>2. \/ stream'[last].topo = NoJob \/ t \in stream'[last].unread
        \/ (\E e \in leaderSent' : e.id = t) \/ t \in received'[<<last, 1>>]
    BY <1>c, <1>d, <2>1
  <2>3. ASSUME NEW u \in TasksOf(last), t \in received'[u]
        PROVE  \/ \E w \in TasksOf(last) : w[2] >= u[2] /\ t \in pipe'[w] \cup sent'[w]
               \/ outputBuffer'[Host[FinalTask]][t] > 0 \/ out'[last][t] > 0
    <3>1. CASE t \in received[u]
      BY <1>c, <1>d, <2>1, <3>1
    <3>2. CASE t \notin received[u]
      <4>1. t \in pipe'[u] /\ u[2] >= u[2]
        BY <1>c, <1>d, <2>3, <3>2
      <4> QED
        BY <4>1
    <3> QED
      BY <3>1, <3>2
  <2> QED
    BY <1>a, <2>2, <2>3, LineGoals
<1> QED
  BY <1>1, <1>2, <1>3, <1>4 DEF LineInv

\* The source of the latest job sends its lines to its first task.
LEMMA SourceLines ==
  ASSUME AllOK, Phases, NEW t \in Lines, LineInv(t),
         \/ \E j \in Jobs : readFileAndEmitTuples(j, t)
         \/ \E e \in leaderSent : e.id = t /\ RetryFromSource(e)
  PROVE  LineInv(t)'
<1>a. /\ OnlyLast(t) /\ LatestRuns /\ \A k \in Jobs : Streaming(k)
      /\ stream \in [Jobs -> StreamType] /\ leaderSent \subseteq [id : Lines, dest : Tasks]
      /\ last \in Jobs \cup {NoJob}
  BY DEF AllOK, LineInv, Phases, LeaderOK, WireOK
<1>b. ASSUME last \in Jobs, submit[last].pc = "done", NEW u \in Tasks, u[1] = last
      PROVE  SelectTask(u) \in TasksOf(last) /\ SelectTask(u)[1] = last
  <2>1. topology = last /\ last # NoJob
    BY <1>a, <1>b, JobsAssumption DEF LatestRuns
  <2>2. <<last, 1>> \in TasksOf(last) /\ <<last, 1>>[1] = last /\ u \in TasksOf(last)
    BY <1>b, FinalFacts
  <2> QED
    BY <1>b, <2>1, <2>2 DEF SelectTask
<1>1. ASSUME NEW j \in Jobs, readFileAndEmitTuples(j, t) PROVE LineInv(t)'
  <2> DEFINE v == SelectTask(<<stream[j].topo, 1>>)
  <2>1. /\ t \in stream[j].unread /\ stream' = [stream EXCEPT ![j].unread = @ \ {t}] /\ Deliver(v, t, pipe)
        /\ leaderSent' = {e \in leaderSent : e.id # t} \cup {[id |-> t, dest |-> v]}
        /\ UNCHANGED <<scenario, last, submit, processed, sent, wal, drained, out, outputBuffer>>
    BY <1>1 DEF readFileAndEmitTuples, FlowStep, leaderVars, outVars
  <2>2. j = last /\ stream[j] # NoStream
    BY <1>a, <2>1 DEF OnlyLast, NoStream
  <2>3. submit[last].pc = "done" /\ stream[j].topo = last /\ OfLast(t)
    BY <1>a, <2>1, <2>2, JobsAssumption DEF Streaming, OfLast
  <2>4. v \in TasksOf(last) /\ v[1] = last
    BY <1>b, <2>2, <2>3, FinalFacts
  <2>5. \A k \in Jobs : /\ t \in stream'[k].unread => t \in stream[k].unread
                        /\ stream'[k].topo = stream[k].topo
    BY <1>a, <2>1 DEF StreamType
  <2> HIDE DEF v
  <2>6. /\ \A e \in leaderSent' : e.id = t => submit[last].pc = "done" /\ e.dest[1] = last
        /\ \E e \in leaderSent' : e.id = t
    <3> DEFINE q == [id |-> t, dest |-> v]
    <3>1. q.id = t /\ q.dest = v
      OBVIOUS
    <3>2. leaderSent' = {e \in leaderSent : e.id # t} \cup {q}
      BY <2>1
    <3> HIDE DEF q
    <3> QED
      BY <2>3, <2>4, <3>1, <3>2
  <2>7. Deliver(v, t, pipe) /\ UNCHANGED <<scenario, last, submit, processed, sent, wal, drained, out, outputBuffer>>
    BY <2>1
  <2> QED
    BY <2>3, <2>4, <2>5, <2>6, <2>7, DeliverLines
<1>2. ASSUME NEW e \in leaderSent, e.id = t, RetryFromSource(e) PROVE LineInv(t)'
  <2> DEFINE v == SelectTask(e.dest)
  <2> DEFINE q == [e EXCEPT !.dest = v]
  <2>1. /\ Deliver(v, t, pipe) /\ leaderSent' = (leaderSent \ {e}) \cup {q}
        /\ UNCHANGED <<scenario, last, submit, stream, processed, sent, wal, drained, out, outputBuffer>>
    BY <1>2 DEF RetryFromSource, FlowStep, leaderVars, outVars
  <2>2. OfLast(t) /\ submit[last].pc = "done" /\ e.dest[1] = last /\ last \in Jobs
    BY <1>a, <1>2 DEF OnlyLast, OfLast
  <2>3. e.dest \in Tasks /\ q.id = t /\ q.dest = v
    BY <1>a, <1>2
  <2>4. v \in TasksOf(last) /\ v[1] = last
    BY <1>b, <2>2, <2>3
  <2> HIDE DEF v, q
  <2>5. \A f \in leaderSent' : f.id = t => f.dest[1] = last
    BY <1>a, <2>1, <2>3, <2>4 DEF OnlyLast
  <2>6. \E f \in leaderSent' : f.id = t
    BY <2>1, <2>3
  <2> QED
    BY <2>1, <2>2, <2>4, <2>5, <2>6, DeliverLines
<1> QED
  BY <1>1, <1>2

\* A task of the latest job sends again to the next one; a task of an earlier job only
\* sends what the next one has, and is told so.
LEMMA RetryLines ==
  ASSUME AllOK, Phases, NEW t \in Lines, LineInv(t), NEW u \in Tasks, RetryFromTask(u, t)
  PROVE  LineInv(t)'
<1>a. /\ LeaderOK /\ ManagersOK /\ OnlyLast(t) /\ SentOnward(t) /\ OnceOut(t) /\ Handed(t) /\ Managed
      /\ leaderSent' = leaderSent
  BY DEF AllOK, LineInv, Phases, RetryFromTask
<1>b. /\ t \in sent[u] /\ Deliver(NextStage(u), t, pipe)
      /\ UNCHANGED <<scenario, last, submit, stream, leaderSent, processed, sent, wal, drained, out, outputBuffer>>
  BY DEF RetryFromTask, FlowStep, leaderVars, outVars
<1>c. /\ NextStage(u) \in Tasks /\ NextStage(u)[1] = u[1]
      /\ IF u[1] # last THEN t \in wal[NextStage(u)].rec ELSE OfLast(t)
  BY <1>a, <1>b DEF SentOnward, NextStage
<1>1. CASE u[1] = last
  <2>1. OfLast(t) /\ last \in Jobs /\ NextStage(u) \in TasksOf(last)
    BY <1>a, <1>c, <1>1, FinalFacts DEF OfLast, LeaderOK
  <2>2. \A e \in leaderSent' : e.id = t => submit[last].pc = "done" /\ e.dest[1] = last
    BY <1>a, <1>b DEF OnlyLast
  <2> QED
    BY <1>b, <2>1, <2>2, DeliverLines
<1>2. CASE u[1] # last
  <2>1. NextStage(u) \in running => t \in received[NextStage(u)]
    BY <1>a, <1>c, <1>2 DEF Managed
  <2>2. /\ UNCHANGED <<received, pipe>>
        /\ acks' \subseteq acks \cup {[to |-> Sender(NextStage(u)), id |-> t]}
    BY <1>b, <2>1, DeliverKinds
  <2>3. Sender(NextStage(u)) = u
    <3>1. u[1] \in Jobs /\ u[2] \in Nat \ {0} /\ u = <<u[1], u[2]>>
      BY TaskFacts, JobsAssumption
    <3> QED
      BY <3>1 DEF Sender, NextStage
  <2>4. \A a \in acks' : a \in acks \/ (a.to = u /\ u # Leader)
    BY <2>2, <2>3, JobsAssumption
  <2>5. OfLast(t)' = OfLast(t) /\ FinalTask' = FinalTask
    BY <1>a, <1>b, LineGoals
  <2>6. OnlyLast(t)'
    BY <1>a, <1>b, <2>2, <2>5 DEF OnlyLast
  <2>7. SentOnward(t)'
    <3>1. ASSUME NEW a \in acks', a.id = t
          PROVE  /\ a.to = Leader => last # NoJob /\ t \in received[<<last, 1>>]
                 /\ a.to # Leader /\ a.to[1] = last => NextStage(a.to) \in Tasks /\ t \in received[NextStage(a.to)]
      BY <1>a, <1>2, <2>4, <3>1 DEF SentOnward
    <3> QED
      BY <1>a, <1>b, <2>2, <2>5, <3>1 DEF SentOnward, NextStage
  <2>8. OnceOut(t)'
    BY <1>a, <1>b, <2>2, LineGoals DEF OnceOut
  <2>9. Handed(t)'
    BY <1>a, <1>b, <2>2, LineGoals DEF Handed
  <2> QED
    BY <2>6, <2>7, <2>8, <2>9 DEF LineInv
<1> QED
  BY <1>1, <1>2

\* An ACK arrives: the next task has the line.
LEMMA AckLines ==
  ASSUME AllOK, NEW t \in Lines, LineInv(t), NEW a \in acks, a.id = t, handleACKMessage(a), ~mistaken'
  PROVE  LineInv(t)'
<1>a. /\ LeaderOK /\ ManagersOK /\ OnlyLast(t) /\ SentOnward(t) /\ OnceOut(t) /\ Handed(t)
      /\ sent \in [Tasks -> SUBSET Lines] /\ a.to \in Tasks \cup {Leader}
  BY DEF AllOK, LineInv, ManagersOK, WireOK
<1>b. /\ acks' \subseteq acks
      /\ leaderSent' = IF a.to = Leader THEN {e \in leaderSent : e.id # t} ELSE leaderSent
      /\ sent' = IF a.to = Leader THEN sent ELSE [sent EXCEPT ![a.to] = @ \ {t}]
      /\ UNCHANGED <<scenario, last, submit, stream, received, pipe, processed, wal, drained, out, outputBuffer>>
  <2>1. /\ acks' \subseteq acks
        /\ leaderSent' = IF a.to = Leader THEN {e \in leaderSent : e.id # t} ELSE leaderSent
        /\ UNCHANGED <<scenario, last, submit, stream, received, pipe, processed, wal, drained, out, outputBuffer>>
        /\ a.to = Leader => sent' = sent
    BY DEF handleACKMessage, FlowStep, leaderVars, outVars
  <2>2. ASSUME a.to # Leader, NEW u \in ACKOwners(a), sent' = [sent EXCEPT ![u] = @ \ {a.id}],
               mistaken' = (mistaken \/ u # a.to)
        PROVE  sent' = [sent EXCEPT ![a.to] = @ \ {t}]
    BY <2>2
  <2>3. ASSUME a.to # Leader, ACKOwners(a) = {}, sent' = sent
        PROVE  sent' = [sent EXCEPT ![a.to] = @ \ {t}]
    <3>1. t \notin sent[a.to]
      BY <1>a, <2>3 DEF ACKOwners, ManagersOK
    <3> QED
      BY <1>a, <2>3, <3>1
  <2> QED
    BY <2>1, <2>2, <2>3 DEF handleACKMessage
<1>c. /\ a.to = Leader => t \in received[<<last, 1>>]
      /\ a.to # Leader /\ a.to[1] = last => NextStage(a.to) \in Tasks /\ t \in received[NextStage(a.to)]
  BY <1>a DEF SentOnward
<1>d. OfLast(t)' = OfLast(t) /\ FinalTask' = FinalTask
  BY <1>a, <1>b, LineGoals
<1>e. \A u \in Tasks : /\ t \in sent'[u] => t \in sent[u]
                       /\ t \in sent[u] => t \in sent'[u] \/ (u = a.to /\ a.to # Leader)
  BY <1>a, <1>b
<1>1. OnlyLast(t)'
  <2>1. leaderSent' \subseteq leaderSent
    BY <1>b
  <2> QED
    BY <1>a, <1>b, <1>d, <2>1 DEF OnlyLast
<1>2. SentOnward(t)'
  <2>1. ASSUME NEW u \in Tasks, t \in sent'[u] \cup wal'[u].sent
        PROVE  /\ NextStage(u) \in Tasks
               /\ IF u[1] # last THEN t \in wal[NextStage(u)].rec
                  ELSE OfLast(t) /\ (t \in sent'[u] \/ t \in received[NextStage(u)])
    <3>1. t \in sent[u] \cup wal[u].sent
      BY <1>b, <1>e, <2>1
    <3>2. /\ NextStage(u) \in Tasks
          /\ IF u[1] # last THEN t \in wal[NextStage(u)].rec
             ELSE OfLast(t) /\ (t \in sent[u] \/ t \in received[NextStage(u)])
      BY <1>a, <3>1 DEF SentOnward
    <3> QED
      BY <1>c, <1>e, <3>2
  <2> QED
    BY <1>a, <1>b, <1>d, <2>1 DEF SentOnward, NextStage
<1>3. OnceOut(t)'
  BY <1>a, <1>b, LineGoals DEF OnceOut
<1>4. Handed(t)'
  <2> SUFFICES ASSUME OfLast(t)
               PROVE  /\ \/ stream[last].topo = NoJob \/ t \in stream[last].unread
                         \/ (\E e \in leaderSent' : e.id = t) \/ t \in received[<<last, 1>>]
                      /\ \A u \in TasksOf(last) : t \in received[u] =>
                           \/ \E w \in TasksOf(last) : w[2] >= u[2] /\ t \in pipe[w] \cup sent'[w]
                           \/ outputBuffer[Host[FinalTask]][t] > 0 \/ out[last][t] > 0
    BY <1>a, <1>b, LineGoals
  <2>1. /\ \/ stream[last].topo = NoJob \/ t \in stream[last].unread \/ \E e \in leaderSent : e.id = t
           \/ t \in received[<<last, 1>>]
        /\ \A u \in TasksOf(last) : t \in received[u] =>
             \/ \E w \in TasksOf(last) : w[2] >= u[2] /\ t \in pipe[w] \cup sent[w]
             \/ outputBuffer[Host[FinalTask]][t] > 0 \/ out[last][t] > 0
    BY <1>a DEF Handed
  <2>2. /\ last \in Jobs /\ \A u \in TasksOf(last) : u \in Tasks /\ u[1] = last /\ u[2] \in Nat
        /\ \A u \in Tasks : u[1] = last => u \in TasksOf(last)
    BY <1>a, FinalFacts, JobsAssumption DEF OfLast, LeaderOK
  <2>3. ASSUME NEW u \in TasksOf(last), t \in received[u],
               ~(outputBuffer[Host[FinalTask]][t] > 0 \/ out[last][t] > 0)
        PROVE  \E w \in TasksOf(last) : w[2] >= u[2] /\ t \in pipe[w] \cup sent'[w]
    <3>1. PICK w \in TasksOf(last) : w[2] >= u[2] /\ t \in pipe[w] \cup sent[w]
      BY <2>1, <2>3
    <3>2. CASE t \in pipe[w] \cup sent'[w]
      BY <3>1, <3>2
    <3>3. CASE w = a.to /\ a.to # Leader
      <4>1. /\ NextStage(w) \in TasksOf(last) /\ t \in received[NextStage(w)]
            /\ NextStage(w)[2] = w[2] + 1
        BY <1>c, <2>2, <3>3 DEF NextStage
      <4>2. PICK x \in TasksOf(last) : x[2] >= w[2] + 1 /\ t \in pipe[x] \cup sent[x]
        BY <2>1, <2>3, <4>1
      <4>3. x # w /\ x[2] >= u[2]
        BY <2>2, <3>1, <4>2
      <4>4. t \in pipe[x] \cup sent'[x]
        BY <1>e, <2>2, <3>3, <4>2, <4>3
      <4> QED
        BY <4>2, <4>3, <4>4
    <3> QED
      BY <1>e, <2>2, <3>1, <3>2, <3>3
  <2>4. \/ stream[last].topo = NoJob \/ t \in stream[last].unread
        \/ (\E e \in leaderSent' : e.id = t) \/ t \in received[<<last, 1>>]
    BY <1>b, <1>c, <2>1
  <2> QED
    BY <2>3, <2>4
<1> QED
  BY <1>1, <1>2, <1>3, <1>4 DEF LineInv

\* A task of the latest job has an answer: the last task puts it out, every other one
\* has it as sent before anybody else has it.
LEMMA ForwardLines ==
  ASSUME AllOK, Phases, SpecTaken, NEW t \in Lines, LineInv(t), NEW u \in Tasks, forwardTupleToDownstream(u, t)
  PROVE  LineInv(t)'
<1>a. /\ LeaderOK /\ ManagersOK /\ OutOK /\ OnlyLast(t) /\ SentOnward(t) /\ OnceOut(t) /\ Handed(t) /\ Managed
      /\ received \in [Tasks -> SUBSET Lines] /\ pipe \in [Tasks -> SUBSET Lines]
      /\ processed \in [Tasks -> SUBSET Lines] /\ sent \in [Tasks -> SUBSET Lines]
  BY DEF AllOK, LineInv, Phases, ManagersOK
<1> DEFINE rest == [pipe EXCEPT ![u] = @ \ {t}]
<1>b. /\ u \in running /\ t \in pipe[u]
      /\ outputBuffer' = IF IsFinal(u) THEN [outputBuffer EXCEPT ![Host[u]][t] = @ + 1] ELSE outputBuffer
      /\ IF HasNext(u) THEN Deliver(NextStage(u), t, rest) ELSE pipe' = rest /\ UNCHANGED <<received, acks>>
      /\ processed' = [processed EXCEPT ![u] = @ \cup {t}]
      /\ sent' = IF HasNext(u) THEN [sent EXCEPT ![u] = @ \cup {t}] ELSE sent
      /\ UNCHANGED <<scenario, last, submit, stream, leaderSent, wal, drained, out>>
  BY DEF forwardTupleToDownstream, Forward, FlowStep, leaderVars
<1>c. OfLast(t) /\ u[1] = last /\ last \in Jobs /\ current[Host[u]] = last /\ t \in received[u]
  BY <1>a, <1>b DEF OnlyLast, OfLast, LeaderOK, SpecTaken, Managed
<1>d. /\ FinalTask \in Tasks /\ Host[FinalTask] \in Nodes /\ <<last, 1>> \in TasksOf(last)
      /\ \A w \in TasksOf(last) : w \in Tasks /\ w[1] = last /\ w[2] \in Nat
      /\ \A w \in Tasks : w[1] = last => w \in TasksOf(last)
      /\ u = <<last, u[2]>> /\ u[2] \in 1..NStages[last] /\ NStages[last] \in Nat /\ TasksOf(last) = {last} \X (1..NStages[last])
  BY <1>c, FinalFacts, TaskFacts, JobsAssumption DEF TasksOf
<1>e. OfLast(t)' = OfLast(t) /\ FinalTask' = FinalTask
  BY <1>a, <1>b, LineGoals
<1>f. /\ outputBuffer[Host[FinalTask]][t] = 0 \/ u # FinalTask
      /\ out[last][t] = 0 \/ u # FinalTask
      /\ outputBuffer[Host[FinalTask]][t] \in Nat /\ out[last][t] \in Nat
  BY <1>a, <1>b, <1>c, <1>d DEF OnceOut, OutOK, LineCount
<1>g. \A w \in Tasks : /\ t \in rest[w] => t \in pipe[w] /\ w # u
                       /\ t \in pipe[w] => t \in rest[w] \/ w = u
                       /\ t \in processed'[w] => t \in processed[w] \/ w = u
  BY <1>a, <1>b
<1>h. rest \in [Tasks -> SUBSET Lines]
  BY <1>a
<1> HIDE DEF rest
<1>i. \A j \in Jobs : ~(OfLast(t) /\ j = last) => out[j][t] <= (IF t \in File(j) THEN 1 ELSE 0)
  BY <1>a DEF OnceOut
<1>j. \/ stream[last].topo = NoJob \/ t \in stream[last].unread \/ (\E e \in leaderSent : e.id = t)
      \/ t \in received[<<last, 1>>]
  BY <1>a, <1>c DEF Handed
<1>1. CASE u[2] = NStages[last]
  <2>1. u = FinalTask /\ IsFinal(u) /\ ~HasNext(u)
    BY <1>c, <1>d, <1>1 DEF FinalTask, IsFinal, HasNext
  <2>2. /\ pipe' = rest /\ UNCHANGED <<received, acks, sent>>
        /\ outputBuffer' = [outputBuffer EXCEPT ![Host[u]] = [outputBuffer[Host[u]] EXCEPT ![t] = @ + 1]]
    BY <1>b, <2>1
  <2>3. /\ outputBuffer'[Host[FinalTask]][t] = 1
        /\ \A n \in Nodes : outputBuffer'[n][t] > 0 => n = Host[FinalTask]
    <3>1. outputBuffer[Host[FinalTask]] \in LineCount /\ outputBuffer \in [Nodes -> LineCount]
      BY <1>a, <1>d DEF OutOK
    <3>2. outputBuffer'[Host[FinalTask]] = [outputBuffer[Host[u]] EXCEPT ![t] = @ + 1]
      BY <1>d, <2>1, <2>2, <3>1
    <3>3. outputBuffer'[Host[FinalTask]][t] = outputBuffer[Host[FinalTask]][t] + 1
      BY <2>1, <3>1, <3>2 DEF LineCount
    <3>4. \A n \in Nodes : n # Host[FinalTask] => outputBuffer'[n] = outputBuffer[n]
      BY <2>1, <2>2, <3>1
    <3> QED
      BY <1>a, <1>f, <2>1, <3>3, <3>4 DEF OnlyLast
  <2>4. OnlyLast(t)'
    <3>1. \A w \in Tasks : t \in pipe'[w] \cup processed'[w] => OfLast(t) /\ w[1] = last
      BY <1>a, <1>c, <1>g, <2>2 DEF OnlyLast
    <3> QED
      BY <1>a, <1>b, <1>c, <1>e, <2>3, <3>1 DEF OnlyLast
  <2>5. SentOnward(t)'
    BY <1>a, <1>b, <1>e, <2>2 DEF SentOnward, NextStage
  <2>6. OnceOut(t)'
    <3>1. t \notin pipe'[FinalTask] /\ out'[last][t] = 0 /\ t \in received'[FinalTask]
      BY <1>b, <1>c, <1>d, <1>f, <1>g, <2>1, <2>2
    <3> QED
      BY <1>a, <1>b, <1>i, <2>3, <3>1, LineGoals
  <2>7. Handed(t)'
    BY <1>a, <1>b, <1>j, <2>2, <2>3, LineGoals
  <2> QED
    BY <2>4, <2>5, <2>6, <2>7 DEF LineInv
<1>2. CASE u[2] # NStages[last]
  <2> DEFINE v == NextStage(u)
  <2>1. /\ u # FinalTask /\ ~IsFinal(u) /\ v \in TasksOf(last) /\ v \in Tasks /\ v # u
    BY <1>c, <1>d, <1>2 DEF FinalTask, IsFinal, NextStage
  <2>2. /\ Deliver(v, t, rest) /\ outputBuffer' = outputBuffer
        /\ sent' = [sent EXCEPT ![u] = @ \cup {t}]
    BY <1>b, <2>1 DEF HasNext
  <2>s. Sender(v) = u /\ u # Leader
    <3>1. u[2] \in Nat \ {0} /\ u = <<last, u[2]>>
      BY <1>d
    <3> QED
      BY <3>1, JobsAssumption DEF Sender, NextStage
  <2> HIDE DEF v
  <2>3. \A w \in Tasks : /\ received[w] \subseteq received'[w]
                         /\ t \in received'[w] => t \in received[w] \/ (w = v /\ t \in pipe'[w])
                         /\ t \in pipe'[w] => (t \in pipe[w] /\ w # u) \/ (w = v /\ t \notin received[w])
                         /\ t \in pipe[w] => t \in pipe'[w] \/ w = u
    BY <1>a, <1>g, <1>h, <2>1, <2>2, DeliverKinds
  <2>4. \A a \in acks' : a \in acks \/ (a = [to |-> u, id |-> t] /\ t \in received[v])
    BY <2>2, <2>s, DeliverKinds
  <2>5. \A w \in Tasks : /\ t \in sent'[w] => t \in sent[w] \/ w = u
                         /\ t \in sent[w] \/ w = u => t \in sent'[w]
    BY <1>a, <2>2
  <2>6. OnlyLast(t)'
    <3>1. \A w \in Tasks : t \in pipe'[w] \cup processed'[w] => OfLast(t) /\ w[1] = last
      BY <1>a, <1>c, <1>d, <1>g, <2>1, <2>3 DEF OnlyLast
    <3> QED
      BY <1>a, <1>b, <1>c, <1>e, <2>2, <3>1 DEF OnlyLast
  <2>7. SentOnward(t)'
    <3>1. ASSUME NEW w \in Tasks, t \in sent'[w] \cup wal[w].sent
          PROVE  /\ NextStage(w) \in Tasks
                 /\ IF w[1] # last THEN t \in wal[NextStage(w)].rec
                    ELSE OfLast(t) /\ (t \in sent'[w] \/ t \in received'[NextStage(w)])
      <4>1. CASE w = u
        BY <1>c, <2>1, <2>5, <4>1 DEF v
      <4>2. CASE w # u
        <5>1. t \in sent[w] \cup wal[w].sent
          BY <2>5, <3>1, <4>2
        <5>2. /\ NextStage(w) \in Tasks
              /\ IF w[1] # last THEN t \in wal[NextStage(w)].rec
                 ELSE OfLast(t) /\ (t \in sent[w] \/ t \in received[NextStage(w)])
          BY <1>a, <5>1 DEF SentOnward
        <5> QED
          BY <2>3, <2>5, <5>2
      <4> QED
        BY <4>1, <4>2
    <3>2. ASSUME NEW a \in acks', a.id = t
          PROVE  /\ a.to = Leader => last # NoJob /\ t \in received'[<<last, 1>>]
                 /\ a.to # Leader /\ a.to[1] = last => NextStage(a.to) \in Tasks /\ t \in received'[NextStage(a.to)]
      <4>1. CASE a \in acks
        <5>1. /\ a.to = Leader => last # NoJob /\ t \in received[<<last, 1>>]
              /\ a.to # Leader /\ a.to[1] = last => NextStage(a.to) \in Tasks /\ t \in received[NextStage(a.to)]
          BY <1>a, <3>2, <4>1 DEF SentOnward
        <5> QED
          BY <1>d, <2>3, <5>1
      <4>2. CASE a = [to |-> u, id |-> t] /\ t \in received[v]
        BY <2>s, <2>1, <2>3, <4>2 DEF v
      <4> QED
        BY <2>4, <4>1, <4>2
    <3> QED
      BY <1>b, <1>e, <3>1, <3>2 DEF SentOnward, NextStage
  <2>8. OnceOut(t)'
    <3>1. /\ t \in pipe[FinalTask] => outputBuffer[Host[FinalTask]][t] = 0 /\ out[last][t] = 0
          /\ outputBuffer[Host[FinalTask]][t] > 0 => outputBuffer[Host[FinalTask]][t] = 1 /\ out[last][t] = 0
          /\ out[last][t] <= 1
          /\ outputBuffer[Host[FinalTask]][t] > 0 \/ out[last][t] > 0 => t \in received[FinalTask]
      BY <1>a, <1>c DEF OnceOut
    <3>2. t \in pipe'[FinalTask] => outputBuffer[Host[FinalTask]][t] = 0 /\ out[last][t] = 0
      BY <1>d, <1>f, <2>3, <3>1
    <3>3. t \in received[FinalTask] => t \in received'[FinalTask]
      BY <1>d, <2>3
    <3> QED
      BY <1>a, <1>b, <1>i, <2>2, <3>1, <3>2, <3>3, LineGoals
  <2>9. Handed(t)'
    <3>1. ASSUME NEW x \in TasksOf(last), t \in received'[x]
          PROVE  \/ \E w \in TasksOf(last) : w[2] >= x[2] /\ t \in pipe'[w] \cup sent'[w]
                 \/ outputBuffer[Host[FinalTask]][t] > 0 \/ out[last][t] > 0
      <4>1. CASE t \in received[x]
        <5>1. \/ \E w \in TasksOf(last) : w[2] >= x[2] /\ t \in pipe[w] \cup sent[w]
              \/ outputBuffer[Host[FinalTask]][t] > 0 \/ out[last][t] > 0
          BY <1>a, <1>c, <4>1 DEF Handed
        <5>2. \A w \in TasksOf(last) : t \in pipe[w] \cup sent[w] => t \in pipe'[w] \cup sent'[w]
          BY <1>d, <2>3, <2>5
        <5> QED
          BY <5>1, <5>2
      <4>2. CASE t \notin received[x]
        <5>1. t \in pipe'[x] /\ x[2] >= x[2]
          BY <1>d, <2>3, <3>1, <4>2
        <5> QED
          BY <5>1
      <4> QED
        BY <4>1, <4>2
    <3>2. t \in received[<<last, 1>>] => t \in received'[<<last, 1>>]
      BY <1>d, <2>3
    <3> QED
      BY <1>a, <1>b, <1>j, <2>2, <3>1, <3>2, LineGoals
  <2> QED
    BY <2>6, <2>7, <2>8, <2>9 DEF LineInv
<1> QED
  BY <1>1, <1>2

\* The answers of a task become durable, and their ACKs go out.
LEMMA FlushLines ==
  ASSUME AllOK, Phases, NEW t \in Lines, LineInv(t), NEW u \in Tasks, FlushAcks(u)
  PROVE  LineInv(t)'
<1>a. /\ LeaderOK /\ ManagersOK /\ OnlyLast(t) /\ SentOnward(t) /\ OnceOut(t) /\ Handed(t) /\ Managed
      /\ processed \in [Tasks -> SUBSET Lines] /\ wal \in [Tasks -> [rec : SUBSET Lines, sent : SUBSET Lines]]
  BY DEF AllOK, LineInv, Phases, ManagersOK
<1>b. /\ u \in running /\ wal' = [wal EXCEPT ![u] = Durable(u)]
      /\ acks' = acks \cup {[to |-> Sender(u), id |-> x] : x \in processed[u]}
      /\ processed' = [processed EXCEPT ![u] = {}]
      /\ UNCHANGED <<scenario, last, submit, stream, leaderSent, received, pipe, sent, drained, out, outputBuffer>>
  BY DEF FlushAcks, FlowStep, leaderVars, outVars
<1>c. OfLast(t)' = OfLast(t) /\ FinalTask' = FinalTask
  BY <1>a, <1>b, LineGoals
<1>d. \A w \in Tasks : /\ processed'[w] \subseteq processed[w] /\ wal[w].rec \subseteq wal'[w].rec
                       /\ t \in sent[w] \cup wal'[w].sent => t \in sent[w] \cup wal[w].sent
  <2>1. Durable(u).rec = wal[u].rec \cup processed[u] /\ Durable(u).sent = sent[u]
    BY DEF Durable
  <2> QED
    BY <1>a, <1>b, <2>1
<1>1. OnlyLast(t)'
  BY <1>a, <1>b, <1>c, <1>d DEF OnlyLast
<1>2. SentOnward(t)'
  <2>1. ASSUME NEW w \in Tasks, t \in sent[w] \cup wal'[w].sent
        PROVE  /\ NextStage(w) \in Tasks
               /\ IF w[1] # last THEN t \in wal'[NextStage(w)].rec
                  ELSE OfLast(t) /\ (t \in sent[w] \/ t \in received[NextStage(w)])
    <3>1. /\ NextStage(w) \in Tasks
          /\ IF w[1] # last THEN t \in wal[NextStage(w)].rec
             ELSE OfLast(t) /\ (t \in sent[w] \/ t \in received[NextStage(w)])
      BY <1>a, <1>d, <2>1 DEF SentOnward
    <3> QED
      BY <1>d, <3>1
  <2>2. ASSUME NEW a \in acks', a.id = t
        PROVE  /\ a.to = Leader => last # NoJob /\ t \in received[<<last, 1>>]
               /\ a.to # Leader /\ a.to[1] = last => NextStage(a.to) \in Tasks /\ t \in received[NextStage(a.to)]
    <3>1. CASE a \in acks
      BY <1>a, <2>2, <3>1 DEF SentOnward
    <3>2. CASE a \notin acks
      <4>1. a.to = Sender(u) /\ t \in processed[u]
        BY <1>b, <2>2, <3>2
      <4>2. u[1] = last /\ last # NoJob /\ t \in received[u]
        BY <1>a, <1>b, <4>1 DEF OnlyLast, OfLast, Managed
      <4> QED
        BY <4>1, <4>2, SenderIsTask
    <3> QED
      BY <3>1, <3>2
  <2> QED
    BY <1>b, <1>c, <2>1, <2>2 DEF SentOnward, NextStage
<1>3. OnceOut(t)'
  BY <1>a, <1>b, LineGoals DEF OnceOut
<1>4. Handed(t)'
  BY <1>a, <1>b, LineGoals DEF Handed
<1> QED
  BY <1>1, <1>2, <1>3, <1>4 DEF LineInv

\* A node appends its buffer to the file of its job: a line of the latest job goes into
\* the file of the latest job.
LEMMA OutputLines ==
  ASSUME AllOK, SpecTaken, NEW t \in Lines, LineInv(t), NEW n \in Nodes, NEW j \in Jobs,
         startOutputFlushLoop(n, j), ~stale'
  PROVE  LineInv(t)'
<1>a. /\ LeaderOK /\ ManagersOK /\ OutOK /\ OnlyLast(t) /\ SentOnward(t) /\ OnceOut(t) /\ Handed(t)
      /\ outputBuffer \in [Nodes -> LineCount] /\ out \in [Jobs -> LineCount]
  BY DEF AllOK, LineInv, OutOK
<1>b. /\ j = current[n]
      /\ out' = [out EXCEPT ![j] = [x \in Lines |-> @[x] + outputBuffer[n][x]]]
      /\ outputBuffer' = [outputBuffer EXCEPT ![n] = NoLines]
      /\ UNCHANGED <<scenario, last, busy, submit, stream, leaderSent, acks, received, pipe, processed, sent, wal, drained>>
  BY DEF startOutputFlushLoop, FlowStep, leaderVars, tupleVars
<1>c. /\ out'[j][t] = out[j][t] + outputBuffer[n][t] /\ \A k \in Jobs \ {j} : out'[k][t] = out[k][t]
      /\ outputBuffer'[n][t] = 0 /\ \A m \in Nodes \ {n} : outputBuffer'[m][t] = outputBuffer[m][t]
      /\ out[j][t] \in Nat /\ outputBuffer[n][t] \in Nat
  BY <1>a, <1>b DEF NoLines, LineCount
<1>1. CASE outputBuffer[n][t] = 0
  <2>1. Same(t)
    BY <1>b, <1>c, <1>1 DEF Same
  <2>2. SameJobs
    BY <1>b DEF SameJobs
  <2> QED
    BY <1>a, <2>1, <2>2, SameKeeps
<1>2. CASE outputBuffer[n][t] # 0
  <2>1. OfLast(t) /\ n = Host[FinalTask] /\ last \in Jobs
    BY <1>a, <1>c, <1>2 DEF OnlyLast, OfLast, LeaderOK
  <2>2. FinalTask \in Tasks /\ FinalTask[1] = last
    BY <2>1, FinalFacts
  <2>3. outputBuffer[n][t] = 1 /\ out[last][t] = 0 /\ t \in received[FinalTask] /\ t \notin pipe[FinalTask]
    BY <1>a, <1>c, <1>2, <2>1 DEF OnceOut
  <2>4. j = last
    BY <1>a, <1>b, <2>1, <2>2, <2>3 DEF ManagersOK, SpecTaken
  <2>5. OfLast(t)' = OfLast(t) /\ FinalTask' = FinalTask
    BY <1>a, <1>b, LineGoals
  <2>6. out'[last][t] = 1 /\ outputBuffer'[Host[FinalTask]][t] = 0
    BY <1>c, <2>1, <2>3, <2>4
  <2>7. OnlyLast(t)'
    <3>1. ASSUME NEW m \in Nodes, outputBuffer'[m][t] > 0 PROVE OfLast(t) /\ m = Host[FinalTask]
      <4>1. CASE m = n
        BY <2>1, <4>1
      <4>2. CASE m # n
        BY <1>a, <1>c, <3>1, <4>2 DEF OnlyLast
      <4> QED
        BY <4>1, <4>2
    <3>2. /\ \A k \in Jobs : t \in stream'[k].unread => k = last
          /\ \A e \in leaderSent' : e.id = t => OfLast(t) /\ submit'[last].pc = "done" /\ e.dest[1] = last
          /\ \A u \in Tasks : t \in pipe'[u] \cup processed'[u] => OfLast(t) /\ u[1] = last
          /\ \A d \in drained' : d.id # t
      BY <1>a, <1>b DEF OnlyLast
    <3>3. last' = last
      BY <1>b
    <3> QED
      BY <2>5, <3>1, <3>2, <3>3 DEF OnlyLast
  <2>8. SentOnward(t)'
    BY <1>a, <1>b, <2>5 DEF SentOnward, NextStage
  <2>9. OnceOut(t)'
    <3>1. \A k \in Jobs : ~(OfLast(t) /\ k = last) => out'[k][t] <= (IF t \in File(k) THEN 1 ELSE 0)
      <4>1. \A k \in Jobs : ~(OfLast(t) /\ k = last) => out[k][t] <= (IF t \in File(k) THEN 1 ELSE 0)
        BY <1>a DEF OnceOut
      <4>2. \A k \in Jobs : k # last => out'[k][t] = out[k][t]
        BY <1>c, <2>4
      <4> QED
        BY <2>1, <4>1, <4>2
    <3>2. /\ t \notin pipe'[FinalTask] /\ t \in received'[FinalTask]
          /\ ~(outputBuffer'[Host[FinalTask]][t] > 0) /\ out'[last][t] <= 1
      BY <1>b, <2>3, <2>6
    <3>3. UNCHANGED <<scenario, last>>
      BY <1>b
    <3> QED
      BY <1>a, <3>1, <3>2, <3>3, LineGoals
  <2>10. Handed(t)'
    <3>1. /\ \/ stream'[last].topo = NoJob \/ t \in stream'[last].unread
             \/ (\E e \in leaderSent' : e.id = t) \/ t \in received'[<<last, 1>>]
          /\ out'[last][t] > 0
      BY <1>a, <1>b, <2>1, <2>6 DEF Handed
    <3>2. UNCHANGED <<scenario, last>>
      BY <1>b
    <3> QED
      BY <1>a, <3>1, <3>2, LineGoals
  <2> QED
    BY <2>7, <2>8, <2>9, <2>10 DEF LineInv
<1> QED
  BY <1>1, <1>2

\* Every step of the tuples keeps what holds of a line.
LEMMA FlowLines ==
  ASSUME AllOK, Phases, ~stale => SpecTaken, NEW t \in Lines, Counts(t) => LineInv(t), TupleFlow, Counts(t)',
         ~mistaken' => ~mistaken
  PROVE  LineInv(t)'
<1>a. FlowStep /\ LeaderOK /\ SameJobs /\ (~stale' => ~stale)
  BY FlowFrame DEF AllOK, OutOK, SameJobs, FlowStep, leaderVars
<1>b. Counts(t) /\ SpecTaken /\ LineInv(t) /\ ~stale' /\ ~mistaken'
  <2>1. Counts(t)
    BY <1>a DEF SameJobs, Counts, File
  <2> QED
    BY <2>1 DEF Counts
<1>c. Same(t) => LineInv(t)'
  BY <1>a, <1>b, SameKeeps
<1>1. ASSUME NEW j \in Jobs, NEW x \in Lines, readFileAndEmitTuples(j, x) PROVE LineInv(t)'
  <2>1. x # t => Same(t)
    BY <1>1, FlowSame
  <2>2. x = t => LineInv(t)'
    BY <1>1, <1>b, SourceLines
  <2> QED
    BY <1>c, <2>1, <2>2
<1>2. ASSUME NEW e \in leaderSent, RetryFromSource(e) PROVE LineInv(t)'
  <2>1. e.id # t => Same(t)
    BY <1>2, FlowSame
  <2>2. e.id = t => LineInv(t)'
    BY <1>2, <1>b, SourceLines
  <2> QED
    BY <1>c, <2>1, <2>2
<1>3. ASSUME NEW u \in Tasks, NEW x \in Lines, forwardTupleToDownstream(u, x) PROVE LineInv(t)'
  <2>1. x # t => Same(t)
    BY <1>3, FlowSame
  <2>2. x = t => LineInv(t)'
    BY <1>3, <1>b, ForwardLines
  <2> QED
    BY <1>c, <2>1, <2>2
<1>4. ASSUME NEW u \in Tasks, NEW x \in Lines, RetryFromTask(u, x) PROVE LineInv(t)'
  <2>1. x # t => Same(t)
    BY <1>4, FlowSame
  <2>2. x = t => LineInv(t)'
    BY <1>4, <1>b, RetryLines
  <2> QED
    BY <1>c, <2>1, <2>2
<1>5. ASSUME NEW d \in drained, readTaskOutput(d) PROVE LineInv(t)'
  <2>1. d.id # t
    BY <1>b DEF LineInv, OnlyLast
  <2> QED
    BY <1>5, <1>c, <2>1, FlowSame
<1>6. ASSUME NEW a \in acks, handleACKMessage(a) PROVE LineInv(t)'
  <2>1. a.id # t => Same(t)
    BY <1>6, FlowSame
  <2>2. a.id = t => LineInv(t)'
    BY <1>6, <1>b, AckLines
  <2> QED
    BY <1>c, <2>1, <2>2
<1> QED
  BY <1>b, <1>1, <1>2, <1>3, <1>4, <1>5, <1>6, FlushLines, OutputLines DEF TupleFlow

LEMMA LinesNext ==
  ASSUME AllOK, Orderly, OutputInv, NEW t \in Lines, [Next]_vars, Counts(t)'
  PROVE  LineInv(t)'
<1>a. /\ Phases /\ (~stale => SpecTaken) /\ Origin(t) /\ (Counts(t) => LineInv(t)) /\ LeaderOK
      /\ ~mistaken' => ~mistaken
  BY MistakenNext DEF OutputInv, AllOK
<1>1. CASE IdleStep
  <2>1. Same(t) /\ SameJobs /\ (Counts(t)' => Counts(t))
    BY <1>a, <1>1 DEF IdleStep, Same, SameJobs, tupleVars, outVars, Counts, File
  <2> QED
    BY <1>a, <2>1, SameKeeps
<1>2. CASE StreamStart
  <2>1. Counts(t)
    BY <1>a, <1>2 DEF StreamStart, Counts, File
  <2> QED
    BY <1>a, <1>2, <2>1, StreamLines
<1>3. ASSUME NEW j \in Jobs, SubmitJob(j) PROVE LineInv(t)'
  BY <1>a, <1>3, SubmitLines
<1>4. ASSUME NEW k \in Jobs, NEW s \in Jobs, NEW n \in Nodes, NEW S \in SUBSET TasksOf(k), StartStep(k, s, n, S)
      PROVE  LineInv(t)'
  <2>1. Counts(t)
    BY <1>a, <1>4 DEF StartStep, leaderVars, Counts, File
  <2> QED
    BY <1>a, <1>4, <2>1, StartLines
<1>5. ASSUME NEW u \in Tasks, KillStep(u) PROVE LineInv(t)'
  <2>1. Counts(t)
    BY <1>a, <1>5 DEF KillStep, leaderVars, Counts, File
  <2> QED
    BY <1>a, <1>5, <2>1, KillLines
<1>6. CASE TupleFlow
  BY <1>a, <1>6, FlowLines
<1> QED
  BY <1>a, <1>1, <1>2, <1>3, <1>4, <1>5, <1>6, StepKinds

LEMMA OutputNext == AllOK /\ Orderly /\ OutputInv /\ [Next]_vars => OutputInv'
<1> SUFFICES ASSUME AllOK, Orderly, OutputInv, [Next]_vars PROVE OutputInv'
  OBVIOUS
<1>1. Phases /\ (~stale => SpecTaken) /\ (\A t \in Lines : Origin(t)) /\ mistaken' \in BOOLEAN
  BY MistakenNext DEF OutputInv
<1>2. Phases' /\ (~stale' => SpecTaken')
  BY <1>1, PhasesNext, SpecNext
<1>3. \A t \in Lines : Origin(t)'
  BY <1>1, OriginNext
<1>4. \A t \in Lines : Counts(t)' => LineInv(t)'
  BY LinesNext
<1> QED
  BY <1>1, <1>2, <1>3, <1>4 DEF OutputInv

LEMMA OutputInit == Init => OutputInv
<1> SUFFICES ASSUME Init PROVE OutputInv
  OBVIOUS
<1>1. \A t \in Lines : NoLines[t] = 0
  BY DEF NoLines
<1>2. Phases /\ SpecTaken
  BY PhasesInit DEF Init, SpecTaken
<1>3. ASSUME NEW t \in Lines PROVE ~Present(t)
  BY <1>1 DEF Init, Present, NoStream
<1>4. ASSUME NEW t \in Lines PROVE LineInv(t)
  <2>1. ~OfLast(t)
    BY DEF Init, OfLast
  <2>2. OnlyLast(t)
    BY <1>1 DEF Init, OnlyLast, NoStream
  <2>3. SentOnward(t)
    BY DEF Init, SentOnward
  <2>4. OnceOut(t)
    BY <1>1, <2>1 DEF Init, OnceOut
  <2> QED
    BY <2>1, <2>2, <2>3, <2>4 DEF LineInv, Handed
<1>5. mistaken \in BOOLEAN
  BY DEF Init
<1> QED
  BY <1>2, <1>3, <1>4, <1>5 DEF OutputInv, Origin

----------------------------------------------------------------------------
(* The theorems.                                                            *)

LEMMA OutputInvariant == Spec => [](AllOK /\ Orderly /\ OutputInv)
BY TypeInit, TypeNext, OrderlyInit, OrderlyNext, OutputInit, OutputNext, PTL DEF Spec

----------------------------------------------------------------------------
(* Where the ACKs of a job's tasks find the right one.                      *)

\* No node has two tasks that forward lines.
ForwardersApart ==
  \A u, v \in {w \in Tasks : NextStage(w) \in Tasks} : Host[u] = Host[v] => u = v

\* Only a task that forwards has sent anything, and only such a one is sent an ACK.
SentByForwarders ==
  /\ \A u \in Tasks : sent[u] # {} \/ wal[u].sent # {} => NextStage(u) \in Tasks
  /\ \A a \in acks : a.to = Leader \/ NextStage(a.to) \in Tasks

LEMMA AckIsForForwarder ==
  ASSUME NEW u \in Tasks
  PROVE  Sender(u) = Leader \/ NextStage(Sender(u)) \in Tasks
BY SenderIsTask

LEMMA SentByForwardersFlow ==
  ASSUME AllOK, SentByForwarders, TupleFlow
  PROVE  SentByForwarders'
<1>a. /\ ManagersOK /\ LeaderOK /\ WireOK /\ sent \in [Tasks -> SUBSET Lines]
      /\ wal \in [Tasks -> [rec : SUBSET Lines, sent : SUBSET Lines]]
  BY DEF AllOK, ManagersOK
<1>b. ASSUME \A a \in acks' : a \in acks \/ \E u \in Tasks : a.to = Sender(u),
             \A u \in Tasks : sent'[u] \cup wal'[u].sent \subseteq sent[u] \cup wal[u].sent
                              \/ NextStage(u) \in Tasks
      PROVE  SentByForwarders'
  <2>1. ASSUME NEW u \in Tasks, sent'[u] # {} \/ wal'[u].sent # {} PROVE NextStage(u) \in Tasks
    BY <1>b, <2>1 DEF SentByForwarders
  <2>2. ASSUME NEW a \in acks' PROVE a.to = Leader \/ NextStage(a.to) \in Tasks
    BY <1>b, <2>2, AckIsForForwarder DEF SentByForwarders
  <2> QED
    BY <2>1, <2>2 DEF SentByForwarders, NextStage
<1>c. ASSUME NEW u \in Tasks, NEW t, NEW rest, Deliver(u, t, rest)
      PROVE  \A a \in acks' : a \in acks \/ \E v \in Tasks : a.to = Sender(v)
  BY <1>c DEF Deliver
<1>1. ASSUME NEW j \in Jobs, NEW t \in Lines, readFileAndEmitTuples(j, t) PROVE SentByForwarders'
  <2>1. PICK u \in Tasks : Deliver(u, t, pipe)
    <3>1. stream[j] \in StreamType /\ stream[j].topo \in Jobs
      BY <1>1, <1>a DEF readFileAndEmitTuples, LeaderOK, Known, StreamType
    <3>2. SelectTask(<<stream[j].topo, 1>>) \in Tasks
      BY <1>a, <3>1, TaskFacts, SelectTypes
    <3> QED
      BY <1>1, <3>2 DEF readFileAndEmitTuples
  <2>2. UNCHANGED <<sent, wal>>
    BY <1>1 DEF readFileAndEmitTuples
  <2> QED
    BY <1>b, <1>c, <2>1, <2>2
<1>2. ASSUME NEW e \in leaderSent, RetryFromSource(e) PROVE SentByForwarders'
  <2>1. PICK u \in Tasks : Deliver(u, e.id, pipe)
    <3>1. SelectTask(e.dest) \in Tasks
      BY <1>a, SelectTypes DEF WireOK
    <3> QED
      BY <1>2, <3>1 DEF RetryFromSource
  <2>2. UNCHANGED <<sent, wal>>
    BY <1>2 DEF RetryFromSource
  <2> QED
    BY <1>b, <1>c, <2>1, <2>2
<1>d. ASSUME NEW u \in Tasks, NEW t, NEW rest, Forward(u, t, rest)
      PROVE  /\ \A a \in acks' : a \in acks \/ \E v \in Tasks : a.to = Sender(v)
             /\ HasNext(u) => NextStage(u) \in Tasks
             /\ wal' = wal
  <2>1. CASE HasNext(u)
    BY <1>c, <1>d, <2>1 DEF Forward, HasNext
  <2>2. CASE ~HasNext(u)
    BY <1>d, <2>2 DEF Forward
  <2>3. wal' = wal
    BY <1>d DEF Forward
  <2> QED
    BY <2>1, <2>2, <2>3 DEF HasNext
<1>3. ASSUME NEW u \in Tasks, NEW t \in Lines, forwardTupleToDownstream(u, t) PROVE SentByForwarders'
  <2>1. PICK rest : Forward(u, t, rest)
    BY <1>3 DEF forwardTupleToDownstream
  <2>2. sent' = IF HasNext(u) THEN [sent EXCEPT ![u] = @ \cup {t}] ELSE sent
    BY <1>3 DEF forwardTupleToDownstream
  <2>3. ASSUME NEW v \in Tasks
        PROVE  sent'[v] \cup wal'[v].sent \subseteq sent[v] \cup wal[v].sent \/ NextStage(v) \in Tasks
    BY <1>a, <1>d, <2>1, <2>2
  <2> QED
    BY <1>b, <1>d, <2>1, <2>3
<1>4. ASSUME NEW d \in drained, readTaskOutput(d) PROVE SentByForwarders'
  <2>1. d.task \in Tasks /\ Forward(d.task, d.id, pipe) /\ sent' = sent
    BY <1>4, <1>a DEF readTaskOutput, ManagersOK, WireOK
  <2> QED
    BY <1>b, <1>d, <2>1
<1>5. ASSUME NEW u \in Tasks, NEW t \in Lines, RetryFromTask(u, t) PROVE SentByForwarders'
  <2>1. NextStage(u) \in Tasks /\ Deliver(NextStage(u), t, pipe) /\ UNCHANGED <<sent, wal>>
    BY <1>5 DEF RetryFromTask, SentByForwarders
  <2> QED
    BY <1>b, <1>c, <2>1
<1>6. ASSUME NEW u \in Tasks, FlushAcks(u) PROVE SentByForwarders'
  <2>1. /\ acks' = acks \cup {[to |-> Sender(u), id |-> t] : t \in processed[u]}
        /\ wal' = [wal EXCEPT ![u] = Durable(u)] /\ sent' = sent
    BY <1>6 DEF FlushAcks
  <2>2. \A v \in Tasks : sent'[v] \cup wal'[v].sent \subseteq sent[v] \cup wal[v].sent
    BY <1>a, <2>1 DEF Durable
  <2>3. \A a \in acks' : a \in acks \/ a.to = Sender(u)
    BY <2>1
  <2> QED
    BY <1>b, <2>2, <2>3
<1>7. ASSUME NEW a \in acks, handleACKMessage(a) PROVE SentByForwarders'
  <2>1. acks' = acks \ {a} /\ wal' = wal
    BY <1>7 DEF handleACKMessage
  <2>2. sent' = sent \/ \E u \in running : sent' = [sent EXCEPT ![u] = @ \ {a.id}]
    BY <1>7 DEF handleACKMessage, ACKOwners
  <2>3. \A v \in Tasks : sent'[v] \subseteq sent[v]
    BY <1>a, <2>2
  <2>4. \A v \in Tasks : sent'[v] \cup wal'[v].sent \subseteq sent[v] \cup wal[v].sent
    BY <2>1, <2>3
  <2> QED
    BY <1>b, <2>1, <2>4
<1>8. ASSUME NEW n \in Nodes, NEW j \in Jobs, startOutputFlushLoop(n, j) PROVE SentByForwarders'
  BY <1>8, <1>b DEF startOutputFlushLoop, tupleVars
<1> QED
  BY <1>1, <1>2, <1>3, <1>4, <1>5, <1>6, <1>7, <1>8 DEF TupleFlow

LEMMA SentByForwardersNext ==
  ASSUME AllOK, Orderly, OutputInv, SentByForwarders, [Next]_vars
  PROVE  SentByForwarders'
<1>a. ManagersOK /\ Phases /\ sent \in [Tasks -> SUBSET Lines]
  BY DEF AllOK, ManagersOK, OutputInv
<1>b. ASSUME UNCHANGED <<sent, wal, acks>> PROVE SentByForwarders'
  BY <1>b DEF SentByForwarders, NextStage
<1>1. CASE IdleStep \/ StreamStart \/ \E j \in Jobs : SubmitJob(j)
  <2>1. UNCHANGED <<sent, wal, acks>>
    BY <1>1 DEF IdleStep, StreamStart, SubmitJob, LeaderOnly, tupleVars
  <2> QED
    BY <1>b, <2>1
<1>2. ASSUME NEW k \in Jobs, NEW s \in Jobs, NEW n \in Nodes, NEW S \in SUBSET TasksOf(k), StartStep(k, s, n, S)
      PROVE  SentByForwarders'
  <2>1. /\ sent' = [u \in Tasks |-> IF u \in S THEN wal[u].sent ELSE sent[u]]
        /\ UNCHANGED <<wal, acks>>
    BY <1>2 DEF StartStep, Starts, StartTasks
  <2> QED
    BY <2>1 DEF SentByForwarders, NextStage
<1>3. ASSUME NEW u \in Tasks, KillStep(u) PROVE SentByForwarders'
  <2>1. /\ UNCHANGED <<wal, acks>> /\ (sent' = sent \/ sent' = [sent EXCEPT ![u] = {}])
    BY <1>3 DEF KillStep, KillTaskProcess, tupleVars
  <2> QED
    BY <1>a, <2>1 DEF SentByForwarders, NextStage
<1> QED
  BY <1>a, <1>1, <1>2, <1>3, StepKinds, SentByForwardersFlow

\* When no node has two tasks that forward lines, no ACK ends the retries of another task
\* than the one it was meant for: handleACKMessage, which looks the tuple up in all the
\* managers of the node, then finds the right one.
THEOREM AcksFindTheirTask == ForwardersApart => (Spec => []~mistaken)
<1>1. Init => SentByForwarders /\ ~mistaken
  BY DEF Init, SentByForwarders
<1>2. AllOK /\ Orderly /\ OutputInv /\ SentByForwarders /\ [Next]_vars => SentByForwarders'
  BY SentByForwardersNext
<1>3. ASSUME ForwardersApart, AllOK, SentByForwarders, ~mistaken, [Next]_vars PROVE ~mistaken'
  <2>1. ASSUME NEW a \in acks, handleACKMessage(a), a.to # Leader, NEW u \in ACKOwners(a) PROVE u = a.to
    <3>1. /\ a.to \in Tasks /\ u \in Tasks /\ NextStage(a.to) \in Tasks /\ Host[u] = Host[a.to] /\ sent[u] # {}
      BY <1>3, <2>1 DEF ACKOwners, AllOK, WireOK, NodesOK, SentByForwarders
    <3> QED
      BY <1>3, <3>1 DEF ForwardersApart, SentByForwarders
  <2>2. ASSUME NEW a \in acks, handleACKMessage(a) PROVE ~mistaken'
    BY <1>3, <2>1, <2>2 DEF handleACKMessage
  <2>3. mistaken' = mistaken \/ \E a \in acks : handleACKMessage(a)
    BY <1>3, MistakenByAck
  <2> QED
    BY <1>3, <2>2, <2>3
<1>4. ForwardersApart /\ AllOK /\ SentByForwarders /\ ~mistaken /\ [Next]_vars => ~mistaken'
  BY <1>3
<1> SUFFICES ASSUME ForwardersApart PROVE Spec => []~mistaken
  OBVIOUS
<1> QED
  BY <1>1, <1>2, <1>4, OutputInvariant, PTL DEF Spec

\* Every line of the latest job is put into its own output file and into no other, and at
\* most once, as long as nothing of an earlier job ends in a later one: whatever the RPCs
\* of SubmitJob that time out, the tasks that a lost KillTask leaves running and the
\* restarts of the health monitor do meanwhile.
THEOREM JobsKeepTheirOutput == Spec => []OutputOwn
<1>1. AllOK /\ OutputInv => OutputOwn
  <2> SUFFICES ASSUME AllOK, OutputInv, ~stale, ~mistaken, last # NoJob, Apart(last), NEW j \in Jobs, NEW t \in Lines
               PROVE  /\ t \in File(last) => out[j][t] <= (IF t \in File(j) THEN 1 ELSE 0)
                      /\ out[j][t] > 0 => t \in File(j) \/ busy
    BY DEF OutputOwn
  <2>1. last \in Jobs /\ out[j][t] \in Nat
    BY DEF AllOK, LeaderOK, OutOK, LineCount
  <2>2. ASSUME t \in File(last) \/ ~busy PROVE OnceOut(t)
    <3>1. Counts(t)
      BY <2>1, <2>2 DEF Counts, Apart
    <3> QED
      BY <3>1 DEF OutputInv, LineInv
  <2>3. ASSUME OnceOut(t) PROVE out[j][t] <= (IF t \in File(j) THEN 1 ELSE 0)
    <3>1. CASE OfLast(t) /\ j = last
      BY <2>3, <3>1 DEF OnceOut, OfLast
    <3>2. CASE ~(OfLast(t) /\ j = last)
      BY <2>3, <3>2 DEF OnceOut
    <3> QED
      BY <3>1, <3>2
  <2> QED
    BY <2>1, <2>2, <2>3
<1> QED
  BY <1>1, OutputInvariant, PTL

\* No line of the latest job is lost: once its source has started, each line is unread, or
\* in the hands of the leader or of a running task of the job, or in a node's buffer, or in
\* the output file, also if the job was submitted while an earlier one was at work.
THEOREM JobsLoseNoLine == Spec => []LineKept
<1>1. AllOK /\ OutputInv => LineKept
  <2> SUFFICES ASSUME AllOK, OutputInv, NEW j \in Jobs, j = last, ~stale, ~mistaken, Apart(j), stream[j] # NoStream,
                      NEW t \in Lines, t \in File(j)
               PROVE  \/ t \in stream[j].unread \/ out[j][t] > 0
                      \/ \E e \in leaderSent : e.id = t
                      \/ \E u \in TasksOf(j) \cap running : t \in pipe[u] \cup sent[u]
                      \/ \E n \in Nodes : outputBuffer[n][t] > 0
    <3>1. AllOK => \A j \in Jobs : File(j) \subseteq Lines
      BY ScenariosAssumption DEF AllOK, LeaderOK, File
    <3> QED
      BY <3>1 DEF LineKept
  <2>1. /\ j # NoJob /\ stream[j].topo = j
    BY JobsAssumption DEF OutputInv, Phases, Streaming
  <2>2. OfLast(t) /\ Counts(t)
    BY <2>1 DEF OfLast, Counts, Apart
  <2>3. Handed(t)
    BY <2>2 DEF OutputInv, LineInv
  <2>4. /\ <<j, 1>> \in TasksOf(j) /\ TasksOf(j) \subseteq Tasks /\ Host[FinalTask] \in Nodes
    BY FinalFacts
  <2>5. \A u \in Tasks : t \in pipe[u] \cup sent[u] => u \in running
    BY DEF AllOK, ManagersOK
  <2> QED
    BY <2>1, <2>2, <2>3, <2>4, <2>5 DEF Handed
<1> QED
  BY <1>1, OutputInvariant, PTL
==============================================================================
