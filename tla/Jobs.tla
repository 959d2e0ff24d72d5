-------------------------------- MODULE Jobs --------------------------------
(***************************************************************************)
(* Jobs one after the other, or submitted while another one still runs: the *)
(* leader's SubmitJob with its RPCs, the source goroutine of each job, the  *)
(* one manager with which the leader sends for all of them, the task health *)
(* monitor, and the nodes' task tables, current job and output buffer.      *)
(*                                                                          *)
(* The job has one task per stage.  A call for a tuple is answered at once, *)
(* and a flush is one step: module ExactlyOnce has the steps in between.    *)
(***************************************************************************)
EXTENDS Integers, FiniteSets

CONSTANTS
  Jobs, NoJob,
  NStages,      \* [Jobs -> Nat \ {0}]
  Lines,        \* tuple IDs: "leader-<file>-<line>"
  Autoscale,    \* [Jobs -> BOOLEAN]
  Host,         \* [tasks -> node]
  Leader,       \* not a task
  Scenarios     \* what may happen in a behaviour: the source file of each job, whether a
                \* job may be submitted before the earlier one has ended, whether it lasts
                \* long enough for a report of the nodes, and bounds on RPCs that time out
                \* (and submissions that find no members) and on TUPLE calls that fail

TasksOf(j) == IF j = NoJob THEN {} ELSE {j} \X (1..NStages[j])
Tasks      == UNION {TasksOf(j) : j \in Jobs}
Nodes      == {Host[u] : u \in Tasks}

ASSUME JobsAssumption ==
  /\ NoJob \notin Jobs /\ NStages \in [Jobs -> Nat \ {0}] /\ Autoscale \in [Jobs -> BOOLEAN]
  /\ DOMAIN Host = Tasks /\ Leader \notin Tasks
ASSUME ScenariosAssumption ==
  Scenarios \subseteq [file : [Jobs -> SUBSET Lines], eager : BOOLEAN, reports : BOOLEAN,
                timeouts : Nat, losses : Nat]

VARIABLES
  scenario,
  spec, topology, assigned,  \* Leader.JobSpec, Topology and Assignments: whose they are
  stopped,      \* tasks that Leader.TaskStatuses has as not running
  submit,       \* the SubmitJob call of each job
  stream,       \* the source goroutine each submission has started
  leaderSent,   \* sentTuples of the leader's manager: [id, dest]
  restarting, monitor,  \* the health monitor: tasks to restart, and the RPC it waits for
  late,         \* RPCs whose caller has given up
  used, running,        \* tasks that were ever in a node's TaskInfos, and that are
  current,      \* NodeManager.currentJobSpec of each node: whose it is
  received, pipe, processed, sent, wal,  \* of each task
  drained,      \* answers of killed executables that are still in the pipe: [task, id]
  acks,         \* ACK messages
  outputBuffer, \* of each node: how often each line is in it
  before,       \* the job spec that an iteration of each node's output flush loop may have
                \* read before it was replaced
  out,          \* the output file of each job
  timeouts, losses,
  last,         \* the job that was submitted last
  busy,         \* a submission began while an earlier job still had something to do
  stale,        \* a request or a flush iteration of an earlier job ended in a later one
  mistaken      \* an ACK has ended the retries of another task than the one it was for

leaderVars == <<scenario, spec, topology, assigned>>
healthVars == <<stopped, restarting, monitor>>
taskVars   == <<used, running, current, before>>
tupleVars  == <<received, pipe, processed, sent, wal, drained>>
outVars    == <<outputBuffer, out>>
ghosts     == <<last, busy, stale, mistaken>>
vars == <<scenario, spec, topology, assigned, stopped, submit, stream, leaderSent, restarting,
          monitor, late, used, running, current, received, pipe, processed, sent, wal,
          drained, acks, outputBuffer, before, out, timeouts, losses, last, busy, stale, mistaken>>

----------------------------------------------------------------------------
File(j)   == scenario.file[j]
NewSubmit == [pc |-> "new", left |-> {}, topo |-> NoJob, err |-> FALSE]
NoStream  == [topo |-> NoJob, unread |-> {}]
NoLines   == [t \in Lines |-> 0]

Init ==
  /\ scenario \in Scenarios
  /\ spec = NoJob /\ topology = NoJob /\ assigned = NoJob
  /\ stopped = {} /\ restarting = {} /\ monitor = {} /\ late = {}
  /\ submit = [j \in Jobs |-> NewSubmit]
  /\ stream = [j \in Jobs |-> NoStream]
  /\ leaderSent = {} /\ acks = {}
  /\ used = {} /\ running = {} /\ current = [n \in Nodes |-> NoJob]
  /\ received = [u \in Tasks |-> {}] /\ pipe = [u \in Tasks |-> {}]
  /\ processed = [u \in Tasks |-> {}] /\ sent = [u \in Tasks |-> {}]
  /\ wal = [u \in Tasks |-> [rec |-> {}, sent |-> {}]] /\ drained = {}
  /\ outputBuffer = [n \in Nodes |-> NoLines] /\ before = [n \in Nodes |-> NoJob]
  /\ out = [j \in Jobs |-> NoLines]
  /\ timeouts = 0 /\ losses = 0
  /\ last = NoJob /\ busy = FALSE /\ stale = FALSE /\ mistaken = FALSE

\* Nothing is on its way from a source to an output.
Rest ==
  /\ \A j \in Jobs : stream[j].unread = {}
  /\ leaderSent = {} /\ acks = {} /\ drained = {}
  /\ \A u \in Tasks : pipe[u] = {} /\ (u \in running => processed[u] = {} /\ sent[u] = {})
  /\ \A n \in Nodes : outputBuffer[n] = NoLines

UnderWay(j) == submit[j].pc \notin {"new", "done", "failed"}

----------------------------------------------------------------------------
(* What a node does with the leader's requests.                             *)

\* Fault: the task's manager stays in place.
KillProcessOnly(u) ==
  /\ running' = running \ {u}
  /\ UNCHANGED <<tupleVars, used, current, before>>

\* The manager goes with the task, what the executable has answered does not.
KillTaskProcess(u) ==
  /\ running' = running \ {u}
  /\ IF u \notin running THEN UNCHANGED tupleVars
     ELSE /\ received'  = [received EXCEPT ![u] = {}]
          /\ processed' = [processed EXCEPT ![u] = {}]
          /\ sent'      = [sent EXCEPT ![u] = {}]
          /\ pipe'      = [pipe EXCEPT ![u] = {}]
          /\ \E S \in SUBSET pipe[u] : drained' = drained \cup {[task |-> u, id |-> t] : t \in S}
          /\ UNCHANGED wal
  /\ UNCHANGED <<used, current, before>>

\* A task that exists is refused, and so is one for which the job spec has no stage.
CanStart(u, s) == u \notin running /\ u[2] <= NStages[s]

StartTasks(S) ==
  /\ used' = used \cup S /\ running' = running \cup S
  /\ received' = [u \in Tasks |-> IF u \in S THEN wal[u].rec ELSE received[u]]
  /\ sent'     = [u \in Tasks |-> IF u \in S THEN wal[u].sent ELSE sent[u]]
  /\ UNCHANGED <<pipe, processed, wal, drained>>

\* Fault: a node keeps the first job spec it was given.
CurrentKept(n, s) ==
  /\ current' = [current EXCEPT ![n] = IF @ = NoJob THEN s ELSE @]
  /\ UNCHANGED before

\* The job spec is taken over before anything else is looked at.
SetCurrent(n, s) ==
  /\ current' = [current EXCEPT ![n] = s]
  /\ before' = IF current[n] = s THEN before ELSE [before EXCEPT ![n] = current[n]]

\* InitializeTask of u under the spec of job s.
InitializeTask(u, s) ==
  /\ SetCurrent(Host[u], s)
  /\ StartTasks(IF CanStart(u, s) THEN {u} ELSE {})

\* InitializeTasks for the tasks of job k on node n stops at the first that is refused.
Mine(n, k) == {u \in TasksOf(k) : Host[u] = n}
AllStart(n, k, s) == \A u \in Mine(n, k) : CanStart(u, s)

InitializeNode(n, k, s) ==
  /\ IF Mine(n, k) = {} THEN UNCHANGED <<current, before>> ELSE SetCurrent(n, s)
  /\ IF AllStart(n, k, s) THEN StartTasks(Mine(n, k))
     ELSE \E S \in SUBSET {u \in Mine(n, k) : CanStart(u, s)} : StartTasks(S)

----------------------------------------------------------------------------
(* SubmitJob.  One submission ends before the next one begins.              *)

LeaderOnly == UNCHANGED <<healthVars, leaderSent, late, taskVars, tupleVars, acks, outVars,
                          losses, timeouts>>
RpcStep    == UNCHANGED <<leaderVars, healthVars, stream, leaderSent, acks, outVars, losses>>

\* killExistingJobTasks takes the assignments as they are now.
SubmitJob(j) ==
  /\ submit[j].pc = "new"
  /\ scenario.eager \/ Rest
  /\ \A k \in Jobs : ~UnderWay(k)
  /\ submit' = [submit EXCEPT ![j] = [@ EXCEPT !.pc = "kill",
                  !.left = IF topology = NoJob THEN {} ELSE TasksOf(assigned)]]
  /\ last' = j /\ busy' = (busy \/ ~Rest)
  /\ LeaderOnly /\ UNCHANGED <<leaderVars, stream, stale, mistaken>>

killExistingJobTasks(j, u) ==
  /\ submit[j].pc = "kill" /\ u \in submit[j].left
  /\ KillTaskProcess(u)
  /\ submit' = [submit EXCEPT ![j].left = @ \ {u}]
  /\ RpcStep /\ UNCHANGED <<late, timeouts, ghosts>>

\* JobSpec, Topology and Assignments are set under three locks.
SetJobSpec(j) ==
  /\ submit[j].pc = "kill" /\ submit[j].left = {}
  /\ spec' = j
  /\ submit' = [submit EXCEPT ![j].pc = "create"]
  /\ LeaderOnly /\ UNCHANGED <<scenario, topology, assigned, stream, ghosts>>

CreateTopology(j) ==
  /\ submit[j].pc = "create"
  /\ topology' = j
  /\ submit' = [submit EXCEPT ![j].pc = "assign"]
  /\ LeaderOnly /\ UNCHANGED <<scenario, spec, assigned, stream, ghosts>>

computeTaskAssignments(j) ==
  /\ submit[j].pc = "assign"
  /\ assigned' = j
  /\ submit' = [submit EXCEPT ![j].pc = "prepare"]
  /\ LeaderOnly /\ UNCHANGED <<scenario, spec, topology, stream, ghosts>>

\* Both fail when the leader knows of no other member that is alive.
NoMembers(j) ==
  /\ submit[j].pc \in {"create", "assign"}
  /\ timeouts < scenario.timeouts /\ timeouts' = timeouts + 1
  /\ submit' = [submit EXCEPT ![j].pc = "failed"]
  /\ RpcStep /\ UNCHANGED <<late, taskVars, tupleVars, ghosts>>

InitializeTasks(j) ==
  /\ submit[j].pc = "prepare"
  /\ submit' = [submit EXCEPT ![j] = [@ EXCEPT !.pc = "init", !.topo = topology,
                  !.left = {Host[u] : u \in TasksOf(assigned)}]]
  /\ LeaderOnly /\ UNCHANGED <<leaderVars, stream, ghosts>>

InitializeOn(j, n) ==
  LET k == submit[j].topo IN
  /\ submit[j].pc = "init" /\ n \in submit[j].left
  /\ InitializeNode(n, k, spec)
  /\ submit' = [submit EXCEPT ![j].left = @ \ {n}, ![j].err = @ \/ ~AllStart(n, k, spec)]
  /\ RpcStep /\ UNCHANGED <<late, timeouts, ghosts>>

\* Fault: the source is started whatever the nodes have answered.
StartStreamingAnyway(j) ==
  /\ submit[j].pc = "init" /\ submit[j].left = {}
  /\ submit' = [submit EXCEPT ![j].pc = "done"]
  /\ stream' = [stream EXCEPT ![j] = [topo |-> topology, unread |-> File(spec)]]
  /\ LeaderOnly /\ UNCHANGED <<leaderVars, ghosts>>

\* A node that failed ends the submission.  The source goroutines of earlier jobs
\* and the leader's manager stay as they are.
StartStreaming(j) ==
  /\ submit[j].pc = "init" /\ submit[j].left = {}
  /\ submit' = [submit EXCEPT ![j].pc = IF submit[j].err THEN "failed" ELSE "done"]
  /\ stream' = IF submit[j].err THEN stream
               ELSE [stream EXCEPT ![j] = [topo |-> topology, unread |-> File(spec)]]
  /\ LeaderOnly /\ UNCHANGED <<leaderVars, ghosts>>

\* An RPC times out: it is executed late, or it was and only its answer is lost.
KillTimesOut(j, u) ==
  /\ submit[j].pc = "kill" /\ u \in submit[j].left
  /\ timeouts < scenario.timeouts /\ timeouts' = timeouts + 1
  /\ late' = late \cup {[what |-> "kill", task |-> u, node |-> Host[u], spec |-> spec]}
  /\ submit' = [submit EXCEPT ![j].left = @ \ {u}]
  /\ RpcStep /\ UNCHANGED <<taskVars, tupleVars, ghosts>>

InitTimesOut(j, n) ==
  /\ submit[j].pc = "init" /\ n \in submit[j].left
  /\ timeouts < scenario.timeouts /\ timeouts' = timeouts + 1
  /\ late' = late \cup {[what |-> "init", task |-> <<submit[j].topo, 1>>, node |-> n, spec |-> spec]}
  /\ submit' = [submit EXCEPT ![j].left = @ \ {n}, ![j].err = TRUE]
  /\ RpcStep /\ UNCHANGED <<taskVars, tupleVars, ghosts>>

\* A request of an earlier job.
OfEarlier(r) == r.what # "kill" /\ (r.task[1] # topology \/ r.spec # spec)

LateRequest(r) ==
  /\ r \in late
  /\ late' = late \ {r}
  /\ \/ r.what = "kill" /\ KillTaskProcess(r.task)
     \/ r.what = "init" /\ InitializeNode(r.node, r.task[1], r.spec)
     \/ r.what = "add" /\ InitializeTask(r.task, r.spec)
  /\ stale' = (stale \/ OfEarlier(r))
  /\ RpcStep /\ UNCHANGED <<submit, timeouts, last, busy, mistaken>>

----------------------------------------------------------------------------
(* Task health.                                                             *)

ReportMetrics(n) ==
  LET here == {u \in used : Host[u] = n} IN
  /\ scenario.reports
  /\ stopped' = (stopped \ here) \cup (here \ running)
  /\ stopped' # stopped
  /\ UNCHANGED <<leaderVars, restarting, monitor, submit, stream, leaderSent, late, taskVars,
                 tupleVars, acks, outVars, timeouts, losses, ghosts>>

startTaskHealthMonitor ==
  /\ restarting = {} /\ monitor = {}
  /\ restarting' = stopped \cap TasksOf(topology) \cap TasksOf(assigned)
  /\ restarting' # {}
  /\ UNCHANGED <<leaderVars, stopped, monitor, submit, stream, leaderSent, late, taskVars,
                 tupleVars, acks, outVars, timeouts, losses, ghosts>>

\* The topology and the job spec are read again before each restart.
Restart(u) ==
  /\ u \in restarting /\ monitor = {}
  /\ restarting' = restarting \ {u}
  /\ monitor' = IF u \notin TasksOf(topology) THEN {}
                ELSE {[what |-> "add", task |-> u, node |-> Host[u], spec |-> spec]}
  /\ UNCHANGED <<leaderVars, stopped, submit, stream, leaderSent, late, taskVars, tupleVars,
                 acks, outVars, timeouts, losses, ghosts>>

RestartAdds(r) ==
  /\ r \in monitor
  /\ monitor' = {}
  /\ InitializeTask(r.task, r.spec)
  /\ stale' = (stale \/ OfEarlier(r))
  /\ UNCHANGED <<leaderVars, stopped, restarting, submit, stream, leaderSent, late, acks,
                 outVars, timeouts, losses, last, busy, mistaken>>

RestartTimesOut ==
  /\ monitor # {}
  /\ timeouts < scenario.timeouts /\ timeouts' = timeouts + 1
  /\ late' = late \cup monitor
  /\ monitor' = {}
  /\ UNCHANGED <<leaderVars, stopped, restarting, submit, stream, leaderSent, taskVars,
                 tupleVars, acks, outVars, losses, ghosts>>

----------------------------------------------------------------------------
(* Tuples.                                                                  *)

Sender(u) == IF u[2] = 1 THEN Leader ELSE <<u[1], u[2] - 1>>

\* SendTuple to task u: accepted, or a duplicate that is acknowledged, or failed.
Deliver(u, t, rest) ==
  \/ /\ u \in running /\ t \notin received[u]
     /\ received' = [received EXCEPT ![u] = @ \cup {t}]
     /\ pipe' = [rest EXCEPT ![u] = @ \cup {t}]
     /\ UNCHANGED <<acks, losses>>
  \/ /\ u \in running /\ t \in received[u]
     /\ acks' = acks \cup {[to |-> Sender(u), id |-> t]}
     /\ pipe' = rest
     /\ UNCHANGED <<received, losses>>
  \/ /\ u \notin running \/ losses < scenario.losses
     /\ losses' = IF u \in running THEN losses + 1 ELSE losses
     /\ pipe' = rest
     /\ UNCHANGED <<received, acks>>

FlowStep ==
  /\ UNCHANGED <<leaderVars, healthVars, submit, late, used, running, current, timeouts>>
  /\ UNCHANGED <<last, busy>>

\* selectTaskByKey: with autoscaling the running stage-1 task of the leader's current
\* topology, whichever job the line is from; otherwise, or if there is none, u.
SelectTask(u) ==
  IF spec # NoJob /\ Autoscale[spec] /\ topology # NoJob /\ <<topology, 1>> \notin stopped
  THEN <<topology, 1>> ELSE u

\* Faults of the source: a line is not tracked.
EmitUntracked(j, t) ==
  /\ t \in stream[j].unread
  /\ stream' = [stream EXCEPT ![j].unread = @ \ {t}]
  /\ Deliver(SelectTask(<<stream[j].topo, 1>>), t, pipe)
  /\ FlowStep /\ UNCHANGED <<leaderSent, processed, sent, wal, drained, before, outVars, stale, mistaken>>

readFileAndEmitTuples(j, t) ==
  LET u == SelectTask(<<stream[j].topo, 1>>) IN
  /\ t \in stream[j].unread
  /\ stream' = [stream EXCEPT ![j].unread = @ \ {t}]
  /\ leaderSent' = {e \in leaderSent : e.id # t} \cup {[id |-> t, dest |-> u]}
  /\ Deliver(u, t, pipe)
  /\ FlowStep /\ UNCHANGED <<processed, sent, wal, drained, before, outVars, stale, mistaken>>

RetryFromSource(e) ==
  /\ e \in leaderSent
  /\ leaderSent' = (leaderSent \ {e}) \cup {[e EXCEPT !.dest = SelectTask(e.dest)]}
  /\ Deliver(SelectTask(e.dest), e.id, pipe)
  /\ FlowStep /\ UNCHANGED <<stream, processed, sent, wal, drained, before, outVars, stale, mistaken>>

IsFinal(u)   == u[2] = NStages[current[Host[u]]]
NextStage(u) == <<u[1], u[2] + 1>>
HasNext(u)   == ~IsFinal(u) /\ NextStage(u) \in Tasks

\* What becomes of an answer.  Whether the task is in the last stage is decided by the
\* job its node has now; without a next stage the answer goes nowhere.
Forward(u, t, rest) ==
  /\ outputBuffer' = IF IsFinal(u) THEN [outputBuffer EXCEPT ![Host[u]][t] = @ + 1]
                     ELSE outputBuffer
  /\ IF HasNext(u) THEN Deliver(NextStage(u), t, rest)
     ELSE pipe' = rest /\ UNCHANGED <<received, acks, losses>>
  /\ FlowStep /\ UNCHANGED <<stream, leaderSent, before, wal, out, stale, mistaken>>

forwardTupleToDownstream(u, t) ==
  /\ u \in running /\ t \in pipe[u]
  /\ Forward(u, t, [pipe EXCEPT ![u] = @ \ {t}])
  /\ processed' = [processed EXCEPT ![u] = @ \cup {t}]
  /\ sent' = IF HasNext(u) THEN [sent EXCEPT ![u] = @ \cup {t}] ELSE sent
  /\ UNCHANGED drained

\* The reader goroutine of a killed task goes on to the end of its pipe.
readTaskOutput(d) ==
  /\ d \in drained
  /\ drained' = drained \ {d}
  /\ Forward(d.task, d.id, pipe)
  /\ UNCHANGED <<processed, sent>>

RetryFromTask(u, t) ==
  /\ u \in running /\ t \in sent[u]
  /\ Deliver(NextStage(u), t, pipe)
  /\ FlowStep /\ UNCHANGED <<stream, leaderSent, processed, sent, wal, drained, before, outVars, stale, mistaken>>

\* The records become durable, and the ACKs go out.
Durable(u) == [rec |-> wal[u].rec \cup processed[u], sent |-> sent[u]]

FlushAcks(u) ==
  /\ u \in running /\ wal[u] # Durable(u)
  /\ wal' = [wal EXCEPT ![u] = Durable(u)]
  /\ acks' = acks \cup {[to |-> Sender(u), id |-> t] : t \in processed[u]}
  /\ processed' = [processed EXCEPT ![u] = {}]
  /\ FlowStep
  /\ UNCHANGED <<stream, leaderSent, received, pipe, sent, drained, before, outVars, losses, stale, mistaken>>

\* The node that gets an ACK looks for the tuple in the managers of all its tasks, in no
\* order, and the first that has sent it stops retrying.  The leader's node runs no tasks.
ACKOwners(a) == {u \in running : Host[u] = Host[a.to] /\ a.id \in sent[u]}

handleACKMessage(a) ==
  /\ a \in acks
  /\ acks' = acks \ {a}
  /\ IF a.to = Leader
     THEN /\ leaderSent' = {e \in leaderSent : e.id # a.id}
          /\ UNCHANGED <<sent, mistaken>>
     ELSE /\ \/ \E u \in ACKOwners(a) : /\ sent' = [sent EXCEPT ![u] = @ \ {a.id}]
                                        /\ mistaken' = (mistaken \/ u # a.to)
             \/ ACKOwners(a) = {} /\ UNCHANGED <<sent, mistaken>>
          /\ UNCHANGED leaderSent
  /\ FlowStep
  /\ UNCHANGED <<stream, received, pipe, processed, wal, drained, before, outVars, losses, stale>>

\* The output flush loop reads the job spec and then takes the buffer: an iteration
\* that read it before it was replaced appends to the file of the earlier job.
startOutputFlushLoop(n, j) ==
  /\ outputBuffer[n] # NoLines
  /\ j \in {current[n], before[n]} \ {NoJob}
  /\ out' = [out EXCEPT ![j] = [t \in Lines |-> @[t] + outputBuffer[n][t]]]
  /\ outputBuffer' = [outputBuffer EXCEPT ![n] = NoLines]
  /\ before' = [before EXCEPT ![n] = NoJob]
  /\ stale' = (stale \/ j # current[n])
  /\ FlowStep /\ UNCHANGED <<stream, leaderSent, tupleVars, acks, losses, mistaken>>

----------------------------------------------------------------------------
Submission ==
  \/ \E j \in Jobs : \/ SubmitJob(j) \/ SetJobSpec(j) \/ CreateTopology(j)
                     \/ computeTaskAssignments(j) \/ NoMembers(j) \/ InitializeTasks(j)
                     \/ StartStreaming(j)
  \/ \E j \in Jobs, u \in Tasks : killExistingJobTasks(j, u) \/ KillTimesOut(j, u)
  \/ \E j \in Jobs, n \in Nodes : InitializeOn(j, n) \/ InitTimesOut(j, n)
  \/ \E r \in late : LateRequest(r)

Health ==
  \/ \E n \in Nodes : ReportMetrics(n)
  \/ startTaskHealthMonitor \/ RestartTimesOut
  \/ \E u \in Tasks : Restart(u)
  \/ \E r \in monitor : RestartAdds(r)

TupleFlow ==
  \/ \E j \in Jobs, t \in Lines : readFileAndEmitTuples(j, t)
  \/ \E e \in leaderSent : RetryFromSource(e)
  \/ \E u \in Tasks, t \in Lines : forwardTupleToDownstream(u, t) \/ RetryFromTask(u, t)
  \/ \E d \in drained : readTaskOutput(d)
  \/ \E u \in Tasks : FlushAcks(u)
  \/ \E a \in acks : handleACKMessage(a)
  \/ \E n \in Nodes, j \in Jobs : startOutputFlushLoop(n, j)

Next == Submission \/ Health \/ TupleFlow

Spec == Init /\ [][Next]_vars

----------------------------------------------------------------------------
(* Properties.                                                              *)

RequestType == [what : {"kill", "init", "add"}, task : Tasks, node : Nodes, spec : Jobs]
LineCount   == [Lines -> Nat]

\* Every variable keeps its shape; a task that runs is on a node that has a job; and
\* a task that does not run has no state in memory.
TypeOK ==
  /\ scenario \in Scenarios /\ {spec, topology, assigned, last} \subseteq Jobs \cup {NoJob}
  /\ stopped \subseteq Tasks /\ restarting \subseteq Tasks
  /\ monitor \cup late \subseteq RequestType
  /\ submit \in [Jobs -> [pc : {"new", "kill", "create", "assign", "prepare", "init", "done", "failed"},
                          left : SUBSET (Tasks \cup Nodes), topo : Jobs \cup {NoJob}, err : BOOLEAN]]
  /\ stream \in [Jobs -> [topo : Jobs \cup {NoJob}, unread : SUBSET Lines]]
  /\ leaderSent \subseteq [id : Lines, dest : Tasks]
  /\ running \subseteq used /\ used \subseteq Tasks /\ current \in [Nodes -> Jobs \cup {NoJob}]
  /\ \A f \in {received, pipe, processed, sent} : f \in [Tasks -> SUBSET Lines]
  /\ wal \in [Tasks -> [rec : SUBSET Lines, sent : SUBSET Lines]]
  /\ drained \subseteq [task : Tasks, id : Lines]
  /\ acks \subseteq [to : Tasks \cup {Leader}, id : Lines]
  /\ outputBuffer \in [Nodes -> LineCount] /\ before \in [Nodes -> Jobs \cup {NoJob}]
  /\ out \in [Jobs -> LineCount] /\ timeouts \in Nat /\ losses \in Nat
  /\ {busy, stale, mistaken} \subseteq BOOLEAN
  /\ \A u \in running : current[Host[u]] # NoJob
  /\ \A u \in Tasks \ running : received[u] = {} /\ pipe[u] = {} /\ processed[u] = {} /\ sent[u] = {}

\* Nothing of an earlier job can be taken for something of job j.
Apart(j) == busy => \A k \in Jobs \ {j} : File(k) \cap File(j) = {}

\* A job's lines are put into its own output file, once, and if the earlier job had
\* ended nothing else is: whatever tasks of the earlier job a lost KillTask has left
\* running, although the nodes' output buffer and the leader's manager serve all
\* jobs, and although two jobs that read the same file have the same tuple IDs.  Not if
\* an ACK, which is found by its ID alone, ended the retries of another task (mistaken).
OutputOwn ==
  ~stale /\ ~mistaken /\ last # NoJob /\ Apart(last) =>
    \A j \in Jobs, t \in Lines :
      /\ t \in File(last) => out[j][t] <= (IF t \in File(j) THEN 1 ELSE 0)
      /\ out[j][t] > 0 => t \in File(j) \/ busy

\* And no line of the latest job is lost: once its source has started, each line is
\* unread, or somebody holds it, or it is in the job's output, also when the job was
\* submitted while an earlier one, with another source file, was still at work.
LineKept ==
  \A j \in Jobs \cap {last} : ~stale /\ ~mistaken /\ Apart(j) /\ stream[j] # NoStream =>
    \A t \in File(j) :
      \/ t \in stream[j].unread \/ out[j][t] > 0
      \/ \E e \in leaderSent : e.id = t
      \/ \E u \in TasksOf(j) \cap running : t \in pipe[u] \cup sent[u]
      \/ \E n \in Nodes : outputBuffer[n][t] > 0

\* A source starts only when all the tasks of its topology have been started, also when
\* RPCs time out or are executed late.
StreamsWhenStarted ==
  [][\A j \in Jobs : stream'[j].topo # stream[j].topo =>
       TasksOf(stream'[j].topo) \subseteq used]_vars
=============================================================================
