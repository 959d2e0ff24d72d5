----------------------------- MODULE Autoscale -----------------------------
(***************************************************************************)
(* Autoscaling of a running job (resource_manager.go): the leader adds and  *)
(* removes tasks of a stage while tuples flow, restarts stopped tasks, and  *)
(* tells the nodes about it with RPCs over UDP that may time out and be     *)
(* executed all the same.  A removed task's WAL is merged into that of a    *)
(* surviving one.                                                           *)
(*                                                                          *)
(* The way of a tuple through one task has been cut short: a call is        *)
(* answered at once, and an executable's answer is forwarded in one step.   *)
(* Module ExactlyOnce has those steps.  Which stage is over- or under-used  *)
(* is left open, as the throughput the nodes report is.                     *)
(***************************************************************************)
EXTENDS Integers, FiniteSets, EomLog

CONSTANTS
  NStages,
  Tasks,       \* all task IDs, those a scale-up may make included
  Stage,       \* [Tasks -> 1..NStages]
  Rank,        \* [Tasks -> Nat]: the order of the task IDs
  Host,        \* [Tasks -> node]: Assignments, the round-robin choice of the leader
  Leader,      \* the source; not a task
  KeyHash,     \* [Tuples -> Nat]: hashKey of a tuple's key
  Scenarios    \* what may happen in a behaviour: the tasks of the job as submitted,
               \* the stages that are scaled, and budgets

ASSUME TasksAssumption ==
  /\ NStages \in Nat \ {0} /\ Stage \in [Tasks -> 1..NStages]
  /\ Rank \in [Tasks -> Nat] /\ \A u, v \in Tasks : Rank[u] = Rank[v] => u = v
  /\ IsFiniteSet(Tasks) /\ Leader \notin Tasks
  /\ KeyHash \in [Tuples -> Nat] /\ DOMAIN Host = Tasks
ASSUME ScenariosAssumption ==
  /\ Scenarios \subseteq [tasks : SUBSET Tasks, stages : SUBSET (1..NStages), ups : Nat, downs : Nat,
                          kills : Nat, timeouts : Nat, losses : Nat]
  /\ \A c \in Scenarios, s \in 1..NStages : \E u \in c.tasks : Stage[u] = s

Senders == Tasks \cup {Leader}

VARIABLES
  scenario,
  source,      \* lines the leader has not read yet
  topo,        \* Leader.Topology.Tasks, and the keys of Assignments
  stopped,     \* the tasks that Leader.TaskStatuses has as not running
  op,          \* the scale operation the leader is in, and the RPC it waits for
  restarting,  \* tasks the health monitor found stopped and has not dealt with
  monitor,     \* the AddTask RPC the health monitor waits for, or {}
  late,        \* RPCs whose caller has given up
  used,        \* tasks that were ever started
  running,     \* tasks in a node's TaskInfos
  ins, outs,   \* InputTasks and OutputTargets of the nodes' tasks
  received, sender,  \* receivedTuples, and the SenderID of its entries
  pipe,        \* tuples written to the executable and not answered
  sent,        \* sentTuples of each manager
  buffer, pendingAcks, flushing,  \* as in ExactlyOnce
  lateFlush,   \* flush iterations of killed tasks
  wal,         \* WAL of each task, as a log
  merging,     \* MergeWal: logs fetched and not appended yet
  drained,     \* answers of killed executables that are still in the pipe, with the
               \* OutputTargets the task had
  acks,        \* ACK messages
  output,      \* how often each tuple was written to the output
  ups, downs, kills, timeouts, losses,  \* so far, against their budgets
  aborted,     \* a scale operation returned an error
  excused,     \* tuples acknowledged before they were durable, or logged too late
  unlogged     \* tuples taken over by a task that had no WAL to append them to

leaderVars == <<topo, stopped, op, restarting, monitor, late>>
eomVars    == <<received, sender, pipe, sent, buffer, pendingAcks>>
logVars    == <<flushing, lateFlush, wal, merging, drained>>
budgets    == <<ups, downs, kills, timeouts, losses>>
vars == <<scenario, source, topo, stopped, op, restarting, monitor, late, used, running,
          ins, outs, received, sender, pipe, sent, buffer, pendingAcks, flushing,
          lateFlush, wal, merging, drained, acks, output, ups, downs, kills, timeouts, losses,
          aborted, excused, unlogged>>

----------------------------------------------------------------------------
Initial       == scenario.tasks
OfStage(S, s) == {u \in S : Stage[u] = s}

\* A new task and every later update get these from the leader's topology: the
\* leader adds and removes a task and the references to it under one lock.
InputTasks(S, u)    == IF Stage[u] = 1 THEN {Leader} ELSE OfStage(S, Stage[u] - 1)
OutputTargets(S, u) == OfStage(S, Stage[u] + 1)

\* selectTaskByKey and selectDownstreamTask: the hash picks among the sorted IDs.
Select(S, t) ==
  CHOOSE u \in S : Cardinality({v \in S : Rank[v] < Rank[u]}) = KeyHash[t] % Cardinality(S)

\* Stage 1 as the leader sees it; a task not reported yet counts as running.
Candidates == {u \in OfStage(topo, 1) : u \notin stopped}

\* Two runs of records, one after the other.
LogAppend(l, m) ==
  [rec   |-> l.rec \cup m.rec, sent |-> (l.sent \ m.acked) \cup m.sent,
   acked |-> (l.acked \ m.sent) \cup m.acked]

NoOp    == [pc |-> "idle", task |-> Leader, keep |-> Leader, left |-> {}]
NoFlush == [log |-> LogEmpty, ids |-> {}]

\* A request as the leader sends it: with what the node is to know of the topology.
Request(what, u, v) == [what |-> what, task |-> u, keep |-> v, topo |-> topo]
UpdateRequest(n)    == [what |-> "update", task |-> Leader, keep |-> n, topo |-> topo]

Init ==
  /\ scenario \in Scenarios
  /\ source = Tuples
  /\ topo = Initial /\ used = Initial /\ running = Initial
  /\ op = NoOp /\ stopped = {} /\ restarting = {} /\ monitor = {} /\ late = {}
  /\ ins  = [u \in Tasks |-> IF u \in Initial THEN InputTasks(Initial, u) ELSE {}]
  /\ outs = [u \in Tasks |-> IF u \in Initial THEN OutputTargets(Initial, u) ELSE {}]
  /\ received = [u \in Tasks |-> {}]
  /\ sender   = [u \in Tasks |-> [t \in Tuples |-> Leader]]
  /\ pipe = [u \in Tasks |-> {}]
  /\ sent = [u \in Senders |-> {}]
  /\ buffer = [u \in Tasks |-> LogEmpty] /\ pendingAcks = [u \in Tasks |-> {}]
  /\ flushing = [u \in Tasks |-> NoFlush] /\ lateFlush = {}
  /\ wal = [u \in Tasks |-> LogEmpty] /\ merging = {} /\ drained = {}
  /\ acks = {} /\ output = [t \in Tuples |-> 0]
  /\ ups = 0 /\ downs = 0 /\ kills = 0 /\ timeouts = 0 /\ losses = 0
  /\ aborted = FALSE /\ excused = {} /\ unlogged = {}

----------------------------------------------------------------------------
(* Tuples.                                                                  *)

\* sendACKForTuple: only a sender among the InputTasks gets one.
AcksTo(u, v, t) == {[to |-> w, id |-> t] : w \in {v} \cap ins[u]}

\* SendTuple of t by v to task u: u accepts the tuple, or acknowledges a duplicate,
\* or the call fails.  rest is what the pipes hold otherwise.
Deliver(v, u, t, rest) ==
  \/ /\ u \in running /\ t \notin received[u]
     /\ received' = [received EXCEPT ![u] = @ \cup {t}]
     /\ sender'   = [sender EXCEPT ![u][t] = v]
     /\ pipe'     = [rest EXCEPT ![u] = @ \cup {t}]
     /\ UNCHANGED <<losses, acks, excused>>
  \/ /\ u \in running /\ t \in received[u]
     /\ acks' = acks \cup AcksTo(u, v, t)
     /\ excused' = IF t \in wal[u].rec THEN excused ELSE excused \cup {t}
     /\ pipe' = rest
     /\ UNCHANGED <<losses, received, sender>>
  \/ /\ u \notin running \/ losses < scenario.losses
     /\ losses' = IF u \in running THEN losses + 1 ELSE losses
     /\ pipe' = rest
     /\ UNCHANGED <<received, sender, acks, excused>>

TupleStep == UNCHANGED <<scenario, leaderVars, used, running, ins, outs, ups, downs,
                         kills, timeouts, aborted, unlogged>>

\* Without a candidate the leader falls back to a stage-1 task it knew before.
SourceTargets(t) ==
  IF Candidates # {} THEN {Select(Candidates, t)} ELSE OfStage(used, 1)

readFileAndEmitTuples(t) ==
  /\ t \in source
  /\ source' = source \ {t}
  /\ sent' = [sent EXCEPT ![Leader] = @ \cup {t}]
  /\ \E u \in SourceTargets(t) : Deliver(Leader, u, t, pipe)
  /\ TupleStep /\ UNCHANGED <<logVars, buffer, pendingAcks, output>>

\* A retry chooses the destination again, by the leader's topology ...
RetryFromSource(t) ==
  /\ t \in sent[Leader]
  /\ \E u \in SourceTargets(t) : Deliver(Leader, u, t, pipe)
  /\ TupleStep /\ UNCHANGED <<logVars, source, sent, buffer, pendingAcks, output>>

\* ... or by the task's current OutputTargets.
RetryFromTask(v, t) ==
  /\ v \in running /\ t \in sent[v] /\ outs[v] # {}
  /\ buffer' = [buffer EXCEPT ![v] = LogSENT(@, t)]
  /\ Deliver(v, Select(outs[v], t), t, pipe)
  /\ TupleStep /\ UNCHANGED <<logVars, source, sent, pendingAcks, output>>

\* The answer of an executable is forwarded ...
forwardTupleToDownstream(v, t) ==
  /\ v \in running /\ t \in pipe[v] /\ Stage[v] < NStages /\ outs[v] # {}
  /\ sent' = [sent EXCEPT ![v] = @ \cup {t}]
  /\ buffer' = [buffer EXCEPT ![v] = LogREC(LogSENT(@, t), t)]
  /\ pendingAcks' = [pendingAcks EXCEPT ![v] = @ \cup {t}]
  /\ Deliver(v, Select(outs[v], t), t, [pipe EXCEPT ![v] = @ \ {t}])
  /\ TupleStep /\ UNCHANGED <<logVars, source, output>>

\* ... or written to the output, by the last stage.
writeTupleToOutputFile(v, t) ==
  /\ v \in running /\ t \in pipe[v] /\ Stage[v] = NStages
  /\ output' = [output EXCEPT ![t] = @ + 1]
  /\ buffer' = [buffer EXCEPT ![v] = LogREC(@, t)]
  /\ pendingAcks' = [pendingAcks EXCEPT ![v] = @ \cup {t}]
  /\ pipe' = [pipe EXCEPT ![v] = @ \ {t}]
  /\ TupleStep
  /\ UNCHANGED <<logVars, source, received, sender, sent, acks, losses, excused>>

\* The reader of a killed task goes on to the end of its pipe: what its executable had
\* answered is sent on or written to the output, and recorded by nobody.
readTaskOutput(d) ==
  /\ d \in drained
  /\ drained' = drained \ {d}
  /\ \/ /\ Stage[d.task] < NStages /\ d.targets # {}
        /\ Deliver(d.task, Select(d.targets, d.id), d.id, pipe)
        /\ UNCHANGED output
     \/ /\ Stage[d.task] = NStages
        /\ output' = [output EXCEPT ![d.id] = @ + 1]
        /\ excused' = excused \cup {d.id}
        /\ UNCHANGED <<received, sender, pipe, acks, losses>>
  /\ TupleStep
  /\ UNCHANGED <<flushing, lateFlush, wal, merging, source, sent, buffer, pendingAcks>>

\* The node that gets the ACK looks for the tuple in all its managers.
handleACKMessage(a) ==
  /\ a \in acks
  /\ acks' = acks \ {a}
  /\ LET owners == IF a.to = Leader THEN {Leader}
                   ELSE {u \in running : Host[u] = Host[a.to] /\ a.id \in sent[u]}
     IN \/ \E u \in owners :
             /\ sent' = [sent EXCEPT ![u] = @ \ {a.id}]
             /\ buffer' = IF u = Leader THEN buffer
                          ELSE [buffer EXCEPT ![u] = LogACK(@, a.id)]
        \/ owners = {} /\ UNCHANGED <<sent, buffer>>
  /\ TupleStep
  /\ UNCHANGED <<logVars, source, received, sender, pipe, pendingAcks, output, losses, excused>>

FlushSnapshot(u) ==
  /\ u \in running /\ flushing[u] = NoFlush
  /\ buffer[u] # LogEmpty \/ pendingAcks[u] # {}
  /\ flushing' = [flushing EXCEPT ![u] = [log |-> buffer[u], ids |-> pendingAcks[u]]]
  /\ buffer' = [buffer EXCEPT ![u] = LogEmpty]
  /\ pendingAcks' = [pendingAcks EXCEPT ![u] = {}]
  /\ TupleStep
  /\ UNCHANGED <<lateFlush, wal, merging, drained, source, received, sender, pipe, sent, acks,
                 output, losses, excused>>

\* The records are appended, and then the ACKs go out.
AppendAndAck(u, f) ==
  /\ wal' = [wal EXCEPT ![u] = LogAppend(@, f.log)]
  /\ acks' = acks \cup UNION {AcksTo(u, sender[u][t], t) : t \in f.ids}
  /\ TupleStep
  /\ UNCHANGED <<merging, drained, source, eomVars, output, losses>>

FlushAppend(u) ==
  /\ u \in running /\ flushing[u] # NoFlush
  /\ AppendAndAck(u, flushing[u])
  /\ flushing' = [flushing EXCEPT ![u] = NoFlush]
  /\ UNCHANGED <<lateFlush, excused>>

\* A flush iteration that a kill did not stop.
LateFlushAppend(f) ==
  /\ f \in lateFlush
  /\ AppendAndAck(f.task, f)
  /\ lateFlush' = lateFlush \ {f}
  /\ excused' = excused \cup f.log.rec \cup f.log.sent
  /\ UNCHANGED flushing

----------------------------------------------------------------------------
(* What the nodes do with the leader's RPCs.                                *)

\* A new manager restores its maps from the task's WAL.  A task that is still in
\* TaskInfos is refused.
InitializeTask(u, S) ==
  IF u \in running
  THEN UNCHANGED <<used, running, ins, outs, received, sent>>
  ELSE /\ used' = used \cup {u} /\ running' = running \cup {u}
       /\ ins'  = [ins EXCEPT ![u] = InputTasks(S, u)]
       /\ outs' = [outs EXCEPT ![u] = OutputTargets(S, u)]
       /\ received' = [received EXCEPT ![u] = wal[u].rec]
       /\ sent'     = [sent EXCEPT ![u] = wal[u].sent]

\* Fault: what has gone from the topology stays.
UpdateTopologyOnlyAdds(n, S) ==
  LET here == {u \in running \cap S : Host[u] = n} IN
  /\ ins'  = [u \in Tasks |-> IF u \in here THEN ins[u] \cup InputTasks(S, u) ELSE ins[u]]
  /\ outs' = [u \in Tasks |-> IF u \in here THEN outs[u] \cup OutputTargets(S, u) ELSE outs[u]]

UpdateTopology(n, S) ==
  LET here == {u \in running \cap S : Host[u] = n} IN
  /\ ins'  = [u \in Tasks |-> IF u \in here THEN InputTasks(S, u) ELSE ins[u]]
  /\ outs' = [u \in Tasks |-> IF u \in here THEN OutputTargets(S, u) ELSE outs[u]]

\* The manager is stopped and dropped; a flush iteration goes on, and what the executable
\* has answered so far stays in the pipe.
KillTaskProcess(u) ==
  IF u \notin running
  THEN UNCHANGED <<running, received, pipe, sent, buffer, pendingAcks, flushing, lateFlush,
                   drained, excused>>
  ELSE /\ running' = running \ {u}
       /\ received' = [received EXCEPT ![u] = {}]
       /\ pipe' = [pipe EXCEPT ![u] = {}]
       /\ \E S \in SUBSET pipe[u] :
            drained' = drained \cup {[task |-> u, id |-> t, targets |-> outs[u]] : t \in S}
       /\ sent' = [sent EXCEPT ![u] = {}]
       /\ buffer' = [buffer EXCEPT ![u] = LogEmpty]
       /\ pendingAcks' = [pendingAcks EXCEPT ![u] = {}]
       /\ flushing' = [flushing EXCEPT ![u] = NoFlush]
       /\ lateFlush' = IF flushing[u] = NoFlush THEN lateFlush
                       ELSE lateFlush \cup {[task |-> u, log |-> flushing[u].log, ids |-> flushing[u].ids]}
       /\ excused' = IF Stage[u] = NStages
                     THEN excused \cup buffer[u].rec \cup flushing[u].log.rec ELSE excused

\* Fault: only the records are appended, the survivor's maps stay as they are.
MergeMapsForgotten(x, v) == UNCHANGED <<received, sender, sent>>

\* Fault: the survivor takes over what was sent and not what was received.
MergeSentOnly(x, v) ==
  /\ sent' = IF v \in running THEN [sent EXCEPT ![v] = (@ \ wal[x].acked) \cup wal[x].sent] ELSE sent
  /\ UNCHANGED <<received, sender>>

\* mergeStateFromLocalWal, if the survivor runs.
MergeMaps(x, v) ==
  IF v \notin running THEN UNCHANGED <<received, sender, sent>>
  ELSE /\ received' = [received EXCEPT ![v] = @ \cup wal[x].rec]
       /\ sender' = [sender EXCEPT ![v] =
                       [t \in Tuples |-> IF t \in wal[x].rec THEN sender[x][t] ELSE @[t]]]
       /\ sent' = [sent EXCEPT ![v] = (@ \ wal[x].acked) \cup wal[x].sent]

\* MergeWalForTask: the WAL of x is fetched and merged into the maps of v ...
MergeWalForTask(x, v) ==
  /\ MergeMaps(x, v)
  /\ merging' = merging \cup {[old |-> x, keep |-> v, log |-> wal[x]]}
  /\ UNCHANGED <<used, running, ins, outs, pipe, buffer, pendingAcks, flushing, lateFlush,
                 wal, drained, excused>>

----------------------------------------------------------------------------
(* The leader's scale operations.                                           *)

LeaderStep == UNCHANGED <<scenario, source, acks, output, losses, unlogged>>
NodesUnchanged == UNCHANGED <<used, running, ins, outs, eomVars, logVars, excused>>

SendTopologyUpdate == [NoOp EXCEPT !.pc = "update", !.left = {Host[u] : u \in topo}]

scaleUpStage(u) ==
  /\ op = NoOp /\ ups < scenario.ups /\ ups' = ups + 1
  /\ u \notin used \cup topo /\ Stage[u] \in scenario.stages
  /\ \A r \in late : r.task # u
  /\ topo' = topo \cup {u}
  /\ op' = [NoOp EXCEPT !.pc = "add", !.task = u]
  /\ LeaderStep /\ NodesUnchanged
  /\ UNCHANGED <<stopped, restarting, monitor, late, downs, kills, timeouts, aborted>>

\* Fault: the last task of a stage may go as well.
scaleDownLast(x, v) ==
  /\ op = NoOp /\ downs < scenario.downs /\ downs' = downs + 1
  /\ {x, v} \subseteq topo /\ Stage[x] = Stage[v] /\ Stage[x] \in scenario.stages
  /\ topo' = topo \ {x}
  /\ op' = [NoOp EXCEPT !.pc = "kill", !.task = x, !.keep = v]
  /\ LeaderStep /\ NodesUnchanged
  /\ UNCHANGED <<stopped, restarting, monitor, late, ups, kills, timeouts, aborted>>

\* The order of the tasks is that of a Go map: any may go, any other may be kept.
scaleDownStage(x, v) ==
  /\ op = NoOp /\ downs < scenario.downs /\ downs' = downs + 1
  /\ {x, v} \subseteq topo /\ x # v /\ Stage[x] = Stage[v] /\ Stage[x] \in scenario.stages
  /\ topo' = topo \ {x}
  /\ op' = [NoOp EXCEPT !.pc = "kill", !.task = x, !.keep = v]
  /\ LeaderStep /\ NodesUnchanged
  /\ UNCHANGED <<stopped, restarting, monitor, late, ups, kills, timeouts, aborted>>

OpStep(pc) ==
  /\ op.pc = pc
  /\ LeaderStep
  /\ UNCHANGED <<topo, stopped, restarting, monitor, late, ups, downs, kills, timeouts>>

AddTask ==
  /\ OpStep("add")
  /\ InitializeTask(op.task, topo)
  /\ op' = IF op.task \in running THEN NoOp ELSE SendTopologyUpdate
  /\ aborted' = (aborted \/ op.task \in running)
  /\ UNCHANGED <<sender, pipe, buffer, pendingAcks, logVars, excused>>

\* A task that is not found ends the operation before the merge.
KillTask ==
  /\ OpStep("kill")
  /\ KillTaskProcess(op.task)
  /\ op' = IF op.task \in running THEN [op EXCEPT !.pc = "merge"] ELSE NoOp
  /\ aborted' = (aborted \/ op.task \notin running)
  /\ UNCHANGED <<used, ins, outs, sender, wal, merging>>

MergeWal ==
  /\ OpStep("merge")
  /\ MergeWalForTask(op.task, op.keep)
  /\ op' = [op EXCEPT !.pc = "append"]
  /\ UNCHANGED aborted

\* Fault: the merged state is kept in memory only.
MergeWalUnlogged(m) ==
  /\ m \in merging
  /\ merging' = merging \ {m}
  /\ op' = IF op.pc = "append" /\ op.task = m.old THEN SendTopologyUpdate ELSE op
  /\ UNCHANGED <<scenario, source, acks, output, losses, excused, unlogged, wal>>
  /\ UNCHANGED <<topo, stopped, restarting, monitor, late, used, running, ins, outs, eomVars,
                 flushing, lateFlush, drained, ups, downs, kills, timeouts, aborted>>

\* ... and then appended to the WAL of v, unless v has none yet.
MergeWalAppend(m) ==
  /\ m \in merging
  /\ merging' = merging \ {m}
  /\ wal' = IF wal[m.keep] = LogEmpty THEN wal
            ELSE [wal EXCEPT ![m.keep] = LogAppend(@, m.log)]
  /\ op' = IF op.pc = "append" /\ op.task = m.old THEN SendTopologyUpdate ELSE op
  /\ unlogged' = IF wal[m.keep] = LogEmpty THEN unlogged \cup m.log.sent ELSE unlogged
  /\ UNCHANGED <<scenario, source, acks, output, losses, excused>>
  /\ UNCHANGED <<topo, stopped, restarting, monitor, late, used, running, ins, outs, eomVars,
                 flushing, lateFlush, drained, ups, downs, kills, timeouts, aborted>>

UpdateDone(n) == IF op.left = {n} THEN NoOp ELSE [op EXCEPT !.left = @ \ {n}]

UpdateNode(n) ==
  /\ OpStep("update") /\ n \in op.left
  /\ UpdateTopology(n, topo)
  /\ op' = UpdateDone(n)
  /\ UNCHANGED <<used, running, eomVars, logVars, aborted, excused>>

\* After a timeout an operation goes on or gives up; the request, or only its
\* answer, is late or lost.
TimesOut(requests) ==
  /\ timeouts < scenario.timeouts /\ timeouts' = timeouts + 1
  /\ late' = late \cup requests
  /\ LeaderStep /\ NodesUnchanged
  /\ UNCHANGED <<topo, stopped, restarting, ups, downs, kills>>

AddOrKillTimesOut ==
  /\ op.pc \in {"add", "kill"}
  /\ TimesOut({Request(op.pc, op.task, op.keep)})
  /\ op' = NoOp /\ aborted' = TRUE
  /\ UNCHANGED monitor

MergeTimesOut ==
  /\ op.pc \in {"merge", "append"}
  /\ TimesOut(IF op.pc = "merge" THEN {Request("merge", op.task, op.keep)} ELSE {})
  /\ op' = SendTopologyUpdate
  /\ UNCHANGED <<monitor, aborted>>

UpdateTimesOut(n) ==
  /\ op.pc = "update" /\ n \in op.left
  /\ TimesOut({UpdateRequest(n)})
  /\ op' = UpdateDone(n)
  /\ UNCHANGED <<monitor, aborted>>

LateRequest(r) ==
  /\ r \in late
  /\ late' = late \ {r}
  /\ \/ /\ r.what = "add" /\ InitializeTask(r.task, r.topo)
        /\ UNCHANGED <<sender, pipe, buffer, pendingAcks, logVars, excused>>
     \/ /\ r.what = "kill" /\ KillTaskProcess(r.task)
        /\ UNCHANGED <<used, ins, outs, sender, wal, merging>>
     \/ r.what = "merge" /\ MergeWalForTask(r.task, r.keep)
     \/ /\ r.what = "update" /\ UpdateTopology(r.keep, r.topo)
        /\ UNCHANGED <<used, running, eomVars, logVars, excused>>
  /\ LeaderStep
  /\ UNCHANGED <<topo, stopped, op, restarting, monitor, ups, downs, kills, timeouts, aborted>>

----------------------------------------------------------------------------
(* Task health.                                                             *)

\* The kill_task command.
handleKillTask(u) ==
  /\ u \in running /\ kills < scenario.kills /\ kills' = kills + 1
  /\ KillTaskProcess(u)
  /\ LeaderStep
  /\ UNCHANGED <<leaderVars, used, ins, outs, sender, wal, merging, ups, downs, timeouts, aborted>>

\* A node reports on every task it ever had; one whose first task came with a
\* scale-up was never told the leader's address.
ReportMetrics(n) ==
  LET here == {u \in used : Host[u] = n} IN
  /\ \E u \in Initial : Host[u] = n
  /\ stopped' = (stopped \ here) \cup (here \ running)
  /\ LeaderStep /\ NodesUnchanged
  /\ UNCHANGED <<topo, op, restarting, monitor, late, ups, downs, kills, timeouts, aborted>>

startTaskHealthMonitor ==
  /\ restarting = {} /\ monitor = {}
  /\ restarting' = stopped \cap topo /\ restarting' # {}
  /\ LeaderStep /\ NodesUnchanged
  /\ UNCHANGED <<topo, stopped, op, monitor, late, ups, downs, kills, timeouts, aborted>>

\* The topology is looked at again before each restart.
Restart(u) ==
  /\ u \in restarting /\ monitor = {}
  /\ restarting' = restarting \ {u}
  /\ monitor' = IF u \in topo THEN {Request("add", u, u)} ELSE {}
  /\ LeaderStep /\ NodesUnchanged
  /\ UNCHANGED <<topo, stopped, op, late, ups, downs, kills, timeouts, aborted>>

RestartAdds(r) ==
  /\ r \in monitor
  /\ monitor' = {}
  /\ InitializeTask(r.task, r.topo)
  /\ LeaderStep
  /\ UNCHANGED <<topo, stopped, op, restarting, late, sender, pipe, buffer, pendingAcks, logVars,
                 ups, downs, kills, timeouts, aborted, excused>>

RestartTimesOut ==
  /\ monitor # {}
  /\ TimesOut(monitor)
  /\ monitor' = {}
  /\ UNCHANGED <<op, aborted>>

----------------------------------------------------------------------------
NodeNames == {Host[u] : u \in Tasks}

TupleFlow ==
  \/ \E t \in Tuples : readFileAndEmitTuples(t) \/ RetryFromSource(t)
  \/ \E u \in Tasks, t \in Tuples :
       RetryFromTask(u, t) \/ forwardTupleToDownstream(u, t) \/ writeTupleToOutputFile(u, t)
  \/ \E a \in acks : handleACKMessage(a)
  \/ \E u \in Tasks : FlushSnapshot(u) \/ FlushAppend(u)
  \/ \E f \in lateFlush : LateFlushAppend(f)
  \/ \E d \in drained : readTaskOutput(d)

Scaling ==
  \/ \E u \in Tasks : scaleUpStage(u)
  \/ \E u, v \in Tasks : scaleDownStage(u, v)
  \/ AddTask \/ KillTask \/ MergeWal
  \/ \E m \in merging : MergeWalAppend(m)
  \/ \E n \in NodeNames : UpdateNode(n) \/ UpdateTimesOut(n)
  \/ AddOrKillTimesOut \/ MergeTimesOut
  \/ \E r \in late : LateRequest(r)

Health ==
  \/ \E u \in Tasks : handleKillTask(u) \/ Restart(u)
  \/ \E n \in NodeNames : ReportMetrics(n)
  \/ startTaskHealthMonitor \/ RestartTimesOut
  \/ \E r \in monitor : RestartAdds(r)

Next == TupleFlow \/ Scaling \/ Health

Spec == Init /\ [][Next]_vars

----------------------------------------------------------------------------
(* Properties.                                                              *)

RequestType == [what : {"add", "kill", "merge", "update"}, task : Senders,
                keep : Senders \cup NodeNames, topo : SUBSET Tasks]

\* Every variable keeps its shape, a stage always has a task in the leader's
\* topology, and a task that does not run has no state in memory.
TypeOK ==
  /\ scenario \in Scenarios /\ source \subseteq Tuples
  /\ topo \subseteq Tasks /\ stopped \subseteq Tasks
  /\ op \in [pc : {"idle", "add", "kill", "merge", "append", "update"}, task : Senders,
             keep : Senders, left : SUBSET NodeNames]
  /\ restarting \subseteq Tasks /\ monitor \cup late \subseteq RequestType
  /\ used \subseteq Tasks /\ running \subseteq used
  /\ ins \in [Tasks -> SUBSET Senders] /\ outs \in [Tasks -> SUBSET Tasks]
  /\ received \in [Tasks -> SUBSET Tuples] /\ sender \in [Tasks -> [Tuples -> Senders]]
  /\ pipe \in [Tasks -> SUBSET Tuples] /\ sent \in [Senders -> SUBSET Tuples]
  /\ buffer \in [Tasks -> Log] /\ pendingAcks \in [Tasks -> SUBSET Tuples]
  /\ flushing \in [Tasks -> [log : Log, ids : SUBSET Tuples]]
  /\ lateFlush \subseteq [task : Tasks, log : Log, ids : SUBSET Tuples]
  /\ drained \subseteq [task : Tasks, id : Tuples, targets : SUBSET Tasks]
  /\ wal \in [Tasks -> Log] /\ merging \subseteq [old : Tasks, keep : Tasks, log : Log]
  /\ acks \subseteq [to : Senders, id : Tuples] /\ output \in [Tuples -> Nat]
  /\ \A n \in {ups, downs, kills, timeouts, losses} : n \in Nat
  /\ aborted \in BOOLEAN /\ excused \cup unlogged \subseteq Tuples
  /\ \A s \in 1..NStages : OfStage(topo, s) # {}
  /\ \A u \in Tasks \ running : sent[u] = {} /\ pipe[u] = {} /\ buffer[u] = LogEmpty

\* The WAL of x is going to be merged.
MergeComing(x) ==
  \/ op.pc \in {"kill", "merge"} /\ op.task = x
  \/ \E r \in late : r.what = "merge" /\ r.task = x

\* Somebody is going to send t on, or it is in the output.
Held(t) ==
  \/ t \in source \/ output[t] > 0
  \/ \E u \in running \cup {Leader} : t \in sent[u]
  \/ \E u \in running : t \in pipe[u]
  \/ \E x \in Tasks : MergeComing(x) /\ t \in wal[x].sent

\* No tuple is lost, if no task is killed by a command, no scale operation gives up,
\* and no ACK for it has gone out before it was durable: whatever retries, flushes, ACKs,
\* rerouting, lost calls and late merges come between the kill, the merge and the
\* topology update of a scale-down.  (With a second scale-down no merge may be late: it
\* would come when the survivor has been removed as well.)
InFlightKept ==
  kills = 0 /\ ~aborted /\ (downs > 1 => timeouts = 0) =>
    \A t \in Tuples : t \in excused \/ (downs > 1 /\ t \in unlogged) \/ Held(t)

\* Between scale operations, if none gave up, no RPC timed out and no task was killed
\* by a command, the tasks of the leader's topology are those that run, and each has
\* the right InputTasks and OutputTargets, so that every tuple and every ACK finds
\* its way: the health monitor does not bring back a task that was removed.
TopologyAgrees ==
  op = NoOp /\ ~aborted /\ timeouts = 0 /\ kills = 0 =>
    /\ running = topo
    /\ \A u \in topo : ins[u] = InputTasks(topo, u) /\ outs[u] = OutputTargets(topo, u)

\* Some task of the stage after u's has accepted t.
AcceptedAfter(u, t) ==
  \E v \in Tasks : Stage[v] = Stage[u] + 1 /\ (t \in received[v] \/ t \in wal[v].rec)

\* What a running task would send again is logged, so that its restart would too:
\* also when it has taken over the WAL of another task.
SentIsLogged ==
  \A u \in running : \A t \in sent[u] \ (excused \cup unlogged) :
    \/ AcceptedAfter(u, t)
    \/ t \in LogAppend(LogAppend(wal[u], flushing[u].log), buffer[u]).sent
    \/ \E m \in merging : m.keep = u /\ t \in m.log.sent

\* Scaling does not repeat a tuple in the output, whichever stages it shrinks: the survivor
\* takes over what the removed task has recorded before the others send to it, and what
\* the removed task's reader still sends on finds its way to where the survivor's retry
\* goes.  (Of a final stage with two tasks, if that is scaled as well, and then without
\* scale-ups: with a third one a retry may be routed to a task that did not take over.
\* What the reader of a removed final task still writes is excused: nobody records it.)
OutputOnce ==
  /\ NStages \in scenario.stages =>
       scenario.ups = 0 /\ Cardinality(OfStage(Initial, NStages)) <= 2
  /\ kills = 0 /\ timeouts = 0
  => \A t \in Tuples \ excused : output[t] <= 1

\* README.md:72: "The surviving task can then retry any un-ACKed sends from the killed
\* task, so in-flight tuples are not lost".  What the WAL of a removed task has as sent
\* and not acknowledged is accepted by the next stage, or somebody sends it again.
SurvivorRetries ==
  op = NoOp =>
    \A x \in used \ (running \cup topo) : \A t \in wal[x].sent : AcceptedAfter(x, t) \/ Held(t)
=============================================================================
