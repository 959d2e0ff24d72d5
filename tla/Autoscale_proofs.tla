-------------------------- MODULE Autoscale_proofs --------------------------
(***************************************************************************)
(* Proofs about autoscaling, for any stages, tasks, hosts, keys and         *)
(* scenarios.                                                               *)
(***************************************************************************)
EXTENDS Autoscale, FunctionTheorems, FiniteSetTheorems, TLAPS

----------------------------------------------------------------------------
(* Types.                                                                   *)

\* A request that is not a topology update names a task, and a merge two.  The same
\* goes for an operation of the leader that is under way.
RequestKnown(r) ==
  /\ r.what # "update" => r.task \in Tasks
  /\ r.what = "merge" => r.keep \in Tasks
  /\ r.what = "update" => r.keep \in NodeNames
OpKnown ==
  /\ op.pc \in {"add", "kill", "merge", "append"} => op.task \in Tasks
  /\ op.pc \in {"kill", "merge", "append"} => op.keep \in Tasks

OpType == [pc : {"idle", "add", "kill", "merge", "append", "update"}, task : Senders,
           keep : Senders, left : SUBSET NodeNames]
BatchType == [log : Log, ids : SUBSET Tuples]

\* TypeOK by who keeps the state.
LeaderOK ==
  /\ scenario \in Scenarios /\ source \subseteq Tuples
  /\ topo \subseteq Tasks /\ stopped \subseteq Tasks
  /\ restarting \subseteq Tasks
  /\ \A s \in 1..NStages : OfStage(topo, s) # {}
OpOK ==
  /\ op \in OpType /\ OpKnown
  /\ monitor \subseteq RequestType /\ late \subseteq RequestType
  /\ \A r \in monitor \cup late : RequestKnown(r)
  /\ \A r \in monitor : r.what = "add"
NodesOK ==
  /\ used \subseteq Tasks /\ running \subseteq used
  /\ ins \in [Tasks -> SUBSET Senders] /\ outs \in [Tasks -> SUBSET Tasks]
ManagersOK ==
  /\ received \in [Tasks -> SUBSET Tuples] /\ sender \in [Tasks -> [Tuples -> Senders]]
  /\ pipe \in [Tasks -> SUBSET Tuples] /\ sent \in [Senders -> SUBSET Tuples]
  /\ buffer \in [Tasks -> Log] /\ pendingAcks \in [Tasks -> SUBSET Tuples]
  /\ \A u \in Tasks \ running : sent[u] = {} /\ pipe[u] = {} /\ buffer[u] = LogEmpty
LogsOK ==
  /\ flushing \in [Tasks -> BatchType]
  /\ lateFlush \subseteq [task : Tasks, log : Log, ids : SUBSET Tuples]
  /\ wal \in [Tasks -> Log] /\ merging \subseteq [old : Tasks, keep : Tasks, log : Log]
  /\ drained \subseteq [task : Tasks, id : Tuples, targets : SUBSET Tasks]
WireOK ==
  /\ acks \subseteq [to : Senders, id : Tuples] /\ output \in [Tuples -> Nat]
  /\ ups \in Nat /\ downs \in Nat /\ kills \in Nat /\ timeouts \in Nat /\ losses \in Nat
  /\ aborted \in BOOLEAN /\ excused \subseteq Tuples /\ unlogged \subseteq Tuples

AllOK == LeaderOK /\ OpOK /\ NodesOK /\ ManagersOK /\ LogsOK /\ WireOK

\* Together they are the type invariant.
LEMMA PartsAreTypes == AllOK => TypeOK
<1> SUFFICES ASSUME AllOK PROVE TypeOK
  OBVIOUS
<1>1. {ups, downs, kills, timeouts, losses} \subseteq Nat
  BY DEF AllOK, WireOK
<1>2. op \in [pc : {"idle", "add", "kill", "merge", "append", "update"}, task : Senders,
              keep : Senders, left : SUBSET NodeNames]
  BY DEF AllOK, OpOK, OpType
<1>3. flushing \in [Tasks -> [log : Log, ids : SUBSET Tuples]]
  BY DEF AllOK, LogsOK, BatchType
<1>4. monitor \cup late \subseteq RequestType
  BY DEF AllOK, OpOK
<1> QED
  BY <1>1, <1>2, <1>3, <1>4 DEF AllOK, TypeOK, LeaderOK, NodesOK, ManagersOK, LogsOK, WireOK

\* What the constants give.
LEMMA TaskFacts ==
  /\ NStages \in Nat \ {0} /\ Leader \in Senders /\ Leader \notin Tasks
  /\ \A u \in Tasks : /\ Stage[u] \in 1..NStages /\ Host[u] \in NodeNames
                      /\ u \in Senders /\ u # Leader
  /\ \A S \in SUBSET Tasks : /\ S \subseteq Senders
                             /\ {Host[u] : u \in S} \in SUBSET NodeNames
                             /\ \A s : OfStage(S, s) \in SUBSET S
                             /\ \A u \in Tasks : InputTasks(S, u) \in SUBSET Senders
                             /\ \A u \in Tasks : OutputTargets(S, u) \in SUBSET Tasks
<1>1. \A S \in SUBSET Tasks : \A s : OfStage(S, s) \in SUBSET S
  BY DEF OfStage
<1> QED
  BY <1>1, TasksAssumption DEF Senders, NodeNames, InputTasks, OutputTargets

LEMMA ScenarioFacts ==
  ASSUME NEW c \in Scenarios
  PROVE  /\ c.tasks \in SUBSET Tasks /\ c.stages \in SUBSET (1..NStages)
         /\ \A s \in 1..NStages : OfStage(c.tasks, s) # {}
<1>1. c \in [tasks : SUBSET Tasks, stages : SUBSET (1..NStages), ups : Nat, downs : Nat,
             kills : Nat, timeouts : Nat, losses : Nat]
  BY ScenariosAssumption
<1>2. \A s \in 1..NStages : \E u \in c.tasks : Stage[u] = s
  BY ScenariosAssumption
<1> QED
  BY <1>1, <1>2 DEF OfStage

\* The operators on logs give logs.
LEMMA LogTypes ==
  /\ LogEmpty \in Log /\ NoFlush \in BatchType
  /\ \A l \in Log : /\ l.rec \subseteq Tuples /\ l.sent \subseteq Tuples /\ l.acked \subseteq Tuples
                    /\ \A m \in Log : LogAppend(l, m) \in Log
                    /\ \A t \in Tuples : LogREC(l, t) \in Log /\ LogSENT(l, t) \in Log /\ LogACK(l, t) \in Log
<1>1. LogEmpty \in Log /\ NoFlush \in BatchType
  BY DEF LogEmpty, NoFlush, Log, BatchType
<1>2. ASSUME NEW l \in Log, NEW m \in Log, NEW t \in Tuples
      PROVE  LogAppend(l, m) \in Log /\ LogREC(l, t) \in Log /\ LogSENT(l, t) \in Log /\ LogACK(l, t) \in Log
  BY DEF Log, LogAppend, LogREC, LogSENT, LogACK
<1>3. ASSUME NEW l \in Log, NEW m \in Log
      PROVE  LogAppend(l, m) \in Log
  BY DEF Log, LogAppend
<1>4. \A l \in Log : l.rec \subseteq Tuples /\ l.sent \subseteq Tuples /\ l.acked \subseteq Tuples
  BY DEF Log
<1> QED
  BY <1>1, <1>2, <1>3, <1>4

LEMMA TypesInit == Init => AllOK
<1> SUFFICES ASSUME Init PROVE AllOK
  OBVIOUS
<1> USE TaskFacts
<1>a. scenario \in Scenarios /\ Initial \in SUBSET Tasks /\ \A s \in 1..NStages : OfStage(Initial, s) # {}
  BY ScenarioFacts DEF Init, Initial
<1>1. LeaderOK
  BY <1>a DEF Init, LeaderOK
<1>2. OpOK
  BY DEF Init, OpOK, NoOp, OpType, OpKnown
<1>3. NodesOK
  BY <1>a DEF Init, NodesOK
<1>4. ManagersOK
  BY LogTypes DEF Init, ManagersOK, Senders
<1>5. LogsOK
  BY LogTypes DEF Init, LogsOK
<1>6. WireOK
  BY DEF Init, WireOK
<1> QED
  BY <1>1, <1>2, <1>3, <1>4, <1>5, <1>6 DEF AllOK

\* Updating a record of the logs, or of the sets of tuples.
LEMMA MapTypes ==
  /\ \A f \in [Tasks -> SUBSET Tuples], u \in Tasks, S \in SUBSET Tuples :
       [f EXCEPT ![u] = S] \in [Tasks -> SUBSET Tuples]
  /\ \A f \in [Senders -> SUBSET Tuples], u \in Senders, S \in SUBSET Tuples :
       [f EXCEPT ![u] = S] \in [Senders -> SUBSET Tuples]
  /\ \A f \in [Tasks -> Log], u \in Tasks, l \in Log : [f EXCEPT ![u] = l] \in [Tasks -> Log]
  /\ \A f \in [Tasks -> BatchType], u \in Tasks, b \in BatchType :
       [f EXCEPT ![u] = b] \in [Tasks -> BatchType]
OBVIOUS

\* An ACK for t is for a task, and for t.
LEMMA AckTypes ==
  ASSUME AllOK, NEW u \in Tasks, NEW v \in Senders, NEW t \in Tuples
  PROVE  AcksTo(u, v, t) \subseteq [to : Senders, id : Tuples]
BY DEF AcksTo

\* The call of SendTuple, whatever it comes to.
Delivered(rest) ==
  /\ received' \in [Tasks -> SUBSET Tuples]
  /\ sender' \in [Tasks -> [Tuples -> Senders]]
  /\ pipe' \in [Tasks -> SUBSET Tuples]
  /\ \A w \in Tasks \ running : pipe'[w] = rest[w]
  /\ losses' \in Nat /\ acks' \subseteq [to : Senders, id : Tuples]
  /\ excused' \subseteq Tuples

LEMMA DeliverTypes ==
  ASSUME AllOK, NEW v \in Senders, NEW u, NEW t \in Tuples,
         NEW rest \in [Tasks -> SUBSET Tuples], Deliver(v, u, t, rest)
  PROVE  Delivered(rest)
<1> USE DEF Delivered
<1>a. /\ running \subseteq Tasks /\ losses \in Nat
      /\ acks \subseteq [to : Senders, id : Tuples] /\ excused \subseteq Tuples
  BY DEF AllOK, NodesOK, WireOK
<1>b. received \in [Tasks -> SUBSET Tuples] /\ sender \in [Tasks -> [Tuples -> Senders]]
  BY DEF AllOK, ManagersOK
<1>1. CASE u \in running /\ t \notin received[u]
           /\ received' = [received EXCEPT ![u] = @ \cup {t}]
           /\ sender'   = [sender EXCEPT ![u][t] = v]
           /\ pipe'     = [rest EXCEPT ![u] = @ \cup {t}]
           /\ UNCHANGED <<losses, acks, excused>>
  <2>1. u \in Tasks
    BY <1>1, <1>a
  <2>2. received[u] \cup {t} \in SUBSET Tuples /\ rest[u] \cup {t} \in SUBSET Tuples
    BY <2>1, <1>b
  <2>3. [sender[u] EXCEPT ![t] = v] \in [Tuples -> Senders]
    BY <2>1, <1>b
  <2>4. sender' = [sender EXCEPT ![u] = [sender[u] EXCEPT ![t] = v]]
    BY <1>1
  <2>5. sender' \in [Tasks -> [Tuples -> Senders]]
    BY <2>1, <2>3, <2>4, <1>b
  <2> QED
    BY <1>1, <2>1, <2>2, <2>5, <1>a, <1>b
<1>2. CASE u \in running /\ t \in received[u]
           /\ acks' = acks \cup AcksTo(u, v, t)
           /\ excused' = (IF t \in wal[u].rec THEN excused ELSE excused \cup {t})
           /\ pipe' = rest
           /\ UNCHANGED <<losses, received, sender>>
  <2>1. AcksTo(u, v, t) \subseteq [to : Senders, id : Tuples]
    BY <1>2, <1>a, AckTypes
  <2> QED
    BY <1>2, <2>1, <1>a, <1>b
<1>3. CASE /\ losses' = (IF u \in running THEN losses + 1 ELSE losses)
           /\ pipe' = rest
           /\ UNCHANGED <<received, sender, acks, excused>>
  BY <1>3, <1>a, <1>b
<1> QED
  BY <1>1, <1>2, <1>3 DEF Deliver

\* A step of the tuples leaves what the leader and the nodes know of the tasks.
LEMMA TupleStepTypes ==
  ASSUME AllOK, TupleStep, source' \subseteq source
  PROVE  /\ LeaderOK' /\ OpOK' /\ NodesOK'
         /\ ups' \in Nat /\ downs' \in Nat /\ kills' \in Nat /\ timeouts' \in Nat
         /\ aborted' \in BOOLEAN /\ unlogged' \subseteq Tuples
<1>1. LeaderOK'
  BY DEF AllOK, LeaderOK, TupleStep, leaderVars
<1>2. OpOK'
  BY DEF AllOK, OpOK, OpKnown, TupleStep, leaderVars
<1>3. NodesOK'
  BY DEF AllOK, NodesOK, TupleStep
<1> QED
  BY <1>1, <1>2, <1>3 DEF AllOK, WireOK, TupleStep

LEMMA TypesTupleFlow == AllOK /\ TupleFlow => AllOK'
<1> SUFFICES ASSUME AllOK, TupleFlow PROVE AllOK'
  OBVIOUS
<1>s. Leader \in Senders /\ Leader \notin Tasks /\ \A u \in Tasks : u \in Senders
  BY TaskFacts
<1>a. /\ running \subseteq Tasks /\ source \subseteq Tuples
      /\ acks \subseteq [to : Senders, id : Tuples] /\ excused \subseteq Tuples
      /\ output \in [Tuples -> Nat] /\ losses \in Nat
  BY DEF AllOK, NodesOK, WireOK, LeaderOK
<1>b. /\ pipe \in [Tasks -> SUBSET Tuples] /\ sent \in [Senders -> SUBSET Tuples]
      /\ buffer \in [Tasks -> Log] /\ pendingAcks \in [Tasks -> SUBSET Tuples]
      /\ received \in [Tasks -> SUBSET Tuples] /\ sender \in [Tasks -> [Tuples -> Senders]]
      /\ \A u \in Tasks \ running : sent[u] = {} /\ pipe[u] = {} /\ buffer[u] = LogEmpty
  BY DEF AllOK, ManagersOK
<1>c. LogsOK
  BY DEF AllOK
<1>1. ASSUME NEW t \in Tuples, readFileAndEmitTuples(t) PROVE AllOK'
  <2>1. TupleStep /\ source' \subseteq source
    BY <1>1 DEF readFileAndEmitTuples
  <2>r. PICK rest : rest = pipe
    OBVIOUS
  <2>2. PICK u : Deliver(Leader, u, t, rest)
    BY <1>1, <2>r DEF readFileAndEmitTuples, Deliver
  <2>v. rest \in [Tasks -> SUBSET Tuples]
    BY <1>b, <2>r
  <2>d. Delivered(rest)
    BY <1>s, <2>v, <2>2, DeliverTypes
  <2>s. sent' \in [Senders -> SUBSET Tuples] /\ \A w \in Tasks \ running : sent'[w] = sent[w]
    BY <1>1, <1>s, <1>b DEF readFileAndEmitTuples
  <2>3. ManagersOK'
    BY <1>1, <1>b, <2>1, <2>r, <2>d, <2>s DEF Delivered, ManagersOK, readFileAndEmitTuples, TupleStep
  <2>4. LogsOK'
    BY <1>1, <1>c DEF readFileAndEmitTuples, LogsOK, logVars
  <2>5. WireOK'
    BY <1>1, <1>s, <1>a, <1>b, <2>1, <2>d, TupleStepTypes DEF Delivered, WireOK, readFileAndEmitTuples
  <2> QED
    BY <2>1, <2>3, <2>4, <2>5, TupleStepTypes DEF AllOK
<1>2. ASSUME NEW t \in Tuples, RetryFromSource(t) PROVE AllOK'
  <2>1. TupleStep /\ source' \subseteq source
    BY <1>2 DEF RetryFromSource
  <2>r. PICK rest : rest = pipe
    OBVIOUS
  <2>2. PICK u : Deliver(Leader, u, t, rest)
    BY <1>2, <2>r DEF RetryFromSource, Deliver
  <2>v. rest \in [Tasks -> SUBSET Tuples]
    BY <1>b, <2>r
  <2>d. Delivered(rest)
    BY <1>s, <2>v, <2>2, DeliverTypes
  <2>3. ManagersOK'
    BY <1>2, <1>b, <2>1, <2>r, <2>d DEF Delivered, ManagersOK, RetryFromSource, TupleStep
  <2>4. LogsOK'
    BY <1>2, <1>c DEF RetryFromSource, LogsOK, logVars
  <2>5. WireOK'
    BY <1>2, <1>s, <1>a, <1>b, <2>1, <2>d, TupleStepTypes DEF Delivered, WireOK, RetryFromSource
  <2> QED
    BY <2>1, <2>3, <2>4, <2>5, TupleStepTypes DEF AllOK
<1>3. ASSUME NEW v \in Tasks, NEW t \in Tuples, RetryFromTask(v, t) PROVE AllOK'
  <2>1. TupleStep /\ source' \subseteq source /\ v \in running
    BY <1>3 DEF RetryFromTask
  <2>r. PICK rest : rest = pipe
    OBVIOUS
  <2>2. PICK u : Deliver(v, u, t, rest)
    BY <1>3, <2>r DEF RetryFromTask, Deliver
  <2>3. buffer' \in [Tasks -> Log] /\ \A w \in Tasks \ running : buffer'[w] = buffer[w]
    BY <1>3, <1>b, <2>1, LogTypes DEF RetryFromTask
  <2>v. rest \in [Tasks -> SUBSET Tuples]
    BY <1>b, <2>r
  <2>d. Delivered(rest)
    BY <1>s, <2>v, <2>2, DeliverTypes
  <2>4. ManagersOK'
    BY <1>3, <1>b, <2>1, <2>r, <2>d, <2>3 DEF Delivered, ManagersOK, RetryFromTask, TupleStep
  <2>5. LogsOK'
    BY <1>3, <1>c DEF RetryFromTask, LogsOK, logVars
  <2>6. WireOK'
    BY <1>3, <1>s, <1>a, <1>b, <2>1, <2>d, TupleStepTypes DEF Delivered, WireOK, RetryFromTask
  <2> QED
    BY <2>1, <2>4, <2>5, <2>6, TupleStepTypes DEF AllOK
<1>4. ASSUME NEW v \in Tasks, NEW t \in Tuples, forwardTupleToDownstream(v, t) PROVE AllOK'
  <2>r. PICK rest : rest = [pipe EXCEPT ![v] = @ \ {t}]
    OBVIOUS
  <2>1. TupleStep /\ source' \subseteq source /\ v \in running
    BY <1>4 DEF forwardTupleToDownstream
  <2>2. PICK u : Deliver(v, u, t, rest)
    BY <1>4, <2>r DEF forwardTupleToDownstream, Deliver
  <2>3. LogREC(LogSENT(buffer[v], t), t) \in Log
    BY <1>b, LogTypes
  <2>4. buffer' \in [Tasks -> Log] /\ \A w \in Tasks \ running : buffer'[w] = buffer[w]
    BY <1>4, <1>b, <2>1, <2>3 DEF forwardTupleToDownstream
  <2>5. rest \in [Tasks -> SUBSET Tuples] /\ \A w \in Tasks \ running : rest[w] = pipe[w]
    BY <1>b, <2>1, <2>r
  <2>6. sent' \in [Senders -> SUBSET Tuples] /\ pendingAcks' \in [Tasks -> SUBSET Tuples]
    BY <1>4, <1>s, <1>b DEF forwardTupleToDownstream
  <2>s. \A w \in Tasks \ running : sent'[w] = sent[w]
    BY <1>4, <1>b, <2>1 DEF forwardTupleToDownstream
  <2>d. Delivered(rest)
    BY <1>s, <2>2, <2>5, DeliverTypes
  <2>7. ManagersOK'
    BY <1>b, <2>1, <2>4, <2>5, <2>6, <2>s, <2>r, <2>d DEF Delivered, ManagersOK, TupleStep
  <2>8. LogsOK'
    BY <1>4, <1>c DEF forwardTupleToDownstream, LogsOK, logVars
  <2>9. WireOK'
    BY <1>4, <1>s, <1>a, <2>1, <2>d, TupleStepTypes DEF Delivered, WireOK, forwardTupleToDownstream
  <2> QED
    BY <2>1, <2>7, <2>8, <2>9, TupleStepTypes DEF AllOK
<1>5. ASSUME NEW v \in Tasks, NEW t \in Tuples, writeTupleToOutputFile(v, t) PROVE AllOK'
  <2>1. TupleStep /\ source' \subseteq source /\ v \in running
    BY <1>5 DEF writeTupleToOutputFile
  <2>2. LogREC(buffer[v], t) \in Log
    BY <1>b, LogTypes
  <2>3. buffer' \in [Tasks -> Log] /\ \A w \in Tasks \ running : buffer'[w] = buffer[w]
    BY <1>5, <1>b, <2>1, <2>2 DEF writeTupleToOutputFile
  <2>4. pipe' \in [Tasks -> SUBSET Tuples] /\ pendingAcks' \in [Tasks -> SUBSET Tuples]
    BY <1>5, <1>s, <1>b DEF writeTupleToOutputFile
  <2>p. \A w \in Tasks \ running : pipe'[w] = pipe[w]
    BY <1>5, <1>b, <2>1 DEF writeTupleToOutputFile
  <2>5. ManagersOK'
    BY <1>5, <1>b, <2>1, <2>3, <2>4, <2>p DEF ManagersOK, writeTupleToOutputFile, TupleStep
  <2>6. LogsOK'
    BY <1>5, <1>c DEF writeTupleToOutputFile, LogsOK, logVars
  <2>7. WireOK'
    BY <1>5, <1>s, <1>a, <2>1, TupleStepTypes DEF WireOK, writeTupleToOutputFile
  <2> QED
    BY <2>1, <2>5, <2>6, <2>7, TupleStepTypes DEF AllOK
<1>6. ASSUME NEW a \in acks, handleACKMessage(a) PROVE AllOK'
  <2>1. TupleStep /\ source' \subseteq source
    BY <1>6 DEF handleACKMessage
  <2>2. a.to \in Senders /\ a.id \in Tuples
    BY <1>a
  <2>3. \/ UNCHANGED <<sent, buffer>>
        \/ \E u \in running \cup {Leader} :
              /\ sent' = [sent EXCEPT ![u] = @ \ {a.id}]
              /\ buffer' = IF u = Leader THEN buffer
                           ELSE [buffer EXCEPT ![u] = LogACK(@, a.id)]
    BY <1>6 DEF handleACKMessage
  <2>4. /\ sent' \in [Senders -> SUBSET Tuples] /\ buffer' \in [Tasks -> Log]
        /\ \A w \in Tasks \ running : sent'[w] = sent[w] /\ buffer'[w] = buffer[w]
    <3>1. ASSUME NEW u \in running, sent' = [sent EXCEPT ![u] = @ \ {a.id}],
                 buffer' = [buffer EXCEPT ![u] = LogACK(@, a.id)]
          PROVE  <2>4
      BY <3>1, <1>s, <1>a, <1>b, <2>2, LogTypes
    <3>2. ASSUME sent' = [sent EXCEPT ![Leader] = @ \ {a.id}], buffer' = buffer
          PROVE  <2>4
      BY <3>2, <1>s, <1>a, <1>b
    <3> QED
      BY <3>1, <3>2, <2>3, <1>s, <1>a, <1>b
  <2>5. ManagersOK'
    BY <1>6, <1>b, <2>1, <2>4 DEF ManagersOK, handleACKMessage, TupleStep
  <2>6. LogsOK'
    BY <1>6, <1>c DEF handleACKMessage, LogsOK, logVars
  <2>7. WireOK'
    BY <1>6, <1>s, <1>a, <2>1, TupleStepTypes DEF WireOK, handleACKMessage
  <2> QED
    BY <2>1, <2>5, <2>6, <2>7, TupleStepTypes DEF AllOK
<1>7. ASSUME NEW u \in Tasks, FlushSnapshot(u) PROVE AllOK'
  <2>1. TupleStep /\ source' \subseteq source
    BY <1>7 DEF FlushSnapshot
  <2>2. [log |-> buffer[u], ids |-> pendingAcks[u]] \in BatchType
    BY <1>b DEF BatchType
  <2>3. /\ buffer' \in [Tasks -> Log] /\ pendingAcks' \in [Tasks -> SUBSET Tuples]
        /\ \A w \in Tasks \ running : buffer'[w] = LogEmpty
    BY <1>7, <1>b, LogTypes DEF FlushSnapshot
  <2>4. flushing' \in [Tasks -> BatchType]
    BY <1>7, <1>c, <2>2 DEF FlushSnapshot, LogsOK
  <2>5. ManagersOK'
    BY <1>7, <1>b, <2>1, <2>3 DEF ManagersOK, FlushSnapshot, TupleStep
  <2>6. LogsOK'
    BY <1>7, <1>c, <2>4 DEF FlushSnapshot, LogsOK
  <2>7. WireOK'
    BY <1>7, <1>s, <1>a, <2>1, TupleStepTypes DEF WireOK, FlushSnapshot
  <2> QED
    BY <2>1, <2>5, <2>6, <2>7, TupleStepTypes DEF AllOK
<1>8. ASSUME NEW u \in Tasks, NEW f, AppendAndAck(u, f), f.log \in Log, f.ids \subseteq Tuples
      PROVE  /\ TupleStep /\ source' \subseteq source /\ wal' \in [Tasks -> Log]
             /\ acks' \subseteq [to : Senders, id : Tuples] /\ ManagersOK'
             /\ UNCHANGED <<merging, drained, output, losses>>
  <2>1. TupleStep /\ source' \subseteq source /\ UNCHANGED <<merging, drained, output, losses>>
    BY <1>8 DEF AppendAndAck
  <2>2. wal' \in [Tasks -> Log]
    <3>1. LogAppend(wal[u], f.log) \in Log
      BY <1>8, <1>c, LogTypes DEF LogsOK
    <3> QED
      BY <1>8, <1>c, <3>1 DEF AppendAndAck, LogsOK
  <2>3. \A t \in f.ids : AcksTo(u, sender[u][t], t) \subseteq [to : Senders, id : Tuples]
    BY <1>8, <1>b, AckTypes
  <2>4. acks' \subseteq [to : Senders, id : Tuples]
    BY <1>8, <1>s, <1>a, <2>3 DEF AppendAndAck
  <2>5. ManagersOK'
    BY <1>8, <1>b, <2>1 DEF AppendAndAck, eomVars, ManagersOK, TupleStep
  <2> QED
    BY <2>1, <2>2, <2>4, <2>5
<1>9. ASSUME NEW u \in Tasks, FlushAppend(u) PROVE AllOK'
  <2>1. flushing[u].log \in Log /\ flushing[u].ids \subseteq Tuples
    BY <1>c DEF LogsOK, BatchType
  <2>2. /\ TupleStep /\ source' \subseteq source /\ wal' \in [Tasks -> Log]
        /\ acks' \subseteq [to : Senders, id : Tuples] /\ ManagersOK'
        /\ UNCHANGED <<merging, drained, output, losses>>
    BY <1>8, <1>9, <2>1 DEF FlushAppend
  <2>3. LogsOK'
    BY <1>9, <1>c, <2>2, LogTypes DEF FlushAppend, LogsOK
  <2>4. WireOK'
    BY <1>9, <1>s, <1>a, <2>2, TupleStepTypes DEF WireOK, FlushAppend
  <2> QED
    BY <2>2, <2>3, <2>4, TupleStepTypes DEF AllOK
<1>10. ASSUME NEW f \in lateFlush, LateFlushAppend(f) PROVE AllOK'
  <2>1. f.task \in Tasks /\ f.log \in Log /\ f.ids \subseteq Tuples
    BY <1>c DEF LogsOK
  <2>2. /\ TupleStep /\ source' \subseteq source /\ wal' \in [Tasks -> Log]
        /\ acks' \subseteq [to : Senders, id : Tuples] /\ ManagersOK'
        /\ UNCHANGED <<merging, drained, output, losses>>
    BY <1>8, <1>10, <2>1 DEF LateFlushAppend
  <2>3. LogsOK'
    BY <1>10, <1>c, <2>2 DEF LateFlushAppend, LogsOK
  <2>4. excused' \subseteq Tuples
    BY <1>10, <1>s, <1>a, <2>1, LogTypes DEF LateFlushAppend
  <2>5. WireOK'
    BY <1>s, <1>a, <2>2, <2>4, TupleStepTypes DEF WireOK
  <2> QED
    BY <2>2, <2>3, <2>5, TupleStepTypes DEF AllOK
<1>11. ASSUME NEW d \in drained, readTaskOutput(d) PROVE AllOK'
  <2>1. TupleStep /\ source' \subseteq source
    BY <1>11 DEF readTaskOutput
  <2>2. d.task \in Senders /\ d.id \in Tuples
    BY <1>c, <1>s DEF LogsOK
  <2>l. LogsOK'
    BY <1>11, <1>c DEF readTaskOutput, LogsOK
  <2>3. CASE \E u : Deliver(d.task, u, d.id, pipe) /\ output' = output
    <3>1. PICK u : Deliver(d.task, u, d.id, pipe) /\ output' = output
      BY <2>3
    <3>d. Delivered(pipe)
      BY <1>b, <2>2, <3>1, DeliverTypes
    <3>2. ManagersOK'
      BY <1>11, <1>b, <2>1, <3>d DEF Delivered, ManagersOK, readTaskOutput, TupleStep
    <3>3. WireOK'
      BY <1>a, <2>1, <3>d, <3>1, TupleStepTypes DEF Delivered, WireOK
    <3> QED
      BY <2>1, <2>l, <3>2, <3>3, TupleStepTypes DEF AllOK
  <2>4. CASE /\ output' = [output EXCEPT ![d.id] = @ + 1] /\ excused' = excused \cup {d.id}
             /\ UNCHANGED <<received, sender, pipe, acks, losses>>
    <3>1. ManagersOK'
      BY <1>11, <1>b, <2>1, <2>4 DEF ManagersOK, readTaskOutput, TupleStep
    <3>2. WireOK'
      BY <1>a, <2>1, <2>2, <2>4, TupleStepTypes DEF WireOK
    <3> QED
      BY <2>1, <2>l, <3>1, <3>2, TupleStepTypes DEF AllOK
  <2>5. \/ \E u : Deliver(d.task, u, d.id, pipe) /\ output' = output
        \/ /\ output' = [output EXCEPT ![d.id] = @ + 1] /\ excused' = excused \cup {d.id}
           /\ UNCHANGED <<received, sender, pipe, acks, losses>>
    BY <1>11 DEF readTaskOutput
  <2> QED
    BY <2>3, <2>4, <2>5
<1> QED
  BY <1>1, <1>2, <1>3, <1>4, <1>5, <1>6, <1>7, <1>9, <1>10, <1>11 DEF TupleFlow

\* The reader of a killed task calls one more task, or writes to the output what is excused.
DrainSends(d) ==
  \E u : /\ Deliver(d.task, u, d.id, pipe) /\ output' = output
         /\ Stage[d.task] < NStages /\ d.targets # {} /\ u = Select(d.targets, d.id)
DrainWrites(d) ==
  /\ Stage[d.task] = NStages
  /\ output' = [output EXCEPT ![d.id] = @ + 1] /\ excused' = excused \cup {d.id}
  /\ UNCHANGED <<received, sender, pipe, acks, losses>>

LEMMA DrainFacts ==
  ASSUME AllOK, NEW d \in drained, readTaskOutput(d)
  PROVE  /\ TupleStep /\ d.task \in Tasks /\ d.id \in Tuples /\ d.targets \in SUBSET Tasks
         /\ UNCHANGED <<flushing, lateFlush, wal, merging, source, sent, buffer, pendingAcks>>
         /\ drained' \subseteq drained /\ excused \subseteq excused'
         /\ DrainSends(d) \/ DrainWrites(d)
<1>1. /\ TupleStep /\ drained' \subseteq drained
      /\ UNCHANGED <<flushing, lateFlush, wal, merging, source, sent, buffer, pendingAcks>>
  BY DEF readTaskOutput
<1>2. d.task \in Tasks /\ d.id \in Tuples /\ d.targets \in SUBSET Tasks
  BY DEF AllOK, LogsOK
<1>3. DrainSends(d) \/ DrainWrites(d)
  BY DEF readTaskOutput, DrainSends, DrainWrites
<1>4. excused \subseteq excused'
  BY <1>3 DEF DrainSends, DrainWrites, Deliver
<1> QED
  BY <1>1, <1>2, <1>3, <1>4

\* What the leader's RPCs do on a node keeps the types of what a node has.
NodeTypes == NodesOK' /\ ManagersOK' /\ LogsOK' /\ excused' \subseteq Tuples

LEMMA UnchangedTypes == AllOK /\ NodesUnchanged => NodeTypes
BY DEF AllOK, NodesUnchanged, NodeTypes, NodesOK, ManagersOK, LogsOK, WireOK, eomVars, logVars

LEMMA InitializeTypes ==
  ASSUME AllOK, NEW u \in Tasks, NEW S \in SUBSET Tasks, InitializeTask(u, S),
         UNCHANGED <<sender, pipe, buffer, pendingAcks, logVars, excused>>
  PROVE  NodeTypes
<1>a. used \subseteq Tasks /\ running \subseteq used /\ excused \subseteq Tuples /\ u \in Senders
  BY TaskFacts DEF AllOK, NodesOK, WireOK
<1>b. ins \in [Tasks -> SUBSET Senders] /\ outs \in [Tasks -> SUBSET Tasks]
  BY DEF AllOK, NodesOK
<1>c. received \in [Tasks -> SUBSET Tuples] /\ sent \in [Senders -> SUBSET Tuples] /\ wal \in [Tasks -> Log]
  BY DEF AllOK, ManagersOK, LogsOK
<1>1. LogsOK' /\ excused' \subseteq Tuples
  BY <1>a DEF AllOK, LogsOK, logVars
<1>2. CASE u \in running
  <2>1. NodesOK'
    BY <1>2 DEF InitializeTask, AllOK, NodesOK
  <2>2. ManagersOK'
    BY <1>2 DEF InitializeTask, AllOK, ManagersOK
  <2> QED
    BY <1>1, <2>1, <2>2 DEF NodeTypes
<1>3. CASE u \notin running
  <2>1. InputTasks(S, u) \in SUBSET Senders /\ OutputTargets(S, u) \in SUBSET Tasks
    BY TaskFacts
  <2>2. ins' \in [Tasks -> SUBSET Senders] /\ outs' \in [Tasks -> SUBSET Tasks]
    BY <1>3, <1>b, <2>1 DEF InitializeTask
  <2>3. NodesOK'
    BY <1>3, <1>a, <2>2 DEF InitializeTask, NodesOK
  <2>4. wal[u].rec \in SUBSET Tuples /\ wal[u].sent \in SUBSET Tuples
    BY <1>c, LogTypes
  <2>5. received' \in [Tasks -> SUBSET Tuples] /\ sent' \in [Senders -> SUBSET Tuples]
    BY <1>3, <1>a, <1>c, <2>4 DEF InitializeTask
  <2>6. \A w \in Tasks \ running' : w \in Tasks \ running /\ sent'[w] = sent[w]
    BY <1>3, <1>a, <1>c, TaskFacts DEF InitializeTask
  <2>7. ManagersOK'
    BY <2>5, <2>6 DEF AllOK, ManagersOK
  <2> QED
    BY <1>1, <2>3, <2>7 DEF NodeTypes
<1> QED
  BY <1>2, <1>3

LEMMA UpdateTypes ==
  ASSUME AllOK, NEW n, NEW S \in SUBSET Tasks, UpdateTopology(n, S),
         UNCHANGED <<used, running, eomVars, logVars, excused>>
  PROVE  NodeTypes
<1>b. ins \in [Tasks -> SUBSET Senders] /\ outs \in [Tasks -> SUBSET Tasks]
  BY DEF AllOK, NodesOK
<1>1. \A u \in Tasks : InputTasks(S, u) \in SUBSET Senders /\ OutputTargets(S, u) \in SUBSET Tasks
  BY TaskFacts
<1>2. ins' \in [Tasks -> SUBSET Senders]
  BY <1>1, <1>b DEF UpdateTopology
<1>3. outs' \in [Tasks -> SUBSET Tasks]
  BY <1>1, <1>b DEF UpdateTopology
<1>4. NodesOK'
  BY <1>2, <1>3 DEF AllOK, NodesOK
<1>5. ManagersOK'
  BY DEF AllOK, ManagersOK, eomVars
<1>6. LogsOK' /\ excused' \subseteq Tuples
  BY DEF AllOK, LogsOK, WireOK, logVars
<1> QED
  BY <1>4, <1>5, <1>6 DEF NodeTypes

LEMMA KillTypes ==
  ASSUME AllOK, NEW u \in Tasks, KillTaskProcess(u),
         UNCHANGED <<used, ins, outs, sender, wal, merging>>
  PROVE  NodeTypes
<1>a. used \subseteq Tasks /\ running \subseteq used /\ excused \subseteq Tuples /\ u \in Senders
  BY TaskFacts DEF AllOK, NodesOK, WireOK
<1>1. CASE u \notin running
  <2>1. NodesOK' /\ ManagersOK'
    BY <1>1 DEF KillTaskProcess, AllOK, NodesOK, ManagersOK
  <2>2. LogsOK' /\ excused' \subseteq Tuples
    BY <1>1 DEF KillTaskProcess, AllOK, LogsOK, WireOK
  <2> QED
    BY <2>1, <2>2 DEF NodeTypes
<1>2. CASE u \in running
  <2>a. /\ running' = running \ {u}
        /\ received' = [received EXCEPT ![u] = {}] /\ pipe' = [pipe EXCEPT ![u] = {}]
        /\ sent' = [sent EXCEPT ![u] = {}] /\ buffer' = [buffer EXCEPT ![u] = LogEmpty]
        /\ pendingAcks' = [pendingAcks EXCEPT ![u] = {}]
        /\ flushing' = [flushing EXCEPT ![u] = NoFlush]
        /\ lateFlush' = IF flushing[u] = NoFlush THEN lateFlush
                        ELSE lateFlush \cup {[task |-> u, log |-> flushing[u].log, ids |-> flushing[u].ids]}
        /\ excused' = IF Stage[u] = NStages
                      THEN excused \cup buffer[u].rec \cup flushing[u].log.rec ELSE excused
    BY <1>2 DEF KillTaskProcess
  <2>b. /\ received \in [Tasks -> SUBSET Tuples] /\ sender \in [Tasks -> [Tuples -> Senders]]
        /\ pipe \in [Tasks -> SUBSET Tuples] /\ sent \in [Senders -> SUBSET Tuples]
        /\ buffer \in [Tasks -> Log] /\ pendingAcks \in [Tasks -> SUBSET Tuples]
        /\ \A w \in Tasks \ running : sent[w] = {} /\ pipe[w] = {} /\ buffer[w] = LogEmpty
    BY DEF AllOK, ManagersOK
  <2>c. /\ flushing \in [Tasks -> BatchType] /\ wal \in [Tasks -> Log]
        /\ flushing[u].log \in Log /\ flushing[u].ids \subseteq Tuples
    BY DEF AllOK, LogsOK, BatchType
  <2>1. NodesOK'
    BY <1>a, <2>a DEF AllOK, NodesOK
  <2>2. ManagersOK'
    <3>1. /\ received' \in [Tasks -> SUBSET Tuples] /\ pipe' \in [Tasks -> SUBSET Tuples]
          /\ pendingAcks' \in [Tasks -> SUBSET Tuples]
      BY <2>a, <2>b
    <3>2. sent' \in [Senders -> SUBSET Tuples] /\ buffer' \in [Tasks -> Log]
      BY <1>a, <2>a, <2>b, LogTypes
    <3>3. \A w \in Tasks \ running' : sent'[w] = {} /\ pipe'[w] = {} /\ buffer'[w] = LogEmpty
      BY <1>a, <2>a, <2>b, TaskFacts
    <3> QED
      BY <2>b, <3>1, <3>2, <3>3 DEF ManagersOK
  <2>3. LogsOK'
    <3>d. drained' \subseteq [task : Tasks, id : Tuples, targets : SUBSET Tasks]
      <4>1. PICK S \in SUBSET pipe[u] :
              drained' = drained \cup {[task |-> u, id |-> t, targets |-> outs[u]] : t \in S}
        BY <1>2 DEF KillTaskProcess
      <4>2. S \subseteq Tuples /\ outs[u] \in SUBSET Tasks
        BY <2>b DEF AllOK, NodesOK
      <4> QED
        BY <4>1, <4>2 DEF AllOK, LogsOK
    <3>1. flushing' \in [Tasks -> BatchType]
      BY <2>a, <2>c, LogTypes
    <3>2. [task |-> u, log |-> flushing[u].log, ids |-> flushing[u].ids]
            \in [task : Tasks, log : Log, ids : SUBSET Tuples]
      BY <2>c
    <3>3. lateFlush' \subseteq [task : Tasks, log : Log, ids : SUBSET Tuples]
      BY <2>a, <3>2 DEF AllOK, LogsOK
    <3> QED
      BY <3>1, <3>3, <3>d DEF AllOK, LogsOK
  <2>4. excused' \subseteq Tuples
    BY <1>a, <2>a, <2>b, <2>c, LogTypes
  <2> QED
    BY <2>1, <2>2, <2>3, <2>4 DEF NodeTypes
<1> QED
  BY <1>1, <1>2

LEMMA MergeTypes ==
  ASSUME AllOK, NEW x \in Tasks, NEW v \in Tasks, MergeWalForTask(x, v)
  PROVE  NodeTypes
<1>a. used \subseteq Tasks /\ running \subseteq used /\ excused \subseteq Tuples /\ v \in Senders
  BY TaskFacts DEF AllOK, NodesOK, WireOK
<1>b. /\ received \in [Tasks -> SUBSET Tuples] /\ sender \in [Tasks -> [Tuples -> Senders]]
      /\ sent \in [Senders -> SUBSET Tuples]
      /\ \A w \in Tasks \ running : sent[w] = {} /\ pipe[w] = {} /\ buffer[w] = LogEmpty
  BY DEF AllOK, ManagersOK
<1>c. wal[x] \in Log /\ wal[x].rec \in SUBSET Tuples /\ wal[x].sent \in SUBSET Tuples
  BY LogTypes DEF AllOK, LogsOK
<1>1. /\ MergeMaps(x, v) /\ merging' = merging \cup {[old |-> x, keep |-> v, log |-> wal[x]]}
      /\ UNCHANGED <<used, running, ins, outs, pipe, buffer, pendingAcks, flushing, lateFlush,
                     wal, drained, excused>>
  BY DEF MergeWalForTask
<1>2. /\ received' \in [Tasks -> SUBSET Tuples] /\ sent' \in [Senders -> SUBSET Tuples]
      /\ sender' \in [Tasks -> [Tuples -> Senders]]
      /\ \A w \in Tasks \ running : sent'[w] = sent[w]
  <2>1. CASE v \notin running
    BY <1>1, <1>b, <2>1 DEF MergeMaps
  <2>2. CASE v \in running
    <3>a. /\ received' = [received EXCEPT ![v] = @ \cup wal[x].rec]
          /\ sender' = [sender EXCEPT ![v] =
                          [t \in Tuples |-> IF t \in wal[x].rec THEN sender[x][t] ELSE @[t]]]
          /\ sent' = [sent EXCEPT ![v] = (@ \ wal[x].acked) \cup wal[x].sent]
      BY <1>1, <2>2 DEF MergeMaps
    <3>1. [t \in Tuples |-> IF t \in wal[x].rec THEN sender[x][t] ELSE sender[v][t]] \in [Tuples -> Senders]
      BY <1>b
    <3>2. sender' \in [Tasks -> [Tuples -> Senders]]
      BY <1>b, <3>a, <3>1
    <3>3. received' \in [Tasks -> SUBSET Tuples] /\ sent' \in [Senders -> SUBSET Tuples]
      BY <1>a, <1>b, <1>c, <3>a
    <3>4. \A w \in Tasks \ running : sent'[w] = sent[w]
      BY <1>a, <1>b, <2>2, <3>a, TaskFacts
    <3> QED
      BY <3>2, <3>3, <3>4
  <2> QED
    BY <2>1, <2>2
<1>3. NodesOK'
  BY <1>1 DEF AllOK, NodesOK
<1>4. ManagersOK'
  BY <1>1, <1>2, <1>b DEF AllOK, ManagersOK
<1>5. [old |-> x, keep |-> v, log |-> wal[x]] \in [old : Tasks, keep : Tasks, log : Log]
  BY <1>c
<1>6. LogsOK'
  BY <1>1, <1>5 DEF AllOK, LogsOK
<1> QED
  BY <1>a, <1>1, <1>3, <1>4, <1>6 DEF NodeTypes

\* A step of the leader keeps the types if what it writes has them.
LEMMA LeaderStepTypes ==
  ASSUME AllOK, LeaderStep, NodeTypes, OpOK',
         topo' \subseteq Tasks, stopped' \subseteq Tasks, restarting' \subseteq Tasks,
         \A s \in 1..NStages : OfStage(topo, s)' # {},
         ups' \in Nat, downs' \in Nat, kills' \in Nat, timeouts' \in Nat, aborted' \in BOOLEAN
  PROVE  AllOK'
<1>1. LeaderOK'
  BY DEF AllOK, LeaderOK, LeaderStep
<1>2. WireOK'
  BY DEF AllOK, WireOK, LeaderStep, NodeTypes
<1> QED
  BY <1>1, <1>2 DEF AllOK, NodeTypes

\* The operations that NoOp and SendTopologyUpdate stand for, and the requests.
LEMMA OpTypes ==
  ASSUME AllOK
  PROVE  /\ NoOp \in OpType /\ NoOp.pc = "idle" /\ SendTopologyUpdate \in OpType
         /\ SendTopologyUpdate.pc = "update"
         /\ \A n : op.pc = "update" => UpdateDone(n) \in OpType /\ UpdateDone(n).pc \in {"idle", "update"}
         /\ \A n \in NodeNames : UpdateRequest(n) \in RequestType /\ RequestKnown(UpdateRequest(n))
         /\ \A w \in {"add", "kill", "merge"}, u \in Tasks, v \in Senders :
              Request(w, u, v) \in RequestType /\ Request(w, u, v).what = w
         /\ op.pc \in {"add", "kill"} => RequestKnown(Request(op.pc, op.task, op.keep))
         /\ op.pc = "merge" => RequestKnown(Request(op.pc, op.task, op.keep))
         /\ \A u \in Tasks : RequestKnown(Request("add", u, u))
<1>a. topo \in SUBSET Tasks /\ op \in OpType /\ OpKnown
  BY DEF AllOK, LeaderOK, OpOK
<1>b. Leader \in Senders /\ (\A u \in Tasks : u \in Senders) /\ {Host[u] : u \in topo} \in SUBSET NodeNames
  BY <1>a, TaskFacts
<1>1. NoOp \in OpType /\ NoOp.pc = "idle"
  BY <1>b DEF NoOp, OpType
<1>2. SendTopologyUpdate \in OpType /\ SendTopologyUpdate.pc = "update"
  BY <1>b, <1>1 DEF SendTopologyUpdate, NoOp, OpType
<1>3. ASSUME NEW n, op.pc = "update"
      PROVE  UpdateDone(n) \in OpType /\ UpdateDone(n).pc \in {"idle", "update"}
  <2>1. [op EXCEPT !.left = @ \ {n}] \in OpType /\ [op EXCEPT !.left = @ \ {n}].pc = "update"
    BY <1>3, <1>a DEF OpType
  <2> QED
    BY <2>1, <1>1 DEF UpdateDone
<1>4. \A n \in NodeNames : UpdateRequest(n) \in RequestType /\ RequestKnown(UpdateRequest(n))
  BY <1>a, <1>b DEF UpdateRequest, RequestType, RequestKnown
<1>5. \A w \in {"add", "kill", "merge"}, u \in Tasks, v \in Senders :
        Request(w, u, v) \in RequestType /\ Request(w, u, v).what = w
  BY <1>a, <1>b DEF Request, RequestType
<1>6. op.pc \in {"add", "kill"} => RequestKnown(Request(op.pc, op.task, op.keep))
  BY <1>a DEF RequestKnown, Request, OpKnown
<1>7. op.pc = "merge" => RequestKnown(Request(op.pc, op.task, op.keep))
  BY <1>a DEF RequestKnown, Request, OpKnown
<1>8. \A u \in Tasks : RequestKnown(Request("add", u, u))
  BY DEF RequestKnown, Request
<1> QED
  BY <1>1, <1>2, <1>3, <1>4, <1>5, <1>6, <1>7, <1>8

LEMMA TypesScaling == AllOK /\ Scaling => AllOK'
<1> SUFFICES ASSUME AllOK, Scaling PROVE AllOK'
  OBVIOUS
<1>a. /\ topo \in SUBSET Tasks /\ stopped \subseteq Tasks /\ restarting \subseteq Tasks
      /\ \A s \in 1..NStages : OfStage(topo, s) # {}
  BY DEF AllOK, LeaderOK
<1>b. /\ op \in OpType /\ OpKnown /\ monitor \subseteq RequestType /\ late \subseteq RequestType
      /\ \A r \in monitor \cup late : RequestKnown(r)
      /\ \A r \in monitor : r.what = "add"
  BY DEF AllOK, OpOK
<1>c. ups \in Nat /\ downs \in Nat /\ kills \in Nat /\ timeouts \in Nat /\ aborted \in BOOLEAN
  BY DEF AllOK, WireOK
<1>s. Leader \in Senders /\ \A u \in Tasks : u \in Senders
  BY TaskFacts
<1>1. ASSUME NEW u \in Tasks, scaleUpStage(u) PROVE AllOK'
  <2>1. LeaderStep /\ NodesUnchanged /\ topo' = topo \cup {u}
    BY <1>1 DEF scaleUpStage
  <2>2. \A s \in 1..NStages : OfStage(topo, s)' # {}
    BY <1>a, <2>1 DEF OfStage
  <2>3. OpOK'
    BY <1>1, <1>b, <1>s DEF scaleUpStage, OpOK, OpKnown, NoOp, OpType
  <2>4. ups' \in Nat /\ UNCHANGED <<downs, kills, timeouts, aborted, stopped, restarting>>
    BY <1>1, <1>c DEF scaleUpStage
  <2> QED
    BY <1>a, <1>c, <2>1, <2>2, <2>3, <2>4, UnchangedTypes, LeaderStepTypes
<1>2. ASSUME NEW x \in Tasks, NEW v \in Tasks, scaleDownStage(x, v) PROVE AllOK'
  <2>1. LeaderStep /\ NodesUnchanged /\ topo' = topo \ {x} /\ v \in topo /\ Stage[v] = Stage[x] /\ v # x
    BY <1>2 DEF scaleDownStage, OfStage
  <2>2. \A s \in 1..NStages : OfStage(topo, s)' # {}
    BY <1>a, <2>1 DEF OfStage
  <2>3. OpOK'
    BY <1>2, <1>b, <1>s DEF scaleDownStage, OpOK, OpKnown, NoOp, OpType
  <2>4. downs' \in Nat /\ UNCHANGED <<ups, kills, timeouts, aborted, stopped, restarting>>
    BY <1>2, <1>c DEF scaleDownStage
  <2> QED
    BY <1>a, <1>c, <2>1, <2>2, <2>3, <2>4, UnchangedTypes, LeaderStepTypes
<1>o. ASSUME NEW pc, OpStep(pc), NodeTypes, op' \in OpType, OpKnown', aborted' \in BOOLEAN
      PROVE  AllOK'
  <2>1. LeaderStep /\ UNCHANGED <<topo, stopped, restarting, monitor, late, ups, downs, kills, timeouts>>
    BY <1>o DEF OpStep
  <2>2. \A s \in 1..NStages : OfStage(topo, s)' # {}
    BY <1>a, <2>1 DEF OfStage
  <2>3. OpOK'
    BY <1>o, <1>b, <2>1 DEF OpOK
  <2> QED
    BY <1>o, <1>a, <1>c, <2>1, <2>2, <2>3, LeaderStepTypes
<1>3. ASSUME AddTask PROVE AllOK'
  <2>1. op.pc = "add" /\ op.task \in Tasks
    BY <1>3, <1>b DEF AddTask, OpStep, OpKnown
  <2>2. PICK u \in Tasks, S \in SUBSET Tasks : u = op.task /\ S = topo
    BY <2>1, <1>a
  <2>3. InitializeTask(u, S) /\ UNCHANGED <<sender, pipe, buffer, pendingAcks, logVars, excused>>
    BY <1>3, <2>2 DEF AddTask, InitializeTask
  <2>4. NodeTypes
    BY <2>3, InitializeTypes
  <2>5. op' \in OpType /\ OpKnown'
    BY <1>3, OpTypes DEF AddTask, OpKnown
  <2> QED
    BY <1>3, <1>c, <1>o, <2>4, <2>5 DEF AddTask
<1>4. ASSUME KillTask PROVE AllOK'
  <2>1. op.pc = "kill" /\ op.task \in Tasks
    BY <1>4, <1>b DEF KillTask, OpStep, OpKnown
  <2>2. PICK u \in Tasks : u = op.task
    BY <2>1
  <2>3. KillTaskProcess(u) /\ UNCHANGED <<used, ins, outs, sender, wal, merging>>
    BY <1>4, <2>2 DEF KillTask, KillTaskProcess
  <2>4. NodeTypes
    BY <2>3, KillTypes
  <2>5. op' \in OpType /\ OpKnown'
    BY <1>4, <1>b, <2>1, OpTypes DEF KillTask, OpKnown, OpType
  <2> QED
    BY <1>4, <1>c, <1>o, <2>4, <2>5 DEF KillTask
<1>5. ASSUME MergeWal PROVE AllOK'
  <2>1. op.pc = "merge" /\ op.task \in Tasks /\ op.keep \in Tasks
    BY <1>5, <1>b DEF MergeWal, OpStep, OpKnown
  <2>2. PICK x \in Tasks, v \in Tasks : x = op.task /\ v = op.keep
    BY <2>1
  <2>3. MergeWalForTask(x, v)
    BY <1>5, <2>2 DEF MergeWal, MergeWalForTask, MergeMaps
  <2>4. NodeTypes
    BY <2>3, MergeTypes
  <2>5. op' \in OpType /\ OpKnown'
    BY <1>5, <1>b, <2>1 DEF MergeWal, OpKnown, OpType
  <2> QED
    BY <1>5, <1>c, <1>o, <2>4, <2>5 DEF MergeWal
<1>6. ASSUME NEW m \in merging, MergeWalAppend(m) PROVE AllOK'
  <2>a. /\ wal \in [Tasks -> Log] /\ merging \subseteq [old : Tasks, keep : Tasks, log : Log]
        /\ unlogged \subseteq Tuples
    BY DEF AllOK, LogsOK, WireOK
  <2>b. m.old \in Tasks /\ m.keep \in Tasks /\ m.log \in Log /\ m.log.sent \subseteq Tuples
    BY <2>a, LogTypes
  <2>1. LogAppend(wal[m.keep], m.log) \in Log
    BY <2>a, <2>b, LogTypes
  <2>2. wal' \in [Tasks -> Log] /\ merging' \subseteq merging /\ unlogged' \subseteq Tuples
    BY <1>6, <2>a, <2>b, <2>1 DEF MergeWalAppend
  <2>3. LogsOK'
    BY <1>6, <2>2 DEF MergeWalAppend, AllOK, LogsOK
  <2>4. LeaderOK' /\ NodesOK'
    BY <1>6 DEF MergeWalAppend, AllOK, LeaderOK, NodesOK
  <2>5. ManagersOK'
    BY <1>6 DEF MergeWalAppend, AllOK, ManagersOK, eomVars
  <2>6. WireOK'
    BY <1>6, <2>2 DEF MergeWalAppend, AllOK, WireOK
  <2>7. op' \in OpType /\ OpKnown'
    BY <1>6, <1>b, OpTypes DEF MergeWalAppend, OpKnown
  <2>8. OpOK'
    BY <1>6, <1>b, <2>7 DEF MergeWalAppend, OpOK
  <2> QED
    BY <2>3, <2>4, <2>5, <2>6, <2>8 DEF AllOK
<1>7. ASSUME NEW n \in NodeNames, UpdateNode(n) PROVE AllOK'
  <2>1. op.pc = "update"
    BY <1>7 DEF UpdateNode, OpStep
  <2>2. PICK S \in SUBSET Tasks : S = topo
    BY <1>a
  <2>3. UpdateTopology(n, S) /\ UNCHANGED <<used, running, eomVars, logVars, excused>>
    BY <1>7, <2>2 DEF UpdateNode, UpdateTopology
  <2>4. NodeTypes
    BY <2>3, UpdateTypes
  <2>5. op' \in OpType /\ OpKnown'
    BY <1>7, <2>1, OpTypes DEF UpdateNode, OpKnown
  <2> QED
    BY <1>7, <1>c, <1>o, <2>4, <2>5 DEF UpdateNode
<1>t. ASSUME NEW R \in SUBSET RequestType, TimesOut(R), \A r \in R : RequestKnown(r), op' \in OpType, OpKnown',
             monitor' \subseteq monitor, aborted' \in BOOLEAN
      PROVE  AllOK'
  <2>1. /\ LeaderStep /\ NodesUnchanged /\ late' = late \cup R /\ timeouts' = timeouts + 1
        /\ UNCHANGED <<topo, stopped, restarting, ups, downs, kills>>
    BY <1>t DEF TimesOut
  <2>2. \A s \in 1..NStages : OfStage(topo, s)' # {}
    BY <1>a, <2>1 DEF OfStage
  <2>3. OpOK'
    BY <1>t, <1>b, <2>1 DEF OpOK
  <2> QED
    BY <1>t, <1>a, <1>c, <2>1, <2>2, <2>3, UnchangedTypes, LeaderStepTypes
<1>8. ASSUME NEW n \in NodeNames, UpdateTimesOut(n) PROVE AllOK'
  <2>1. PICK R : R = {UpdateRequest(n)}
    OBVIOUS
  <2>2. TimesOut(R) /\ op.pc = "update" /\ op' = UpdateDone(n) /\ UNCHANGED <<monitor, aborted>>
    BY <1>8, <2>1 DEF UpdateTimesOut, TimesOut
  <2>3. R \in SUBSET RequestType /\ \A r \in R : RequestKnown(r)
    BY <2>1, OpTypes
  <2>4. op' \in OpType /\ OpKnown'
    BY <2>2, OpTypes DEF OpKnown
  <2> QED
    BY <1>c, <1>t, <2>2, <2>3, <2>4
<1>9. ASSUME AddOrKillTimesOut PROVE AllOK'
  <2>1. PICK R : R = {Request(op.pc, op.task, op.keep)}
    OBVIOUS
  <2>2. TimesOut(R) /\ op.pc \in {"add", "kill"} /\ op' = NoOp /\ aborted' = TRUE /\ UNCHANGED monitor
    BY <1>9, <2>1 DEF AddOrKillTimesOut, TimesOut
  <2>3. R \in SUBSET RequestType /\ \A r \in R : RequestKnown(r)
    BY <2>1, <2>2, <1>b, OpTypes DEF OpKnown, OpType
  <2>4. op' \in OpType /\ OpKnown'
    BY <2>2, OpTypes DEF OpKnown
  <2> QED
    BY <1>t, <2>2, <2>3, <2>4
<1>10. ASSUME MergeTimesOut PROVE AllOK'
  <2>1. PICK R : R = IF op.pc = "merge" THEN {Request("merge", op.task, op.keep)} ELSE {}
    OBVIOUS
  <2>2. TimesOut(R) /\ op.pc \in {"merge", "append"} /\ op' = SendTopologyUpdate /\ UNCHANGED <<monitor, aborted>>
    BY <1>10, <2>1 DEF MergeTimesOut, TimesOut
  <2>3. R \in SUBSET RequestType /\ \A r \in R : RequestKnown(r)
    BY <2>1, <2>2, <1>b, <1>s, OpTypes DEF OpKnown
  <2>4. op' \in OpType /\ OpKnown'
    BY <2>2, OpTypes DEF OpKnown
  <2> QED
    BY <1>c, <1>t, <2>2, <2>3, <2>4
<1>11. ASSUME NEW r \in late, LateRequest(r) PROVE AllOK'
  <2>a. /\ LeaderStep /\ late' = late \ {r}
        /\ UNCHANGED <<topo, stopped, op, restarting, monitor, ups, downs, kills, timeouts, aborted>>
    BY <1>11 DEF LateRequest
  <2>b. r \in RequestType /\ RequestKnown(r)
    BY <1>b
  <2>c. r.topo \in SUBSET Tasks
    BY <2>b DEF RequestType
  <2>1. NodeTypes
    <3>1. CASE /\ r.what = "add" /\ InitializeTask(r.task, r.topo)
               /\ UNCHANGED <<sender, pipe, buffer, pendingAcks, logVars, excused>>
      BY <3>1, <2>b, <2>c, InitializeTypes DEF RequestKnown
    <3>2. CASE /\ r.what = "kill" /\ KillTaskProcess(r.task)
               /\ UNCHANGED <<used, ins, outs, sender, wal, merging>>
      BY <3>2, <2>b, KillTypes DEF RequestKnown
    <3>3. CASE r.what = "merge" /\ MergeWalForTask(r.task, r.keep)
      BY <3>3, <2>b, MergeTypes DEF RequestKnown
    <3>4. CASE /\ r.what = "update" /\ UpdateTopology(r.keep, r.topo)
               /\ UNCHANGED <<used, running, eomVars, logVars, excused>>
      BY <3>4, <2>c, UpdateTypes
    <3> QED
      BY <1>11, <3>1, <3>2, <3>3, <3>4 DEF LateRequest
  <2>2. \A s \in 1..NStages : OfStage(topo, s)' # {}
    BY <1>a, <2>a DEF OfStage
  <2>3. OpOK'
    BY <1>b, <2>a DEF OpOK, OpKnown
  <2> QED
    BY <1>a, <1>c, <2>a, <2>1, <2>2, <2>3, LeaderStepTypes
<1> QED
  BY <1>1, <1>2, <1>3, <1>4, <1>5, <1>6, <1>7, <1>8, <1>9, <1>10, <1>11 DEF Scaling

LEMMA TypesHealth == AllOK /\ Health => AllOK'
<1> SUFFICES ASSUME AllOK, Health PROVE AllOK'
  OBVIOUS
<1>a. /\ topo \in SUBSET Tasks /\ stopped \subseteq Tasks /\ restarting \subseteq Tasks
      /\ \A s \in 1..NStages : OfStage(topo, s) # {}
  BY DEF AllOK, LeaderOK
<1>b. /\ op \in OpType /\ OpKnown /\ monitor \subseteq RequestType /\ late \subseteq RequestType
      /\ \A r \in monitor \cup late : RequestKnown(r)
      /\ \A r \in monitor : r.what = "add"
  BY DEF AllOK, OpOK
<1>c. ups \in Nat /\ downs \in Nat /\ kills \in Nat /\ timeouts \in Nat /\ aborted \in BOOLEAN
  BY DEF AllOK, WireOK
<1>d. used \subseteq Tasks /\ running \subseteq used
  BY DEF AllOK, NodesOK
<1>o. ASSUME LeaderStep, NodeTypes, UNCHANGED <<topo, op, aborted>>,
             stopped' \subseteq Tasks, restarting' \subseteq Tasks,
             monitor' \subseteq RequestType, late' \subseteq RequestType,
             \A r \in monitor' \cup late' : RequestKnown(r), \A r \in monitor' : r.what = "add",
             ups' \in Nat, downs' \in Nat, kills' \in Nat, timeouts' \in Nat
      PROVE  AllOK'
  <2>1. \A s \in 1..NStages : OfStage(topo, s)' # {}
    BY <1>o, <1>a DEF OfStage
  <2>2. OpOK'
    BY <1>o, <1>b DEF OpOK, OpKnown
  <2> QED
    BY <1>o, <1>a, <1>c, <2>1, <2>2, LeaderStepTypes
<1>1. ASSUME NEW u \in Tasks, handleKillTask(u) PROVE AllOK'
  <2>1. NodeTypes
    BY <1>1, KillTypes DEF handleKillTask
  <2>2. LeaderStep /\ kills' \in Nat /\ UNCHANGED <<leaderVars, ups, downs, timeouts, aborted>>
    BY <1>1, <1>c DEF handleKillTask
  <2> QED
    BY <1>a, <1>b, <1>c, <1>o, <2>1, <2>2 DEF leaderVars
<1>2. ASSUME NEW u \in Tasks, Restart(u) PROVE AllOK'
  <2>1. /\ LeaderStep /\ NodesUnchanged /\ restarting' \subseteq restarting
        /\ UNCHANGED <<topo, stopped, op, late, ups, downs, kills, timeouts, aborted>>
    BY <1>2 DEF Restart
  <2>2. monitor' \subseteq {Request("add", u, u)}
    BY <1>2 DEF Restart
  <2>3. /\ Request("add", u, u) \in RequestType /\ RequestKnown(Request("add", u, u))
        /\ Request("add", u, u).what = "add"
    BY TaskFacts, OpTypes
  <2> QED
    BY <1>a, <1>b, <1>c, <1>o, <2>1, <2>2, <2>3, UnchangedTypes
<1>3. ASSUME NEW n \in NodeNames, ReportMetrics(n) PROVE AllOK'
  <2>1. /\ LeaderStep /\ NodesUnchanged /\ stopped' \subseteq stopped \cup used
        /\ UNCHANGED <<topo, op, restarting, monitor, late, ups, downs, kills, timeouts, aborted>>
    BY <1>3 DEF ReportMetrics
  <2> QED
    BY <1>a, <1>b, <1>c, <1>d, <1>o, <2>1, UnchangedTypes
<1>4. ASSUME startTaskHealthMonitor PROVE AllOK'
  <2>1. /\ LeaderStep /\ NodesUnchanged /\ restarting' \subseteq stopped
        /\ UNCHANGED <<topo, stopped, op, monitor, late, ups, downs, kills, timeouts, aborted>>
    BY <1>4 DEF startTaskHealthMonitor
  <2> QED
    BY <1>a, <1>b, <1>c, <1>o, <2>1, UnchangedTypes
<1>5. ASSUME RestartTimesOut PROVE AllOK'
  <2>1. /\ LeaderStep /\ NodesUnchanged /\ late' = late \cup monitor /\ monitor' = {}
        /\ timeouts' = timeouts + 1
        /\ UNCHANGED <<topo, stopped, op, restarting, ups, downs, kills, aborted>>
    BY <1>5 DEF RestartTimesOut, TimesOut
  <2> QED
    BY <1>a, <1>b, <1>c, <1>o, <2>1, UnchangedTypes
<1>6. ASSUME NEW r \in monitor, RestartAdds(r) PROVE AllOK'
  <2>1. /\ LeaderStep /\ monitor' = {} /\ InitializeTask(r.task, r.topo)
        /\ UNCHANGED <<sender, pipe, buffer, pendingAcks, logVars, excused>>
        /\ UNCHANGED <<topo, stopped, op, restarting, late, ups, downs, kills, timeouts, aborted>>
    BY <1>6 DEF RestartAdds
  <2>2. r.task \in Tasks /\ r.topo \in SUBSET Tasks
    BY <1>b DEF RequestKnown, RequestType
  <2>3. NodeTypes
    BY <2>1, <2>2, InitializeTypes
  <2> QED
    BY <1>a, <1>b, <1>c, <1>o, <2>1, <2>3
<1> QED
  BY <1>1, <1>2, <1>3, <1>4, <1>5, <1>6 DEF Health

LEMMA TypesNext == AllOK /\ [Next]_vars => AllOK'
<1> SUFFICES ASSUME AllOK, [Next]_vars PROVE AllOK'
  OBVIOUS
<1>1. CASE UNCHANGED vars
  <2>1. LeaderOK' /\ NodesOK' /\ LogsOK' /\ WireOK'
    BY <1>1 DEF vars, AllOK, LeaderOK, NodesOK, LogsOK, WireOK
  <2>2. OpOK' /\ ManagersOK'
    BY <1>1 DEF vars, AllOK, OpOK, OpKnown, ManagersOK
  <2> QED
    BY <2>1, <2>2 DEF AllOK
<1> QED
  BY <1>1, TypesTupleFlow, TypesScaling, TypesHealth DEF Next

LEMMA TypesInvariant == Spec => []AllOK
<1>1. Init => AllOK
  BY TypesInit
<1>2. AllOK /\ [Next]_vars => AllOK'
  BY TypesNext
<1> QED
  BY <1>1, <1>2, PTL DEF Spec

\* Every variable keeps its shape through scale-ups, scale-downs, merges, restarts and late
\* RPCs: a stage never loses its last task from the leader's topology, so that there is
\* always a task to send to, and a task that was killed leaves no buffer, tuple or entry of
\* sentTuples behind for the one that is started again under its ID.
THEOREM AutoscaleTypeCorrect == Spec => []TypeOK
<1>1. AllOK => TypeOK
  BY PartsAreTypes
<1> QED
  BY <1>1, TypesInvariant, PTL

----------------------------------------------------------------------------
(* The leader's topology and the nodes.                                     *)

Quiet == ~aborted /\ timeouts = 0 /\ kills = 0

\* Task u knows the tasks before and after it.
Right(u) == ins[u] = InputTasks(topo, u) /\ outs[u] = OutputTargets(topo, u)

\* While nothing goes wrong, no RPC is out but the one the leader waits for, and the health
\* monitor has nothing to restart: a node reports only on tasks it had, and those that stopped
\* are out of the topology.  In the middle of an operation the topology is ahead of the nodes
\* by the task that is being added or removed, and of what they know of each other by the
\* nodes that are left to update.
AgreeWhileQuiet ==
  /\ late = {} /\ restarting = {} /\ monitor = {}
  /\ stopped \subseteq used /\ stopped \cap topo = {}
  /\ op.pc = "add" => op.task \in topo \ used /\ running = topo \ {op.task}
  /\ op.pc = "kill" => op.task \notin topo /\ running = topo \cup {op.task}
  /\ op.pc \notin {"add", "kill"} => running = topo
  /\ op.pc = "idle" => \A u \in topo : Right(u)
  /\ op.pc = "update" => \A u \in topo : Host[u] \in op.left \/ Right(u)

Agree == Quiet => AgreeWhileQuiet

LEMMA AgreeInit == Init => Agree
<1> SUFFICES ASSUME Init PROVE AgreeWhileQuiet
  BY DEF Agree
<1>1. Initial \in SUBSET Tasks
  BY ScenarioFacts DEF Init, Initial
<1>2. \A u \in topo : Right(u)
  BY <1>1 DEF Init, Right
<1> QED
  BY <1>2 DEF Init, AgreeWhileQuiet, NoOp

\* A step that leaves the leader, the nodes and what went wrong keeps them in agreement.
LEMMA AgreeUnchanged ==
  Agree /\ UNCHANGED <<topo, stopped, op, restarting, monitor, late, used, running, ins, outs,
                       aborted, timeouts, kills>> => Agree'
<1> SUFFICES ASSUME Agree, UNCHANGED <<topo, stopped, op, restarting, monitor, late, used, running,
                                       ins, outs, aborted, timeouts, kills>>, Quiet'
             PROVE  AgreeWhileQuiet'
  BY DEF Agree
<1>1. AgreeWhileQuiet
  BY DEF Agree, Quiet
<1>2. \A u \in topo : Right(u) => Right(u)'
  BY DEF Right, InputTasks, OutputTargets, OfStage
<1> QED
  BY <1>1, <1>2 DEF AgreeWhileQuiet

LEMMA AgreeTupleFlow == AllOK /\ Agree /\ TupleFlow => Agree'
<1>1. TupleFlow => TupleStep
  BY DEF TupleFlow, readFileAndEmitTuples, RetryFromSource, RetryFromTask, forwardTupleToDownstream,
         writeTupleToOutputFile, handleACKMessage, FlushSnapshot, FlushAppend, LateFlushAppend, AppendAndAck, readTaskOutput
<1> QED
  BY <1>1, AgreeUnchanged DEF TupleStep, leaderVars

LEMMA AgreeScaling == AllOK /\ Agree /\ Scaling => Agree'
<1> SUFFICES ASSUME AllOK, Agree, Scaling, Quiet' PROVE AgreeWhileQuiet'
  BY DEF Agree
<1>a. /\ topo \in SUBSET Tasks /\ used \subseteq Tasks /\ running \subseteq used
      /\ ins \in [Tasks -> SUBSET Senders] /\ outs \in [Tasks -> SUBSET Tasks]
      /\ op \in OpType /\ timeouts \in Nat /\ kills \in Nat
  BY DEF AllOK, LeaderOK, NodesOK, OpOK, WireOK
<1>n. NoOp.pc = "idle" /\ SendTopologyUpdate.pc = "update" /\ SendTopologyUpdate.left = {Host[u] : u \in topo}
  BY DEF NoOp, SendTopologyUpdate
<1>t. ASSUME NEW R, TimesOut(R) PROVE FALSE
  BY <1>t, <1>a DEF TimesOut, Quiet
<1>q. Agree /\ (Quiet => AgreeWhileQuiet)
  BY DEF Agree
<1>1. ASSUME NEW u \in Tasks, scaleUpStage(u) PROVE AgreeWhileQuiet'
  <2>1. /\ AgreeWhileQuiet /\ op = NoOp /\ u \notin used /\ u \notin topo
        /\ topo' = topo \cup {u} /\ op'.pc = "add" /\ op'.task = u
        /\ UNCHANGED <<stopped, restarting, monitor, late, used, running>>
    BY <1>1, <1>q DEF scaleUpStage, NodesUnchanged, Quiet, NoOp
  <2> QED
    BY <2>1, <1>n DEF AgreeWhileQuiet
<1>2. ASSUME NEW x \in Tasks, NEW v \in Tasks, scaleDownStage(x, v) PROVE AgreeWhileQuiet'
  <2>1. /\ AgreeWhileQuiet /\ op = NoOp /\ x \in topo
        /\ topo' = topo \ {x} /\ op'.pc = "kill" /\ op'.task = x
        /\ UNCHANGED <<stopped, restarting, monitor, late, used, running>>
    BY <1>2, <1>q DEF scaleDownStage, NodesUnchanged, Quiet, NoOp, OfStage
  <2> QED
    BY <2>1, <1>n DEF AgreeWhileQuiet
<1>3. ASSUME AddTask PROVE AgreeWhileQuiet'
  <2>1. /\ AgreeWhileQuiet /\ op.pc = "add"
        /\ UNCHANGED <<topo, stopped, restarting, monitor, late>>
    BY <1>3, <1>q DEF AddTask, OpStep, Quiet
  <2>2. op.task \in topo /\ op.task \notin running /\ running = topo \ {op.task}
    BY <2>1, <1>a DEF AgreeWhileQuiet
  <2>3. /\ op' = SendTopologyUpdate /\ running' = topo /\ used' = used \cup {op.task}
    BY <1>3, <2>2 DEF AddTask, InitializeTask
  <2>4. op'.pc = "update" /\ op'.left = {Host[u] : u \in topo'}
    BY <2>1, <2>3, <1>n
  <2> QED
    BY <2>1, <2>3, <2>4 DEF AgreeWhileQuiet
<1>4. ASSUME KillTask PROVE AgreeWhileQuiet'
  <2>1. /\ AgreeWhileQuiet /\ op.pc = "kill"
        /\ UNCHANGED <<topo, stopped, restarting, monitor, late, used>>
    BY <1>4, <1>q DEF KillTask, OpStep, Quiet
  <2>2. op.task \notin topo /\ op.task \in running /\ running = topo \cup {op.task}
    BY <2>1 DEF AgreeWhileQuiet
  <2>3. running' = topo /\ op' = [op EXCEPT !.pc = "merge"]
    BY <1>4, <2>2 DEF KillTask, KillTaskProcess
  <2>4. op'.pc = "merge"
    BY <2>3, <1>a DEF OpType
  <2> QED
    BY <2>1, <2>3, <2>4 DEF AgreeWhileQuiet
<1>5. ASSUME MergeWal PROVE AgreeWhileQuiet'
  <2>1. /\ AgreeWhileQuiet /\ op.pc = "merge" /\ op' = [op EXCEPT !.pc = "append"]
        /\ UNCHANGED <<topo, stopped, restarting, monitor, late, used, running>>
    BY <1>5, <1>q DEF MergeWal, MergeWalForTask, OpStep, Quiet
  <2>2. op'.pc = "append"
    BY <2>1, <1>a DEF OpType
  <2> QED
    BY <2>1, <2>2 DEF AgreeWhileQuiet
<1>6. ASSUME NEW m \in merging, MergeWalAppend(m) PROVE AgreeWhileQuiet'
  <2>1. /\ AgreeWhileQuiet
        /\ UNCHANGED <<topo, stopped, restarting, monitor, late, used, running, ins, outs,
                       aborted, timeouts, kills>>
    BY <1>6, <1>q DEF MergeWalAppend, Quiet
  <2>2. CASE op' = op
    BY <2>1, <2>2, AgreeUnchanged DEF Agree
  <2>3. CASE op.pc = "append" /\ op' = SendTopologyUpdate
    <3>1. op'.pc = "update" /\ op'.left = {Host[u] : u \in topo'}
      BY <2>1, <2>3, <1>n
    <3> QED
      BY <2>1, <2>3, <3>1 DEF AgreeWhileQuiet
  <2> QED
    BY <1>6, <2>2, <2>3 DEF MergeWalAppend
<1>7. ASSUME NEW n \in NodeNames, UpdateNode(n) PROVE AgreeWhileQuiet'
  <2>1. /\ AgreeWhileQuiet /\ op.pc = "update" /\ op' = UpdateDone(n) /\ UpdateTopology(n, topo)
        /\ UNCHANGED <<topo, stopped, restarting, monitor, late, used, running>>
    BY <1>7, <1>q DEF UpdateNode, OpStep, Quiet
  <2>2. running = topo
    BY <2>1 DEF AgreeWhileQuiet
  <2>3. ASSUME NEW u \in topo, Host[u] = n \/ Right(u) PROVE Right(u)'
    <3>1. ins'[u] = (IF Host[u] = n THEN InputTasks(topo, u) ELSE ins[u])
      BY <2>1, <2>2, <1>a DEF UpdateTopology
    <3>2. outs'[u] = (IF Host[u] = n THEN OutputTargets(topo, u) ELSE outs[u])
      BY <2>1, <2>2, <1>a DEF UpdateTopology
    <3> QED
      BY <2>1, <2>3, <3>1, <3>2 DEF Right, InputTasks, OutputTargets, OfStage
  <2>4. \A u \in topo : Host[u] \in op.left \/ Right(u)
    BY <2>1 DEF AgreeWhileQuiet
  <2>5. CASE op.left = {n}
    <3>1. op'.pc = "idle" /\ \A u \in topo : Right(u)'
      BY <2>1, <2>3, <2>4, <2>5, <1>n DEF UpdateDone
    <3> QED
      BY <2>1, <2>2, <3>1 DEF AgreeWhileQuiet
  <2>6. CASE op.left # {n}
    <3>1. op'.pc = "update" /\ op'.left = op.left \ {n}
      BY <2>1, <2>6, <1>a DEF UpdateDone, OpType
    <3>2. \A u \in topo : Host[u] \in op'.left \/ Right(u)'
      BY <2>3, <2>4, <3>1
    <3> QED
      BY <2>1, <2>2, <3>1, <3>2 DEF AgreeWhileQuiet
  <2> QED
    BY <2>5, <2>6
<1>8. ~AddOrKillTimesOut /\ ~MergeTimesOut /\ \A n : ~UpdateTimesOut(n)
  <2>1. AddOrKillTimesOut => \E R : TimesOut(R)
    BY DEF AddOrKillTimesOut, TimesOut
  <2>2. MergeTimesOut => \E R : TimesOut(R)
    BY DEF MergeTimesOut, TimesOut
  <2>3. \A n : UpdateTimesOut(n) => \E R : TimesOut(R)
    BY DEF UpdateTimesOut, TimesOut
  <2> QED
    BY <2>1, <2>2, <2>3, <1>t
<1>9. ASSUME NEW r \in late, LateRequest(r) PROVE FALSE
  BY <1>9, <1>q DEF LateRequest, Quiet, AgreeWhileQuiet
<1> QED
  BY <1>1, <1>2, <1>3, <1>4, <1>5, <1>6, <1>7, <1>8, <1>9 DEF Scaling

LEMMA AgreeHealth == AllOK /\ Agree /\ Health => Agree'
<1> SUFFICES ASSUME AllOK, Agree, Health, Quiet' PROVE AgreeWhileQuiet'
  BY DEF Agree
<1>a. timeouts \in Nat /\ kills \in Nat
  BY DEF AllOK, WireOK
<1>q. Agree /\ (Quiet => AgreeWhileQuiet)
  BY DEF Agree
<1>1. ASSUME NEW u \in Tasks, handleKillTask(u) PROVE FALSE
  BY <1>1, <1>a DEF handleKillTask, Quiet
<1>2. ASSUME NEW u \in Tasks, Restart(u) PROVE FALSE
  BY <1>2, <1>q DEF Restart, Quiet, AgreeWhileQuiet
<1>3. ASSUME NEW n \in NodeNames, ReportMetrics(n) PROVE AgreeWhileQuiet'
  <2>1. /\ AgreeWhileQuiet
        /\ stopped' \subseteq stopped \cup (used \ running)
        /\ UNCHANGED <<topo, op, restarting, monitor, late, used, running, ins, outs>>
    BY <1>3, <1>q DEF ReportMetrics, NodesUnchanged, Quiet
  <2>2. (used \ running) \cap topo = {}
    BY <2>1 DEF AgreeWhileQuiet
  <2>3. stopped' \subseteq used' /\ stopped' \cap topo' = {}
    BY <2>1, <2>2 DEF AgreeWhileQuiet
  <2>4. \A u \in topo : Right(u) => Right(u)'
    BY <2>1 DEF Right, InputTasks, OutputTargets, OfStage
  <2> QED
    BY <2>1, <2>3, <2>4 DEF AgreeWhileQuiet
<1>4. ~startTaskHealthMonitor
  BY <1>q DEF startTaskHealthMonitor, Quiet, AgreeWhileQuiet
<1>5. ~RestartTimesOut
  BY <1>a DEF RestartTimesOut, TimesOut, Quiet
<1>6. ASSUME NEW r \in monitor, RestartAdds(r) PROVE FALSE
  BY <1>6, <1>q DEF RestartAdds, Quiet, AgreeWhileQuiet
<1> QED
  BY <1>1, <1>2, <1>3, <1>4, <1>5, <1>6 DEF Health

LEMMA AgreeNext == AllOK /\ Agree /\ [Next]_vars => Agree'
<1>1. UNCHANGED vars /\ Agree => Agree'
  BY AgreeUnchanged DEF vars
<1> QED
  BY <1>1, AgreeTupleFlow, AgreeScaling, AgreeHealth DEF Next

\* A scale operation that is not disturbed leaves the nodes with the leader's topology: when
\* it is over the tasks of the topology are those that run, whichever reports come meanwhile
\* the monitor restarts none of the tasks that were removed, and every task has been told the
\* tasks before and after it, the new one included.
THEOREM TopologyReachesNodes == Spec => []TopologyAgrees
<1>1. Init => Agree
  BY AgreeInit
<1>2. AllOK /\ Agree /\ [Next]_vars => Agree'
  BY AgreeNext
<1>3. Agree => TopologyAgrees
  BY DEF Agree, Quiet, AgreeWhileQuiet, TopologyAgrees, Right, NoOp
<1> QED
  BY <1>1, <1>2, <1>3, TypesInvariant, PTL DEF Spec

----------------------------------------------------------------------------
(* What a task would send again is in its log.                              *)

\* Every task of a stage that forwards tuples shares its node only with tasks of its own stage
\* and of the last one.  An ACK has the ID of the tuple only, and a node that runs two
\* forwarding stages may take it for the other stage's tuple: an ACK then says
\* nothing of the tuple whose entry it removes.  Every placement of a job of two stages is one.
StagesApart ==
  \A u, v \in Tasks :
    Host[u] = Host[v] /\ Stage[u] < NStages /\ Stage[v] < NStages => Stage[u] = Stage[v]

\* What an ACK for t promises to the sender u: some task of the stage after u's has t in its WAL,
\* from where no step removes it, or t is one of the tuples that were acknowledged too early.
Settled ==
  {p \in Tasks \X Tuples :
     p[2] \in excused \/ \E v \in Tasks : Stage[v] = Stage[p[1]] + 1 /\ p[2] \in wal[v].rec}

\* Logs that a task may have: with SENT records in a stage that forwards, and ACK records for
\* what is settled.
Trusted(A) ==
  [u \in Tasks |-> {l \in Log : /\ l.sent # {} => Stage[u] < NStages
                                /\ \A t \in l.acked : <<u, t>> \in A}]

\* The leader removes a task in favour of another one of its stage, and a task gets ACKs
\* from the next stage only.
StagesKept ==
  /\ op.pc \in {"kill", "merge", "append"} => Stage[op.task] = Stage[op.keep]
  /\ \A r \in late : r.what = "merge" => Stage[r.task] = Stage[r.keep]
  /\ \A m \in merging : Stage[m.old] = Stage[m.keep]
  /\ \A u \in Tasks : \A v \in ins[u] \ {Leader} : Stage[u] = Stage[v] + 1

\* An ACK that is due is for a tuple with a REC record in the same batch, and a task that does
\* not run is in the middle of no flush: the kill has made a late one of it.
BatchesKept ==
  /\ \A u \in Tasks : pendingAcks[u] \subseteq buffer[u].rec
  /\ \A u \in Tasks : flushing[u].ids \subseteq flushing[u].log.rec
  /\ \A f \in lateFlush : f.ids \subseteq f.log.rec
  /\ \A u \in Tasks \ running : flushing[u] = NoFlush

AcksRight ==
  /\ \A a \in acks : a.to # Leader => Stage[a.to] < NStages /\ <<a.to, a.id>> \in Settled
  /\ \A u \in Tasks : /\ wal[u] \in Trusted(Settled)[u] /\ flushing[u].log \in Trusted(Settled)[u]
                      /\ buffer[u] \in Trusted(Settled)[u]
                      /\ sent[u] # {} => Stage[u] < NStages
  /\ \A f \in lateFlush : f.log \in Trusted(Settled)[f.task]
  /\ \A m \in merging : m.log \in Trusted(Settled)[m.keep]

\* SentIsLogged with a tuple that is durable in the next stage for one that was accepted,
\* since a kill makes a task forget what it has only accepted.
SentKept ==
  \A u \in running : \A t \in sent[u] \ unlogged :
    \/ <<u, t>> \in Settled
    \/ t \in LogAppend(LogAppend(wal[u], flushing[u].log), buffer[u]).sent
    \/ \E m \in merging : m.keep = u /\ t \in m.log.sent

LogInv == StagesKept /\ BatchesKept /\ AcksRight /\ SentKept

\* What the leader, the health monitor and the kill_task command do on the nodes.
Kills(u)     == KillTaskProcess(u) /\ UNCHANGED <<used, ins, outs, sender, wal, merging>>
Starts(u, S) == InitializeTask(u, S) /\ UNCHANGED <<sender, pipe, buffer, pendingAcks, logVars, excused>>
Updates(n, S) == UpdateTopology(n, S) /\ UNCHANGED <<used, running, eomVars, logVars, excused>>
Merges(x, v) == Stage[x] = Stage[v] /\ MergeWalForTask(x, v)

NodeOperation ==
  \/ NodesUnchanged
  \/ \E u \in Tasks : Kills(u)
  \/ \E u \in Tasks, S \in SUBSET Tasks : Starts(u, S)
  \/ \E n : \E S \in SUBSET Tasks : Updates(n, S)
  \/ \E x, v \in Tasks : Merges(x, v)

LEMMA NodeSteps ==
  ASSUME AllOK, StagesKept, Scaling \/ Health
  PROVE  (LeaderStep /\ NodeOperation) \/ \E m \in merging : MergeWalAppend(m)
<1>a. /\ topo \in SUBSET Tasks /\ OpKnown
      /\ \A r \in monitor \cup late : RequestKnown(r) /\ r.topo \in SUBSET Tasks
      /\ \A r \in monitor : r.what = "add"
  BY DEF AllOK, LeaderOK, OpOK, RequestType
<1>n. ASSUME LeaderStep, NodesUnchanged PROVE LeaderStep /\ NodeOperation
  BY <1>n DEF NodeOperation
<1>1. (\E u \in Tasks : scaleUpStage(u)) => LeaderStep /\ NodesUnchanged
  BY DEF scaleUpStage
<1>2. (\E u, v \in Tasks : scaleDownStage(u, v)) => LeaderStep /\ NodesUnchanged
  BY DEF scaleDownStage
<1>3. (\E n \in NodeNames : UpdateTimesOut(n)) => LeaderStep /\ NodesUnchanged
  BY DEF UpdateTimesOut, TimesOut
<1>4. AddOrKillTimesOut \/ MergeTimesOut \/ RestartTimesOut => LeaderStep /\ NodesUnchanged
  BY DEF AddOrKillTimesOut, MergeTimesOut, RestartTimesOut, TimesOut
<1>5. (\E u \in Tasks : Restart(u)) => LeaderStep /\ NodesUnchanged
  BY DEF Restart
<1>6. (\E n \in NodeNames : ReportMetrics(n)) \/ startTaskHealthMonitor => LeaderStep /\ NodesUnchanged
  BY DEF ReportMetrics, startTaskHealthMonitor
<1>7. ASSUME AddTask PROVE LeaderStep /\ NodeOperation
  <2>1. PICK u \in Tasks, S \in SUBSET Tasks : u = op.task /\ S = topo
    BY <1>7, <1>a DEF AddTask, OpStep, OpKnown
  <2>2. LeaderStep /\ Starts(u, S)
    BY <1>7, <2>1 DEF AddTask, OpStep, Starts, InitializeTask
  <2> QED
    BY <2>2 DEF NodeOperation
<1>8. ASSUME KillTask PROVE LeaderStep /\ NodeOperation
  <2>1. PICK u \in Tasks : u = op.task
    BY <1>8, <1>a DEF KillTask, OpStep, OpKnown
  <2>2. LeaderStep /\ Kills(u)
    BY <1>8, <2>1 DEF KillTask, OpStep, Kills
  <2> QED
    BY <2>2 DEF NodeOperation
<1>9. ASSUME MergeWal PROVE LeaderStep /\ NodeOperation
  <2>1. PICK x \in Tasks, v \in Tasks : x = op.task /\ v = op.keep
    BY <1>9, <1>a DEF MergeWal, OpStep, OpKnown
  <2>2. LeaderStep /\ Stage[x] = Stage[v]
    BY <1>9, <2>1 DEF MergeWal, OpStep, StagesKept
  <2>3. MergeWalForTask(x, v)
    BY <1>9, <2>1 DEF MergeWal, MergeWalForTask, MergeMaps
  <2> QED
    BY <2>2, <2>3 DEF NodeOperation, Merges
<1>10. ASSUME NEW n \in NodeNames, UpdateNode(n) PROVE LeaderStep /\ NodeOperation
  <2>1. PICK S \in SUBSET Tasks : S = topo
    BY <1>a
  <2>2. LeaderStep /\ Updates(n, S)
    BY <1>10, <2>1 DEF UpdateNode, OpStep, Updates, UpdateTopology
  <2> QED
    BY <2>2 DEF NodeOperation
<1>11. ASSUME NEW r \in late, LateRequest(r) PROVE LeaderStep /\ NodeOperation
  <2>1. LeaderStep /\ RequestKnown(r) /\ r.topo \in SUBSET Tasks
    BY <1>11, <1>a DEF LateRequest
  <2>2. CASE r.what = "add" /\ Starts(r.task, r.topo)
    BY <2>1, <2>2 DEF NodeOperation, RequestKnown
  <2>3. CASE r.what = "kill" /\ Kills(r.task)
    BY <2>1, <2>3 DEF NodeOperation, RequestKnown
  <2>4. CASE r.what = "merge" /\ MergeWalForTask(r.task, r.keep)
    BY <1>11, <2>1, <2>4 DEF NodeOperation, RequestKnown, Merges, StagesKept
  <2>5. CASE r.what = "update" /\ Updates(r.keep, r.topo)
    BY <2>1, <2>5 DEF NodeOperation
  <2> QED
    BY <1>11, <2>2, <2>3, <2>4, <2>5 DEF LateRequest, Starts, Kills, Updates
<1>12. ASSUME NEW u \in Tasks, handleKillTask(u) PROVE LeaderStep /\ NodeOperation
  BY <1>12 DEF handleKillTask, NodeOperation, Kills
<1>13. ASSUME NEW r \in monitor, RestartAdds(r) PROVE LeaderStep /\ NodeOperation
  <2>1. LeaderStep /\ Starts(r.task, r.topo)
    BY <1>13 DEF RestartAdds, Starts
  <2>2. r.task \in Tasks /\ r.topo \in SUBSET Tasks
    BY <1>a DEF RequestKnown
  <2> QED
    BY <2>1, <2>2 DEF NodeOperation
<1> QED
  BY <1>n, <1>1, <1>2, <1>3, <1>4, <1>5, <1>6, <1>7, <1>8, <1>9, <1>10, <1>11, <1>12, <1>13 DEF Scaling, Health

\* Of a stage that is before u's.
LEMMA InputStages ==
  ASSUME NEW S \in SUBSET Tasks, NEW u \in Tasks
  PROVE  \A v \in InputTasks(S, u) \ {Leader} : Stage[u] = Stage[v] + 1
BY TasksAssumption DEF InputTasks, OfStage

LEMMA StagesNext == AllOK /\ StagesKept /\ [Next]_vars => StagesKept'
<1> SUFFICES ASSUME AllOK, StagesKept, [Next]_vars PROVE StagesKept'
  OBVIOUS
<1>a. /\ ins \in [Tasks -> SUBSET Senders] /\ op \in OpType /\ \A r \in monitor : r.what = "add"
      /\ merging \subseteq [old : Tasks, keep : Tasks, log : Log]
  BY DEF AllOK, NodesOK, OpOK, LogsOK
<1>s. /\ op.pc \in {"kill", "merge", "append"} => Stage[op.task] = Stage[op.keep]
      /\ \A r \in late : r.what = "merge" => Stage[r.task] = Stage[r.keep]
      /\ \A m \in merging : Stage[m.old] = Stage[m.keep]
      /\ \A u \in Tasks : \A v \in ins[u] \ {Leader} : Stage[u] = Stage[v] + 1
  BY DEF StagesKept
<1>1. /\ op'.pc \in {"kill", "merge", "append"} => Stage[op'.task] = Stage[op'.keep]
      /\ \A r \in late' : r.what = "merge" => Stage[r.task] = Stage[r.keep]
  <2>1. CASE UNCHANGED <<op, late>>
    BY <2>1, <1>s
  <2>2. CASE \E u \in Tasks : scaleUpStage(u)
    BY <2>2, <1>s DEF scaleUpStage, NoOp
  <2>3. CASE \E u, v \in Tasks : scaleDownStage(u, v)
    BY <2>3, <1>s DEF scaleDownStage, OfStage, NoOp
  <2>4. CASE AddTask
    BY <2>4, <1>s DEF AddTask, OpStep, NoOp, SendTopologyUpdate
  <2>5. CASE KillTask
    BY <2>5, <1>s, <1>a DEF KillTask, OpStep, NoOp, OpType
  <2>6. CASE MergeWal
    BY <2>6, <1>s, <1>a DEF MergeWal, OpStep, OpType
  <2>7. CASE \E m \in merging : MergeWalAppend(m)
    BY <2>7, <1>s DEF MergeWalAppend, NoOp, SendTopologyUpdate
  <2>8. CASE \E n \in NodeNames : UpdateNode(n)
    <3>1. PICK n \in NodeNames : UpdateNode(n)
      BY <2>8
    <3>2. op.pc = "update" /\ op' = UpdateDone(n) /\ late' = late
      BY <3>1 DEF UpdateNode, OpStep
    <3>3. op'.pc \in {"idle", "update"}
      BY <3>2, OpTypes
    <3> QED
      BY <3>2, <3>3, <1>s
  <2>9. CASE \E n \in NodeNames : UpdateTimesOut(n)
    <3>1. PICK n \in NodeNames : UpdateTimesOut(n)
      BY <2>9
    <3>2. op.pc = "update" /\ op' = UpdateDone(n) /\ late' = late \cup {UpdateRequest(n)}
      BY <3>1 DEF UpdateTimesOut, TimesOut
    <3>3. op'.pc \in {"idle", "update"} /\ UpdateRequest(n).what = "update"
      BY <3>2, OpTypes DEF UpdateRequest
    <3> QED
      BY <3>2, <3>3, <1>s
  <2>10. CASE AddOrKillTimesOut
    BY <2>10, <1>s DEF AddOrKillTimesOut, TimesOut, NoOp, Request
  <2>11. CASE MergeTimesOut
    BY <2>11, <1>s DEF MergeTimesOut, TimesOut, NoOp, SendTopologyUpdate, Request
  <2>12. CASE \E r \in late : LateRequest(r)
    <3>1. op' = op /\ late' \subseteq late
      BY <2>12 DEF LateRequest
    <3> QED
      BY <3>1, <1>s
  <2>13. CASE RestartTimesOut
    <3>1. op' = op /\ late' = late \cup monitor
      BY <2>13 DEF RestartTimesOut, TimesOut
    <3>2. \A r \in monitor : r.what = "add"
      BY <1>a
    <3> QED
      BY <3>1, <3>2, <1>s
  <2>14. TupleFlow => UNCHANGED <<op, late>>
    BY DEF TupleFlow, readFileAndEmitTuples, RetryFromSource, RetryFromTask, forwardTupleToDownstream,
           writeTupleToOutputFile, handleACKMessage, FlushSnapshot, FlushAppend, LateFlushAppend, AppendAndAck, readTaskOutput,
           TupleStep, leaderVars
  <2>15. Health => UNCHANGED <<op, late>> \/ RestartTimesOut
    BY DEF Health, handleKillTask, Restart, ReportMetrics, startTaskHealthMonitor, RestartAdds, leaderVars
  <2>16. UNCHANGED vars => UNCHANGED <<op, late>>
    BY DEF vars
  <2> QED
    BY <2>1, <2>2, <2>3, <2>4, <2>5, <2>6, <2>7, <2>8, <2>9, <2>10, <2>11, <2>12, <2>13, <2>14, <2>15, <2>16
       DEF Next, Scaling
<1>2. /\ \A m \in merging' : Stage[m.old] = Stage[m.keep]
      /\ \A u \in Tasks : \A v \in ins'[u] \ {Leader} : Stage[u] = Stage[v] + 1
  <2>1. CASE UNCHANGED <<merging, ins>>
    BY <2>1, <1>s
  <2>2. CASE \E m \in merging : MergeWalAppend(m)
    BY <2>2, <1>s DEF MergeWalAppend
  <2>3. CASE \E u \in Tasks, S \in SUBSET Tasks : Starts(u, S)
    <3>1. PICK u \in Tasks, S \in SUBSET Tasks : Starts(u, S)
      BY <2>3
    <3>2. merging' = merging /\ \A w \in Tasks : ins'[w] = ins[w] \/ ins'[w] = InputTasks(S, w)
      BY <3>1, <1>a DEF Starts, InitializeTask, logVars
    <3> QED
      BY <3>2, <1>s, InputStages
  <2>4. CASE \E n : \E S \in SUBSET Tasks : Updates(n, S)
    <3>0. PICK n : \E S \in SUBSET Tasks : Updates(n, S)
      BY <2>4
    <3>1. PICK S \in SUBSET Tasks : Updates(n, S)
      BY <3>0
    <3>2. merging' = merging /\ \A w \in Tasks : ins'[w] = ins[w] \/ ins'[w] = InputTasks(S, w)
      BY <3>1, <1>a DEF Updates, UpdateTopology, logVars
    <3> QED
      BY <3>2, <1>s, InputStages
  <2>5. CASE \E x, v \in Tasks : Merges(x, v)
    BY <2>5, <1>s DEF Merges, MergeWalForTask
  <2>6. TupleFlow => UNCHANGED <<merging, ins>>
    BY DEF TupleFlow, readFileAndEmitTuples, RetryFromSource, RetryFromTask, forwardTupleToDownstream,
           writeTupleToOutputFile, handleACKMessage, FlushSnapshot, FlushAppend, LateFlushAppend, AppendAndAck, readTaskOutput,
           TupleStep, logVars
  <2>7. (NodesUnchanged \/ \E u \in Tasks : Kills(u)) => UNCHANGED <<merging, ins>>
    BY DEF NodesUnchanged, Kills, logVars
  <2>8. UNCHANGED vars => UNCHANGED <<merging, ins>>
    BY DEF vars
  <2> QED
    BY <2>1, <2>2, <2>3, <2>4, <2>5, <2>6, <2>7, <2>8, NodeSteps DEF Next, NodeOperation
<1> QED
  BY <1>1, <1>2 DEF StagesKept

LEMMA BatchesNext == AllOK /\ StagesKept /\ BatchesKept /\ [Next]_vars => BatchesKept'
<1> SUFFICES ASSUME AllOK, StagesKept, BatchesKept, [Next]_vars PROVE BatchesKept'
  OBVIOUS
<1>a. /\ buffer \in [Tasks -> Log] /\ pendingAcks \in [Tasks -> SUBSET Tuples]
      /\ flushing \in [Tasks -> BatchType] /\ running \subseteq Tasks
  BY DEF AllOK, NodesOK, ManagersOK, LogsOK
<1>b. /\ \A u \in Tasks : pendingAcks[u] \subseteq buffer[u].rec
      /\ \A u \in Tasks : flushing[u].ids \subseteq flushing[u].log.rec
      /\ \A f \in lateFlush : f.ids \subseteq f.log.rec
      /\ \A u \in Tasks \ running : flushing[u] = NoFlush
  BY DEF BatchesKept
<1>e. NoFlush.ids \subseteq NoFlush.log.rec
  BY DEF NoFlush, LogEmpty
<1>u. UNCHANGED <<buffer, pendingAcks, flushing, lateFlush, running>> => BatchesKept'
  BY <1>b DEF BatchesKept
<1>w. ASSUME UNCHANGED <<flushing, lateFlush, running>>,
             \A u \in Tasks : pendingAcks'[u] \subseteq buffer'[u].rec
      PROVE  BatchesKept'
  BY <1>b, <1>w DEF BatchesKept
<1>1. CASE TupleFlow
  <2>1. CASE \E t \in Tuples : readFileAndEmitTuples(t) \/ RetryFromSource(t)
    BY <2>1, <1>u DEF readFileAndEmitTuples, RetryFromSource, logVars, TupleStep
  <2>2. ASSUME NEW v \in Tasks, NEW t \in Tuples, RetryFromTask(v, t) PROVE BatchesKept'
    <3>1. \A u \in Tasks : buffer'[u].rec = buffer[u].rec
      BY <2>2, <1>a DEF RetryFromTask, LogSENT, Log
    <3> QED
      BY <2>2, <3>1, <1>b, <1>w DEF RetryFromTask, logVars, TupleStep
  <2>3. ASSUME NEW v \in Tasks, NEW t \in Tuples,
               forwardTupleToDownstream(v, t) \/ writeTupleToOutputFile(v, t)
        PROVE BatchesKept'
    <3>1. /\ buffer' = [buffer EXCEPT ![v] = LogREC(LogSENT(@, t), t)] \/ buffer' = [buffer EXCEPT ![v] = LogREC(@, t)]
          /\ pendingAcks' = [pendingAcks EXCEPT ![v] = @ \cup {t}]
      BY <2>3 DEF forwardTupleToDownstream, writeTupleToOutputFile
    <3>2. buffer'[v].rec = buffer[v].rec \cup {t} /\ pendingAcks'[v] = pendingAcks[v] \cup {t}
      BY <3>1, <1>a DEF LogREC, LogSENT
    <3>s. \A u \in Tasks \ {v} : buffer'[u] = buffer[u] /\ pendingAcks'[u] = pendingAcks[u]
      BY <3>1, <1>a
    <3>3. \A u \in Tasks : pendingAcks'[u] \subseteq buffer'[u].rec
      BY <3>2, <3>s, <1>b
    <3> QED
      BY <2>3, <3>3, <1>w DEF forwardTupleToDownstream, writeTupleToOutputFile, logVars, TupleStep
  <2>4. ASSUME NEW a \in acks, handleACKMessage(a) PROVE BatchesKept'
    <3>1. buffer' = buffer \/ \E u : buffer' = [buffer EXCEPT ![u] = LogACK(@, a.id)]
      BY <2>4 DEF handleACKMessage
    <3>2. \A u \in Tasks : buffer'[u].rec = buffer[u].rec
      BY <3>1, <1>a DEF LogACK, Log
    <3> QED
      BY <2>4, <3>2, <1>b, <1>w DEF handleACKMessage, logVars, TupleStep
  <2>5. ASSUME NEW u \in Tasks, FlushSnapshot(u) PROVE BatchesKept'
    <3>1. /\ u \in running /\ running' = running /\ lateFlush' = lateFlush
          /\ \A w \in Tasks : /\ flushing'[w] = IF w = u THEN [log |-> buffer[u], ids |-> pendingAcks[u]] ELSE flushing[w]
                              /\ pendingAcks'[w] = IF w = u THEN {} ELSE pendingAcks[w]
                              /\ w # u => buffer'[w] = buffer[w]
      BY <2>5, <1>a DEF FlushSnapshot, TupleStep
    <3>2. \A w \in Tasks : pendingAcks'[w] \subseteq buffer'[w].rec /\ flushing'[w].ids \subseteq flushing'[w].log.rec
      BY <3>1, <1>b
    <3> QED
      BY <3>1, <3>2, <1>b DEF BatchesKept
  <2>6. ASSUME NEW u \in Tasks, FlushAppend(u) PROVE BatchesKept'
    <3>1. /\ UNCHANGED <<running, lateFlush, buffer, pendingAcks>>
          /\ \A w \in Tasks : flushing'[w] = IF w = u THEN NoFlush ELSE flushing[w]
      BY <2>6, <1>a DEF FlushAppend, AppendAndAck, TupleStep, eomVars
    <3> QED
      BY <3>1, <1>b, <1>e DEF BatchesKept
  <2>7. ASSUME NEW f \in lateFlush, LateFlushAppend(f) PROVE BatchesKept'
    <3>1. UNCHANGED <<running, flushing, buffer, pendingAcks>> /\ lateFlush' \subseteq lateFlush
      BY <2>7 DEF LateFlushAppend, AppendAndAck, TupleStep, eomVars
    <3> QED
      BY <3>1, <1>b DEF BatchesKept
  <2>8. ASSUME NEW d \in drained, readTaskOutput(d) PROVE BatchesKept'
    BY <2>8, <1>u, DrainFacts DEF TupleStep
  <2> QED
    BY <1>1, <2>1, <2>2, <2>3, <2>4, <2>5, <2>6, <2>7, <2>8 DEF TupleFlow
<1>2. ASSUME NEW u \in Tasks, Kills(u) PROVE BatchesKept'
  <2>1. CASE u \notin running
    BY <1>2, <2>1, <1>u DEF Kills, KillTaskProcess
  <2>2. CASE u \in running
    <3>1. /\ running' = running \ {u} /\ lateFlush' \subseteq lateFlush \cup {[task |-> u, log |-> flushing[u].log, ids |-> flushing[u].ids]}
          /\ \A w \in Tasks : /\ flushing'[w] = IF w = u THEN NoFlush ELSE flushing[w]
                              /\ pendingAcks'[w] = IF w = u THEN {} ELSE pendingAcks[w]
                              /\ w # u => buffer'[w] = buffer[w]
      BY <1>2, <2>2, <1>a DEF Kills, KillTaskProcess
    <3>2. \A f \in lateFlush' : f.ids \subseteq f.log.rec
      BY <3>1, <1>b
    <3>3. \A w \in Tasks : pendingAcks'[w] \subseteq buffer'[w].rec /\ flushing'[w].ids \subseteq flushing'[w].log.rec
      BY <3>1, <1>b, <1>e
    <3>4. \A w \in Tasks \ running' : flushing'[w] = NoFlush
      BY <3>1, <1>b
    <3> QED
      BY <3>2, <3>3, <3>4 DEF BatchesKept
  <2> QED
    BY <2>1, <2>2
<1>3. ASSUME NEW u \in Tasks, NEW S \in SUBSET Tasks, Starts(u, S) PROVE BatchesKept'
  <2>1. UNCHANGED <<buffer, pendingAcks, flushing, lateFlush>> /\ running \subseteq running'
    BY <1>3 DEF Starts, InitializeTask, logVars
  <2> QED
    BY <2>1, <1>b DEF BatchesKept
<1>4. (\E n : \E S \in SUBSET Tasks : Updates(n, S)) => BatchesKept'
  BY <1>u DEF Updates, eomVars, logVars
<1>5. (\E x, v \in Tasks : Merges(x, v)) => BatchesKept'
  BY <1>u DEF Merges, MergeWalForTask
<1>6. (\E m \in merging : MergeWalAppend(m)) => BatchesKept'
  BY <1>u DEF MergeWalAppend, eomVars
<1>7. NodesUnchanged \/ UNCHANGED vars => BatchesKept'
  BY <1>u DEF NodesUnchanged, vars, eomVars, logVars
<1> QED
  BY <1>1, <1>2, <1>3, <1>4, <1>5, <1>6, <1>7, NodeSteps DEF Next, NodeOperation

\* The operators on logs keep to those, and so does the copy that a task of the same stage takes.
LEMMA TrustedFacts ==
  ASSUME NEW A, NEW u \in Tasks
  PROVE  /\ LogEmpty \in Trusted(A)[u]
         /\ Trusted(A)[u] \subseteq Log
         /\ \A l \in Trusted(A)[u] :
              /\ \A m \in Trusted(A)[u] : LogAppend(l, m) \in Trusted(A)[u]
              /\ \A t \in Tuples : LogREC(l, t) \in Trusted(A)[u]
              /\ \A t \in Tuples : Stage[u] < NStages => LogSENT(l, t) \in Trusted(A)[u]
              /\ \A t \in Tuples : <<u, t>> \in A => LogACK(l, t) \in Trusted(A)[u]
              /\ l.sent # {} => Stage[u] < NStages
              /\ \A t \in l.acked : <<u, t>> \in A
<1>a. \A l : l \in Trusted(A)[u] <=> l \in Log /\ (l.sent # {} => Stage[u] < NStages) /\ \A t \in l.acked : <<u, t>> \in A
  BY DEF Trusted
<1>1. LogEmpty \in Trusted(A)[u]
  BY <1>a, LogTypes DEF LogEmpty
<1>2. ASSUME NEW l \in Trusted(A)[u], NEW m \in Trusted(A)[u] PROVE LogAppend(l, m) \in Trusted(A)[u]
  <2>1. LogAppend(l, m) \in Log
    BY <1>a, LogTypes
  <2>2. LogAppend(l, m).sent \subseteq l.sent \cup m.sent /\ LogAppend(l, m).acked \subseteq l.acked \cup m.acked
    BY DEF LogAppend
  <2> QED
    BY <1>a, <2>1, <2>2
<1>3. ASSUME NEW l \in Trusted(A)[u], NEW t \in Tuples
      PROVE  /\ LogREC(l, t) \in Trusted(A)[u]
             /\ Stage[u] < NStages => LogSENT(l, t) \in Trusted(A)[u]
             /\ <<u, t>> \in A => LogACK(l, t) \in Trusted(A)[u]
  <2>1. LogREC(l, t) \in Log /\ LogSENT(l, t) \in Log /\ LogACK(l, t) \in Log
    BY <1>a, LogTypes
  <2>2. LogREC(l, t) \in Trusted(A)[u]
    BY <1>a, <2>1 DEF LogREC
  <2>3. Stage[u] < NStages => LogSENT(l, t) \in Trusted(A)[u]
    BY <1>a, <2>1 DEF LogSENT
  <2>4. <<u, t>> \in A => LogACK(l, t) \in Trusted(A)[u]
    BY <1>a, <2>1 DEF LogACK
  <2> QED
    BY <2>2, <2>3, <2>4
<1> QED
  BY <1>a, <1>1, <1>2, <1>3

LEMMA TrustedGrows ==
  ASSUME NEW A, NEW B, A \subseteq B
  PROVE  /\ \A u \in Tasks : Trusted(A)[u] \subseteq Trusted(B)[u]
         /\ \A u, v \in Tasks : Stage[u] = Stage[v] /\ (\A t : <<u, t>> \in A => <<v, t>> \in B)
              => Trusted(A)[u] \subseteq Trusted(B)[v]
BY DEF Trusted

\* A record of the next stage settles a tuple for every task of a stage.
LEMMA SettledFacts ==
  /\ Settled \subseteq Tasks \X Tuples
  /\ \A u \in Tasks, t \in Tuples : t \in excused => <<u, t>> \in Settled
  /\ \A u, v \in Tasks, t \in Tuples : Stage[v] = Stage[u] + 1 /\ t \in wal[v].rec => <<u, t>> \in Settled
  /\ \A u, v \in Tasks, t \in Tuples : Stage[u] = Stage[v] /\ <<u, t>> \in Settled => <<v, t>> \in Settled
BY DEF Settled

LEMMA SettledStays ==
  ASSUME excused \subseteq excused', \A u \in Tasks : wal[u].rec \subseteq wal'[u].rec
  PROVE  Settled \subseteq Settled'
BY DEF Settled

\* No step takes a REC record back, or an excuse.
LEMMA RecordsGrow ==
  ASSUME AllOK, StagesKept, [Next]_vars
  PROVE  excused \subseteq excused' /\ \A u \in Tasks : wal[u].rec \subseteq wal'[u].rec
<1>a. wal \in [Tasks -> Log]
  BY DEF AllOK, LogsOK
<1>u. UNCHANGED wal => \A u \in Tasks : wal[u].rec \subseteq wal'[u].rec
  OBVIOUS
<1>1. CASE TupleFlow
  <2>1. CASE \E t \in Tuples : readFileAndEmitTuples(t) \/ RetryFromSource(t)
    BY <2>1, <1>u DEF readFileAndEmitTuples, RetryFromSource, logVars, Deliver
  <2>2. CASE \E u \in Tasks, t \in Tuples :
               RetryFromTask(u, t) \/ forwardTupleToDownstream(u, t) \/ writeTupleToOutputFile(u, t)
    BY <2>2, <1>u DEF RetryFromTask, forwardTupleToDownstream, writeTupleToOutputFile, logVars, Deliver
  <2>3. CASE (\E a \in acks : handleACKMessage(a)) \/ \E u \in Tasks : FlushSnapshot(u)
    BY <2>3, <1>u DEF handleACKMessage, FlushSnapshot, logVars
  <2>4. ASSUME NEW u, NEW f, AppendAndAck(u, f) PROVE \A w \in Tasks : wal[w].rec \subseteq wal'[w].rec
    BY <2>4, <1>a DEF AppendAndAck, LogAppend
  <2>5. CASE \E u \in Tasks : FlushAppend(u)
    <3>1. PICK u \in Tasks : FlushAppend(u)
      BY <2>5
    <3>2. excused' = excused /\ wal' = [wal EXCEPT ![u] = LogAppend(@, flushing[u].log)]
      BY <3>1 DEF FlushAppend, AppendAndAck
    <3> QED
      BY <3>2, <1>a DEF LogAppend
  <2>6. CASE \E f \in lateFlush : LateFlushAppend(f)
    <3>1. PICK f \in lateFlush : LateFlushAppend(f)
      BY <2>6
    <3> QED
      BY <3>1, <2>4 DEF LateFlushAppend
  <2>7. CASE \E d \in drained : readTaskOutput(d)
    BY <2>7, <1>u, DrainFacts
  <2> QED
    BY <1>1, <2>1, <2>2, <2>3, <2>5, <2>6, <2>7 DEF TupleFlow
<1>2. CASE \E m \in merging : MergeWalAppend(m)
  <2>1. PICK m \in merging : MergeWalAppend(m)
    BY <1>2
  <2>2. excused' = excused /\ (wal' = wal \/ wal' = [wal EXCEPT ![m.keep] = LogAppend(@, m.log)])
    BY <2>1 DEF MergeWalAppend
  <2> QED
    BY <2>2, <1>a DEF LogAppend
<1>3. NodeOperation \/ UNCHANGED vars => excused \subseteq excused' /\ UNCHANGED wal
  BY DEF NodeOperation, NodesUnchanged, Kills, KillTaskProcess, Starts, Updates, Merges, MergeWalForTask, vars, logVars
<1> QED
  BY <1>1, <1>2, <1>3, <1>u, NodeSteps DEF Next

\* An ACK that a step sends is for a tuple in the WAL of the task that sends it, which is of
\* the stage after the task that gets it.
AcksSent == \A a \in acks' \ acks :
  a.to # Leader => /\ a.to \in Tasks /\ a.id \in Tuples /\ Stage[a.to] < NStages
                   /\ a.id \in excused' \/ \E w \in Tasks : Stage[w] = Stage[a.to] + 1 /\ a.id \in wal'[w].rec

LEMMA AckSender ==
  ASSUME AllOK, StagesKept, NEW u \in Tasks, NEW v, NEW t, NEW a \in AcksTo(u, v, t), a.to # Leader
  PROVE  a.to = v /\ a.id = t /\ v \in Tasks /\ Stage[v] < NStages /\ Stage[u] = Stage[v] + 1
<1>1. a.to = v /\ a.id = t /\ v \in ins[u]
  BY DEF AcksTo
<1>2. v \in Tasks
  BY <1>1 DEF AllOK, NodesOK, Senders
<1>3. Stage[u] = Stage[v] + 1
  BY <1>1 DEF StagesKept
<1> QED
  BY <1>1, <1>2, <1>3, TasksAssumption

LEMMA DeliverSends ==
  ASSUME AllOK, StagesKept, NEW v, NEW u, NEW t \in Tuples, NEW rest, Deliver(v, u, t, rest), UNCHANGED wal
  PROVE  AcksSent
<1>1. CASE acks' = acks
  BY <1>1 DEF AcksSent
<1>2. CASE /\ u \in running /\ acks' = acks \cup AcksTo(u, v, t)
           /\ t \in excused' \/ t \in wal[u].rec
  <2>1. u \in Tasks
    BY <1>2 DEF AllOK, NodesOK
  <2> QED
    BY <1>2, <2>1, AckSender DEF AcksSent
<1> QED
  BY <1>1, <1>2 DEF Deliver

LEMMA AcksNext ==
  ASSUME StagesApart, AllOK, StagesKept, BatchesKept, AcksRight, [Next]_vars
  PROVE  AcksRight'
<1>A. PICK A : A = Settled
  OBVIOUS
<1>B. PICK B : B = Settled'
  OBVIOUS
<1>g. A \subseteq B
  BY <1>A, <1>B, RecordsGrow, SettledStays
<1>a. /\ wal \in [Tasks -> Log] /\ flushing \in [Tasks -> BatchType] /\ buffer \in [Tasks -> Log]
      /\ sent \in [Senders -> SUBSET Tuples] /\ running \subseteq Tasks
      /\ lateFlush \subseteq [task : Tasks, log : Log, ids : SUBSET Tuples]
      /\ merging \subseteq [old : Tasks, keep : Tasks, log : Log]
      /\ acks \subseteq [to : Senders, id : Tuples]
  BY DEF AllOK, NodesOK, ManagersOK, LogsOK, WireOK
<1>s. Leader \notin Tasks /\ \A u \in Tasks : u \in Senders /\ u # Leader
  BY TaskFacts
<1>c. \A a \in acks : a.to # Leader => Stage[a.to] < NStages /\ <<a.to, a.id>> \in A
  BY <1>A DEF AcksRight
<1>t. \A u \in Tasks : /\ wal[u] \in Trusted(B)[u] /\ flushing[u].log \in Trusted(B)[u]
                       /\ buffer[u] \in Trusted(B)[u]
  BY <1>A, <1>g, TrustedGrows DEF AcksRight
<1>n. \A u \in Tasks : sent[u] # {} => Stage[u] < NStages
  BY DEF AcksRight
<1>l. \A f \in lateFlush : f.log \in Trusted(B)[f.task]
  <2>1. \A f \in lateFlush : f.log \in Trusted(A)[f.task] /\ f.task \in Tasks
    BY <1>A, <1>a DEF AcksRight
  <2> QED
    BY <2>1, <1>g, TrustedGrows
<1>m. \A m \in merging : m.log \in Trusted(B)[m.keep]
  <2>1. \A m \in merging : m.log \in Trusted(A)[m.keep] /\ m.keep \in Tasks
    BY <1>A, <1>a DEF AcksRight
  <2> QED
    BY <2>1, <1>g, TrustedGrows
<1>x. \A x, v \in Tasks : Stage[x] = Stage[v] => wal[x] \in Trusted(B)[v]
  <2>1. \A x \in Tasks : wal[x] \in Trusted(A)[x]
    BY <1>A DEF AcksRight
  <2>2. \A x, v \in Tasks : Stage[x] = Stage[v] => \A t : <<x, t>> \in A => <<v, t>> \in A
    BY <1>A, SettledFacts
  <2> QED
    BY <2>1, <2>2, <1>g, TrustedGrows
<1>e. NoFlush.log = LogEmpty /\ \A u \in Tasks : LogEmpty \in Trusted(B)[u]
  BY TrustedFacts DEF NoFlush
<1>y. ASSUME AcksSent \/ acks' \subseteq acks,
             \A u \in Tasks : /\ wal'[u] \in Trusted(B)[u] /\ flushing'[u].log \in Trusted(B)[u]
                              /\ buffer'[u] \in Trusted(B)[u]
                              /\ sent'[u] # {} => Stage[u] < NStages,
             \A f \in lateFlush' : f.log \in Trusted(B)[f.task],
             \A m \in merging' : m.log \in Trusted(B)[m.keep]
      PROVE  AcksRight'
  <2>1. \A a \in acks' : a.to # Leader => Stage[a.to] < NStages /\ <<a.to, a.id>> \in B
    <3>1. \A a \in acks' \cap acks : a.to # Leader => Stage[a.to] < NStages /\ <<a.to, a.id>> \in B
      BY <1>c, <1>g
    <3>2. ASSUME AcksSent, NEW a \in acks' \ acks, a.to # Leader
          PROVE  Stage[a.to] < NStages /\ <<a.to, a.id>> \in B
      <4>1. /\ a.to \in Tasks /\ a.id \in Tuples /\ Stage[a.to] < NStages
            /\ a.id \in excused' \/ \E w \in Tasks : Stage[w] = Stage[a.to] + 1 /\ a.id \in wal'[w].rec
        BY <3>2 DEF AcksSent
      <4> QED
        BY <4>1, <1>B DEF Settled
    <3> QED
      BY <1>y, <3>1, <3>2
  <2> QED
    BY <1>y, <2>1, <1>B DEF AcksRight
<1>z. ASSUME AcksSent \/ acks' \subseteq acks, UNCHANGED <<wal, merging, flushing, lateFlush>>,
             \A u \in Tasks : buffer'[u] \in Trusted(B)[u] /\ (sent'[u] # {} => Stage[u] < NStages)
      PROVE  AcksRight'
  BY <1>y, <1>z, <1>t, <1>l, <1>m
<1>1. CASE TupleFlow
  <2>1. ASSUME NEW t \in Tuples, readFileAndEmitTuples(t) \/ RetryFromSource(t) PROVE AcksRight'
    <3>r. PICK rest : rest = pipe
      OBVIOUS
    <3>1. PICK u : Deliver(Leader, u, t, rest)
      BY <2>1, <3>r DEF readFileAndEmitTuples, RetryFromSource, Deliver
    <3>2. UNCHANGED <<wal, merging, flushing, lateFlush, buffer>>
      BY <2>1 DEF readFileAndEmitTuples, RetryFromSource, logVars
    <3>3. \A w \in Tasks : sent'[w] = sent[w]
      BY <2>1, <1>a, <1>s DEF readFileAndEmitTuples, RetryFromSource
    <3> QED
      BY <3>1, <3>2, <3>3, <1>t, <1>n, <1>z, DeliverSends
  <2>2. ASSUME NEW v \in Tasks, NEW t \in Tuples, RetryFromTask(v, t) PROVE AcksRight'
    <3>r. PICK rest : rest = pipe
      OBVIOUS
    <3>1. PICK u : Deliver(v, u, t, rest)
      BY <2>2, <3>r DEF RetryFromTask, Deliver
    <3>2. UNCHANGED <<wal, merging, flushing, lateFlush, sent>> /\ t \in sent[v]
      BY <2>2 DEF RetryFromTask, logVars
    <3>3. LogSENT(buffer[v], t) \in Trusted(B)[v]
      BY <3>2, <1>t, <1>n, TrustedFacts
    <3>4. \A w \in Tasks : buffer'[w] \in Trusted(B)[w]
      BY <2>2, <3>3, <1>a, <1>t DEF RetryFromTask
    <3> QED
      BY <3>1, <3>2, <3>4, <1>n, <1>z, DeliverSends
  <2>3. ASSUME NEW v \in Tasks, NEW t \in Tuples, forwardTupleToDownstream(v, t) PROVE AcksRight'
    <3>r. PICK rest : rest = [pipe EXCEPT ![v] = @ \ {t}]
      OBVIOUS
    <3>1. PICK u : Deliver(v, u, t, rest)
      BY <2>3, <3>r DEF forwardTupleToDownstream, Deliver
    <3>2. UNCHANGED <<wal, merging, flushing, lateFlush>> /\ Stage[v] < NStages
      BY <2>3 DEF forwardTupleToDownstream, logVars
    <3>3. LogSENT(buffer[v], t) \in Trusted(B)[v]
      BY <3>2, <1>t, TrustedFacts
    <3>4. LogREC(LogSENT(buffer[v], t), t) \in Trusted(B)[v]
      BY <3>3, TrustedFacts
    <3>5. \A w \in Tasks : buffer'[w] \in Trusted(B)[w]
      BY <2>3, <3>4, <1>a, <1>t DEF forwardTupleToDownstream
    <3>6. \A w \in Tasks : w # v => sent'[w] = sent[w]
      BY <2>3, <1>a, <1>s DEF forwardTupleToDownstream
    <3> QED
      BY <3>1, <3>2, <3>5, <3>6, <1>n, <1>z, DeliverSends
  <2>4. ASSUME NEW v \in Tasks, NEW t \in Tuples, writeTupleToOutputFile(v, t) PROVE AcksRight'
    <3>1. UNCHANGED <<wal, merging, flushing, lateFlush, sent, acks>>
      BY <2>4 DEF writeTupleToOutputFile, logVars
    <3>2. LogREC(buffer[v], t) \in Trusted(B)[v]
      BY <1>t, TrustedFacts
    <3>3. \A w \in Tasks : buffer'[w] \in Trusted(B)[w]
      BY <2>4, <3>2, <1>a, <1>t DEF writeTupleToOutputFile
    <3> QED
      BY <3>1, <3>3, <1>n, <1>z
  <2>5. ASSUME NEW a \in acks, handleACKMessage(a) PROVE AcksRight'
    <3>1. UNCHANGED <<wal, merging, flushing, lateFlush>> /\ acks' \subseteq acks
      BY <2>5 DEF handleACKMessage, logVars
    <3>2. \A w \in Tasks : sent'[w] # {} => sent[w] # {}
      BY <2>5, <1>a, <1>s DEF handleACKMessage
    <3>3. CASE buffer' = buffer
      BY <3>1, <3>2, <3>3, <1>t, <1>n, <1>z
    <3>4. CASE \E u \in running : /\ a.to # Leader /\ Host[u] = Host[a.to] /\ a.id \in sent[u]
                                  /\ buffer' = [buffer EXCEPT ![u] = LogACK(@, a.id)]
      <4>1. PICK u \in running : /\ a.to # Leader /\ Host[u] = Host[a.to] /\ a.id \in sent[u]
                                 /\ buffer' = [buffer EXCEPT ![u] = LogACK(@, a.id)]
        BY <3>4
      <4>2. u \in Tasks /\ a.to \in Tasks /\ a.id \in Tuples
        BY <4>1, <1>a DEF Senders
      <4>3. Stage[u] < NStages /\ Stage[a.to] < NStages /\ <<a.to, a.id>> \in A
        BY <4>1, <4>2, <1>n, <1>c
      <4>4. Stage[u] = Stage[a.to]
        BY <4>1, <4>2, <4>3 DEF StagesApart
      <4>5. <<u, a.id>> \in B
        BY <4>2, <4>3, <4>4, <1>A, <1>g, SettledFacts
      <4>6. LogACK(buffer[u], a.id) \in Trusted(B)[u]
        BY <4>2, <4>5, <1>t, TrustedFacts
      <4>7. \A w \in Tasks : buffer'[w] \in Trusted(B)[w]
        BY <4>1, <4>2, <4>6, <1>a, <1>t
      <4> QED
        BY <3>1, <3>2, <4>7, <1>n, <1>z
    <3> QED
      BY <2>5, <1>s, <1>a, <3>3, <3>4 DEF handleACKMessage
  <2>6. ASSUME NEW u \in Tasks, FlushSnapshot(u) PROVE AcksRight'
    <3>1. UNCHANGED <<wal, merging, lateFlush, sent, acks>>
      BY <2>6 DEF FlushSnapshot
    <3>2. \A w \in Tasks : /\ flushing'[w].log = IF w = u THEN buffer[u] ELSE flushing[w].log
                           /\ buffer'[w] = IF w = u THEN LogEmpty ELSE buffer[w]
      BY <2>6, <1>a DEF FlushSnapshot
    <3> QED
      BY <3>1, <3>2, <1>e, <1>t, <1>n, <1>l, <1>m, <1>y
  <2>7. ASSUME NEW u \in Tasks, NEW f, AppendAndAck(u, f), f.log \in Trusted(B)[u], f.ids \subseteq f.log.rec,
               f.ids \subseteq Tuples
        PROVE  /\ AcksSent /\ UNCHANGED <<sent, buffer, merging>>
               /\ \A w \in Tasks : wal'[w] \in Trusted(B)[w]
    <3>1. /\ acks' = acks \cup UNION {AcksTo(u, sender[u][t], t) : t \in f.ids}
          /\ UNCHANGED <<sent, buffer, merging>> /\ wal' = [wal EXCEPT ![u] = LogAppend(@, f.log)]
      BY <2>7 DEF AppendAndAck, eomVars
    <3>2. LogAppend(wal[u], f.log) \in Trusted(B)[u] /\ f.ids \subseteq LogAppend(wal[u], f.log).rec
      BY <2>7, <1>t, TrustedFacts DEF LogAppend
    <3>3. (\A w \in Tasks : wal'[w] \in Trusted(B)[w]) /\ f.ids \subseteq wal'[u].rec
      BY <3>1, <3>2, <1>a, <1>t
    <3>4. \A a \in acks' \ acks : \E t \in f.ids : a \in AcksTo(u, sender[u][t], t)
      BY <3>1
    <3>5. \A a \in acks' \ acks : \E t \in f.ids : \E v : a \in AcksTo(u, v, t)
      BY <3>4
    <3>6. AcksSent
      BY <2>7, <3>3, <3>5, AckSender DEF AcksSent
    <3> QED
      BY <3>1, <3>3, <3>6
  <2>8. ASSUME NEW u \in Tasks, FlushAppend(u) PROVE AcksRight'
    <3>1. PICK f : f = flushing[u]
      OBVIOUS
    <3>2. /\ AppendAndAck(u, f) /\ lateFlush' = lateFlush /\ flushing' = [flushing EXCEPT ![u] = NoFlush]
      BY <2>8, <3>1 DEF FlushAppend, AppendAndAck
    <3>3. f.log \in Trusted(B)[u] /\ f.ids \subseteq f.log.rec /\ f.ids \subseteq Tuples
      BY <3>1, <1>t, <1>a DEF BatchesKept, BatchType
    <3>4. \A w \in Tasks : flushing'[w].log \in Trusted(B)[w]
      BY <3>2, <1>a, <1>e, <1>t
    <3>5. /\ AcksSent /\ UNCHANGED <<sent, buffer, merging>>
          /\ \A w \in Tasks : wal'[w] \in Trusted(B)[w]
      BY <3>2, <3>3, <2>7
    <3> QED
      BY <3>2, <3>4, <3>5, <1>t, <1>n, <1>l, <1>m, <1>y
  <2>9. ASSUME NEW f \in lateFlush, LateFlushAppend(f) PROVE AcksRight'
    <3>1. AppendAndAck(f.task, f) /\ lateFlush' \subseteq lateFlush /\ flushing' = flushing
      BY <2>9 DEF LateFlushAppend
    <3>2. f.task \in Tasks /\ f.log \in Trusted(B)[f.task] /\ f.ids \subseteq f.log.rec /\ f.ids \subseteq Tuples
      BY <1>l, <1>a DEF BatchesKept
    <3>3. /\ AcksSent /\ UNCHANGED <<sent, buffer, merging>>
          /\ \A w \in Tasks : wal'[w] \in Trusted(B)[w]
      BY <3>1, <3>2, <2>7
    <3> QED
      BY <3>1, <3>3, <1>t, <1>n, <1>l, <1>m, <1>y
  <2>10. ASSUME NEW d \in drained, readTaskOutput(d) PROVE AcksRight'
    <3>1. /\ UNCHANGED <<wal, merging, flushing, lateFlush, sent, buffer>> /\ d.id \in Tuples
          /\ DrainSends(d) \/ DrainWrites(d)
      BY <2>10, DrainFacts
    <3>2. AcksSent \/ acks' \subseteq acks
      <4>1. CASE DrainSends(d)
        BY <4>1, <3>1, DeliverSends DEF DrainSends
      <4>2. CASE DrainWrites(d)
        BY <4>2 DEF DrainWrites
      <4> QED
        BY <3>1, <4>1, <4>2
    <3> QED
      BY <3>1, <3>2, <1>t, <1>n, <1>z
  <2> QED
    BY <1>1, <2>1, <2>2, <2>3, <2>4, <2>5, <2>6, <2>8, <2>9, <2>10 DEF TupleFlow
<1>2. ASSUME NEW u \in Tasks, Kills(u), LeaderStep PROVE AcksRight'
  <2>1. CASE u \notin running
    BY <1>2, <2>1, <1>t, <1>n, <1>z DEF Kills, KillTaskProcess, LeaderStep
  <2>2. CASE u \in running
    <3>1. /\ UNCHANGED <<wal, merging, acks>>
          /\ lateFlush' \subseteq lateFlush \cup {[task |-> u, log |-> flushing[u].log, ids |-> flushing[u].ids]}
          /\ \A w \in Tasks : /\ flushing'[w] = IF w = u THEN NoFlush ELSE flushing[w]
                              /\ buffer'[w] = IF w = u THEN LogEmpty ELSE buffer[w]
                              /\ sent'[w] = IF w = u THEN {} ELSE sent[w]
      BY <1>2, <2>2, <1>a, <1>s DEF Kills, KillTaskProcess, LeaderStep
    <3>2. \A f \in lateFlush' : f.log \in Trusted(B)[f.task]
      BY <3>1, <1>l, <1>t
    <3> QED
      BY <3>1, <3>2, <1>e, <1>t, <1>n, <1>m, <1>y
  <2> QED
    BY <2>1, <2>2
<1>3. ASSUME NEW u \in Tasks, NEW S \in SUBSET Tasks, Starts(u, S), LeaderStep PROVE AcksRight'
  <2>1. UNCHANGED <<wal, merging, flushing, lateFlush, buffer, acks>>
    BY <1>3 DEF Starts, LeaderStep, logVars
  <2>2. \A w \in Tasks : sent'[w] = sent[w] \/ (w = u /\ sent'[w] = wal[u].sent)
    BY <1>3, <1>a, <1>s DEF Starts, InitializeTask
  <2>3. wal[u].sent # {} => Stage[u] < NStages
    BY <1>t, TrustedFacts
  <2> QED
    BY <2>1, <2>2, <2>3, <1>t, <1>n, <1>z
<1>4. ASSUME NEW x \in Tasks, NEW v \in Tasks, Merges(x, v), LeaderStep PROVE AcksRight'
  <2>1. /\ UNCHANGED <<wal, flushing, lateFlush, buffer, acks>> /\ Stage[x] = Stage[v]
        /\ merging' = merging \cup {[old |-> x, keep |-> v, log |-> wal[x]]}
    BY <1>4 DEF Merges, MergeWalForTask, LeaderStep
  <2>2. \A w \in Tasks : sent'[w] = sent[w] \/ (w = v /\ sent'[w] = (sent[v] \ wal[x].acked) \cup wal[x].sent)
    BY <1>4, <1>a, <1>s DEF Merges, MergeWalForTask, MergeMaps
  <2>3. wal[x] \in Trusted(B)[v]
    BY <2>1, <1>x
  <2>4. wal[x].sent # {} => Stage[v] < NStages
    BY <2>3, TrustedFacts
  <2>5. \A w \in Tasks : sent'[w] # {} => Stage[w] < NStages
    BY <2>2, <2>4, <1>n
  <2>6. \A m \in merging' : m.log \in Trusted(B)[m.keep]
    BY <2>1, <2>3, <1>m
  <2> QED
    BY <2>1, <2>5, <2>6, <1>t, <1>l, <1>y
<1>5. ASSUME NEW m \in merging, MergeWalAppend(m) PROVE AcksRight'
  <2>1. /\ UNCHANGED <<flushing, lateFlush, buffer, acks, sent>> /\ merging' \subseteq merging
        /\ wal' = wal \/ wal' = [wal EXCEPT ![m.keep] = LogAppend(@, m.log)]
    BY <1>5 DEF MergeWalAppend, eomVars
  <2>2. m.keep \in Tasks /\ LogAppend(wal[m.keep], m.log) \in Trusted(B)[m.keep]
    BY <1>a, <1>m, <1>t, TrustedFacts
  <2>3. \A w \in Tasks : wal'[w] \in Trusted(B)[w]
    BY <2>1, <2>2, <1>a, <1>t
  <2> QED
    BY <2>1, <2>3, <1>t, <1>n, <1>l, <1>m, <1>y
<1>6. (LeaderStep /\ (NodesUnchanged \/ \E n : \E S \in SUBSET Tasks : Updates(n, S))) \/ UNCHANGED vars => AcksRight'
  <2>1. ASSUME UNCHANGED <<wal, merging, flushing, lateFlush, buffer, acks, sent>> PROVE AcksRight'
    BY <2>1, <1>t, <1>n, <1>z
  <2> QED
    BY <2>1 DEF LeaderStep, NodesUnchanged, Updates, vars, eomVars, logVars
<1> QED
  BY <1>1, <1>2, <1>3, <1>4, <1>5, <1>6, NodeSteps DEF Next, NodeOperation

\* What three runs of records leave as sent.
LEMMA ThreeLogs ==
  ASSUME NEW w, NEW f, NEW b, NEW t
  PROVE  t \in LogAppend(LogAppend(w, f), b).sent
           <=> t \in b.sent \/ (t \notin b.acked /\ (t \in f.sent \/ (t \notin f.acked /\ t \in w.sent)))
BY DEF LogAppend

LEMMA SentNext ==
  ASSUME AllOK, StagesKept, BatchesKept, AcksRight, SentKept, [Next]_vars
  PROVE  SentKept'
<1>A. PICK A : A = Settled
  OBVIOUS
<1>B. PICK B : B = Settled'
  OBVIOUS
<1>g. A \subseteq B
  BY <1>A, <1>B, RecordsGrow, SettledStays
<1>a. /\ wal \in [Tasks -> Log] /\ flushing \in [Tasks -> BatchType] /\ buffer \in [Tasks -> Log]
      /\ sent \in [Senders -> SUBSET Tuples] /\ running \subseteq Tasks
      /\ lateFlush \subseteq [task : Tasks, log : Log, ids : SUBSET Tuples]
      /\ merging \subseteq [old : Tasks, keep : Tasks, log : Log]
      /\ \A u \in Tasks \ running : buffer[u] = LogEmpty
  BY DEF AllOK, NodesOK, ManagersOK, LogsOK
<1>s. Leader \notin Tasks /\ \A u \in Tasks : u \in Senders /\ u # Leader
  BY TaskFacts
\* Kept(u, t, w, f, b, M) says what SentKept does, of a given state.
<1> DEFINE Kept(u, t, w, f, b, M) ==
             \/ <<u, t>> \in B
             \/ t \in b.sent \/ (t \notin b.acked /\ (t \in f.sent \/ (t \notin f.acked /\ t \in w.sent)))
             \/ \E m \in M : m.keep = u /\ t \in m.log.sent
<1>k. \A u \in running : \A t \in sent[u] \ unlogged : Kept(u, t, wal[u], flushing[u].log, buffer[u], merging)
  BY <1>A, <1>g, ThreeLogs DEF SentKept
<1>y. ASSUME \A u \in running' : \A t \in sent'[u] \ unlogged' :
               Kept(u, t, wal'[u], flushing'[u].log, buffer'[u], merging')
      PROVE  SentKept'
  BY <1>y, <1>B, ThreeLogs DEF SentKept
<1>t. \A u \in Tasks : \A t : t \in wal[u].acked \/ t \in flushing[u].log.acked \/ t \in buffer[u].acked => <<u, t>> \in B
  <2>1. \A u \in Tasks : wal[u] \in Trusted(A)[u] /\ flushing[u].log \in Trusted(A)[u] /\ buffer[u] \in Trusted(A)[u]
    BY <1>A DEF AcksRight
  <2> QED
    BY <2>1, <1>g, TrustedFacts
<1>l. \A f \in lateFlush : \A t \in f.log.acked : <<f.task, t>> \in B
  <2>1. \A f \in lateFlush : f.log \in Trusted(A)[f.task] /\ f.task \in Tasks
    BY <1>A, <1>a DEF AcksRight
  <2> QED
    BY <2>1, <1>g, TrustedFacts
<1>m. \A m \in merging : \A t \in m.log.acked : <<m.keep, t>> \in B
  <2>1. \A m \in merging : m.log \in Trusted(A)[m.keep] /\ m.keep \in Tasks
    BY <1>A, <1>a DEF AcksRight
  <2> QED
    BY <2>1, <1>g, TrustedFacts
<1>e. NoFlush.log = LogEmpty /\ LogEmpty.sent = {} /\ LogEmpty.acked = {}
  BY DEF NoFlush, LogEmpty
\* Only the records of u, or what it has sent, have changed.
<1>o. ASSUME NEW u \in Tasks, running' \subseteq running, UNCHANGED unlogged, merging \subseteq merging',
             \A w \in Tasks \ {u} : /\ sent'[w] = sent[w] /\ wal'[w] = wal[w] /\ buffer'[w] = buffer[w]
                                    /\ flushing'[w] = flushing[w],
             u \in running' => \A t \in sent'[u] \ unlogged :
                                 Kept(u, t, wal'[u], flushing'[u].log, buffer'[u], merging')
      PROVE  SentKept'
  <2>1. ASSUME NEW w \in running', NEW t \in sent'[w] \ unlogged', w # u
        PROVE  Kept(w, t, wal'[w], flushing'[w].log, buffer'[w], merging')
    <3>1. w \in running /\ w \in Tasks \ {u} /\ t \in sent[w] \ unlogged
      BY <1>o, <1>a, <2>1
    <3>2. Kept(w, t, wal[w], flushing[w].log, buffer[w], merging)
      BY <3>1, <1>k
    <3> QED
      BY <3>1, <3>2, <1>o
  <2> QED
    BY <1>o, <1>y, <2>1
<1>z. ASSUME UNCHANGED <<wal, flushing, buffer, unlogged>>, running' \subseteq running, merging \subseteq merging',
             \A u \in Tasks : sent'[u] = sent[u]
      PROVE  SentKept'
  <2>1. ASSUME NEW w \in running', NEW t \in sent'[w] \ unlogged'
        PROVE  Kept(w, t, wal'[w], flushing'[w].log, buffer'[w], merging')
    <3>1. w \in running /\ w \in Tasks /\ t \in sent[w] \ unlogged
      BY <1>z, <1>a, <2>1
    <3>2. Kept(w, t, wal[w], flushing[w].log, buffer[w], merging)
      BY <3>1, <1>k
    <3> QED
      BY <3>1, <3>2, <1>z
  <2> QED
    BY <1>y, <2>1
<1>1. CASE TupleFlow
  <2>1. ASSUME NEW t \in Tuples, readFileAndEmitTuples(t) \/ RetryFromSource(t) PROVE SentKept'
    <3>1. UNCHANGED <<wal, flushing, buffer, merging, unlogged, running>>
      BY <2>1 DEF readFileAndEmitTuples, RetryFromSource, logVars, TupleStep
    <3>2. \A w \in Tasks : sent'[w] = sent[w]
      BY <2>1, <1>a, <1>s DEF readFileAndEmitTuples, RetryFromSource
    <3> QED
      BY <3>1, <3>2, <1>z
  <2>2. ASSUME NEW v \in Tasks, NEW t \in Tuples, RetryFromTask(v, t) PROVE SentKept'
    <3>1. /\ UNCHANGED <<wal, flushing, sent, merging, unlogged, running>>
          /\ v \in running /\ buffer' = [buffer EXCEPT ![v] = LogSENT(@, t)]
      BY <2>2 DEF RetryFromTask, logVars, TupleStep
    <3>2. buffer'[v].sent = buffer[v].sent \cup {t} /\ buffer'[v].acked = buffer[v].acked \ {t}
      BY <3>1, <1>a DEF LogSENT
    <3>3. \A r \in sent'[v] \ unlogged : Kept(v, r, wal'[v], flushing'[v].log, buffer'[v], merging')
      BY <3>1, <3>2, <1>k
    <3>4. \A w \in Tasks \ {v} : buffer'[w] = buffer[w]
      BY <3>1, <1>a
    <3> QED
      BY <3>1, <3>3, <3>4, <1>o
  <2>3. ASSUME NEW v \in Tasks, NEW t \in Tuples, forwardTupleToDownstream(v, t) PROVE SentKept'
    <3>1. /\ UNCHANGED <<wal, flushing, merging, unlogged, running>> /\ v \in running
          /\ buffer' = [buffer EXCEPT ![v] = LogREC(LogSENT(@, t), t)]
          /\ sent' = [sent EXCEPT ![v] = @ \cup {t}]
      BY <2>3 DEF forwardTupleToDownstream, logVars, TupleStep
    <3>2. buffer'[v].sent = buffer[v].sent \cup {t} /\ buffer'[v].acked = buffer[v].acked \ {t}
      BY <3>1, <1>a DEF LogSENT, LogREC
    <3>3. sent'[v] = sent[v] \cup {t}
      BY <3>1, <1>a, <1>s
    <3>4. \A r \in sent'[v] \ unlogged : Kept(v, r, wal'[v], flushing'[v].log, buffer'[v], merging')
      BY <3>1, <3>2, <3>3, <1>k
    <3>5. \A w \in Tasks \ {v} : buffer'[w] = buffer[w] /\ sent'[w] = sent[w]
      BY <3>1, <1>a, <1>s
    <3> QED
      BY <3>1, <3>4, <3>5, <1>o
  <2>4. ASSUME NEW v \in Tasks, NEW t \in Tuples, writeTupleToOutputFile(v, t) PROVE SentKept'
    <3>1. /\ UNCHANGED <<wal, flushing, merging, sent, unlogged, running>> /\ v \in running
          /\ buffer' = [buffer EXCEPT ![v] = LogREC(@, t)]
      BY <2>4 DEF writeTupleToOutputFile, logVars, TupleStep
    <3>2. buffer'[v].sent = buffer[v].sent /\ buffer'[v].acked = buffer[v].acked
      BY <3>1, <1>a DEF LogREC
    <3>3. \A r \in sent'[v] \ unlogged : Kept(v, r, wal'[v], flushing'[v].log, buffer'[v], merging')
      BY <3>1, <3>2, <1>k
    <3>4. \A w \in Tasks \ {v} : buffer'[w] = buffer[w]
      BY <3>1, <1>a
    <3> QED
      BY <3>1, <3>3, <3>4, <1>o
  <2>5. ASSUME NEW a \in acks, handleACKMessage(a) PROVE SentKept'
    <3>1. UNCHANGED <<wal, flushing, merging, unlogged, running>>
      BY <2>5 DEF handleACKMessage, logVars, TupleStep
    <3>2. CASE buffer' = buffer /\ (sent' = sent \/ sent' = [sent EXCEPT ![Leader] = @ \ {a.id}])
      <4>1. \A w \in Tasks : sent'[w] = sent[w]
        BY <3>2, <1>a, <1>s
      <4> QED
        BY <3>1, <3>2, <4>1, <1>z
    <3>3. CASE \E u \in running : /\ buffer' = [buffer EXCEPT ![u] = LogACK(@, a.id)]
                                  /\ sent' = [sent EXCEPT ![u] = @ \ {a.id}]
      <4>1. PICK u \in running : /\ buffer' = [buffer EXCEPT ![u] = LogACK(@, a.id)]
                                 /\ sent' = [sent EXCEPT ![u] = @ \ {a.id}]
        BY <3>3
      <4>2. u \in Tasks
        BY <1>a
      <4>3. buffer'[u].sent = buffer[u].sent \ {a.id} /\ buffer'[u].acked = buffer[u].acked \cup {a.id}
        BY <4>1, <4>2, <1>a DEF LogACK
      <4>4. sent'[u] = sent[u] \ {a.id}
        BY <4>1, <4>2, <1>a, <1>s
      <4>5. \A r \in sent'[u] \ unlogged : Kept(u, r, wal'[u], flushing'[u].log, buffer'[u], merging')
        BY <3>1, <4>3, <4>4, <1>k
      <4>6. \A w \in Tasks \ {u} : buffer'[w] = buffer[w] /\ sent'[w] = sent[w]
        BY <4>1, <1>a, <1>s
      <4> QED
        BY <3>1, <4>2, <4>5, <4>6, <1>o
    <3> QED
      BY <2>5, <1>s, <1>a, <3>2, <3>3 DEF handleACKMessage
  <2>6. ASSUME NEW u \in Tasks, FlushSnapshot(u) PROVE SentKept'
    <3>1. /\ UNCHANGED <<wal, merging, sent, unlogged, running>> /\ u \in running /\ flushing[u].log = LogEmpty
          /\ flushing' = [flushing EXCEPT ![u] = [log |-> buffer[u], ids |-> pendingAcks[u]]]
          /\ buffer' = [buffer EXCEPT ![u] = LogEmpty]
      BY <2>6, <1>e DEF FlushSnapshot, TupleStep
    <3>2. flushing'[u].log = buffer[u] /\ buffer'[u] = LogEmpty
      BY <3>1, <1>a
    <3>3. \A r \in sent'[u] \ unlogged : Kept(u, r, wal'[u], flushing'[u].log, buffer'[u], merging')
      BY <3>1, <3>2, <1>e, <1>k
    <3>4. \A w \in Tasks \ {u} : buffer'[w] = buffer[w] /\ flushing'[w] = flushing[w]
      BY <3>1, <1>a
    <3> QED
      BY <3>1, <3>3, <3>4, <1>o
  <2>7. ASSUME NEW u \in Tasks, FlushAppend(u) PROVE SentKept'
    <3>1. /\ UNCHANGED <<buffer, merging, sent, unlogged, running>> /\ u \in running
          /\ flushing' = [flushing EXCEPT ![u] = NoFlush]
          /\ wal' = [wal EXCEPT ![u] = LogAppend(@, flushing[u].log)]
      BY <2>7 DEF FlushAppend, AppendAndAck, TupleStep, eomVars
    <3>2. flushing'[u].log = LogEmpty /\ wal'[u].sent = (wal[u].sent \ flushing[u].log.acked) \cup flushing[u].log.sent
      BY <3>1, <1>a, <1>e DEF LogAppend
    <3>3. \A r \in sent'[u] \ unlogged : Kept(u, r, wal'[u], flushing'[u].log, buffer'[u], merging')
      BY <3>1, <3>2, <1>e, <1>k
    <3>4. \A w \in Tasks \ {u} : wal'[w] = wal[w] /\ flushing'[w] = flushing[w]
      BY <3>1, <1>a
    <3> QED
      BY <3>1, <3>3, <3>4, <1>o
  <2>8. ASSUME NEW f \in lateFlush, LateFlushAppend(f) PROVE SentKept'
    <3>1. /\ UNCHANGED <<buffer, merging, sent, unlogged, running, flushing>> /\ f.task \in Tasks
          /\ wal' = [wal EXCEPT ![f.task] = LogAppend(@, f.log)]
      BY <2>8, <1>a DEF LateFlushAppend, AppendAndAck, TupleStep, eomVars
    <3>2. wal'[f.task].sent = (wal[f.task].sent \ f.log.acked) \cup f.log.sent
      BY <3>1, <1>a DEF LogAppend
    <3>3. f.task \in running => \A r \in sent'[f.task] \ unlogged :
            Kept(f.task, r, wal'[f.task], flushing'[f.task].log, buffer'[f.task], merging')
      BY <3>1, <3>2, <1>l, <1>k
    <3>4. \A w \in Tasks \ {f.task} : wal'[w] = wal[w]
      BY <3>1, <1>a
    <3> QED
      BY <3>1, <3>3, <3>4, <1>o
  <2>9. ASSUME NEW d \in drained, readTaskOutput(d) PROVE SentKept'
    BY <2>9, <1>z, DrainFacts DEF TupleStep
  <2> QED
    BY <1>1, <2>1, <2>2, <2>3, <2>4, <2>5, <2>6, <2>7, <2>8, <2>9 DEF TupleFlow
<1>2. ASSUME NEW u \in Tasks, Kills(u), LeaderStep PROVE SentKept'
  <2>1. CASE u \notin running
    BY <1>2, <2>1, <1>z DEF Kills, KillTaskProcess, LeaderStep
  <2>2. CASE u \in running
    <3>1. /\ UNCHANGED <<wal, merging, unlogged>> /\ running' = running \ {u}
          /\ \A w \in Tasks \ {u} : sent'[w] = sent[w] /\ buffer'[w] = buffer[w] /\ flushing'[w] = flushing[w]
      BY <1>2, <2>2, <1>a, <1>s DEF Kills, KillTaskProcess, LeaderStep
    <3> QED
      BY <3>1, <1>o
  <2> QED
    BY <2>1, <2>2
<1>3. ASSUME NEW u \in Tasks, NEW S \in SUBSET Tasks, Starts(u, S), LeaderStep PROVE SentKept'
  <2>1. UNCHANGED <<wal, merging, flushing, buffer, unlogged>>
    BY <1>3 DEF Starts, LeaderStep, logVars
  <2>2. CASE u \in running
    BY <1>3, <2>1, <2>2, <1>z DEF Starts, InitializeTask
  <2>3. CASE u \notin running
    <3>1. /\ running' = running \cup {u} /\ sent'[u] = wal[u].sent
          /\ \A w \in Tasks \ {u} : sent'[w] = sent[w]
      BY <1>3, <2>3, <1>a, <1>s DEF Starts, InitializeTask
    <3>2. buffer[u] = LogEmpty /\ flushing[u].log = LogEmpty
      BY <2>3, <1>a, <1>e DEF BatchesKept
    <3>3. ASSUME NEW w \in running', NEW t \in sent'[w] \ unlogged'
          PROVE  Kept(w, t, wal'[w], flushing'[w].log, buffer'[w], merging')
      <4>1. CASE w = u
        BY <2>1, <3>1, <3>2, <3>3, <4>1, <1>e
      <4>2. CASE w # u
        <5>1. w \in running /\ w \in Tasks \ {u} /\ t \in sent[w] \ unlogged
          BY <2>1, <3>1, <3>3, <4>2, <1>a
        <5>2. Kept(w, t, wal[w], flushing[w].log, buffer[w], merging)
          BY <5>1, <1>k
        <5> QED
          BY <5>2, <2>1
      <4> QED
        BY <4>1, <4>2
    <3> QED
      BY <3>3, <1>y
  <2> QED
    BY <2>2, <2>3
<1>4. ASSUME NEW x \in Tasks, NEW v \in Tasks, Merges(x, v), LeaderStep PROVE SentKept'
  <2>1. /\ UNCHANGED <<wal, flushing, buffer, running, unlogged>>
        /\ merging' = merging \cup {[old |-> x, keep |-> v, log |-> wal[x]]}
    BY <1>4 DEF Merges, MergeWalForTask, LeaderStep
  <2>2. /\ sent'[v] = sent[v] \/ sent'[v] = (sent[v] \ wal[x].acked) \cup wal[x].sent
        /\ \A w \in Tasks \ {v} : sent'[w] = sent[w]
    BY <1>4, <1>a, <1>s DEF Merges, MergeWalForTask, MergeMaps
  <2>3. PICK q \in merging' : q.keep = v /\ q.log = wal[x]
    <3> DEFINE p == [old |-> x, keep |-> v, log |-> wal[x]]
    <3>1. p.keep = v /\ p.log = wal[x] /\ p \in merging'
      BY <2>1
    <3> HIDE DEF p
    <3> QED
      BY <3>1
  <2>4. ASSUME v \in running, NEW r \in sent'[v] \ unlogged
        PROVE  Kept(v, r, wal'[v], flushing'[v].log, buffer'[v], merging')
    <3>1. CASE r \in wal[x].sent
      BY <2>3, <3>1
    <3>2. CASE r \in sent[v]
      <4>1. Kept(v, r, wal[v], flushing[v].log, buffer[v], merging)
        BY <2>4, <3>2, <1>k
      <4> QED
        BY <4>1, <2>1
    <3> QED
      BY <2>2, <2>4, <3>1, <3>2
  <2> QED
    BY <2>1, <2>2, <2>4, <1>o
<1>5. ASSUME NEW m \in merging, MergeWalAppend(m) PROVE SentKept'
  <2>1. /\ UNCHANGED <<flushing, buffer, running, sent>> /\ merging' = merging \ {m}
        /\ \/ wal' = wal /\ unlogged' = unlogged \cup m.log.sent
           \/ wal' = [wal EXCEPT ![m.keep] = LogAppend(@, m.log)] /\ unlogged' = unlogged
    BY <1>5 DEF MergeWalAppend, eomVars
  <2>2. m.keep \in Tasks
    BY <1>a
  <2>3. ASSUME NEW w \in running', NEW t \in sent'[w] \ unlogged'
        PROVE  Kept(w, t, wal'[w], flushing'[w].log, buffer'[w], merging')
    <3>1. w \in running /\ w \in Tasks /\ t \in sent[w] \ unlogged
      BY <2>1, <2>3, <1>a
    <3>2. Kept(w, t, wal[w], flushing[w].log, buffer[w], merging)
      BY <3>1, <1>k
    <3>3. CASE wal' = wal /\ unlogged' = unlogged \cup m.log.sent
      BY <2>1, <2>3, <3>2, <3>3
    <3>4. CASE wal' = [wal EXCEPT ![m.keep] = LogAppend(@, m.log)]
      <4>1. CASE w = m.keep
        <5>1. wal'[w].sent = (wal[w].sent \ m.log.acked) \cup m.log.sent
          BY <3>4, <4>1, <2>2, <1>a DEF LogAppend
        <5>2. t \in flushing[w].log.acked \/ t \in buffer[w].acked \/ t \in m.log.acked => <<w, t>> \in B
          BY <3>1, <4>1, <1>t, <1>m
        <5> QED
          BY <2>1, <3>2, <5>1, <5>2
      <4>2. CASE w # m.keep
        <5>1. wal'[w] = wal[w]
          BY <3>1, <3>4, <4>2, <1>a
        <5> QED
          BY <2>1, <3>2, <4>2, <5>1
      <4> QED
        BY <4>1, <4>2
    <3> QED
      BY <2>1, <3>3, <3>4
  <2> QED
    BY <2>3, <1>y
<1>6. (LeaderStep /\ (NodesUnchanged \/ \E n : \E S \in SUBSET Tasks : Updates(n, S))) \/ UNCHANGED vars => SentKept'
  <2>1. ASSUME UNCHANGED <<wal, merging, flushing, buffer, unlogged, running, sent>> PROVE SentKept'
    BY <2>1, <1>z
  <2> QED
    BY <2>1 DEF LeaderStep, NodesUnchanged, Updates, vars, eomVars, logVars
<1> QED
  BY <1>1, <1>2, <1>3, <1>4, <1>5, <1>6, NodeSteps DEF Next, NodeOperation

LEMMA LogInit == Init => LogInv
<1> SUFFICES ASSUME Init PROVE LogInv
  OBVIOUS
<1>1. Initial \in SUBSET Tasks
  BY ScenarioFacts DEF Init, Initial
<1>2. StagesKept
  <2>1. \A u \in Tasks : \A v \in ins[u] \ {Leader} : Stage[u] = Stage[v] + 1
    BY <1>1, InputStages DEF Init
  <2> QED
    BY <2>1 DEF Init, StagesKept, NoOp
<1>3. BatchesKept
  BY DEF Init, BatchesKept, LogEmpty, NoFlush
<1>4. AcksRight
  BY TrustedFacts, TaskFacts DEF Init, AcksRight, NoFlush
<1>5. SentKept
  BY <1>1, TaskFacts DEF Init, SentKept
<1> QED
  BY <1>2, <1>3, <1>4, <1>5 DEF LogInv

LEMMA LogInvariant == ASSUME StagesApart PROVE Spec => [](AllOK /\ LogInv)
<1>1. Init => LogInv
  BY LogInit
<1>2. AllOK /\ LogInv /\ [Next]_vars => LogInv'
  BY StagesNext, BatchesNext, AcksNext, SentNext DEF LogInv
<1> QED
  BY <1>1, <1>2, TypesInvariant, PTL DEF Spec

\* What a running task would send again after a timeout, it would also send again after a
\* restart: it is in its log, or in the log that it is about to take over from a removed
\* task, unless a task of the next stage has accepted it.  This holds through kills, late
\* flushes and merges that the survivor's own ACK records cross, if no node runs two of the
\* stages that forward tuples.
THEOREM SentTuplesAreLogged == ASSUME StagesApart PROVE Spec => []SentIsLogged
<1>1. AllOK /\ LogInv => SentIsLogged
  <2> SUFFICES ASSUME AllOK, LogInv, NEW u \in running, NEW t \in sent[u] \ (excused \cup unlogged)
               PROVE  \/ AcceptedAfter(u, t)
                      \/ t \in LogAppend(LogAppend(wal[u], flushing[u].log), buffer[u]).sent
                      \/ \E m \in merging : m.keep = u /\ t \in m.log.sent
    BY DEF SentIsLogged
  <2>1. <<u, t>> \in Settled => AcceptedAfter(u, t)
    BY DEF Settled, AcceptedAfter
  <2> QED
    BY <2>1 DEF LogInv, SentKept
<1> QED
  BY <1>1, LogInvariant, PTL

----------------------------------------------------------------------------
(* No tuple is lost by a scale-down.                                        *)

\* No task was killed by a command, no operation has given up, and a survivor is removed
\* only if nothing of the merge in its favour can be late.
Calm == kills = 0 /\ ~aborted /\ (downs > 1 => timeouts = 0)

ExemptTuples == excused \cup (IF downs > 1 THEN unlogged ELSE {})
Written      == {t \in Tuples : output[t] > 0}
Passed       == {p \in Tasks \X Tuples : p[2] \in wal[p[1]].rec}

\* Secured for a retry in a way that survives the removal of the task: what the task has sent
\* and logged, what it has taken over, and the WAL of a task that is going to be merged.
Secured ==
  {p \in Tasks \X Tuples :
     \/ /\ p[1] \in running /\ p[2] \in sent[p[1]]
        /\ \/ p[2] \in wal[p[1]].sent \cup unlogged
           \/ \E m \in merging : m.keep = p[1] /\ p[2] \in m.log.sent
     \/ MergeComing(p[1]) /\ p[2] \in wal[p[1]].sent}

\* Whatever a stage has durably, that stage or a later one keeps, or it is written.
Ahead(Sec, Pas, Src, Free) ==
  \A t \in Tuples \ Free :
    /\ t \in Src \/ \E u \in Tasks : <<u, t>> \in Sec
    /\ \A v \in Tasks : <<v, t>> \in Pas => \E u \in Tasks : Stage[u] >= Stage[v] /\ <<u, t>> \in Sec

Onward == Ahead(Secured, Passed, source \cup sent[Leader], ExemptTuples \cup Written)

\* What an ACK to the leader promises.
LeaderAcks ==
  /\ \A u \in Tasks : Leader \in ins[u] => Stage[u] = 1
  /\ \A a \in acks : a.to = Leader =>
       a.id \in excused \/ \E v \in Tasks : Stage[v] = 1 /\ <<v, a.id>> \in Passed

\* A REC record that is not durable yet goes with the SENT record of the same tuple, until the
\* tuple is acknowledged; in the last stage, with the output.
RecordsTogether ==
  /\ \A u \in Tasks : \A l \in {buffer[u], flushing[u].log} : \A t \in l.rec :
       IF Stage[u] = NStages THEN t \in Written
       ELSE <<u, t>> \in Settled \/ t \in l.sent \cap sent[u]
  /\ \A m \in merging : m.log.rec \subseteq wal[m.old].rec

\* The survivor of a merge runs, and at most one merge is under way when a task is killed.
SurvivorRuns ==
  /\ \A u \in topo : u \in running \/ (op.pc = "add" /\ op.task = u)
  /\ op.pc \in {"kill", "merge"} => op.keep \in topo
  /\ op.pc = "kill" => op.task \notin topo
  /\ \A r \in late : r.what # "kill" /\ (r.what = "merge" => r.keep \in topo \cap running)
  /\ (op.pc \in {"kill", "merge", "append"} \/ merging # {} \/ unlogged # {}
      \/ \E r \in late : r.what = "merge") => downs >= 1
  /\ op.pc = "kill" /\ downs = 1 =>
       merging = {} /\ unlogged = {} /\ \A r \in late : r.what # "merge"
  /\ timeouts = 0 => late = {}
  /\ timeouts = 0 => \A m \in merging : op.pc = "append" /\ merging = {m} /\ m.old = op.task

KeptInv == LeaderAcks /\ RecordsTogether /\ (Calm => SurvivorRuns /\ Onward)

\* What is forgotten by no step.
LEMMA NeverBack ==
  ASSUME AllOK, [Next]_vars
  PROVE  /\ Calm' => Calm
         /\ downs <= downs' /\ unlogged \subseteq unlogged' /\ Written \subseteq Written'
         /\ timeouts <= timeouts'
<1>a. /\ output \in [Tuples -> Nat] /\ kills \in Nat /\ downs \in Nat /\ timeouts \in Nat
  BY DEF AllOK, WireOK
<1>s. ASSUME kills <= kills', kills' \in Nat, downs <= downs', downs' \in Nat, timeouts <= timeouts', timeouts' \in Nat,
             aborted => aborted', unlogged \subseteq unlogged',
             \A t \in Tuples : output[t] > 0 => output'[t] > 0
      PROVE  /\ Calm' => Calm
             /\ downs <= downs' /\ unlogged \subseteq unlogged' /\ Written \subseteq Written'
             /\ timeouts <= timeouts'
  <2>1. Calm' => Calm
    BY <1>s, <1>a DEF Calm
  <2> QED
    BY <2>1, <1>s DEF Written
<1> DEFINE Same == UNCHANGED <<kills, downs, timeouts, aborted, unlogged>>
           Quietly == Same /\ UNCHANGED output
<1>q. Quietly => \A t \in Tuples : output[t] > 0 => output'[t] > 0
  OBVIOUS
<1>1. CASE Quietly
  BY <1>1, <1>s, <1>a
<1>2. TupleFlow => \/ Quietly \/ \E u \in Tasks, t \in Tuples : writeTupleToOutputFile(u, t)
                   \/ \E d \in drained : readTaskOutput(d)
  BY DEF TupleFlow, TupleStep, readFileAndEmitTuples, RetryFromSource, RetryFromTask, forwardTupleToDownstream,
         handleACKMessage, FlushSnapshot, FlushAppend, LateFlushAppend, AppendAndAck
<1>d. ASSUME NEW d \in drained, readTaskOutput(d)
      PROVE  Same /\ \A r \in Tuples : output[r] > 0 => output'[r] > 0
  <2>1. DrainSends(d) \/ DrainWrites(d)
    BY <1>d, DrainFacts
  <2>2. \A r \in Tuples : output[r] > 0 => output'[r] > 0
    BY <2>1, <1>a DEF DrainSends, DrainWrites
  <2> QED
    BY <1>d, <2>2, DrainFacts DEF TupleStep
<1>3. ASSUME NEW u \in Tasks, NEW t \in Tuples, writeTupleToOutputFile(u, t)
      PROVE  Same /\ \A r \in Tuples : output[r] > 0 => output'[r] > 0
  BY <1>3, <1>a DEF writeTupleToOutputFile, TupleStep
<1>4. ASSUME NEW u \in Tasks, scaleUpStage(u) \/ Restart(u) PROVE Quietly
  BY <1>4 DEF scaleUpStage, Restart, LeaderStep
<1>5. (\E u, v \in Tasks : scaleDownStage(u, v))
        => UNCHANGED <<kills, timeouts, aborted, unlogged, output>> /\ downs' = downs + 1
  BY DEF scaleDownStage, LeaderStep
<1>6. AddTask \/ KillTask => UNCHANGED <<kills, downs, timeouts, unlogged, output>> /\ (aborted => aborted')
  BY DEF AddTask, KillTask, OpStep, LeaderStep
<1>7. MergeWal \/ (\E n \in NodeNames : UpdateNode(n)) \/ (\E r \in late : LateRequest(r)) => Quietly
  BY DEF MergeWal, UpdateNode, LateRequest, OpStep, LeaderStep
<1>8. (\E m \in merging : MergeWalAppend(m)) => UNCHANGED <<kills, downs, timeouts, aborted, output>> /\ unlogged \subseteq unlogged'
  BY DEF MergeWalAppend
<1>9. (\E n \in NodeNames : UpdateTimesOut(n)) \/ AddOrKillTimesOut \/ MergeTimesOut \/ RestartTimesOut
        => UNCHANGED <<kills, downs, unlogged, output>> /\ timeouts' = timeouts + 1 /\ (aborted => aborted')
  BY DEF UpdateTimesOut, AddOrKillTimesOut, MergeTimesOut, RestartTimesOut, TimesOut, LeaderStep
<1>10. (\E u \in Tasks : handleKillTask(u)) => UNCHANGED <<downs, timeouts, aborted, unlogged, output>> /\ kills' = kills + 1
  BY DEF handleKillTask, LeaderStep
<1>11. (\E n \in NodeNames : ReportMetrics(n)) \/ startTaskHealthMonitor \/ (\E r \in monitor : RestartAdds(r)) => Quietly
  BY DEF ReportMetrics, startTaskHealthMonitor, RestartAdds, LeaderStep
<1>12. UNCHANGED vars => Quietly
  BY DEF vars
<1>13. CASE TupleFlow
  BY <1>13, <1>1, <1>2, <1>3, <1>d, <1>s, <1>a
<1>14. CASE Scaling
  BY <1>14, <1>1, <1>4, <1>5, <1>6, <1>7, <1>8, <1>9, <1>s, <1>q, <1>a DEF Scaling
<1>15. CASE Health
  BY <1>15, <1>1, <1>4, <1>9, <1>10, <1>11, <1>s, <1>q, <1>a DEF Health
<1> QED
  BY <1>1, <1>12, <1>13, <1>14, <1>15 DEF Next

\* The tuples flow without the leader, and start no merge.
LEMMA FlowKeeps ==
  TupleFlow => UNCHANGED <<running, topo, op, late, unlogged, downs, timeouts, merging>>
<1> DEFINE Same == UNCHANGED <<running, topo, op, late, unlogged, downs, timeouts, merging>>
<1>1. TupleStep /\ UNCHANGED merging => Same
  BY DEF TupleStep, leaderVars
<1>2. (\E t \in Tuples : readFileAndEmitTuples(t) \/ RetryFromSource(t)) => TupleStep /\ UNCHANGED merging
  BY DEF readFileAndEmitTuples, RetryFromSource, logVars
<1>3. (\E u \in Tasks, t \in Tuples : RetryFromTask(u, t) \/ forwardTupleToDownstream(u, t) \/ writeTupleToOutputFile(u, t))
        => TupleStep /\ UNCHANGED merging
  BY DEF RetryFromTask, forwardTupleToDownstream, writeTupleToOutputFile, logVars
<1>4. (\E a \in acks : handleACKMessage(a)) \/ (\E u \in Tasks : FlushSnapshot(u)) => TupleStep /\ UNCHANGED merging
  BY DEF handleACKMessage, FlushSnapshot, logVars
<1>5. (\E u \in Tasks : FlushAppend(u)) \/ (\E f \in lateFlush : LateFlushAppend(f)) => TupleStep /\ UNCHANGED merging
  BY DEF FlushAppend, LateFlushAppend, AppendAndAck
<1>6. (\E d \in drained : readTaskOutput(d)) => TupleStep /\ UNCHANGED merging
  BY DEF readTaskOutput
<1> QED
  BY <1>1, <1>2, <1>3, <1>4, <1>5, <1>6 DEF TupleFlow

\* The rule by which Onward is kept.  All that a step loses is of one stage k, and a tuple that it
\* loses there has gone past the stage before; what it makes durable it keeps, or a task of the
\* stage or a later one has had it before.
Moves(k, Sec, Sec2, Pas, Pas2, Src, Src2, Free2) ==
  /\ \A u \in Tasks : \A t \in Tuples \ Free2 : <<u, t>> \in Sec =>
       \/ \E w \in Tasks : Stage[w] >= Stage[u] /\ <<w, t>> \in Sec2
       \/ Stage[u] = k /\ \E w \in Tasks : Stage[w] = k + 1 /\ <<w, t>> \in Pas
  /\ \A v \in Tasks : \A t \in Tuples \ Free2 : <<v, t>> \in Pas2 =>
       \E w \in Tasks : Stage[w] >= Stage[v] /\ (<<w, t>> \in Sec2 \/ <<w, t>> \in Pas)
  /\ \A t \in Tuples \ Free2 : t \in Src =>
       t \in Src2 \/ (k = 0 /\ \E w \in Tasks : <<w, t>> \in Pas)

LEMMA OnwardRule ==
  ASSUME NEW Sec, NEW Sec2, NEW Pas, NEW Pas2, NEW Src, NEW Src2, NEW Free, NEW Free2, NEW k \in Nat,
         Free \subseteq Free2, Ahead(Sec, Pas, Src, Free),
         Moves(k, Sec, Sec2, Pas, Pas2, Src, Src2, Free2)
  PROVE  Ahead(Sec2, Pas2, Src2, Free2)
<1> USE DEF Ahead, Moves
<1>s. \A u \in Tasks : Stage[u] \in Nat /\ Stage[u] >= 1
  BY TasksAssumption
<1>1. ASSUME NEW t \in Tuples \ Free2, NEW v \in Tasks, <<v, t>> \in Pas
      PROVE  \E u \in Tasks : Stage[u] >= Stage[v] /\ <<u, t>> \in Sec2
  <2>1. PICK u \in Tasks : Stage[u] >= Stage[v] /\ <<u, t>> \in Sec
    BY <1>1
  <2>2. CASE \E w \in Tasks : Stage[w] >= Stage[u] /\ <<w, t>> \in Sec2
    BY <2>1, <2>2, <1>s
  <2>3. CASE Stage[u] = k /\ \E w \in Tasks : Stage[w] = k + 1 /\ <<w, t>> \in Pas
    <3>1. PICK w \in Tasks : Stage[w] = k + 1 /\ <<w, t>> \in Pas
      BY <2>3
    <3>2. PICK z \in Tasks : Stage[z] >= Stage[w] /\ <<z, t>> \in Sec
      BY <1>1, <3>1
    <3>3. Stage[z] # k
      BY <3>1, <3>2, <1>s
    <3>4. PICK y \in Tasks : Stage[y] >= Stage[z] /\ <<y, t>> \in Sec2
      BY <1>1, <3>2, <3>3
    <3> QED
      BY <2>1, <2>3, <3>1, <3>2, <3>4, <1>s
  <2> QED
    BY <1>1, <2>1, <2>2, <2>3
<1>2. ASSUME NEW t \in Tuples \ Free2, NEW v \in Tasks, <<v, t>> \in Pas2
      PROVE  \E u \in Tasks : Stage[u] >= Stage[v] /\ <<u, t>> \in Sec2
  <2>1. PICK w \in Tasks : Stage[w] >= Stage[v] /\ (<<w, t>> \in Sec2 \/ <<w, t>> \in Pas)
    BY <1>2
  <2>2. PICK u \in Tasks : Stage[u] >= Stage[w] /\ <<u, t>> \in Sec2
    BY <2>1, <1>1, <1>s
  <2> QED
    BY <2>1, <2>2, <1>s
<1>3. ASSUME NEW t \in Tuples \ Free2 PROVE t \in Src2 \/ \E u \in Tasks : <<u, t>> \in Sec2
  <2>1. CASE t \in Src
    BY <2>1, <1>3, <1>1
  <2>2. CASE \E u \in Tasks : <<u, t>> \in Sec
    BY <2>2, <1>3, <1>1
  <2> QED
    BY <1>3, <2>1, <2>2
<1> QED
  BY <1>2, <1>3

\* Of a task's ACKs, those to the leader are sent by tasks of the first stage.
LEMMA LeaderInputs ==
  ASSUME NEW S \in SUBSET Tasks, NEW u \in Tasks, Leader \in InputTasks(S, u)
  PROVE  Stage[u] = 1
BY TaskFacts DEF InputTasks, OfStage

LEMMA LeaderAcksNext ==
  ASSUME AllOK, LogInv, LeaderAcks, [Next]_vars
  PROVE  LeaderAcks'
<1>k. StagesKept /\ BatchesKept
  BY DEF LogInv
<1>a. /\ wal \in [Tasks -> Log] /\ flushing \in [Tasks -> BatchType] /\ ins \in [Tasks -> SUBSET Senders]
      /\ lateFlush \subseteq [task : Tasks, log : Log, ids : SUBSET Tuples]
      /\ acks \subseteq [to : Senders, id : Tuples] /\ running \subseteq Tasks
  BY DEF AllOK, NodesOK, LogsOK, WireOK
<1>i. \A u \in Tasks : Leader \in ins[u] => Stage[u] = 1
  BY DEF LeaderAcks
<1>c. ASSUME NEW a \in acks, a.to = Leader
      PROVE  a.id \in excused' \/ \E v \in Tasks : Stage[v] = 1 /\ a.id \in wal'[v].rec
  BY <1>c, <1>k, <1>a, RecordsGrow DEF LeaderAcks, Passed
<1>y. ASSUME \A u \in Tasks : Leader \in ins'[u] => Stage[u] = 1,
             \A a \in acks' \ acks : a.to = Leader =>
               a.id \in Tuples /\ (a.id \in excused' \/ \E v \in Tasks : Stage[v] = 1 /\ a.id \in wal'[v].rec)
      PROVE  LeaderAcks'
  BY <1>y, <1>c, <1>a DEF LeaderAcks, Passed
<1>t. ASSUME NEW u \in Tasks, NEW v, NEW t, NEW a \in AcksTo(u, v, t), a.to = Leader
      PROVE  a.id = t /\ Stage[u] = 1
  BY <1>t, <1>i DEF AcksTo
<1>d. ASSUME NEW v, NEW u, NEW t \in Tuples, NEW rest, Deliver(v, u, t, rest), UNCHANGED <<wal, ins>>
      PROVE  LeaderAcks'
  <2>1. CASE acks' = acks
    BY <2>1, <1>d, <1>i, <1>y
  <2>2. CASE /\ u \in running /\ acks' = acks \cup AcksTo(u, v, t)
             /\ t \in excused' \/ t \in wal[u].rec
    BY <1>d, <2>2, <1>a, <1>i, <1>t, <1>y
  <2> QED
    BY <1>d, <2>1, <2>2 DEF Deliver
<1>f. ASSUME NEW u \in Tasks, NEW f, AppendAndAck(u, f), f.ids \subseteq f.log.rec, f.ids \subseteq Tuples
      PROVE  LeaderAcks'
  <2>1. /\ acks' = acks \cup UNION {AcksTo(u, sender[u][t], t) : t \in f.ids}
        /\ wal' = [wal EXCEPT ![u] = LogAppend(@, f.log)] /\ ins' = ins
    BY <1>f DEF AppendAndAck, TupleStep
  <2>2. f.ids \subseteq wal'[u].rec
    BY <2>1, <1>f, <1>a DEF LogAppend
  <2>3. \A a \in acks' \ acks : \E t \in f.ids : \E v : a \in AcksTo(u, v, t)
    BY <2>1
  <2> QED
    BY <2>1, <2>2, <2>3, <1>f, <1>i, <1>t, <1>y
<1>1. CASE TupleFlow
  <2>1. ASSUME NEW t \in Tuples, readFileAndEmitTuples(t) \/ RetryFromSource(t) PROVE LeaderAcks'
    <3>r. PICK rest : rest = pipe
      OBVIOUS
    <3>1. PICK u : Deliver(Leader, u, t, rest)
      BY <2>1, <3>r DEF readFileAndEmitTuples, RetryFromSource, Deliver
    <3>2. UNCHANGED <<wal, ins>>
      BY <2>1 DEF readFileAndEmitTuples, RetryFromSource, logVars, TupleStep
    <3> QED
      BY <3>1, <3>2, <1>d
  <2>2. ASSUME NEW v \in Tasks, NEW t \in Tuples, RetryFromTask(v, t) PROVE LeaderAcks'
    <3>r. PICK rest : rest = pipe
      OBVIOUS
    <3>1. PICK u : Deliver(v, u, t, rest)
      BY <2>2, <3>r DEF RetryFromTask, Deliver
    <3>2. UNCHANGED <<wal, ins>>
      BY <2>2 DEF RetryFromTask, logVars, TupleStep
    <3> QED
      BY <3>1, <3>2, <1>d
  <2>3. ASSUME NEW v \in Tasks, NEW t \in Tuples, forwardTupleToDownstream(v, t) PROVE LeaderAcks'
    <3>r. PICK rest : rest = [pipe EXCEPT ![v] = @ \ {t}]
      OBVIOUS
    <3>1. PICK u : Deliver(v, u, t, rest)
      BY <2>3, <3>r DEF forwardTupleToDownstream, Deliver
    <3>2. UNCHANGED <<wal, ins>>
      BY <2>3 DEF forwardTupleToDownstream, logVars, TupleStep
    <3> QED
      BY <3>1, <3>2, <1>d
  <2>4. ASSUME acks' \subseteq acks, UNCHANGED ins PROVE LeaderAcks'
    BY <2>4, <1>i, <1>y
  <2>5. (\E v \in Tasks, t \in Tuples : writeTupleToOutputFile(v, t)) => acks' \subseteq acks /\ UNCHANGED ins
    BY DEF writeTupleToOutputFile, TupleStep
  <2>6. (\E a \in acks : handleACKMessage(a)) => acks' \subseteq acks /\ UNCHANGED ins
    BY DEF handleACKMessage, TupleStep
  <2>7. (\E u \in Tasks : FlushSnapshot(u)) => acks' \subseteq acks /\ UNCHANGED ins
    BY DEF FlushSnapshot, TupleStep
  <2>8. ASSUME NEW u \in Tasks, FlushAppend(u) PROVE LeaderAcks'
    <3>1. PICK f : f = flushing[u]
      OBVIOUS
    <3>2. AppendAndAck(u, f)
      BY <2>8, <3>1 DEF FlushAppend, AppendAndAck
    <3>3. f.ids \subseteq f.log.rec /\ f.ids \subseteq Tuples
      BY <3>1, <1>k, <1>a DEF BatchesKept, BatchType
    <3> QED
      BY <3>2, <3>3, <1>f
  <2>9. ASSUME NEW f \in lateFlush, LateFlushAppend(f) PROVE LeaderAcks'
    <3>1. AppendAndAck(f.task, f)
      BY <2>9 DEF LateFlushAppend
    <3>2. f.task \in Tasks /\ f.ids \subseteq f.log.rec /\ f.ids \subseteq Tuples
      BY <1>k, <1>a DEF BatchesKept
    <3> QED
      BY <3>1, <3>2, <1>f
  <2>10. ASSUME NEW d \in drained, readTaskOutput(d) PROVE LeaderAcks'
    <3>1. UNCHANGED <<wal, ins>> /\ d.id \in Tuples /\ (DrainSends(d) \/ DrainWrites(d))
      BY <2>10, DrainFacts DEF TupleStep
    <3>2. CASE DrainSends(d)
      BY <3>1, <3>2, <1>d DEF DrainSends
    <3>3. CASE DrainWrites(d)
      BY <3>1, <3>3, <1>i, <1>y DEF DrainWrites
    <3> QED
      BY <3>1, <3>2, <3>3
  <2> QED
    BY <1>1, <2>1, <2>2, <2>3, <2>4, <2>5, <2>6, <2>7, <2>8, <2>9, <2>10 DEF TupleFlow
<1>2. (\E u \in Tasks : Kills(u)) \/ (\E x, v \in Tasks : Merges(x, v)) \/ NodesUnchanged => UNCHANGED ins
  BY DEF Kills, Merges, MergeWalForTask, NodesUnchanged
<1>3. ASSUME NEW u \in Tasks, NEW S \in SUBSET Tasks, Starts(u, S), NEW w \in Tasks, Leader \in ins'[w]
      PROVE  Stage[w] = 1
  <2>1. ins'[w] = ins[w] \/ (w = u /\ ins'[w] = InputTasks(S, u))
    BY <1>3, <1>a DEF Starts, InitializeTask
  <2> QED
    BY <2>1, <1>3, <1>i, LeaderInputs
<1>4. ASSUME NEW n, NEW S \in SUBSET Tasks, Updates(n, S), NEW w \in Tasks, Leader \in ins'[w]
      PROVE  Stage[w] = 1
  <2>1. ins'[w] = ins[w] \/ ins'[w] = InputTasks(S, w)
    BY <1>4, <1>a DEF Updates, UpdateTopology
  <2> QED
    BY <2>1, <1>4, <1>i, LeaderInputs
<1>5. CASE LeaderStep /\ NodeOperation
  <2>1. acks' = acks
    BY <1>5 DEF LeaderStep
  <2>2. \A w \in Tasks : Leader \in ins'[w] => Stage[w] = 1
    BY <1>5, <1>2, <1>3, <1>4, <1>i DEF NodeOperation
  <2> QED
    BY <2>1, <2>2, <1>y
<1>6. CASE (\E m \in merging : MergeWalAppend(m)) \/ UNCHANGED vars
  <2>1. acks' = acks /\ ins' = ins
    BY <1>6 DEF MergeWalAppend, vars
  <2> QED
    BY <2>1, <1>i, <1>y
<1> QED
  BY <1>1, <1>5, <1>6, <1>k, NodeSteps DEF Next

\* The records of a batch, with what the task has sent, and what is written.
Together(u, l, S, A, W) ==
  \A t \in l.rec : IF Stage[u] = NStages THEN t \in W ELSE <<u, t>> \in A \/ t \in l.sent \cap S

LEMMA RecordsNext ==
  ASSUME StagesApart, AllOK, LogInv, RecordsTogether, [Next]_vars
  PROVE  RecordsTogether'
<1>A. PICK A : A = Settled
  OBVIOUS
<1>B. PICK B : B = Settled'
  OBVIOUS
<1>W. PICK W : W = Written
  OBVIOUS
<1>X. PICK X : X = Written'
  OBVIOUS
<1>k. StagesKept /\ BatchesKept /\ AcksRight
  BY DEF LogInv
<1>g. A \subseteq B /\ W \subseteq X
  BY <1>A, <1>B, <1>W, <1>X, <1>k, RecordsGrow, SettledStays, NeverBack
<1>a. /\ wal \in [Tasks -> Log] /\ flushing \in [Tasks -> BatchType] /\ buffer \in [Tasks -> Log]
      /\ sent \in [Senders -> SUBSET Tuples] /\ running \subseteq Tasks
      /\ merging \subseteq [old : Tasks, keep : Tasks, log : Log]
      /\ output \in [Tuples -> Nat] /\ acks \subseteq [to : Senders, id : Tuples]
      /\ \A u \in Tasks \ running : buffer[u] = LogEmpty
  BY DEF AllOK, NodesOK, ManagersOK, LogsOK, WireOK
<1>s. Leader \notin Tasks /\ \A u \in Tasks : u \in Senders /\ u # Leader
  BY TaskFacts
<1>e. LogEmpty.rec = {} /\ NoFlush.log = LogEmpty
  BY DEF LogEmpty, NoFlush
<1>b. \A u \in Tasks : Together(u, buffer[u], sent[u], A, W) /\ Together(u, flushing[u].log, sent[u], A, W)
  BY <1>A, <1>W DEF RecordsTogether, Together
<1>m. \A m \in merging : m.log.rec \subseteq wal'[m.old].rec
  BY <1>k, <1>a, RecordsGrow DEF RecordsTogether
<1>y. ASSUME \A u \in Tasks : Together(u, buffer'[u], sent'[u], B, X) /\ Together(u, flushing'[u].log, sent'[u], B, X),
             \A m \in merging' : m.log.rec \subseteq wal'[m.old].rec
      PROVE  RecordsTogether'
  BY <1>y, <1>B, <1>X DEF RecordsTogether, Together
\* A batch stays as it was when only settled tuples go from what is sent.
<1>w. ASSUME NEW u \in Tasks, NEW l, NEW S, NEW T, Together(u, l, S, A, W), \A t \in S \ T : <<u, t>> \in B
      PROVE  Together(u, l, T, B, X)
  BY <1>w, <1>g DEF Together
<1>z. ASSUME UNCHANGED <<flushing, buffer>>, merging' \subseteq merging,
             \A u \in Tasks : \A t \in sent[u] \ sent'[u] : <<u, t>> \in B
      PROVE  RecordsTogether'
  <2>1. \A u \in Tasks : Together(u, buffer[u], sent'[u], B, X) /\ Together(u, flushing[u].log, sent'[u], B, X)
    BY <1>z, <1>b, <1>w
  <2> QED
    BY <1>z, <2>1, <1>y, <1>m
\* Only the batches of u, or what it has sent, have changed.
<1>o. ASSUME NEW u \in Tasks, merging' \subseteq merging,
             \A w \in Tasks \ {u} : sent'[w] = sent[w] /\ buffer'[w] = buffer[w] /\ flushing'[w] = flushing[w],
             Together(u, buffer'[u], sent'[u], B, X), Together(u, flushing'[u].log, sent'[u], B, X)
      PROVE  RecordsTogether'
  <2>1. \A w \in Tasks \ {u} : /\ Together(w, buffer'[w], sent'[w], B, X)
                               /\ Together(w, flushing'[w].log, sent'[w], B, X)
    BY <1>o, <1>b, <1>w
  <2> QED
    BY <1>o, <2>1, <1>y, <1>m
<1>1. CASE TupleFlow
  <2>1. ASSUME NEW t \in Tuples, readFileAndEmitTuples(t) \/ RetryFromSource(t) PROVE RecordsTogether'
    <3>1. UNCHANGED <<flushing, buffer, merging>> /\ \A w \in Tasks : sent'[w] = sent[w]
      BY <2>1, <1>a, <1>s DEF readFileAndEmitTuples, RetryFromSource, logVars
    <3> QED
      BY <3>1, <1>z
  <2>2. ASSUME NEW v \in Tasks, NEW t \in Tuples, RetryFromTask(v, t) PROVE RecordsTogether'
    <3>1. UNCHANGED <<flushing, sent, merging>> /\ buffer' = [buffer EXCEPT ![v] = LogSENT(@, t)]
      BY <2>2 DEF RetryFromTask, logVars
    <3>2. buffer'[v].rec = buffer[v].rec /\ buffer[v].sent \subseteq buffer'[v].sent
      BY <3>1, <1>a DEF LogSENT
    <3>3. Together(v, buffer'[v], sent'[v], B, X) /\ Together(v, flushing'[v].log, sent'[v], B, X)
      BY <3>1, <3>2, <1>b, <1>g DEF Together
    <3>4. \A w \in Tasks \ {v} : buffer'[w] = buffer[w]
      BY <3>1, <1>a
    <3> QED
      BY <3>1, <3>3, <3>4, <1>o
  <2>3. ASSUME NEW v \in Tasks, NEW t \in Tuples, forwardTupleToDownstream(v, t) PROVE RecordsTogether'
    <3>1. /\ UNCHANGED <<flushing, merging>> /\ Stage[v] < NStages
          /\ buffer' = [buffer EXCEPT ![v] = LogREC(LogSENT(@, t), t)]
          /\ sent' = [sent EXCEPT ![v] = @ \cup {t}]
      BY <2>3 DEF forwardTupleToDownstream, logVars
    <3>2. buffer'[v].rec = buffer[v].rec \cup {t} /\ buffer'[v].sent = buffer[v].sent \cup {t}
      BY <3>1, <1>a DEF LogSENT, LogREC
    <3>3. sent'[v] = sent[v] \cup {t}
      BY <3>1, <1>a, <1>s
    <3>4. Together(v, buffer'[v], sent'[v], B, X) /\ Together(v, flushing'[v].log, sent'[v], B, X)
      BY <3>1, <3>2, <3>3, <1>b, <1>g, TaskFacts DEF Together
    <3>5. \A w \in Tasks \ {v} : buffer'[w] = buffer[w] /\ sent'[w] = sent[w]
      BY <3>1, <1>a, <1>s
    <3> QED
      BY <3>1, <3>4, <3>5, <1>o
  <2>4. ASSUME NEW v \in Tasks, NEW t \in Tuples, writeTupleToOutputFile(v, t) PROVE RecordsTogether'
    <3>1. /\ UNCHANGED <<flushing, sent, merging>> /\ Stage[v] = NStages
          /\ buffer' = [buffer EXCEPT ![v] = LogREC(@, t)] /\ output' = [output EXCEPT ![t] = @ + 1]
      BY <2>4 DEF writeTupleToOutputFile, logVars
    <3>2. buffer'[v].rec = buffer[v].rec \cup {t}
      BY <3>1, <1>a DEF LogREC
    <3>3. t \in X
      BY <3>1, <1>a, <1>X DEF Written
    <3>4. Together(v, buffer'[v], sent'[v], B, X) /\ Together(v, flushing'[v].log, sent'[v], B, X)
      BY <3>1, <3>2, <3>3, <1>b, <1>g DEF Together
    <3>5. \A w \in Tasks \ {v} : buffer'[w] = buffer[w]
      BY <3>1, <1>a
    <3> QED
      BY <3>1, <3>4, <3>5, <1>o
  <2>5. ASSUME NEW a \in acks, handleACKMessage(a) PROVE RecordsTogether'
    <3>1. UNCHANGED <<flushing, merging>>
      BY <2>5 DEF handleACKMessage, logVars
    <3>2. CASE buffer' = buffer /\ (sent' = sent \/ sent' = [sent EXCEPT ![Leader] = @ \ {a.id}])
      <4>1. \A w \in Tasks : sent'[w] = sent[w]
        BY <3>2, <1>a, <1>s
      <4> QED
        BY <3>1, <3>2, <4>1, <1>z
    <3>3. CASE \E u \in running : /\ a.to # Leader /\ Host[u] = Host[a.to] /\ a.id \in sent[u]
                                  /\ buffer' = [buffer EXCEPT ![u] = LogACK(@, a.id)]
                                  /\ sent' = [sent EXCEPT ![u] = @ \ {a.id}]
      <4>1. PICK u \in running : /\ a.to # Leader /\ Host[u] = Host[a.to] /\ a.id \in sent[u]
                                 /\ buffer' = [buffer EXCEPT ![u] = LogACK(@, a.id)]
                                 /\ sent' = [sent EXCEPT ![u] = @ \ {a.id}]
        BY <3>3
      <4>2. u \in Tasks /\ a.to \in Tasks /\ a.id \in Tuples
        BY <4>1, <1>a DEF Senders
      <4>3. Stage[u] < NStages /\ Stage[a.to] < NStages /\ <<a.to, a.id>> \in A
        BY <4>1, <4>2, <1>k, <1>A DEF AcksRight
      <4>4. Stage[u] = Stage[a.to]
        BY <4>1, <4>2, <4>3 DEF StagesApart
      <4>5. <<u, a.id>> \in B
        BY <4>2, <4>3, <4>4, <1>A, <1>g, SettledFacts
      <4>6. buffer'[u].rec = buffer[u].rec /\ buffer'[u].sent = buffer[u].sent \ {a.id}
        BY <4>1, <4>2, <1>a DEF LogACK
      <4>7. sent'[u] = sent[u] \ {a.id}
        BY <4>1, <4>2, <1>a, <1>s
      <4>8. Together(u, buffer'[u], sent'[u], B, X) /\ Together(u, flushing'[u].log, sent'[u], B, X)
        BY <3>1, <4>2, <4>5, <4>6, <4>7, <1>b, <1>g DEF Together
      <4>9. \A w \in Tasks \ {u} : buffer'[w] = buffer[w] /\ sent'[w] = sent[w]
        BY <4>1, <1>a, <1>s
      <4> QED
        BY <3>1, <4>2, <4>8, <4>9, <1>o
    <3> QED
      BY <2>5, <1>s, <1>a, <3>2, <3>3 DEF handleACKMessage
  <2>6. ASSUME NEW u \in Tasks, FlushSnapshot(u) PROVE RecordsTogether'
    <3>1. /\ UNCHANGED <<merging, sent>>
          /\ flushing' = [flushing EXCEPT ![u] = [log |-> buffer[u], ids |-> pendingAcks[u]]]
          /\ buffer' = [buffer EXCEPT ![u] = LogEmpty]
      BY <2>6 DEF FlushSnapshot
    <3>2. flushing'[u].log = buffer[u] /\ buffer'[u].rec = {}
      BY <3>1, <1>a, <1>e
    <3>3. Together(u, buffer'[u], sent'[u], B, X) /\ Together(u, flushing'[u].log, sent'[u], B, X)
      BY <3>1, <3>2, <1>b, <1>g DEF Together
    <3>4. \A w \in Tasks \ {u} : buffer'[w] = buffer[w] /\ flushing'[w] = flushing[w]
      BY <3>1, <1>a
    <3> QED
      BY <3>1, <3>3, <3>4, <1>o
  <2>7. ASSUME NEW u \in Tasks, FlushAppend(u) PROVE RecordsTogether'
    <3>1. /\ UNCHANGED <<buffer, merging, sent>> /\ flushing' = [flushing EXCEPT ![u] = NoFlush]
      BY <2>7 DEF FlushAppend, AppendAndAck, eomVars
    <3>2. flushing'[u].log.rec = {}
      BY <3>1, <1>a, <1>e
    <3>3. Together(u, buffer'[u], sent'[u], B, X) /\ Together(u, flushing'[u].log, sent'[u], B, X)
      BY <3>1, <3>2, <1>b, <1>g DEF Together
    <3>4. \A w \in Tasks \ {u} : flushing'[w] = flushing[w]
      BY <3>1, <1>a
    <3> QED
      BY <3>1, <3>3, <3>4, <1>o
  <2>8. ASSUME NEW f \in lateFlush, LateFlushAppend(f) PROVE RecordsTogether'
    <3>1. UNCHANGED <<buffer, merging, sent, flushing>>
      BY <2>8 DEF LateFlushAppend, AppendAndAck, eomVars
    <3> QED
      BY <3>1, <1>z
  <2>9. ASSUME NEW d \in drained, readTaskOutput(d) PROVE RecordsTogether'
    BY <2>9, <1>z, DrainFacts
  <2> QED
    BY <1>1, <2>1, <2>2, <2>3, <2>4, <2>5, <2>6, <2>7, <2>8, <2>9 DEF TupleFlow
<1>2. ASSUME NEW u \in Tasks, Kills(u), LeaderStep PROVE RecordsTogether'
  <2>1. CASE u \notin running
    BY <1>2, <2>1, <1>z DEF Kills, KillTaskProcess, LeaderStep
  <2>2. CASE u \in running
    <3>1. /\ UNCHANGED merging /\ buffer'[u] = LogEmpty /\ flushing'[u] = NoFlush
          /\ \A w \in Tasks \ {u} : sent'[w] = sent[w] /\ buffer'[w] = buffer[w] /\ flushing'[w] = flushing[w]
      BY <1>2, <2>2, <1>a, <1>s DEF Kills, KillTaskProcess, LeaderStep
    <3>2. Together(u, buffer'[u], sent'[u], B, X) /\ Together(u, flushing'[u].log, sent'[u], B, X)
      BY <3>1, <1>e DEF Together
    <3> QED
      BY <3>1, <3>2, <1>o
  <2> QED
    BY <2>1, <2>2
<1>3. ASSUME NEW u \in Tasks, NEW S \in SUBSET Tasks, Starts(u, S), LeaderStep PROVE RecordsTogether'
  <2>1. UNCHANGED <<merging, flushing, buffer>>
    BY <1>3 DEF Starts, LeaderStep, logVars
  <2>2. CASE u \in running
    BY <1>3, <2>1, <2>2, <1>z DEF Starts, InitializeTask
  <2>3. CASE u \notin running
    <3>1. \A w \in Tasks \ {u} : sent'[w] = sent[w]
      BY <1>3, <2>3, <1>a, <1>s DEF Starts, InitializeTask
    <3>2. buffer[u] = LogEmpty /\ flushing[u].log = LogEmpty
      BY <2>3, <1>a, <1>e, <1>k DEF BatchesKept
    <3>3. Together(u, buffer'[u], sent'[u], B, X) /\ Together(u, flushing'[u].log, sent'[u], B, X)
      BY <2>1, <3>2, <1>e DEF Together
    <3> QED
      BY <2>1, <3>1, <3>3, <1>o
  <2> QED
    BY <2>2, <2>3
<1>4. ASSUME NEW x \in Tasks, NEW v \in Tasks, Merges(x, v), LeaderStep PROVE RecordsTogether'
  <2>1. /\ UNCHANGED <<wal, flushing, buffer>> /\ Stage[x] = Stage[v]
        /\ merging' = merging \cup {[old |-> x, keep |-> v, log |-> wal[x]]}
    BY <1>4 DEF Merges, MergeWalForTask, LeaderStep
  <2>2. /\ sent'[v] = sent[v] \/ sent'[v] = (sent[v] \ wal[x].acked) \cup wal[x].sent
        /\ \A w \in Tasks \ {v} : sent'[w] = sent[w]
    BY <1>4, <1>a, <1>s DEF Merges, MergeWalForTask, MergeMaps
  <2>3. \A t \in wal[x].acked : <<v, t>> \in B
    <3>1. wal[x] \in Trusted(A)[x]
      BY <1>k, <1>A DEF AcksRight
    <3>2. \A t \in wal[x].acked : <<x, t>> \in A /\ t \in Tuples
      BY <3>1, <1>a, TrustedFacts, LogTypes
    <3> QED
      BY <3>2, <2>1, <1>A, <1>g, SettledFacts
  <2>4. \A w \in Tasks : \A t \in sent[w] \ sent'[w] : <<w, t>> \in B
    BY <2>2, <2>3
  <2>5. \A w \in Tasks : Together(w, buffer'[w], sent'[w], B, X) /\ Together(w, flushing'[w].log, sent'[w], B, X)
    BY <2>1, <2>4, <1>b, <1>w
  <2>6. \A m \in merging' : m.log.rec \subseteq wal'[m.old].rec
    BY <2>1, <1>m
  <2> QED
    BY <2>5, <2>6, <1>y
<1>5. ASSUME NEW m \in merging, MergeWalAppend(m) PROVE RecordsTogether'
  <2>1. UNCHANGED <<flushing, buffer, sent>> /\ merging' \subseteq merging
    BY <1>5 DEF MergeWalAppend, eomVars
  <2> QED
    BY <2>1, <1>z
<1>6. (LeaderStep /\ (NodesUnchanged \/ \E n : \E S \in SUBSET Tasks : Updates(n, S))) \/ UNCHANGED vars => RecordsTogether'
  <2>1. ASSUME UNCHANGED <<merging, flushing, buffer, sent>> PROVE RecordsTogether'
    BY <2>1, <1>z
  <2> QED
    BY <2>1 DEF LeaderStep, NodesUnchanged, Updates, vars, eomVars, logVars
<1> QED
  BY <1>1, <1>2, <1>3, <1>4, <1>5, <1>6, <1>k, NodeSteps DEF Next, NodeOperation

LEMMA SurvivorNext ==
  ASSUME AllOK, SurvivorRuns, Calm', [Next]_vars
  PROVE  SurvivorRuns'
<1>a. /\ running \subseteq Tasks /\ topo \subseteq Tasks /\ downs \in Nat /\ timeouts \in Nat
      /\ op \in OpType /\ OpKnown /\ monitor \cup late \subseteq RequestType
      /\ \A r \in monitor : r.what = "add"
  BY DEF AllOK, LeaderOK, OpOK, NodesOK, WireOK
<1>s. /\ \A u \in topo : u \in running \/ (op.pc = "add" /\ op.task = u)
      /\ op.pc \in {"kill", "merge"} => op.keep \in topo
      /\ op.pc = "kill" => op.task \notin topo
      /\ \A r \in late : r.what # "kill" /\ (r.what = "merge" => r.keep \in topo \cap running)
      /\ (op.pc \in {"kill", "merge", "append"} \/ merging # {} \/ unlogged # {}
          \/ \E r \in late : r.what = "merge") => downs >= 1
      /\ op.pc = "kill" /\ downs = 1 =>
           merging = {} /\ unlogged = {} /\ \A r \in late : r.what # "merge"
      /\ timeouts = 0 => late = {}
      /\ timeouts = 0 => \A m \in merging : op.pc = "append" /\ merging = {m} /\ m.old = op.task
  BY DEF SurvivorRuns
<1>c. kills' = 0 /\ ~aborted' /\ (downs' > 1 => timeouts' = 0)
  BY DEF Calm
\* Most steps only let tasks run, and change neither the topology nor the operation.
<1>z. ASSUME running \subseteq running', UNCHANGED <<topo, op, merging, unlogged, downs, timeouts>>, late' \subseteq late
      PROVE  SurvivorRuns'
  BY <1>z, <1>s DEF SurvivorRuns
\* The operation is over, or only updates are left.
<1>u. ASSUME running \subseteq running', UNCHANGED <<topo, merging, unlogged, downs>>, timeouts <= timeouts', timeouts' \in Nat,
             op.pc \notin {"add", "append"} \/ timeouts' > 0, op.pc # "add" \/ topo \subseteq running',
             op'.pc \in {"idle", "update"}, \A r \in late' \ late : r.what = "update", timeouts' = 0 => late' \subseteq late
      PROVE  SurvivorRuns'
  BY <1>u, <1>s, <1>a DEF SurvivorRuns
<1>1. CASE TupleFlow
  BY <1>1, <1>z, FlowKeeps
<1>2. ASSUME NEW u \in Tasks, scaleUpStage(u) PROVE SurvivorRuns'
  <2>1. /\ op.pc = "idle" /\ op'.pc = "add" /\ op'.task = u /\ topo' = topo \cup {u}
        /\ UNCHANGED <<running, late, merging, unlogged, downs, timeouts>>
    BY <1>2 DEF scaleUpStage, LeaderStep, NodesUnchanged, logVars, NoOp
  <2> QED
    BY <2>1, <1>s DEF SurvivorRuns
<1>3. ASSUME NEW x \in Tasks, NEW v \in Tasks, scaleDownStage(x, v) PROVE SurvivorRuns'
  <2>1. /\ op.pc = "idle" /\ op'.pc = "kill" /\ op'.task = x /\ op'.keep = v /\ topo' = topo \ {x}
        /\ v \in topo /\ x # v /\ downs' = downs + 1
        /\ UNCHANGED <<running, late, merging, unlogged, timeouts>>
    BY <1>3 DEF scaleDownStage, LeaderStep, NodesUnchanged, logVars, NoOp, OfStage
  <2>2. \A r \in late : r.what # "merge"
    BY <2>1, <1>s, <1>a, <1>c
  <2>3. downs' = 1 => merging = {} /\ unlogged = {}
    BY <2>1, <1>s, <1>a
  <2>4. downs' >= 1
    BY <2>1, <1>a
  <2> QED
    BY <2>1, <2>2, <2>3, <2>4, <1>s DEF SurvivorRuns
<1>4. ASSUME AddTask PROVE SurvivorRuns'
  <2>1. op.pc = "add" /\ op.task \notin running /\ running' = running \cup {op.task} /\ op'.pc = "update"
    BY <1>4, <1>c DEF AddTask, OpStep, InitializeTask, SendTopologyUpdate, NoOp
  <2>2. UNCHANGED <<topo, late, merging, unlogged, downs, timeouts>>
    BY <1>4 DEF AddTask, OpStep, LeaderStep, logVars
  <2>3. timeouts = 0 => merging = {}
    BY <2>1, <1>s
  <2> QED
    BY <2>1, <2>2, <2>3, <1>s DEF SurvivorRuns
<1>5. ASSUME KillTask PROVE SurvivorRuns'
  <2>1. op.pc = "kill" /\ op.task \in running /\ running' = running \ {op.task} /\ op'.pc = "merge" /\ op'.keep = op.keep
    BY <1>5, <1>c, <1>a DEF KillTask, OpStep, KillTaskProcess, OpType
  <2>2. UNCHANGED <<topo, late, merging, unlogged, downs, timeouts>>
    BY <1>5 DEF KillTask, OpStep, LeaderStep
  <2>3. timeouts = 0 => merging = {}
    BY <2>1, <1>s
  <2> QED
    BY <2>1, <2>2, <2>3, <1>s DEF SurvivorRuns
<1>6. ASSUME MergeWal PROVE SurvivorRuns'
  <2>1. PICK m : m = [old |-> op.task, keep |-> op.keep, log |-> wal[op.task]]
    OBVIOUS
  <2>2. m.old = op.task /\ op.pc = "merge" /\ op'.pc = "append" /\ op'.task = op.task /\ merging' = merging \cup {m}
    BY <1>6, <1>a, <2>1 DEF MergeWal, OpStep, MergeWalForTask, OpType
  <2>3. UNCHANGED <<running, topo, late, unlogged, downs, timeouts>>
    BY <1>6 DEF MergeWal, OpStep, MergeWalForTask, LeaderStep
  <2>4. timeouts = 0 => merging' = {m}
    BY <2>2, <1>s
  <2> QED
    BY <2>2, <2>3, <2>4, <1>s DEF SurvivorRuns
<1>7. ASSUME NEW m \in merging, MergeWalAppend(m) PROVE SurvivorRuns'
  <2>1. /\ merging' = merging \ {m}
        /\ op' = op \/ (op.pc = "append" /\ op'.pc = "update")
        /\ UNCHANGED <<running, topo, late, downs, timeouts>>
    BY <1>7 DEF MergeWalAppend, SendTopologyUpdate, NoOp
  <2>2. timeouts = 0 => merging' = {}
    BY <2>1, <1>s
  <2>3. downs >= 1 /\ ~(op.pc = "kill" /\ downs = 1)
    BY <1>s
  <2> QED
    BY <2>1, <2>2, <2>3, <1>s DEF SurvivorRuns
<1>8. ASSUME NEW n, UpdateNode(n) PROVE SurvivorRuns'
  <2>1. /\ op.pc = "update" /\ UNCHANGED <<running, topo, late, merging, unlogged, downs, timeouts>>
    BY <1>8 DEF UpdateNode, OpStep, LeaderStep, logVars
  <2>2. op'.pc \in {"idle", "update"}
    BY <1>8, <2>1, <1>a DEF UpdateNode, UpdateDone, NoOp, OpType
  <2> QED
    BY <2>1, <2>2, <1>u, <1>a
<1>9. ASSUME NEW n, UpdateTimesOut(n) PROVE SurvivorRuns'
  <2>1. /\ op.pc = "update" /\ UNCHANGED <<running, topo, merging, unlogged, downs>> /\ timeouts' = timeouts + 1
        /\ late' = late \cup {UpdateRequest(n)}
    BY <1>9 DEF UpdateTimesOut, TimesOut, LeaderStep, NodesUnchanged, logVars
  <2>2. op'.pc \in {"idle", "update"} /\ UpdateRequest(n).what = "update"
    BY <1>9, <2>1, <1>a DEF UpdateTimesOut, UpdateDone, NoOp, OpType, UpdateRequest
  <2> QED
    BY <2>1, <2>2, <1>u, <1>a
<1>10. ~AddOrKillTimesOut /\ ~\E u \in Tasks : handleKillTask(u)
  <2>1. \A u \in Tasks : ~handleKillTask(u)
    BY <1>c DEF handleKillTask, AllOK, WireOK
  <2> QED
    BY <2>1, <1>c DEF AddOrKillTimesOut
<1>11. ASSUME MergeTimesOut PROVE SurvivorRuns'
  <2>1. /\ op.pc \in {"merge", "append"} /\ op'.pc = "update" /\ timeouts' = timeouts + 1
        /\ UNCHANGED <<running, topo, merging, unlogged, downs>>
    BY <1>11 DEF MergeTimesOut, TimesOut, LeaderStep, NodesUnchanged, logVars, SendTopologyUpdate, NoOp
  <2>2. PICK r : r = Request("merge", op.task, op.keep)
    OBVIOUS
  <2>3. r.what = "merge" /\ r.keep = op.keep /\ (late' = late \/ (op.pc = "merge" /\ late' = late \cup {r}))
    BY <1>11, <2>1, <2>2 DEF MergeTimesOut, TimesOut, Request
  <2>4. timeouts' # 0
    BY <2>1, <1>a
  <2> QED
    BY <2>1, <2>3, <2>4, <1>s DEF SurvivorRuns
<1>12. ASSUME RestartTimesOut PROVE SurvivorRuns'
  <2>1. /\ UNCHANGED <<running, topo, merging, unlogged, downs, op>> /\ timeouts' = timeouts + 1
        /\ late' = late \cup monitor
    BY <1>12 DEF RestartTimesOut, TimesOut, LeaderStep, NodesUnchanged, logVars
  <2>2. timeouts' # 0
    BY <2>1, <1>a
  <2>3. \A r \in late' \ late : r.what = "add"
    BY <2>1, <1>a
  <2> QED
    BY <2>1, <2>2, <2>3, <1>s DEF SurvivorRuns
<1>13. ASSUME NEW r \in late, LateRequest(r) PROVE SurvivorRuns'
  <2>1. /\ UNCHANGED <<topo, op, unlogged, downs, timeouts>> /\ late' = late \ {r}
        /\ r.what # "kill" /\ timeouts # 0
    BY <1>13, <1>s DEF LateRequest, LeaderStep
  <2>2. CASE merging' = merging /\ running \subseteq running'
    BY <2>1, <2>2, <1>z
  <2>3. CASE r.what = "merge" /\ running' = running
    BY <2>1, <2>3, <1>s DEF SurvivorRuns
  <2> QED
    BY <2>1, <2>2, <2>3, <1>13 DEF LateRequest, InitializeTask, MergeWalForTask, logVars
<1>14. ASSUME NEW r \in monitor, RestartAdds(r) PROVE SurvivorRuns'
  <2>1. /\ UNCHANGED <<topo, op, merging, unlogged, downs, timeouts, late>> /\ running \subseteq running'
    BY <1>14 DEF RestartAdds, InitializeTask, LeaderStep, logVars
  <2> QED
    BY <2>1, <1>z
<1>15. ASSUME (\E u \in Tasks : Restart(u)) \/ (\E n \in NodeNames : ReportMetrics(n)) \/ startTaskHealthMonitor \/ UNCHANGED vars
       PROVE  SurvivorRuns'
  <2>1. UNCHANGED <<running, topo, op, merging, unlogged, downs, timeouts, late>>
    BY <1>15 DEF Restart, ReportMetrics, startTaskHealthMonitor, LeaderStep, NodesUnchanged, logVars, vars
  <2> QED
    BY <2>1, <1>z
<1> QED
  BY <1>1, <1>2, <1>3, <1>4, <1>5, <1>6, <1>7, <1>8, <1>9, <1>10, <1>11, <1>12, <1>13, <1>14, <1>15
     DEF Next, Scaling, Health

LEMMA OnwardNext ==
  ASSUME StagesApart, AllOK, LogInv, LeaderAcks, RecordsTogether, SurvivorRuns, Onward, Calm', [Next]_vars
  PROVE  Onward'
<1>A. PICK A : A = Settled
  OBVIOUS
<1>D. PICK D, D2 : D = {x \in Tasks : MergeComing(x)} /\ D2 = {x \in Tasks : MergeComing(x)'}
  OBVIOUS
<1>S. PICK Sec, Sec2 : Sec = Secured /\ Sec2 = Secured'
  OBVIOUS
<1>P. PICK Pas, Pas2 : Pas = Passed /\ Pas2 = Passed'
  OBVIOUS
<1>R. PICK Src, Src2 : Src = source \cup sent[Leader] /\ Src2 = source' \cup sent'[Leader]
  OBVIOUS
<1>F. PICK Free, Free2 : Free = ExemptTuples \cup Written /\ Free2 = (ExemptTuples \cup Written)'
  OBVIOUS
<1>k. StagesKept /\ BatchesKept /\ AcksRight
  BY DEF LogInv
<1>a. /\ wal \in [Tasks -> Log] /\ flushing \in [Tasks -> BatchType] /\ buffer \in [Tasks -> Log]
      /\ sent \in [Senders -> SUBSET Tuples] /\ running \subseteq Tasks /\ topo \subseteq Tasks
      /\ merging \subseteq [old : Tasks, keep : Tasks, log : Log]
      /\ lateFlush \subseteq [task : Tasks, log : Log, ids : SUBSET Tuples]
      /\ acks \subseteq [to : Senders, id : Tuples] /\ source \subseteq Tuples
      /\ \A u \in Tasks \ running : sent[u] = {}
      /\ downs \in Nat /\ downs' \in Nat /\ kills \in Nat /\ op \in OpType
      /\ OpKnown /\ \A r \in late : RequestKnown(r)
  <2>1. downs' \in Nat
    BY TypesNext DEF AllOK, WireOK
  <2> QED
    BY <2>1 DEF AllOK, LeaderOK, OpOK, NodesOK, ManagersOK, LogsOK, WireOK
<1>s. Leader \notin Tasks /\ Leader \in Senders /\ \A u \in Tasks : u \in Senders /\ u # Leader /\ Stage[u] \in Nat /\ Stage[u] >= 1
  BY TaskFacts
<1>c. kills' = 0 /\ ~aborted' /\ (downs' > 1 => timeouts' = 0)
  BY DEF Calm
<1>f. Free \subseteq Free2 /\ excused \subseteq Free /\ excused' \subseteq Free2 /\ Written \subseteq Free
  <2>1. excused \subseteq excused' /\ unlogged \subseteq unlogged' /\ Written \subseteq Written' /\ downs <= downs'
    BY <1>k, NeverBack, RecordsGrow
  <2> QED
    BY <2>1, <1>a, <1>F DEF ExemptTuples
<1>e. \A u \in Tasks, t \in Tuples : <<u, t>> \in Sec <=>
        \/ /\ u \in running /\ t \in sent[u]
           /\ t \in wal[u].sent \cup unlogged \/ \E m \in merging : m.keep = u /\ t \in m.log.sent
        \/ u \in D /\ t \in wal[u].sent
  BY <1>S, <1>D DEF Secured
<1>g. \A u \in Tasks, t \in Tuples : <<u, t>> \in Sec2 <=>
        \/ /\ u \in running' /\ t \in sent'[u]
           /\ t \in wal'[u].sent \cup unlogged' \/ \E m \in merging' : m.keep = u /\ t \in m.log.sent
        \/ u \in D2 /\ t \in wal'[u].sent
  BY <1>S, <1>D DEF Secured
<1>p. /\ \A u \in Tasks, t \in Tuples : <<u, t>> \in Pas <=> t \in wal[u].rec
      /\ \A u \in Tasks, t \in Tuples : <<u, t>> \in Pas2 <=> t \in wal'[u].rec
  BY <1>P DEF Passed
<1>t. \A u \in Tasks, t \in Tuples \ Free2 :
        <<u, t>> \in A => \E w \in Tasks : Stage[w] = Stage[u] + 1 /\ <<w, t>> \in Pas
  BY <1>A, <1>f, <1>p DEF Settled
<1>r. ASSUME NEW k \in Nat, Moves(k, Sec, Sec2, Pas, Pas2, Src, Src2, Free2) PROVE Onward'
  <2>1. Ahead(Sec, Pas, Src, Free)
    BY <1>S, <1>P, <1>R, <1>F DEF Onward
  <2>2. Ahead(Sec2, Pas2, Src2, Free2)
    BY <1>r, <1>f, <2>1, OnwardRule
  <2> QED
    BY <2>2, <1>S, <1>P, <1>R, <1>F DEF Onward
\* The WALs and the leader's tuples stay, and of stage k only what has gone on is lost.
<1>w. ASSUME NEW k \in Nat \ {0}, UNCHANGED wal, Src \subseteq Src2,
             \A u \in Tasks : \A t \in Tuples \ Free2 : <<u, t>> \in Sec =>
               \/ \E w \in Tasks : Stage[w] >= Stage[u] /\ <<w, t>> \in Sec2
               \/ Stage[u] = k /\ <<u, t>> \in A
      PROVE  Onward'
  <2>1. \A u \in Tasks : \A t \in Tuples \ Free2 : <<u, t>> \in Sec =>
          \/ \E w \in Tasks : Stage[w] >= Stage[u] /\ <<w, t>> \in Sec2
          \/ Stage[u] = k /\ \E w \in Tasks : Stage[w] = k + 1 /\ <<w, t>> \in Pas
    BY <1>w, <1>t
  <2>2. \A v \in Tasks : \A t \in Tuples \ Free2 : <<v, t>> \in Pas2 =>
          \E w \in Tasks : Stage[w] >= Stage[v] /\ (<<w, t>> \in Sec2 \/ <<w, t>> \in Pas)
    BY <1>w, <1>p, <1>s
  <2> QED
    BY <1>w, <2>1, <2>2, <1>r DEF Moves
<1>z. ASSUME UNCHANGED wal, Src \subseteq Src2, \A u \in Tasks : \A t \in Tuples : <<u, t>> \in Sec => <<u, t>> \in Sec2
      PROVE  Onward'
  <2>1. \A u \in Tasks : \A t \in Tuples \ Free2 : <<u, t>> \in Sec =>
          \E w \in Tasks : Stage[w] >= Stage[u] /\ <<w, t>> \in Sec2
    BY <1>z, <1>s
  <2> QED
    BY <1>z, <2>1, <1>w
\* What is secured stays, if the tasks go on, and what they have sent, and the merges.
<1>h. ASSUME UNCHANGED <<wal, unlogged>>, D \subseteq D2, running \subseteq running', merging \subseteq merging', Src \subseteq Src2,
             \A u \in Tasks : sent[u] \subseteq sent'[u]
      PROVE  Onward'
  <2>1. \A u \in Tasks : \A t \in Tuples : <<u, t>> \in Sec => <<u, t>> \in Sec2
    BY <1>h, <1>e, <1>g
  <2> QED
    BY <1>h, <2>1, <1>z
<1>d. UNCHANGED <<op, late>> => D2 = D
  BY <1>D DEF MergeComing
<1>1. CASE TupleFlow
  <2>u. UNCHANGED <<running, op, late, unlogged, merging>>
    BY <1>1, FlowKeeps
  <2>d. D2 = D
    BY <2>u, <1>d
  \* Only more is sent.
  <2>s. ASSUME UNCHANGED wal, Src \subseteq Src2, \A u \in Tasks : sent[u] \subseteq sent'[u] PROVE Onward'
    BY <2>s, <2>u, <2>d, <1>h
  \* Records are appended to the WAL of u: what they acknowledge has gone on, and what they have as
  \* received is sent on as well, or has gone on.
  <2>a. ASSUME NEW u \in Tasks, NEW f, AppendAndAck(u, f), \A t \in f.log.acked : <<u, t>> \in A,
               \A t \in f.log.rec \ Free2 : <<u, t>> \in A \/ t \in f.log.sent \cap sent[u]
        PROVE  Onward'
    <3>1. wal' = [wal EXCEPT ![u] = LogAppend(@, f.log)] /\ UNCHANGED <<sent, source>>
      BY <2>a DEF AppendAndAck, eomVars
    <3>2. /\ wal'[u].rec = wal[u].rec \cup f.log.rec
          /\ wal'[u].sent = (wal[u].sent \ f.log.acked) \cup f.log.sent
          /\ \A w \in Tasks \ {u} : wal'[w] = wal[w]
      BY <3>1, <1>a DEF LogAppend
    <3>3. ASSUME NEW w \in Tasks, NEW t \in Tuples \ Free2, <<w, t>> \in Sec
          PROVE  <<w, t>> \in Sec2 \/ (w = u /\ <<u, t>> \in A)
      <4>1. t \in wal[w].sent => t \in wal'[w].sent \/ (w = u /\ <<u, t>> \in A)
        BY <3>2, <2>a
      <4> QED
        BY <3>1, <3>3, <4>1, <2>u, <2>d, <1>e, <1>g
    <3>4. ASSUME NEW v \in Tasks, NEW t \in Tuples \ Free2, <<v, t>> \in Pas2
          PROVE  <<v, t>> \in Sec2 \/ <<v, t>> \in Pas \/ (v = u /\ <<u, t>> \in A)
      <4>1. t \in wal[v].rec \/ (v = u /\ t \in f.log.rec)
        BY <3>2, <3>4, <1>p
      <4>2. ASSUME v = u, t \in f.log.sent \cap sent[u] PROVE <<v, t>> \in Sec2
        BY <4>2, <3>1, <3>2, <2>u, <1>a, <1>g
      <4> QED
        BY <4>1, <4>2, <3>4, <2>a, <1>p
    <3>5. /\ \A w \in Tasks : \A t \in Tuples \ Free2 : <<w, t>> \in Sec =>
               \/ \E x \in Tasks : Stage[x] >= Stage[w] /\ <<x, t>> \in Sec2
               \/ Stage[w] = Stage[u] /\ \E x \in Tasks : Stage[x] = Stage[u] + 1 /\ <<x, t>> \in Pas
      BY <3>3, <1>t, <1>s
    <3>6. \A v \in Tasks : \A t \in Tuples \ Free2 : <<v, t>> \in Pas2 =>
            \E w \in Tasks : Stage[w] >= Stage[v] /\ (<<w, t>> \in Sec2 \/ <<w, t>> \in Pas)
      BY <3>4, <1>t, <1>s
    <3>7. Src2 = Src
      BY <3>1, <1>R
    <3> QED
      BY <3>5, <3>6, <3>7, <1>s, <1>r DEF Moves
  <2>1. ASSUME NEW t \in Tuples, readFileAndEmitTuples(t) \/ RetryFromSource(t) PROVE Onward'
    <3>1. /\ UNCHANGED wal /\ source \subseteq source' \cup {t}
          /\ sent' = [sent EXCEPT ![Leader] = @ \cup {t}] \/ (sent' = sent /\ source' = source)
      BY <2>1 DEF readFileAndEmitTuples, RetryFromSource, logVars
    <3>2. \A u \in Tasks : sent[u] \subseteq sent'[u]
      BY <3>1, <1>a, <1>s
    <3>3. Src \subseteq Src2
      BY <3>1, <1>a, <1>s, <1>R
    <3> QED
      BY <3>1, <3>2, <3>3, <2>s
  <2>2. ASSUME NEW v \in Tasks, NEW t \in Tuples,
               RetryFromTask(v, t) \/ forwardTupleToDownstream(v, t) \/ writeTupleToOutputFile(v, t)
        PROVE  Onward'
    <3>1. /\ UNCHANGED <<wal, source>>
          /\ sent' = [sent EXCEPT ![v] = @ \cup {t}] \/ sent' = sent
      BY <2>2 DEF RetryFromTask, forwardTupleToDownstream, writeTupleToOutputFile, logVars
    <3>2. \A u \in Senders : sent[u] \subseteq sent'[u]
      BY <3>1, <1>a, <1>s
    <3>3. Src \subseteq Src2
      BY <3>1, <3>2, <1>s, <1>R
    <3> QED
      BY <3>1, <3>2, <3>3, <1>s, <2>s
  <2>3. ASSUME NEW a \in acks, handleACKMessage(a) PROVE Onward'
    <3>1. UNCHANGED <<wal, source>>
      BY <2>3 DEF handleACKMessage, logVars
    <3>2. CASE sent' = sent
      BY <3>1, <3>2, <2>s, <1>R
    <3>3. CASE a.to = Leader /\ sent' = [sent EXCEPT ![Leader] = @ \ {a.id}]
      <4>1. \A w \in Tasks : sent'[w] = sent[w]
        BY <3>3, <1>a, <1>s
      <4>2. \A w \in Tasks : \A t \in Tuples : <<w, t>> \in Sec => <<w, t>> \in Sec2
        BY <4>1, <3>1, <2>u, <2>d, <1>e, <1>g
      <4>3. \A w \in Tasks : \A t \in Tuples : <<w, t>> \in Pas2 => <<w, t>> \in Pas
        BY <3>1, <1>p
      <4>4. a.id \notin Free2 => \E w \in Tasks : <<w, a.id>> \in Pas
        BY <3>3, <1>P, <1>f DEF LeaderAcks
      <4>5. \A t \in Tuples \ Free2 : t \in Src => t \in Src2 \/ \E w \in Tasks : <<w, t>> \in Pas
        BY <4>4, <3>1, <3>3, <1>a, <1>s, <1>R
      <4> QED
        BY <4>2, <4>3, <4>5, <1>s, <1>r DEF Moves
    <3>4. CASE \E u \in running : /\ a.to # Leader /\ Host[u] = Host[a.to] /\ a.id \in sent[u]
                                  /\ sent' = [sent EXCEPT ![u] = @ \ {a.id}]
      <4>1. PICK u \in running : /\ a.to # Leader /\ Host[u] = Host[a.to] /\ a.id \in sent[u]
                                 /\ sent' = [sent EXCEPT ![u] = @ \ {a.id}]
        BY <3>4
      <4>2. u \in Tasks /\ a.to \in Tasks /\ a.id \in Tuples
        BY <4>1, <1>a DEF Senders
      <4>3. Stage[u] < NStages /\ Stage[a.to] < NStages /\ <<a.to, a.id>> \in A
        BY <4>1, <4>2, <1>k, <1>A DEF AcksRight
      <4>4. Stage[u] = Stage[a.to]
        BY <4>1, <4>2, <4>3 DEF StagesApart
      <4>5. <<u, a.id>> \in A
        BY <4>2, <4>3, <4>4, <1>A, SettledFacts
      <4>6. sent'[u] = sent[u] \ {a.id} /\ sent'[Leader] = sent[Leader] /\ \A w \in Tasks \ {u} : sent'[w] = sent[w]
        BY <4>1, <4>2, <1>a, <1>s
      <4>7. \A w \in Tasks : \A t \in Tuples : <<w, t>> \in Sec => <<w, t>> \in Sec2 \/ (w = u /\ t = a.id)
        BY <4>6, <3>1, <2>u, <2>d, <1>e, <1>g
      <4>8. \A w \in Tasks : \A t \in Tuples \ Free2 : <<w, t>> \in Sec =>
              \/ \E x \in Tasks : Stage[x] >= Stage[w] /\ <<x, t>> \in Sec2
              \/ Stage[w] = Stage[u] /\ <<w, t>> \in A
        BY <4>5, <4>7, <1>s
      <4>9. Src2 = Src /\ Stage[u] \in Nat \ {0}
        BY <4>2, <4>6, <3>1, <1>s, <1>R
      <4> QED
        BY <4>8, <4>9, <3>1, <1>w
    <3> QED
      BY <2>3, <3>2, <3>3, <3>4 DEF handleACKMessage
  <2>4. ASSUME NEW u \in Tasks, FlushSnapshot(u) PROVE Onward'
    <3>1. UNCHANGED <<wal, source, sent>>
      BY <2>4 DEF FlushSnapshot
    <3> QED
      BY <3>1, <2>s, <1>R
  <2>5. ASSUME NEW u \in Tasks, FlushAppend(u) PROVE Onward'
    <3>1. PICK f : f = flushing[u]
      OBVIOUS
    <3>2. AppendAndAck(u, f)
      BY <2>5, <3>1 DEF FlushAppend, AppendAndAck
    <3>3. \A t \in f.log.acked : <<u, t>> \in A
      BY <3>1, <1>k, <1>A, TrustedFacts DEF AcksRight
    <3>4. \A t \in f.log.rec \ Free2 : <<u, t>> \in A \/ t \in f.log.sent \cap sent[u]
      BY <3>1, <1>A, <1>f DEF RecordsTogether
    <3> QED
      BY <3>2, <3>3, <3>4, <2>a
  <2>6. ASSUME NEW f \in lateFlush, LateFlushAppend(f) PROVE Onward'
    <3>1. AppendAndAck(f.task, f) /\ f.task \in Tasks
      BY <2>6, <1>a DEF LateFlushAppend
    <3>2. \A t \in f.log.acked : <<f.task, t>> \in A
      BY <3>1, <1>k, <1>A, TrustedFacts DEF AcksRight
    <3>3. f.log.rec \ Free2 = {}
      BY <2>6, <1>f DEF LateFlushAppend
    <3> QED
      BY <3>1, <3>2, <3>3, <2>a
  <2>7. ASSUME NEW d \in drained, readTaskOutput(d) PROVE Onward'
    BY <2>7, <2>s, <1>R, DrainFacts
  <2> QED
    BY <1>1, <2>1, <2>2, <2>3, <2>4, <2>5, <2>6, <2>7 DEF TupleFlow
<1>n. ASSUME LeaderStep, NodesUnchanged, D \subseteq D2 PROVE Onward'
  <2>1. UNCHANGED <<wal, unlogged, running, merging, source, sent>>
    BY <1>n DEF LeaderStep, NodesUnchanged, eomVars, logVars
  <2> QED
    BY <2>1, <1>n, <1>h, <1>R
<1>b. ASSUME NEW u \in Tasks, NEW S, LeaderStep, Starts(u, S), D \subseteq D2 PROVE Onward'
  <2>1. UNCHANGED <<wal, unlogged, merging, source>>
    BY <1>b DEF LeaderStep, Starts, logVars
  <2>2. running \subseteq running' /\ sent'[Leader] = sent[Leader] /\ \A w \in Tasks : sent[w] \subseteq sent'[w]
    BY <1>b, <1>a, <1>s DEF Starts, InitializeTask
  <2> QED
    BY <2>1, <2>2, <1>b, <1>h, <1>R
<1>j. ASSUME NEW n, NEW S, LeaderStep, Updates(n, S), D \subseteq D2 PROVE Onward'
  <2>1. UNCHANGED <<wal, unlogged, running, merging, source, sent>>
    BY <1>j DEF LeaderStep, Updates, eomVars, logVars
  <2> QED
    BY <2>1, <1>j, <1>h, <1>R
\* The survivor v takes over what x has in its WAL.
<1>m. ASSUME NEW x \in Tasks, NEW v \in running, LeaderStep, Merges(x, v), D \ {x} \subseteq D2 PROVE Onward'
  <2>1. /\ UNCHANGED <<wal, unlogged, running, source>> /\ Stage[x] = Stage[v] /\ v \in Tasks
        /\ merging' = merging \cup {[old |-> x, keep |-> v, log |-> wal[x]]}
        /\ sent' = [sent EXCEPT ![v] = (@ \ wal[x].acked) \cup wal[x].sent]
    BY <1>m, <1>a DEF LeaderStep, Merges, MergeWalForTask, MergeMaps
  <2>2. /\ sent'[v] = (sent[v] \ wal[x].acked) \cup wal[x].sent /\ sent'[Leader] = sent[Leader]
        /\ \A w \in Tasks \ {v} : sent'[w] = sent[w]
    BY <2>1, <1>a, <1>s
  <2>3. \A t \in wal[x].sent : t \in Tuples => <<v, t>> \in Sec2
    <3>1. PICK m : m = [old |-> x, keep |-> v, log |-> wal[x]]
      OBVIOUS
    <3>2. m \in merging' /\ m.keep = v /\ m.log = wal[x]
      BY <2>1, <3>1
    <3> QED
      BY <3>2, <2>1, <2>2, <1>g
  <2>4. \A t \in wal[x].acked : t \in Tuples => <<v, t>> \in A
    <3>1. \A t \in wal[x].acked : <<x, t>> \in A
      BY <1>k, <1>A, TrustedFacts DEF AcksRight
    <3> QED
      BY <3>1, <2>1, <1>A, SettledFacts
  <2>5. \A w \in Tasks : \A t \in Tuples : <<w, t>> \in Sec =>
          <<w, t>> \in Sec2 \/ (w = x /\ t \in wal[x].sent) \/ (w = v /\ t \in wal[x].acked)
    BY <2>1, <2>2, <1>m, <1>e, <1>g
  <2>6. \A w \in Tasks : \A t \in Tuples \ Free2 : <<w, t>> \in Sec =>
          \/ \E y \in Tasks : Stage[y] >= Stage[w] /\ <<y, t>> \in Sec2
          \/ Stage[w] = Stage[v] /\ <<w, t>> \in A
    <3> SUFFICES ASSUME NEW w \in Tasks, NEW t \in Tuples \ Free2, <<w, t>> \in Sec
                 PROVE  \/ \E y \in Tasks : Stage[y] >= Stage[w] /\ <<y, t>> \in Sec2
                        \/ Stage[w] = Stage[v] /\ <<w, t>> \in A
      OBVIOUS
    <3>1. CASE <<w, t>> \in Sec2
      BY <3>1, <1>s
    <3>2. CASE w = x /\ t \in wal[x].sent
      BY <3>2, <2>1, <2>3, <1>s
    <3>3. CASE w = v /\ t \in wal[x].acked
      BY <3>3, <2>4
    <3> QED
      BY <2>5, <3>1, <3>2, <3>3
  <2>7. Src2 = Src /\ Stage[v] \in Nat \ {0}
    BY <2>1, <2>2, <1>s, <1>R
  <2> QED
    BY <2>1, <2>6, <2>7, <1>w
<1>2. ASSUME NEW u \in Tasks, scaleUpStage(u) \/ Restart(u) PROVE Onward'
  <2>1. LeaderStep /\ NodesUnchanged /\ late' = late /\ (op' = op \/ op.pc = "idle")
    BY <1>2 DEF scaleUpStage, Restart, NoOp
  <2>2. D \subseteq D2
    BY <2>1, <1>D DEF MergeComing
  <2> QED
    BY <2>1, <2>2, <1>n
<1>3. ASSUME NEW x \in Tasks, NEW v \in Tasks, scaleDownStage(x, v) PROVE Onward'
  <2>1. LeaderStep /\ NodesUnchanged /\ late' = late /\ op.pc = "idle"
    BY <1>3 DEF scaleDownStage, NoOp
  <2>2. D \subseteq D2
    BY <2>1, <1>D DEF MergeComing
  <2> QED
    BY <2>1, <2>2, <1>n
<1>4. ASSUME AddTask PROVE Onward'
  <2>1. LeaderStep /\ Starts(op.task, topo) /\ late' = late /\ op.pc = "add" /\ op.task \in Tasks
    BY <1>4, <1>a DEF AddTask, OpStep, Starts, InitializeTask, OpKnown
  <2>2. D \subseteq D2
    BY <2>1, <1>D DEF MergeComing
  <2> QED
    BY <2>1, <2>2, <1>b
<1>5. ASSUME KillTask PROVE Onward'
  <2>1. PICK u \in Tasks : u = op.task
    BY <1>5, <1>a DEF KillTask, OpStep, OpKnown
  <2>2. /\ op.pc = "kill" /\ u \in running /\ op'.pc = "merge" /\ op'.task = u
        /\ UNCHANGED <<late, wal, merging, unlogged, source>>
    BY <1>5, <1>c, <1>a, <2>1 DEF KillTask, OpStep, OpType, LeaderStep
  <2>3. running' = running \ {u} /\ sent' = [sent EXCEPT ![u] = {}]
    BY <1>5, <2>1, <2>2 DEF KillTask, KillTaskProcess
  <2>4. D \subseteq D2 /\ u \in D2
    BY <2>1, <2>2, <1>D DEF MergeComing
  <2>5. sent'[Leader] = sent[Leader] /\ \A w \in Tasks \ {u} : sent'[w] = sent[w]
    BY <2>3, <1>a, <1>s
  <2>6. downs >= 1
    BY <2>2 DEF SurvivorRuns
  <2>7. downs = 1 => merging = {} /\ unlogged = {}
    BY <2>2 DEF SurvivorRuns
  <2>8. UNCHANGED <<downs, timeouts>>
    BY <1>5 DEF KillTask, OpStep
  <2>9. downs > 1 => merging = {} /\ unlogged \subseteq Free2
    <3>1. downs > 1 => merging = {}
      BY <2>2, <2>8, <1>c DEF SurvivorRuns
    <3>2. downs > 1 => unlogged \subseteq Free2
      BY <1>F, <1>f DEF ExemptTuples
    <3> QED
      BY <3>1, <3>2
  <2>10. \A w \in Tasks : \A t \in Tuples \ Free2 : <<w, t>> \in Sec => <<w, t>> \in Sec2
    <3>1. merging = {} /\ unlogged \subseteq Free2
      BY <2>6, <2>7, <2>9, <1>a
    <3>2. ASSUME NEW t \in Tuples \ Free2, <<u, t>> \in Sec PROVE <<u, t>> \in Sec2
      <4>1. t \in wal[u].sent
        BY <3>1, <3>2, <1>e
      <4> QED
        BY <4>1, <2>2, <2>4, <1>g
    <3>3. ASSUME NEW w \in Tasks \ {u}, NEW t \in Tuples \ Free2, <<w, t>> \in Sec PROVE <<w, t>> \in Sec2
      BY <3>3, <2>2, <2>3, <2>4, <2>5, <1>e, <1>g
    <3> QED
      BY <3>2, <3>3
  <2>11. Src2 = Src
    BY <2>2, <2>5, <1>R
  <2>12. \A w \in Tasks : \A t \in Tuples \ Free2 : <<w, t>> \in Sec =>
           \/ \E y \in Tasks : Stage[y] >= Stage[w] /\ <<y, t>> \in Sec2
           \/ Stage[w] = 1 /\ <<w, t>> \in A
    BY <2>10, <1>s
  <2> QED
    BY <2>2, <2>11, <2>12, <1>w
<1>6. ASSUME MergeWal PROVE Onward'
  <2>1. PICK x \in Tasks, v \in Tasks : x = op.task /\ v = op.keep
    BY <1>6, <1>a DEF MergeWal, OpStep, OpKnown
  <2>2. LeaderStep /\ Merges(x, v) /\ op.pc = "merge" /\ UNCHANGED late
    BY <1>6, <1>k, <2>1 DEF MergeWal, OpStep, Merges, MergeWalForTask, MergeMaps, StagesKept
  <2>3. v \in running
    BY <2>1, <2>2 DEF SurvivorRuns
  <2>4. D \ {x} \subseteq D2
    BY <2>1, <2>2, <1>D DEF MergeComing
  <2> QED
    BY <2>2, <2>3, <2>4, <1>m
<1>7. ASSUME NEW m \in merging, MergeWalAppend(m) PROVE Onward'
  <2>1. PICK u \in Tasks : u = m.keep
    BY <1>a
  <2>2. /\ merging' = merging \ {m} /\ UNCHANGED <<late, running, source, sent>>
        /\ op' = op \/ op.pc = "append"
    BY <1>7 DEF MergeWalAppend, eomVars
  <2>3. D \subseteq D2
    BY <2>2, <1>D DEF MergeComing
  <2>4. \/ wal' = wal /\ unlogged' = unlogged \cup m.log.sent
        \/ wal' = [wal EXCEPT ![u] = LogAppend(@, m.log)] /\ unlogged' = unlogged
    BY <1>7, <2>1 DEF MergeWalAppend
  <2>5. /\ wal'[u].sent \cup unlogged' = wal[u].sent \cup unlogged \cup m.log.sent
          \/ wal'[u].sent \cup unlogged' = (wal[u].sent \ m.log.acked) \cup unlogged \cup m.log.sent
        /\ wal[u].sent \ m.log.acked \subseteq wal'[u].sent
        /\ wal'[u].rec \subseteq wal[u].rec \cup m.log.rec
        /\ \A w \in Tasks \ {u} : wal'[w] = wal[w]
    BY <2>4, <1>a DEF LogAppend
  <2>6. unlogged \subseteq unlogged'
    BY <2>4
  <2>7. \A w \in Tasks : \A t \in Tuples : <<w, t>> \in Sec =>
          <<w, t>> \in Sec2 \/ (w = u /\ t \in m.log.acked)
    <3>1. ASSUME NEW w \in Tasks, NEW t \in Tuples, w = u => t \notin m.log.acked
          PROVE  t \in wal[w].sent => t \in wal'[w].sent
      BY <3>1, <2>5
    <3>2. ASSUME NEW w \in Tasks, NEW t \in Tuples, NEW l \in merging, l.keep = w, t \in l.log.sent
          PROVE  t \in wal'[w].sent \cup unlogged' \/ \E n \in merging' : n.keep = w /\ t \in n.log.sent
      BY <3>2, <2>1, <2>2, <2>5
    <3> QED
      BY <3>1, <3>2, <2>2, <2>3, <2>6, <1>e, <1>g
  <2>8. \A t \in m.log.acked : <<u, t>> \in A
    BY <1>k, <1>A, <2>1, TrustedFacts DEF AcksRight
  <2>9. m.old \in Tasks /\ Stage[m.old] = Stage[u] /\ m.log.rec \subseteq wal[m.old].rec
    BY <1>a, <1>k, <2>1 DEF StagesKept, RecordsTogether
  <2>10. \A w \in Tasks : \A t \in Tuples \ Free2 : <<w, t>> \in Sec =>
          \/ \E x \in Tasks : Stage[x] >= Stage[w] /\ <<x, t>> \in Sec2
          \/ Stage[w] = Stage[u] /\ \E x \in Tasks : Stage[x] = Stage[u] + 1 /\ <<x, t>> \in Pas
    BY <2>7, <2>8, <1>t, <1>s
  <2>11. \A v \in Tasks : \A t \in Tuples \ Free2 : <<v, t>> \in Pas2 =>
           \E w \in Tasks : Stage[w] >= Stage[v] /\ (<<w, t>> \in Sec2 \/ <<w, t>> \in Pas)
    <3>1. ASSUME NEW v \in Tasks, NEW t \in Tuples, <<v, t>> \in Pas2
          PROVE  <<v, t>> \in Pas \/ (v = u /\ <<m.old, t>> \in Pas)
      BY <3>1, <2>5, <2>9, <1>p
    <3> QED
      BY <3>1, <2>9, <1>s
  <2>12. Src2 = Src
    BY <2>2, <1>R
  <2> QED
    BY <2>10, <2>11, <2>12, <1>s, <1>r DEF Moves
<1>8. ASSUME NEW n, UpdateNode(n) PROVE Onward'
  <2>1. LeaderStep /\ Updates(n, topo) /\ late' = late /\ op.pc = "update"
    BY <1>8 DEF UpdateNode, OpStep, Updates, UpdateTopology
  <2>2. D \subseteq D2
    BY <2>1, <1>D DEF MergeComing
  <2> QED
    BY <2>1, <2>2, <1>j
<1>9. ASSUME (\E n \in NodeNames : UpdateTimesOut(n)) \/ MergeTimesOut \/ RestartTimesOut PROVE Onward'
  <2>1. LeaderStep /\ NodesUnchanged /\ late \subseteq late'
    BY <1>9 DEF UpdateTimesOut, MergeTimesOut, RestartTimesOut, TimesOut
  <2>2. CASE op' = op \/ op.pc \in {"update", "append"}
    <3>1. D \subseteq D2
      BY <2>1, <2>2, <1>D DEF MergeComing
    <3> QED
      BY <2>1, <3>1, <1>n
  <2>3. CASE MergeTimesOut /\ op.pc = "merge"
    <3>1. PICK r : r = Request("merge", op.task, op.keep)
      OBVIOUS
    <3>2. r.what = "merge" /\ r.task = op.task /\ r \in late'
      BY <2>3, <3>1 DEF MergeTimesOut, TimesOut, Request
    <3>3. D \subseteq D2
      BY <2>1, <2>3, <3>2, <1>D DEF MergeComing
    <3> QED
      BY <2>1, <3>3, <1>n
  <2> QED
    BY <1>9, <2>2, <2>3 DEF UpdateTimesOut, MergeTimesOut, RestartTimesOut
<1>10. ~AddOrKillTimesOut /\ ~\E u \in Tasks : handleKillTask(u)
  <2>1. \A u \in Tasks : ~handleKillTask(u)
    BY <1>a, <1>c DEF handleKillTask
  <2> QED
    BY <2>1, <1>c DEF AddOrKillTimesOut
<1>11. ASSUME NEW r \in late, LateRequest(r) PROVE Onward'
  <2>1. LeaderStep /\ late' = late \ {r} /\ op' = op /\ r.what # "kill" /\ RequestKnown(r)
    BY <1>11, <1>a DEF LateRequest, SurvivorRuns
  <2>2. ASSUME r.what # "merge" PROVE D \subseteq D2
    BY <2>1, <2>2, <1>D DEF MergeComing
  <2>3. CASE r.what = "add" /\ Starts(r.task, r.topo)
    BY <2>1, <2>2, <2>3, <1>b DEF RequestKnown
  <2>4. CASE r.what = "merge" /\ MergeWalForTask(r.task, r.keep)
    <3>1. r.keep \in running
      BY <2>4 DEF SurvivorRuns
    <3>2. Merges(r.task, r.keep) /\ r.task \in Tasks
      BY <2>1, <2>4, <1>k DEF RequestKnown, Merges, StagesKept
    <3>3. D \ {r.task} \subseteq D2
      BY <2>1, <2>4, <1>D DEF MergeComing
    <3> QED
      BY <2>1, <3>1, <3>2, <3>3, <1>m
  <2>5. CASE r.what = "update" /\ Updates(r.keep, r.topo)
    BY <2>1, <2>2, <2>5, <1>j
  <2> QED
    BY <1>11, <2>1, <2>3, <2>4, <2>5 DEF LateRequest, Starts, Updates
<1>12. ASSUME NEW r \in monitor, RestartAdds(r) PROVE Onward'
  <2>1. LeaderStep /\ Starts(r.task, r.topo) /\ UNCHANGED <<op, late>> /\ r.task \in Tasks
    BY <1>12 DEF RestartAdds, Starts, AllOK, OpOK, RequestKnown
  <2> QED
    BY <2>1, <1>d, <1>b
<1>13. ASSUME (\E n \in NodeNames : ReportMetrics(n)) \/ startTaskHealthMonitor PROVE Onward'
  <2>1. LeaderStep /\ NodesUnchanged /\ UNCHANGED <<op, late>>
    BY <1>13 DEF ReportMetrics, startTaskHealthMonitor
  <2> QED
    BY <2>1, <1>d, <1>n
<1>14. CASE UNCHANGED vars
  <2>1. UNCHANGED <<op, late, wal, unlogged, running, merging, source, sent>>
    BY <1>14 DEF vars
  <2> QED
    BY <2>1, <1>d, <1>h, <1>R
<1> QED
  BY <1>1, <1>2, <1>3, <1>4, <1>5, <1>6, <1>7, <1>8, <1>9, <1>10, <1>11, <1>12, <1>13, <1>14 DEF Next, Scaling, Health

LEMMA KeptInit == Init => KeptInv
<1> SUFFICES ASSUME Init PROVE KeptInv
  OBVIOUS
<1>1. Initial \in SUBSET Tasks /\ Leader \notin Tasks
  BY ScenarioFacts, TaskFacts DEF Init, Initial
<1>2. LeaderAcks
  <2>1. \A u \in Tasks : Leader \in ins[u] => Stage[u] = 1
    BY <1>1, LeaderInputs DEF Init
  <2> QED
    BY <2>1 DEF Init, LeaderAcks
<1>3. RecordsTogether
  BY DEF Init, RecordsTogether, LogEmpty, NoFlush
<1>4. SurvivorRuns
  BY DEF Init, SurvivorRuns, NoOp
<1>5. Onward
  <2>1. source = Tuples /\ Passed = {}
    BY DEF Init, Passed, LogEmpty
  <2> QED
    BY <2>1 DEF Onward, Ahead
<1> QED
  BY <1>2, <1>3, <1>4, <1>5 DEF KeptInv

LEMMA KeptNext ==
  ASSUME StagesApart, AllOK, LogInv, KeptInv, [Next]_vars
  PROVE  KeptInv'
<1>1. LeaderAcks' /\ RecordsTogether'
  BY LeaderAcksNext, RecordsNext DEF KeptInv
<1>2. ASSUME Calm' PROVE SurvivorRuns' /\ Onward'
  <2>1. SurvivorRuns /\ Onward
    BY <1>2, NeverBack DEF KeptInv
  <2> QED
    BY <1>2, <2>1, SurvivorNext, OnwardNext DEF KeptInv
<1> QED
  BY <1>1, <1>2 DEF KeptInv

\* A scale-down loses no tuple: until a tuple is in the output, its source or some task sends it
\* again, or the WAL of a removed task is still going to be merged into a survivor that does.
\* This holds for any number of scale-ups and scale-downs, retries, reroutings, lost calls,
\* restarts and late flushes, and for a first merge that is executed late, for tuples that were
\* not acknowledged before they were durable, as long as no task is killed by a command and no
\* scale operation gives up, and if no node runs two of the stages that forward tuples.
THEOREM NoTupleLost == ASSUME StagesApart PROVE Spec => []InFlightKept
<1>1. AllOK /\ LogInv /\ KeptInv /\ [Next]_vars => KeptInv'
  BY KeptNext
<1>2. KeptInv => InFlightKept
  <2> SUFFICES ASSUME KeptInv, Calm, NEW t \in Tuples
               PROVE  t \in excused \/ (downs > 1 /\ t \in unlogged) \/ Held(t)
    BY DEF InFlightKept, Calm
  <2>1. CASE t \in ExemptTuples
    BY <2>1 DEF ExemptTuples
  <2>2. CASE t \in Written \cup source \cup sent[Leader]
    BY <2>2 DEF Held, Written
  <2>3. CASE \E u \in Tasks : <<u, t>> \in Secured
    BY <2>3 DEF Held, Secured
  <2>4. Onward
    BY DEF KeptInv
  <2> QED
    BY <2>1, <2>2, <2>3, <2>4 DEF Onward, Ahead
<1> QED
  BY <1>1, <1>2, KeptInit, LogInvariant, PTL DEF Spec

----------------------------------------------------------------------------
(* A scale-down repeats no tuple in the output.                             *)

\* The hash always picks one of the tasks.
LEMMA SelectPicks ==
  ASSUME NEW S \in SUBSET Tasks, S # {}, NEW t \in Tuples
  PROVE  Select(S, t) \in S
<1> DEFINE T == 0..(Cardinality(S) - 1)
           g == [u \in S |-> Cardinality({v \in S : Rank[v] < Rank[u]})]
<1>1. /\ IsFiniteSet(S) /\ Cardinality(S) \in Nat \ {0}
      /\ \A u \in S : Rank[u] \in Nat
  BY TasksAssumption, FS_Subset, FS_EmptySet, FS_CardinalityType
<1>2. ASSUME NEW u \in S, NEW B, B = {v \in S : Rank[v] < Rank[u]}
      PROVE  /\ IsFiniteSet(B) /\ B \cup {u} \subseteq S /\ g[u] = Cardinality(B)
             /\ Cardinality(B) \in Nat /\ Cardinality(B \cup {u}) = Cardinality(B) + 1
  <2>1. B \subseteq S /\ u \notin B /\ g[u] = Cardinality(B)
    BY <1>1, <1>2
  <2>2. IsFiniteSet(B)
    BY <1>1, <2>1, FS_Subset
  <2> QED
    BY <2>1, <2>2, FS_AddElement, FS_CardinalityType
<1>3. ASSUME NEW u \in S PROVE g[u] \in T
  <2>1. PICK B : B = {v \in S : Rank[v] < Rank[u]}
    OBVIOUS
  <2>2. Cardinality(B \cup {u}) <= Cardinality(S)
    BY <1>1, <1>2, <2>1, FS_Subset
  <2>3. g[u] \in Nat /\ Cardinality(B \cup {u}) = g[u] + 1
    BY <1>2, <2>1
  <2> HIDE DEF g
  <2> QED
    BY <1>1, <2>2, <2>3
<1>4. ASSUME NEW u \in S, NEW w \in S, Rank[u] < Rank[w] PROVE g[u] < g[w]
  <2>1. PICK B : B = {v \in S : Rank[v] < Rank[u]}
    OBVIOUS
  <2>2. PICK C : C = {v \in S : Rank[v] < Rank[w]}
    OBVIOUS
  <2>3. B \cup {u} \subseteq C
    BY <1>1, <1>4, <2>1, <2>2
  <2>4. /\ IsFiniteSet(C) /\ g[w] = Cardinality(C) /\ g[w] \in Nat /\ g[u] \in Nat
        /\ Cardinality(B \cup {u}) = g[u] + 1
    BY <1>2, <2>1, <2>2
  <2>5. Cardinality(B \cup {u}) <= Cardinality(C)
    BY <2>3, <2>4, FS_Subset
  <2> HIDE DEF g
  <2> QED
    BY <2>4, <2>5
<1>5. ASSUME NEW u \in S, NEW w \in S, g[u] = g[w] PROVE u = w
  <2>1. g[u] \in Nat /\ g[w] \in Nat
    BY <1>2
  <2> HIDE DEF g
  <2>2. ~(Rank[u] < Rank[w]) /\ ~(Rank[w] < Rank[u])
    BY <1>4, <1>5, <2>1
  <2> QED
    BY <1>1, <2>2, TasksAssumption
<1>6. g \in Injection(S, T)
  <2>1. g \in [S -> T]
    BY <1>3
  <2> HIDE DEF g
  <2> QED
    BY <1>5, <2>1, Fun_IsInj
<1>7. IsFiniteSet(T) /\ Cardinality(T) = Cardinality(S)
  BY <1>1, FS_Interval
<1>8. g \in Surjection(S, T)
  <2> HIDE DEF g, T
  <2> QED
    BY <1>6, <1>7, FS_Injection
<1>9. KeyHash[t] % Cardinality(S) \in T
  BY <1>1, TasksAssumption
<1>10. PICK u \in S : g[u] = KeyHash[t] % Cardinality(S)
  BY <1>8, <1>9 DEF Surjection
<1>11. \E w \in S : Cardinality({v \in S : Rank[v] < Rank[w]}) = KeyHash[t] % Cardinality(S)
  BY <1>10
<1> QED
  BY Zenon, <1>11 DEF Select

LEMMA NotThree ==
  ASSUME NEW S, IsFiniteSet(S), Cardinality(S) <= 2, NEW a \in S, NEW b \in S, NEW c \in S
  PROVE  a = b \/ b = c \/ a = c
<1> SUFFICES ASSUME a # b, b # c, a # c PROVE FALSE
  OBVIOUS
<1>1. IsFiniteSet({a}) /\ Cardinality({a}) = 1
  BY FS_Singleton
<1>2. IsFiniteSet({a} \cup {b}) /\ Cardinality({a} \cup {b}) = 1 + 1
  <2>1. b \notin {a}
    OBVIOUS
  <2> QED
    BY <1>1, <2>1, FS_AddElement
<1>3. Cardinality(({a} \cup {b}) \cup {c}) = (1 + 1) + 1
  <2>1. c \notin {a} \cup {b}
    OBVIOUS
  <2> QED
    BY <1>2, <2>1, FS_AddElement
<1>4. ({a} \cup {b}) \cup {c} \subseteq S /\ Cardinality(S) \in Nat
  BY FS_CardinalityType
<1>5. (1 + 1) + 1 <= Cardinality(S)
  BY <1>3, <1>4, FS_Subset
<1> QED
  BY <1>4, <1>5

\* S is the last stage of the job as submitted.
FinalTasks == OfStage(Tasks, NStages)
Original(S) == S = OfStage(Initial, NStages)

\* The case that OutputOnce is about.
OnceCase(S) ==
  /\ NStages \in scenario.stages => scenario.ups = 0 /\ Cardinality(S) <= 2
  /\ kills = 0 /\ timeouts = 0

\* The last stage runs as it was submitted; one of its tasks has been stopped and not been merged yet.
Whole(S)    == S \subseteq running
LastMerge(o) == o.pc = "merge" /\ Stage[o.task] = NStages
Handover(S)  == ~Whole(S) /\ LastMerge(op)

\* An operation is on a task of a stage that is scaled, and what that does to the last stage.
Plan(S) ==
  /\ op.pc \in {"add", "kill", "merge", "append"} => Stage[op.task] \in scenario.stages
  /\ op.pc \in {"kill", "merge", "append"} => op.task \notin topo /\ op.keep \in topo
  /\ NStages \notin scenario.stages => OfStage(topo, NStages) = S
  /\ NStages \in scenario.stages => op.pc # "add" /\ OfStage(topo, NStages) \subseteq S
  /\ op.pc \in {"kill", "merge", "append"} /\ Stage[op.task] = NStages => op.task \in S

\* Nobody routes to the last stage by a newer topology before the merge is done.
Routes(S) ==
  /\ \A u \in Tasks : outs[u] \subseteq OfStage(Tasks, Stage[u] + 1)
  /\ \A d \in drained : d.targets \subseteq OfStage(Tasks, Stage[d.task] + 1)
  /\ Whole(S) \/ Handover(S) => \A u \in running : Stage[u] + 1 = NStages => outs[u] = S
  /\ Whole(S) \/ Handover(S) => \A d \in drained : Stage[d.task] + 1 = NStages => d.targets = S

\* What a task has recorded, durably or not.
Records(u) == wal[u].rec \cup flushing[u].log.rec \cup buffer[u].rec

\* Until the merge is done, a task of the last stage has only what the hash gives it.
ByHash(S) ==
  /\ \A u \in FinalTasks : \A t \in received[u] \cup Records(u) : Select(S, t) = u
  /\ \A f \in lateFlush : f.task \in FinalTasks => \A t \in f.log.rec : Select(S, t) = f.task

\* A tuple in the output is known to a task of the last stage, or to the WAL that is going to be merged;
\* so a tuple in a pipe is not in the output yet.
Once(S) ==
  /\ \A u \in FinalTasks : pipe[u] \subseteq received[u]
  /\ \A t \in Tuples \ excused : output[t] <= 1
  /\ \A t \in Tuples \ excused : \A u \in FinalTasks : t \in pipe[u] => output[t] = 0
  /\ \A t \in Written \ excused :
       \/ \E u \in FinalTasks \cap running : t \in received[u]
       \/ Handover(S) /\ t \in wal[op.task].rec
  /\ Whole(S) \/ Handover(S) => ByHash(S)
  /\ Whole(S) => \A u \in FinalTasks : received[u] \ pipe[u] \subseteq Records(u)

\* No operation is in the middle of removing a task of the last stage, or one task of it is left.
LastStage(S) ==
  /\ \A u \in running : Stage[u] = NStages => u \in S
  /\ ~Whole(S) => /\ NStages \in scenario.stages
                  /\ \A u, w \in FinalTasks \cap running : u = w
  /\ op.pc = "kill" /\ Stage[op.task] = NStages => Whole(S)
  /\ op.pc = "add" => Whole(S) /\ Stage[op.task] # NStages
  /\ op.pc \in {"merge", "append"} /\ Stage[op.task] = NStages =>
       ~Whole(S) /\ op.task \in FinalTasks \ running /\ op.keep \in FinalTasks \cap running
  /\ op.pc \in {"idle", "add", "update"} /\ Whole(S) => OfStage(topo, NStages) = S

LEMMA LastStageFacts ==
  ASSUME AllOK, AgreeWhileQuiet, StagesKept, NEW S, Original(S), OnceCase(S), Plan(S)
  PROVE  LastStage(S) /\ S \in SUBSET FinalTasks
<1>a. /\ scenario \in Scenarios /\ topo \subseteq Tasks /\ running \subseteq Tasks
      /\ op \in OpType /\ OpKnown /\ running \subseteq used
  BY DEF AllOK, LeaderOK, OpOK, NodesOK
<1>p. /\ op.pc \in {"add", "kill", "merge", "append"} => Stage[op.task] \in scenario.stages
      /\ op.pc \in {"kill", "merge", "append"} => op.task \notin topo /\ op.keep \in topo
      /\ NStages \notin scenario.stages => OfStage(topo, NStages) = S
      /\ NStages \in scenario.stages => op.pc # "add" /\ OfStage(topo, NStages) \subseteq S
      /\ op.pc \in {"kill", "merge", "append"} /\ Stage[op.task] = NStages => op.task \in S
  BY DEF Plan
<1>q. /\ op.pc = "add" => op.task \in topo \ used /\ running = topo \ {op.task}
      /\ op.pc = "kill" => op.task \notin topo /\ running = topo \cup {op.task}
      /\ op.pc \notin {"add", "kill"} => running = topo
  BY DEF AgreeWhileQuiet
<1>k. op.pc \in {"kill", "merge", "append"} => Stage[op.task] = Stage[op.keep]
  BY DEF StagesKept
<1>s. S \in SUBSET FinalTasks /\ IsFiniteSet(S) /\ \A u \in S : u \in Tasks /\ Stage[u] = NStages
  <2>1. Initial \in SUBSET Tasks
    BY <1>a, ScenarioFacts DEF Initial
  <2>2. S \in SUBSET FinalTasks /\ S \subseteq Tasks /\ \A u \in S : Stage[u] = NStages
    BY <2>1 DEF Original, OfStage, FinalTasks
  <2> QED
    BY <2>2, TasksAssumption, FS_Subset
<1>f. \A u : u \in FinalTasks <=> u \in Tasks /\ Stage[u] = NStages
  BY DEF FinalTasks, OfStage
<1>t. \A u : u \in OfStage(topo, NStages) <=> u \in topo /\ Stage[u] = NStages
  BY DEF OfStage
<1>1. ASSUME NEW u \in running, Stage[u] = NStages PROVE u \in S
  BY <1>1, <1>p, <1>q, <1>t
<1>2. ASSUME ~Whole(S) PROVE NStages \in scenario.stages
  <2> SUFFICES ASSUME NStages \notin scenario.stages PROVE FALSE
    OBVIOUS
  <2>1. \A u \in S : u \in topo /\ Stage[u] = NStages
    BY <1>p, <1>t
  <2>2. \A u \in S : u \in running
    BY <2>1, <1>p, <1>q
  <2> QED
    BY <2>2, <1>2 DEF Whole
<1>3. ASSUME ~Whole(S), NEW u \in FinalTasks \cap running, NEW w \in FinalTasks \cap running PROVE u = w
  <2>1. PICK z \in S : z \notin running
    BY <1>3 DEF Whole
  <2>2. u \in S /\ w \in S /\ u # z /\ w # z
    BY <2>1, <1>1, <1>f
  <2>3. Cardinality(S) <= 2
    BY <1>2, <1>3 DEF OnceCase
  <2> QED
    BY <2>1, <2>2, <2>3, <1>s, NotThree
<1>4. op.pc = "add" => NStages \notin scenario.stages /\ Stage[op.task] # NStages
  BY <1>p
<1>5. ASSUME op.pc = "kill", Stage[op.task] = NStages PROVE Whole(S)
  <2>1. op.task \in S /\ op.keep \in S /\ op.task # op.keep
    BY <1>5, <1>p, <1>k, <1>t
  <2>2. op.task \in running /\ op.keep \in running
    BY <1>5, <1>p, <1>q
  <2>3. Cardinality(S) <= 2
    BY <1>5, <1>p DEF OnceCase
  <2>4. \A z \in S : z = op.task \/ z = op.keep
    BY <2>1, <2>3, <1>s, NotThree
  <2> QED
    BY <2>2, <2>4 DEF Whole
<1>6. op.pc = "add" => Whole(S)
  BY <1>2, <1>4
<1>7. ASSUME op.pc \in {"merge", "append"}, Stage[op.task] = NStages
      PROVE  ~Whole(S) /\ op.task \in FinalTasks \ running /\ op.keep \in FinalTasks \cap running
  <2>1. op.task \in S /\ op.task \notin running /\ op.keep \in running
    BY <1>7, <1>p, <1>q
  <2>2. op.keep \in FinalTasks
    BY <1>7, <2>1, <1>a, <1>k, <1>f
  <2> QED
    BY <2>1, <2>2, <1>s DEF Whole
<1>9. ASSUME op.pc \in {"idle", "add", "update"}, Whole(S) PROVE OfStage(topo, NStages) = S
  <2>1. CASE NStages \notin scenario.stages
    BY <2>1, <1>p
  <2>2. CASE NStages \in scenario.stages
    <3>1. running = topo
      BY <1>9, <2>2, <1>p, <1>q
    <3>2. \A u \in S : u \in OfStage(topo, NStages)
      BY <1>9, <3>1, <1>s, <1>t DEF Whole
    <3> QED
      BY <2>2, <3>2, <1>p
  <2> QED
    BY <2>1, <2>2
<1> QED
  BY <1>1, <1>2, <1>3, <1>4, <1>5, <1>6, <1>7, <1>9, <1>s DEF LastStage

\* What may happen while no RPC times out and no task is killed by a command.
Reported == UNCHANGED <<topo, op, scenario, source, acks, output, losses, unlogged, timeouts, kills, aborted>> /\ NodesUnchanged
Undisturbed == kills = 0 /\ timeouts = 0

LEMMA UndisturbedSteps ==
  ASSUME AllOK, AgreeWhileQuiet, Undisturbed', [Next]_vars
  PROVE  \/ TupleFlow \/ Reported
         \/ \E u \in Tasks : scaleUpStage(u)
         \/ \E u, v \in Tasks : scaleDownStage(u, v)
         \/ AddTask \/ KillTask \/ MergeWal
         \/ \E m \in merging : MergeWalAppend(m)
         \/ \E n \in NodeNames : UpdateNode(n)
<1>a. timeouts \in Nat /\ kills \in Nat
  BY DEF AllOK, WireOK
<1>q. late = {} /\ restarting = {} /\ monitor = {}
  BY DEF AgreeWhileQuiet
<1>t. ~\E R : TimesOut(R)
  BY <1>a DEF TimesOut, Undisturbed
<1>1. ~AddOrKillTimesOut /\ ~MergeTimesOut /\ ~RestartTimesOut /\ \A n : ~UpdateTimesOut(n)
  BY <1>t DEF AddOrKillTimesOut, MergeTimesOut, RestartTimesOut, UpdateTimesOut
<1>2. \A u : ~handleKillTask(u)
  BY <1>a DEF handleKillTask, Undisturbed
<1>3. \A u : ~Restart(u)
  BY <1>q DEF Restart
<1>4. \A n : ReportMetrics(n) => Reported
  BY DEF ReportMetrics, Reported, LeaderStep
<1>5. startTaskHealthMonitor => Reported
  BY DEF startTaskHealthMonitor, Reported, LeaderStep
<1>6. UNCHANGED vars => Reported
  BY DEF vars, Reported, NodesUnchanged, eomVars, logVars
<1> QED
  BY <1>q, <1>1, <1>2, <1>3, <1>4, <1>5, <1>6 DEF Next, Scaling, Health

\* Then no operation gives up, and the invariants about the operations hold.
Steady == Undisturbed => ~aborted /\ SurvivorRuns

LEMMA SteadyFacts ==
  ASSUME AllOK, Agree, Steady, Undisturbed
  PROVE  AgreeWhileQuiet /\ SurvivorRuns /\ Calm /\ ~aborted
<1>1. ~aborted /\ SurvivorRuns /\ timeouts = 0 /\ kills = 0
  BY DEF Steady, Undisturbed
<1> QED
  BY <1>1 DEF Agree, Quiet, Calm

LEMMA UndisturbedBefore ==
  ASSUME AllOK, [Next]_vars, Undisturbed'
  PROVE  Undisturbed
<1>a. timeouts \in Nat /\ kills \in Nat
  BY DEF AllOK, WireOK
<1>1. timeouts <= timeouts'
  BY NeverBack
<1>2. timeouts = 0
  BY <1>a, <1>1 DEF Undisturbed
<1>3. kills' = kills \/ kills' = kills + 1
  <2>1. TupleFlow => TupleStep
    BY DEF TupleFlow, readFileAndEmitTuples, RetryFromSource, RetryFromTask, forwardTupleToDownstream,
           writeTupleToOutputFile, handleACKMessage, FlushSnapshot, FlushAppend, LateFlushAppend, AppendAndAck, readTaskOutput
  <2>2. TupleFlow => kills' = kills
    BY <2>1 DEF TupleStep
  <2>3. Scaling => kills' = kills
    BY DEF Scaling, scaleUpStage, scaleDownStage, AddTask, KillTask, MergeWal, MergeWalAppend, UpdateNode,
           UpdateTimesOut, AddOrKillTimesOut, MergeTimesOut, LateRequest, OpStep, TimesOut
  <2>4. Health => kills' = kills \/ kills' = kills + 1
    BY DEF Health, handleKillTask, Restart, ReportMetrics, startTaskHealthMonitor, RestartTimesOut, RestartAdds, TimesOut
  <2> QED
    BY <2>2, <2>3, <2>4 DEF Next, vars
<1> QED
  BY <1>a, <1>2, <1>3 DEF Undisturbed

LEMMA SteadyNext == AllOK /\ Agree /\ Steady /\ [Next]_vars => Steady'
<1> SUFFICES ASSUME AllOK, Agree, Steady, [Next]_vars, Undisturbed' PROVE ~aborted' /\ SurvivorRuns'
  BY DEF Steady
<1>1. AgreeWhileQuiet /\ SurvivorRuns /\ Calm /\ ~aborted
  BY UndisturbedBefore, SteadyFacts
<1>2. ~aborted'
  <2>1. CASE TupleFlow
    <3>1. TupleStep
      BY <2>1 DEF TupleFlow, readFileAndEmitTuples, RetryFromSource, RetryFromTask, forwardTupleToDownstream,
             writeTupleToOutputFile, handleACKMessage, FlushSnapshot, FlushAppend, LateFlushAppend, AppendAndAck, readTaskOutput
    <3> QED
      BY <1>1, <3>1 DEF TupleStep
  <2>2. CASE AddTask
    <3>1. op.task \notin running
      BY <1>1, <2>2 DEF AddTask, OpStep, AgreeWhileQuiet
    <3> QED
      BY <1>1, <2>2, <3>1 DEF AddTask
  <2>3. CASE KillTask
    <3>1. op.task \in running
      BY <1>1, <2>3 DEF KillTask, OpStep, AgreeWhileQuiet
    <3> QED
      BY <1>1, <2>3, <3>1 DEF KillTask
  <2>4. CASE Reported \/ (\E u \in Tasks : scaleUpStage(u)) \/ \E u, v \in Tasks : scaleDownStage(u, v)
    BY <1>1, <2>4 DEF Reported, scaleUpStage, scaleDownStage
  <2>5. CASE MergeWal \/ (\E m \in merging : MergeWalAppend(m)) \/ \E n \in NodeNames : UpdateNode(n)
    BY <1>1, <2>5 DEF MergeWal, MergeWalAppend, UpdateNode
  <2> QED
    BY <1>1, <2>1, <2>2, <2>3, <2>4, <2>5, UndisturbedSteps
<1>3. Calm'
  BY <1>2 DEF Calm, Undisturbed
<1> QED
  BY <1>1, <1>2, <1>3, SurvivorNext

LEMMA FlowIsTuples == TupleFlow => TupleStep
BY DEF TupleFlow, readFileAndEmitTuples, RetryFromSource, RetryFromTask, forwardTupleToDownstream,
       writeTupleToOutputFile, handleACKMessage, FlushSnapshot, FlushAppend, LateFlushAppend, AppendAndAck, readTaskOutput

LEMMA ScenarioStays == [Next]_vars => scenario' = scenario
<1>1. TupleFlow => scenario' = scenario
  BY FlowIsTuples DEF TupleStep
<1>2. Scaling => scenario' = scenario
  BY DEF Scaling, scaleUpStage, scaleDownStage, AddTask, KillTask, MergeWal, MergeWalAppend, UpdateNode,
         UpdateTimesOut, AddOrKillTimesOut, MergeTimesOut, LateRequest, OpStep, TimesOut, LeaderStep
<1>3. Health => scenario' = scenario
  BY DEF Health, handleKillTask, Restart, ReportMetrics, startTaskHealthMonitor, RestartTimesOut, RestartAdds,
         TimesOut, LeaderStep
<1> QED
  BY <1>1, <1>2, <1>3 DEF Next, vars

LEMMA PlanNext ==
  ASSUME AllOK, AgreeWhileQuiet, NEW S, Original(S), OnceCase(S), Plan(S), Undisturbed', [Next]_vars
  PROVE  Plan(S)'
<1>a. /\ scenario \in Scenarios /\ topo \subseteq Tasks /\ op \in OpType /\ OpKnown /\ ups \in Nat
  BY DEF AllOK, LeaderOK, OpOK, WireOK
<1>p. /\ op.pc \in {"add", "kill", "merge", "append"} => Stage[op.task] \in scenario.stages
      /\ op.pc \in {"kill", "merge", "append"} => op.task \notin topo /\ op.keep \in topo
      /\ NStages \notin scenario.stages => OfStage(topo, NStages) = S
      /\ NStages \in scenario.stages => op.pc # "add" /\ OfStage(topo, NStages) \subseteq S
      /\ op.pc \in {"kill", "merge", "append"} /\ Stage[op.task] = NStages => op.task \in S
  BY DEF Plan
<1>s. scenario' = scenario
  BY ScenarioStays
<1>t. \A T : OfStage(T, NStages) = {u \in T : Stage[u] = NStages}
  BY DEF OfStage
\* An operation that is over, or goes on with the same task.
<1>z. ASSUME UNCHANGED topo, op'.pc \in {"idle", "update"} \/ op' = op \/
               (/\ op.pc \in {"kill", "merge", "append"} /\ op'.pc \in {"kill", "merge", "append"}
                /\ op'.task = op.task /\ op'.keep = op.keep)
      PROVE  Plan(S)'
  BY <1>z, <1>p, <1>s DEF Plan, OfStage
<1>1. CASE TupleFlow \/ Reported
  BY <1>1, <1>z, FlowKeeps DEF Reported
<1>2. ASSUME NEW u \in Tasks, scaleUpStage(u) PROVE Plan(S)'
  <2>1. /\ op'.pc = "add" /\ op'.task = u /\ topo' = topo \cup {u} /\ Stage[u] \in scenario.stages
        /\ ups < scenario.ups
    BY <1>2 DEF scaleUpStage, NoOp
  <2>2. NStages \notin scenario.stages
    BY <2>1, <1>a DEF OnceCase
  <2>3. OfStage(topo, NStages)' = OfStage(topo, NStages)
    BY <2>1, <2>2 DEF OfStage
  <2> QED
    BY <2>1, <2>2, <2>3, <1>p, <1>s DEF Plan
<1>3. ASSUME NEW x \in Tasks, NEW v \in Tasks, scaleDownStage(x, v) PROVE Plan(S)'
  <2>1. /\ op'.pc = "kill" /\ op'.task = x /\ op'.keep = v /\ topo' = topo \ {x}
        /\ x \in topo /\ v \in topo /\ x # v /\ Stage[x] \in scenario.stages
    BY <1>3 DEF scaleDownStage, NoOp, OfStage
  <2>2. CASE Stage[x] # NStages
    <3>1. OfStage(topo, NStages)' = OfStage(topo, NStages)
      BY <2>1, <2>2 DEF OfStage
    <3> QED
      BY <2>1, <2>2, <3>1, <1>p, <1>s DEF Plan
  <2>3. CASE Stage[x] = NStages
    <3>1. OfStage(topo, NStages)' \subseteq OfStage(topo, NStages) /\ x \in OfStage(topo, NStages)
      BY <2>1, <2>3 DEF OfStage
    <3> QED
      BY <2>1, <2>3, <3>1, <1>p, <1>s DEF Plan
  <2> QED
    BY <2>2, <2>3
<1>4. CASE AddTask
  BY <1>4, <1>z DEF AddTask, OpStep, NoOp, SendTopologyUpdate
<1>5. CASE KillTask
  BY <1>5, <1>z, <1>a DEF KillTask, OpStep, NoOp, OpType
<1>6. CASE MergeWal
  BY <1>6, <1>z, <1>a DEF MergeWal, OpStep, OpType
<1>7. CASE \E m \in merging : MergeWalAppend(m)
  BY <1>7, <1>z DEF MergeWalAppend, NoOp, SendTopologyUpdate
<1>8. ASSUME NEW n \in NodeNames, UpdateNode(n) PROVE Plan(S)'
  <2>1. topo' = topo /\ op'.pc \in {"idle", "update"}
    BY <1>8, OpTypes DEF UpdateNode, OpStep
  <2> QED
    BY <2>1, <1>z
<1> QED
  BY <1>1, <1>2, <1>3, <1>4, <1>5, <1>6, <1>7, <1>8, UndisturbedSteps

LEMMA FlowDrains == TupleFlow => drained' \subseteq drained
BY DEF TupleFlow, readFileAndEmitTuples, RetryFromSource, RetryFromTask, forwardTupleToDownstream,
       writeTupleToOutputFile, handleACKMessage, FlushSnapshot, FlushAppend, LateFlushAppend, AppendAndAck,
       readTaskOutput, logVars

LEMMA RoutesNext ==
  ASSUME AllOK, AgreeWhileQuiet, StagesKept, NEW S, Original(S), OnceCase(S), Plan(S), Routes(S), Undisturbed', [Next]_vars
  PROVE  Routes(S)'
<1>a. /\ topo \in SUBSET Tasks /\ running \subseteq Tasks /\ op \in OpType /\ OpKnown /\ outs \in [Tasks -> SUBSET Tasks]
  BY DEF AllOK, LeaderOK, OpOK, NodesOK
<1>r. /\ \A u \in Tasks : outs[u] \subseteq OfStage(Tasks, Stage[u] + 1)
      /\ \A d \in drained : d.targets \subseteq OfStage(Tasks, Stage[d.task] + 1)
      /\ Whole(S) \/ Handover(S) => \A u \in running : Stage[u] + 1 = NStages => outs[u] = S
      /\ Whole(S) \/ Handover(S) => \A d \in drained : Stage[d.task] + 1 = NStages => d.targets = S
  BY DEF Routes
<1>l. LastStage(S)
  BY LastStageFacts
<1>o. \A u \in Tasks : /\ OutputTargets(topo, u) \subseteq OfStage(Tasks, Stage[u] + 1)
                       /\ Stage[u] + 1 = NStages => OutputTargets(topo, u) = OfStage(topo, NStages)
  BY <1>a DEF OutputTargets, OfStage
<1>z. ASSUME UNCHANGED outs, drained' \subseteq drained, running' \subseteq running,
             Whole(S)' \/ Handover(S)' => Whole(S) \/ Handover(S)
      PROVE  Routes(S)'
  BY <1>z, <1>r DEF Routes
<1>1. CASE TupleFlow \/ Reported
  <2>1. UNCHANGED <<outs, running, op>> /\ drained' \subseteq drained
    BY <1>1, FlowKeeps, FlowIsTuples, FlowDrains DEF TupleStep, Reported, NodesUnchanged, logVars
  <2> QED
    BY <2>1, <1>z DEF Whole, Handover, LastMerge
<1>2. ASSUME NEW u \in Tasks, scaleUpStage(u) PROVE Routes(S)'
  <2>1. UNCHANGED <<outs, running, drained>> /\ op'.pc = "add"
    BY <1>2 DEF scaleUpStage, NodesUnchanged, logVars, NoOp
  <2> QED
    BY <2>1, <1>z DEF Whole, Handover, LastMerge
<1>3. ASSUME NEW x \in Tasks, NEW v \in Tasks, scaleDownStage(x, v) PROVE Routes(S)'
  <2>1. UNCHANGED <<outs, running, drained>> /\ op'.pc = "kill"
    BY <1>3 DEF scaleDownStage, NodesUnchanged, logVars, NoOp
  <2> QED
    BY <2>1, <1>z DEF Whole, Handover, LastMerge
<1>4. CASE AddTask
  <2>1. op.pc = "add" /\ op.task \in Tasks /\ op.task \notin running
    BY <1>4, <1>a DEF AddTask, OpStep, OpKnown, AgreeWhileQuiet, AllOK, NodesOK
  <2>2. running' = running \cup {op.task} /\ outs' = [outs EXCEPT ![op.task] = OutputTargets(topo, op.task)]
        /\ drained' = drained
    BY <1>4, <2>1 DEF AddTask, InitializeTask, logVars
  <2>3. Whole(S) /\ OfStage(topo, NStages) = S
    BY <2>1, <1>l DEF LastStage
  <2>4. \A u \in Tasks : outs'[u] = IF u = op.task THEN OutputTargets(topo, u) ELSE outs[u]
    BY <2>1, <2>2, <1>a
  <2>5. \A u \in Tasks : outs'[u] \subseteq OfStage(Tasks, Stage[u] + 1)
    BY <2>4, <1>o, <1>r
  <2>6. \A u \in running' : Stage[u] + 1 = NStages => outs'[u] = S
    BY <2>1, <2>2, <2>3, <2>4, <1>o, <1>r, <1>a
  <2> QED
    BY <2>2, <2>3, <2>5, <2>6, <1>r DEF Routes
<1>5. CASE KillTask
  <2>1. op.pc = "kill" /\ op.task \in running /\ op.task \in Tasks /\ Stage[op.task] \in 1..NStages
    BY <1>5, <1>a, TaskFacts DEF KillTask, OpStep, OpKnown, AgreeWhileQuiet
  <2>2. /\ UNCHANGED outs /\ running' \subseteq running /\ op' = [op EXCEPT !.pc = "merge"]
        /\ \A d \in drained' \ drained : d.task = op.task /\ d.targets = outs[op.task]
    BY <1>5, <2>1 DEF KillTask, OpStep, KillTaskProcess
  <2>3. op'.task = op.task
    BY <2>2, <1>a DEF OpType
  <2>4. Whole(S)' \/ Handover(S)' => Whole(S) \/ Handover(S)
    BY <2>1, <2>2, <2>3, <1>l DEF Whole, Handover, LastMerge, LastStage
  <2>5. \A d \in drained' : d.targets \subseteq OfStage(Tasks, Stage[d.task] + 1)
    BY <2>1, <2>2, <1>r
  <2>6. Whole(S) \/ Handover(S) => \A d \in drained' : Stage[d.task] + 1 = NStages => d.targets = S
    BY <2>1, <2>2, <1>r
  <2>7. Whole(S) \/ Handover(S) => \A u \in running' : Stage[u] + 1 = NStages => outs'[u] = S
    BY <2>2, <1>r
  <2> QED
    BY <2>2, <2>4, <2>5, <2>6, <2>7, <1>r DEF Routes
<1>6. CASE MergeWal
  <2>1. UNCHANGED <<outs, running, drained>> /\ op'.pc = "append"
    BY <1>6, <1>a DEF MergeWal, OpStep, MergeWalForTask, OpType
  <2> QED
    BY <2>1, <1>z DEF Whole, Handover, LastMerge
<1>7. ASSUME NEW m \in merging, MergeWalAppend(m) PROVE Routes(S)'
  <2>1. UNCHANGED <<outs, running, drained>> /\ (op' = op \/ op'.pc = "update")
    BY <1>7 DEF MergeWalAppend, SendTopologyUpdate, NoOp
  <2> QED
    BY <2>1, <1>z DEF Whole, Handover, LastMerge
<1>8. ASSUME NEW n \in NodeNames, UpdateNode(n) PROVE Routes(S)'
  <2>1. op.pc = "update" /\ op'.pc \in {"idle", "update"} /\ UNCHANGED <<running, drained>>
    BY <1>8, OpTypes DEF UpdateNode, OpStep, logVars
  <2>2. \A u \in Tasks : outs'[u] = OutputTargets(topo, u) \/ outs'[u] = outs[u]
    BY <1>8, <1>a DEF UpdateNode, UpdateTopology
  <2>3. \A u \in Tasks : outs'[u] \subseteq OfStage(Tasks, Stage[u] + 1)
    BY <2>2, <1>o, <1>r
  <2>4. Whole(S)' \/ Handover(S)' => Whole(S) /\ OfStage(topo, NStages) = S
    BY <2>1, <1>l DEF Whole, Handover, LastMerge, LastStage
  <2>5. Whole(S)' \/ Handover(S)' => \A u \in running' : Stage[u] + 1 = NStages => outs'[u] = S
    BY <2>1, <2>2, <2>4, <1>o, <1>r, <1>a
  <2> QED
    BY <2>1, <2>3, <2>4, <2>5, <1>r DEF Routes
<1> QED
  BY <1>1, <1>2, <1>3, <1>4, <1>5, <1>6, <1>7, <1>8, UndisturbedSteps

\* A tuple that a task of the last stage accepts is not in the output: whoever has recorded it before
\* is the only task that accepts tuples for this key.
LEMMA OnceDeliver ==
  ASSUME AllOK, NEW S, LastStage(S), Once(S), NEW v, NEW u, NEW t \in Tuples, NEW rest \in [Tasks -> SUBSET Tuples],
         Deliver(v, u, t, rest), UNCHANGED <<running, op, flushing, lateFlush, wal, output>>,
         \A w \in FinalTasks : rest[w] = pipe[w] /\ buffer'[w].rec = buffer[w].rec,
         u \in FinalTasks /\ (Whole(S) \/ Handover(S)) => u = Select(S, t)
  PROVE  Once(S)'
<1>a. /\ received \in [Tasks -> SUBSET Tuples] /\ running \subseteq Tasks /\ output \in [Tuples -> Nat]
      /\ FinalTasks \subseteq Tasks
  BY DEF AllOK, NodesOK, ManagersOK, WireOK, FinalTasks, OfStage
<1>o. /\ \A w \in FinalTasks : pipe[w] \subseteq received[w]
      /\ \A r \in Tuples \ excused : output[r] <= 1
      /\ \A r \in Tuples \ excused : \A w \in FinalTasks : r \in pipe[w] => output[r] = 0
      /\ \A r \in Written \ excused :
           \/ \E w \in FinalTasks \cap running : r \in received[w]
           \/ Handover(S) /\ r \in wal[op.task].rec
      /\ Whole(S) \/ Handover(S) => ByHash(S)
      /\ Whole(S) => \A w \in FinalTasks : received[w] \ pipe[w] \subseteq Records(w)
  BY DEF Once
<1>m. /\ Whole(S)' = Whole(S) /\ Handover(S)' = Handover(S) /\ Written' = Written
      /\ \A w \in FinalTasks : Records(w)' = Records(w)
  BY DEF Whole, Handover, LastMerge, Written, Records
<1>1. CASE u \notin FinalTasks \/ t \in received[u] \/ u \notin running \/ UNCHANGED received
  <2>1. \A w \in FinalTasks : pipe'[w] = pipe[w] /\ received'[w] = received[w]
    BY <1>1, <1>a DEF Deliver
  <2>2. excused \subseteq excused'
    BY DEF Deliver
  <2>3. ByHash(S) => ByHash(S)'
    BY <2>1, <1>m DEF ByHash
  <2> QED
    BY <2>1, <2>2, <2>3, <1>o, <1>m DEF Once
<1>2. CASE /\ u \in FinalTasks \cap running /\ t \notin received[u]
           /\ received' = [received EXCEPT ![u] = @ \cup {t}]
           /\ pipe' = [rest EXCEPT ![u] = @ \cup {t}] /\ UNCHANGED excused
  <2>1. \A w \in FinalTasks : /\ received'[w] = IF w = u THEN received[w] \cup {t} ELSE received[w]
                              /\ pipe'[w] = IF w = u THEN pipe[w] \cup {t} ELSE pipe[w]
    BY <1>2, <1>a
  <2>2. ASSUME t \notin excused PROVE output[t] = 0
    <3> SUFFICES ASSUME t \in Written PROVE FALSE
      BY <1>a DEF Written
    <3>1. CASE \E w \in FinalTasks \cap running : t \in received[w]
      <4>1. PICK w \in FinalTasks \cap running : t \in received[w]
        BY <3>1
      <4>2. w = u
        <5>1. CASE Whole(S)
          BY <4>1, <5>1, <1>2, <1>o DEF ByHash
        <5>2. CASE ~Whole(S)
          BY <4>1, <5>2, <1>2 DEF LastStage
        <5> QED
          BY <5>1, <5>2
      <4> QED
        BY <4>1, <4>2, <1>2
    <3>2. CASE Handover(S) /\ t \in wal[op.task].rec
      <4>1. op.task \in FinalTasks \ running
        BY <3>2 DEF LastStage, Handover, LastMerge
      <4>2. Select(S, t) = op.task
        BY <3>2, <4>1, <1>o DEF ByHash, Records
      <4> QED
        BY <3>2, <4>1, <4>2, <1>2
    <3> QED
      BY <2>2, <3>1, <3>2, <1>o
  <2>3. Whole(S) \/ Handover(S) => ByHash(S)'
    BY <2>1, <1>2, <1>o, <1>m DEF ByHash
  <2>4. /\ \A w \in FinalTasks : pipe'[w] \subseteq received'[w]
        /\ \A w \in FinalTasks : received'[w] \ pipe'[w] \subseteq received[w] \ pipe[w]
    BY <2>1, <1>o
  <2>5. ASSUME NEW r \in Tuples \ excused, NEW w \in FinalTasks, r \in pipe'[w] PROVE output[r] = 0
    <3>1. CASE r \in pipe[w]
      BY <3>1, <1>o
    <3>2. CASE r = t
      BY <3>2, <2>2
    <3> QED
      BY <2>1, <2>5, <3>1, <3>2
  <2>6. \A r \in Written \ excused :
           \/ \E w \in FinalTasks \cap running : r \in received'[w]
           \/ Handover(S) /\ r \in wal[op.task].rec
    BY <2>1, <1>o
  <2> QED
    BY <2>3, <2>4, <2>5, <2>6, <1>2, <1>o, <1>m DEF Once
<1> QED
  BY <1>1, <1>2 DEF Deliver

LEMMA OnceFlow ==
  ASSUME NStages > 1, AllOK, NEW S, LastStage(S), Routes(S), Once(S), TupleFlow
  PROVE  Once(S)'
<1>a. /\ received \in [Tasks -> SUBSET Tuples] /\ pipe \in [Tasks -> SUBSET Tuples] /\ output \in [Tuples -> Nat]
      /\ buffer \in [Tasks -> Log] /\ wal \in [Tasks -> Log] /\ flushing \in [Tasks -> BatchType]
      /\ lateFlush \subseteq [task : Tasks, log : Log, ids : SUBSET Tuples]
      /\ running \subseteq Tasks /\ FinalTasks \subseteq Tasks /\ \A w \in Tasks \ running : pipe[w] = {}
      /\ outs \in [Tasks -> SUBSET Tasks] /\ topo \in SUBSET Tasks /\ used \subseteq Tasks
  BY DEF AllOK, LeaderOK, NodesOK, ManagersOK, LogsOK, WireOK, FinalTasks, OfStage
<1>f. \A w \in Tasks : w \in FinalTasks <=> Stage[w] = NStages
  BY DEF FinalTasks, OfStage
<1>n. NStages \in Nat /\ \A w \in Tasks : Stage[w] \in Nat
  BY TasksAssumption
<1>o. /\ \A w \in FinalTasks : pipe[w] \subseteq received[w]
      /\ \A r \in Tuples \ excused : output[r] <= 1
      /\ \A r \in Tuples \ excused : \A w \in FinalTasks : r \in pipe[w] => output[r] = 0
      /\ \A r \in Written \ excused :
           \/ \E w \in FinalTasks \cap running : r \in received[w]
           \/ Handover(S) /\ r \in wal[op.task].rec
      /\ Whole(S) \/ Handover(S) => ByHash(S)
      /\ Whole(S) => \A w \in FinalTasks : received[w] \ pipe[w] \subseteq Records(w)
  BY DEF Once
<1>k. UNCHANGED <<running, op>>
  BY FlowKeeps
<1>m. Whole(S)' = Whole(S) /\ Handover(S)' = Handover(S)
  BY <1>k DEF Whole, Handover, LastMerge
\* The leader sends to the first stage, and a task to the next one.
<1>1. ASSUME NEW t \in Tuples, NEW u \in SourceTargets(t) PROVE u \notin FinalTasks
  <2>1. Candidates \in SUBSET Tasks /\ \A w \in Candidates : Stage[w] = 1
    BY <1>a DEF Candidates, OfStage
  <2>2. Candidates # {} => Select(Candidates, t) \in Candidates
    BY <2>1, SelectPicks
  <2>3. \A w \in OfStage(used, 1) : w \in Tasks /\ Stage[w] = 1
    BY <1>a DEF OfStage
  <2> QED
    BY <1>1, <2>1, <2>2, <2>3, <1>f, <1>n DEF SourceTargets
<1>2. ASSUME NEW v \in running, NEW t \in Tuples, NEW u, u = Select(outs[v], t), outs[v] # {}
      PROVE  /\ Stage[v] < NStages
             /\ u \in FinalTasks /\ (Whole(S) \/ Handover(S)) => u = Select(S, t)
  <2>1. u \in outs[v] /\ outs[v] \in SUBSET Tasks
    BY <1>2, <1>a, SelectPicks
  <2>2. u \in Tasks /\ Stage[u] = Stage[v] + 1
    BY <2>1, <1>2, <1>a DEF Routes, OfStage
  <2>3. Stage[v] < NStages
    BY <2>2, <1>2, <1>a, TasksAssumption
  <2>4. u \in FinalTasks /\ (Whole(S) \/ Handover(S)) => outs[v] = S
    BY <2>2, <1>2, <1>f DEF Routes
  <2> QED
    BY <2>3, <2>4, <1>2
<1>3. ASSUME NEW t \in Tuples, readFileAndEmitTuples(t) \/ RetryFromSource(t) PROVE Once(S)'
  <2>1. /\ UNCHANGED <<flushing, lateFlush, wal, output, buffer>>
        /\ \E u \in SourceTargets(t) : Deliver(Leader, u, t, pipe)
    BY <1>3 DEF readFileAndEmitTuples, RetryFromSource, logVars
  <2>2. PICK u \in SourceTargets(t) : Deliver(Leader, u, t, pipe)
    BY <2>1
  <2> QED
    BY <2>1, <2>2, <1>1, <1>a, <1>k, OnceDeliver
<1>4. ASSUME NEW v \in Tasks, NEW t \in Tuples, RetryFromTask(v, t) PROVE Once(S)'
  <2>1. PICK u : u = Select(outs[v], t)
    OBVIOUS
  <2>2. /\ v \in running /\ outs[v] # {} /\ UNCHANGED <<flushing, lateFlush, wal, output>>
        /\ Deliver(v, u, t, pipe) /\ buffer' = [buffer EXCEPT ![v] = LogSENT(@, t)]
    BY <1>4, <2>1 DEF RetryFromTask, logVars
  <2>3. \A w \in FinalTasks : buffer'[w].rec = buffer[w].rec
    BY <2>2, <1>a DEF LogSENT
  <2> QED
    BY <2>1, <2>2, <2>3, <1>2, <1>a, <1>k, OnceDeliver
<1>5. ASSUME NEW v \in Tasks, NEW t \in Tuples, forwardTupleToDownstream(v, t) PROVE Once(S)'
  <2>1. PICK u : u = Select(outs[v], t)
    OBVIOUS
  <2>2. PICK rest : rest = [pipe EXCEPT ![v] = @ \ {t}]
    OBVIOUS
  <2>3. /\ v \in running /\ Stage[v] < NStages /\ outs[v] # {} /\ UNCHANGED <<flushing, lateFlush, wal, output>>
        /\ Deliver(v, u, t, rest) /\ buffer' = [buffer EXCEPT ![v] = LogREC(LogSENT(@, t), t)]
    BY <1>5, <2>1, <2>2 DEF forwardTupleToDownstream, logVars
  <2>4. v \notin FinalTasks
    BY <2>3, <1>f, <1>n
  <2>5. \A w \in FinalTasks : buffer'[w].rec = buffer[w].rec /\ rest[w] = pipe[w]
    BY <2>2, <2>3, <2>4, <1>a
  <2>6. rest \in [Tasks -> SUBSET Tuples]
    BY <2>2, <1>a
  <2> QED
    BY <2>1, <2>3, <2>5, <2>6, <1>2, <1>a, <1>k, OnceDeliver
<1>6. ASSUME NEW v \in Tasks, NEW t \in Tuples, writeTupleToOutputFile(v, t) PROVE Once(S)'
  <2>1. /\ v \in running /\ v \in FinalTasks /\ t \in pipe[v]
        /\ output' = [output EXCEPT ![t] = @ + 1]
        /\ buffer' = [buffer EXCEPT ![v] = LogREC(@, t)]
        /\ pipe' = [pipe EXCEPT ![v] = @ \ {t}]
        /\ UNCHANGED <<received, excused, flushing, lateFlush, wal>>
    BY <1>6, <1>f DEF writeTupleToOutputFile, logVars
  <2>2. ASSUME NEW w \in FinalTasks, t \in pipe[w] PROVE w = v
    <3>1. t \in received[w] /\ t \in received[v] /\ w \in running
      BY <2>1, <2>2, <1>o, <1>a
    <3>2. CASE Whole(S)
      BY <2>1, <3>1, <3>2, <1>o DEF ByHash
    <3>3. CASE ~Whole(S)
      BY <2>1, <3>1, <3>3 DEF LastStage
    <3> QED
      BY <3>2, <3>3
  <2>3. \A r \in Tuples : output'[r] = IF r = t THEN output[r] + 1 ELSE output[r]
    BY <2>1, <1>a
  <2>4. \A w \in FinalTasks : pipe'[w] = IF w = v THEN pipe[w] \ {t} ELSE pipe[w]
    BY <2>1, <1>a
  <2>5. \A w \in FinalTasks : Records(w)' = IF w = v THEN Records(w) \cup {t} ELSE Records(w)
    BY <2>1, <1>a DEF Records, LogREC
  <2>6. \A w \in FinalTasks : pipe'[w] \subseteq received'[w]
    BY <2>1, <2>4, <1>o
  <2>7. \A r \in Tuples \ excused' : output'[r] <= 1
    BY <2>1, <2>3, <1>o
  <2>8. \A r \in Tuples \ excused' : \A w \in FinalTasks : r \in pipe'[w] => output'[r] = 0
    BY <2>1, <2>2, <2>3, <2>4, <1>o
  <2>9. \A r \in Written' \ excused' :
           \/ \E w \in FinalTasks \cap running' : r \in received'[w]
           \/ Handover(S)' /\ r \in wal'[op'.task].rec
    <3>1. Written' \subseteq Written \cup {t}
      BY <2>3 DEF Written
    <3>2. t \in received[v]
      BY <2>1, <1>o
    <3> QED
      BY <2>1, <3>1, <3>2, <1>o, <1>k, <1>m
  <2>10. ByHash(S) => ByHash(S)'
    BY <2>1, <2>5, <1>o DEF ByHash
  <2>11. Whole(S) => \A w \in FinalTasks : received'[w] \ pipe'[w] \subseteq Records(w)'
    BY <2>1, <2>4, <2>5, <1>o
  <2> QED
    BY <2>6, <2>7, <2>8, <2>9, <2>10, <2>11, <1>o, <1>m DEF Once
\* The other steps move records towards the WAL.
<1>z. ASSUME UNCHANGED <<received, pipe, output>>, excused \subseteq excused',
             \A w \in FinalTasks : Records(w)' \subseteq Records(w) \cup UNION {f.log.rec : f \in {g \in lateFlush : g.task = w}},
             \A w \in FinalTasks : Records(w) \subseteq Records(w)' /\ wal[w].rec \subseteq wal'[w].rec,
             lateFlush' \subseteq lateFlush
      PROVE  Once(S)'
  <2>1. ByHash(S) => ByHash(S)'
    BY <1>z DEF ByHash
  <2>2. Handover(S) => op.task \in FinalTasks
    BY DEF LastStage, Handover, LastMerge
  <2>3. Written' = Written
    BY <1>z DEF Written
  <2> QED
    BY <2>1, <2>2, <2>3, <1>z, <1>o, <1>k, <1>m DEF Once
<1>7. ASSUME NEW x \in acks, handleACKMessage(x) PROVE Once(S)'
  <2>1. UNCHANGED <<received, pipe, output, excused, wal, flushing, lateFlush>>
    BY <1>7 DEF handleACKMessage, logVars
  <2>2. buffer' = buffer \/ \E u : buffer' = [buffer EXCEPT ![u] = LogACK(@, x.id)]
    BY <1>7 DEF handleACKMessage
  <2>3. \A w \in Tasks : buffer'[w].rec = buffer[w].rec
    BY <2>2, <1>a DEF LogACK, Log
  <2>4. \A w \in FinalTasks : Records(w)' = Records(w)
    BY <2>1, <2>3, <1>a DEF Records
  <2> QED
    BY <2>1, <2>4, <1>z
<1>8. ASSUME NEW u \in Tasks, FlushSnapshot(u) PROVE Once(S)'
  <2>1. /\ UNCHANGED <<received, pipe, output, excused, wal, lateFlush>> /\ flushing[u] = NoFlush
        /\ flushing' = [flushing EXCEPT ![u] = [log |-> buffer[u], ids |-> pendingAcks[u]]]
        /\ buffer' = [buffer EXCEPT ![u] = LogEmpty]
    BY <1>8 DEF FlushSnapshot
  <2>2. \A w \in FinalTasks : Records(w)' = Records(w)
    BY <2>1, <1>a DEF Records, NoFlush, LogEmpty
  <2> QED
    BY <2>1, <2>2, <1>z
<1>9. ASSUME NEW u \in Tasks, FlushAppend(u) PROVE Once(S)'
  <2>1. /\ UNCHANGED <<received, pipe, output, excused, buffer, lateFlush>>
        /\ wal' = [wal EXCEPT ![u] = LogAppend(@, flushing[u].log)]
        /\ flushing' = [flushing EXCEPT ![u] = NoFlush]
    BY <1>9 DEF FlushAppend, AppendAndAck, eomVars
  <2>2. \A w \in FinalTasks : Records(w)' = Records(w) /\ wal[w].rec \subseteq wal'[w].rec
    BY <2>1, <1>a DEF Records, NoFlush, LogEmpty, LogAppend
  <2> QED
    BY <2>1, <2>2, <1>z
<1>10. ASSUME NEW f \in lateFlush, LateFlushAppend(f) PROVE Once(S)'
  <2>1. /\ UNCHANGED <<received, pipe, output, buffer, flushing>> /\ excused \subseteq excused'
        /\ wal' = [wal EXCEPT ![f.task] = LogAppend(@, f.log)] /\ lateFlush' \subseteq lateFlush
    BY <1>10 DEF LateFlushAppend, AppendAndAck, eomVars
  <2>2. \A w \in Tasks : wal'[w].rec = IF w = f.task THEN wal[w].rec \cup f.log.rec ELSE wal[w].rec
    BY <2>1, <1>a DEF LogAppend
  <2>3. \A w \in FinalTasks : /\ Records(w)' = IF w = f.task THEN Records(w) \cup f.log.rec ELSE Records(w)
                              /\ wal[w].rec \subseteq wal'[w].rec
    BY <2>1, <2>2, <1>a DEF Records
  <2> QED
    BY <2>1, <2>3, <1>z
<1>11. ASSUME NEW d \in drained, readTaskOutput(d) PROVE Once(S)'
  <2>1. /\ d.task \in Tasks /\ d.id \in Tuples /\ d.targets \in SUBSET Tasks
        /\ UNCHANGED <<flushing, lateFlush, wal, buffer>> /\ excused \subseteq excused'
        /\ DrainSends(d) \/ DrainWrites(d)
    BY <1>11, DrainFacts
  <2>2. CASE DrainSends(d)
    <3>1. PICK u : /\ Deliver(d.task, u, d.id, pipe) /\ output' = output
                   /\ Stage[d.task] < NStages /\ d.targets # {} /\ u = Select(d.targets, d.id)
      BY <2>2 DEF DrainSends
    <3>2. u \in d.targets
      BY <2>1, <3>1, SelectPicks
    <3>3. u \in Tasks /\ Stage[u] = Stage[d.task] + 1
      BY <2>1, <3>2, <1>11 DEF Routes, OfStage
    <3>4. u \in FinalTasks /\ (Whole(S) \/ Handover(S)) => d.targets = S
      BY <3>3, <1>11, <1>f DEF Routes
    <3>5. u \in FinalTasks /\ (Whole(S) \/ Handover(S)) => u = Select(S, d.id)
      BY <3>1, <3>4
    <3> QED
      BY <2>1, <3>1, <3>5, <1>a, <1>k, OnceDeliver
  <2>3. CASE DrainWrites(d)
    <3>1. /\ output' = [output EXCEPT ![d.id] = @ + 1] /\ excused' = excused \cup {d.id}
          /\ UNCHANGED <<received, pipe>>
      BY <2>3 DEF DrainWrites
    <3>2. \A r \in Tuples \ excused' : r \in Tuples \ excused /\ output'[r] = output[r]
      BY <3>1, <1>a
    <3>3. Written' \ excused' \subseteq Written \ excused
      BY <3>2 DEF Written
    <3>4. (ByHash(S) => ByHash(S)') /\ \A w \in FinalTasks : Records(w)' = Records(w)
      BY <2>1, <3>1 DEF ByHash, Records
    <3> QED
      BY <2>1, <3>1, <3>2, <3>3, <3>4, <1>o, <1>k, <1>m DEF Once
  <2> QED
    BY <2>1, <2>2, <2>3
<1> QED
  BY <1>3, <1>4, <1>5, <1>6, <1>7, <1>8, <1>9, <1>10, <1>11 DEF TupleFlow

LEMMA OnceScaling ==
  ASSUME AllOK, AgreeWhileQuiet, SurvivorRuns, StagesKept, Undisturbed, NEW S, S \in SUBSET FinalTasks,
         LastStage(S), Once(S), Undisturbed', [Next]_vars, ~TupleFlow
  PROVE  Once(S)'
<1>a. /\ received \in [Tasks -> SUBSET Tuples] /\ pipe \in [Tasks -> SUBSET Tuples] /\ output \in [Tuples -> Nat]
      /\ buffer \in [Tasks -> Log] /\ wal \in [Tasks -> Log] /\ flushing \in [Tasks -> BatchType]
      /\ lateFlush \subseteq [task : Tasks, log : Log, ids : SUBSET Tuples]
      /\ merging \subseteq [old : Tasks, keep : Tasks, log : Log]
      /\ running \subseteq Tasks /\ FinalTasks \subseteq Tasks /\ op \in OpType /\ OpKnown
  BY DEF AllOK, OpOK, NodesOK, ManagersOK, LogsOK, WireOK, FinalTasks, OfStage
<1>f. \A w \in Tasks : w \in FinalTasks <=> Stage[w] = NStages
  BY DEF FinalTasks, OfStage
<1>o. /\ \A w \in FinalTasks : pipe[w] \subseteq received[w]
      /\ \A r \in Tuples \ excused : output[r] <= 1
      /\ \A r \in Tuples \ excused : \A w \in FinalTasks : r \in pipe[w] => output[r] = 0
      /\ \A r \in Written \ excused :
           \/ \E w \in FinalTasks \cap running : r \in received[w]
           \/ Handover(S) /\ r \in wal[op.task].rec
      /\ Whole(S) \/ Handover(S) => ByHash(S)
      /\ Whole(S) => \A w \in FinalTasks : received[w] \ pipe[w] \subseteq Records(w)
  BY DEF Once
<1>l. /\ op.pc = "add" => Whole(S) /\ Stage[op.task] # NStages
      /\ op.pc = "kill" /\ Stage[op.task] = NStages => Whole(S)
      /\ op.pc \in {"merge", "append"} /\ Stage[op.task] = NStages =>
           ~Whole(S) /\ op.task \in FinalTasks \ running /\ op.keep \in FinalTasks \cap running
  BY DEF LastStage
<1>k. op.pc \in {"kill", "merge", "append"} => Stage[op.task] = Stage[op.keep]
  BY DEF StagesKept
\* A step that is not about a task of the last stage.
<1>z. ASSUME UNCHANGED output, excused \subseteq excused',
             FinalTasks \cap running' = FinalTasks \cap running,
             \A w \in FinalTasks : /\ pipe'[w] = pipe[w] /\ received'[w] = received[w]
                                   /\ Records(w)' = Records(w) /\ wal'[w] = wal[w],
             \A f \in lateFlush' : f \in lateFlush \/ f.task \notin FinalTasks,
             ~Whole(S) => (LastMerge(op) <=> LastMerge(op')) /\ (LastMerge(op) => op'.task = op.task)
      PROVE  Once(S)'
  <2>1. Whole(S)' = Whole(S)
    BY <1>z DEF Whole
  <2>2. Handover(S)' = Handover(S) /\ (Handover(S) => op'.task = op.task)
    BY <1>z, <2>1 DEF Handover, LastMerge
  <2>3. ByHash(S) => ByHash(S)'
    BY <1>z DEF ByHash
  <2>4. Written' = Written
    BY <1>z DEF Written
  <2>5. Handover(S) => op.task \in FinalTasks
    BY <1>l DEF Handover, LastMerge
  <2>6. \A r \in Written' \ excused' :
           \/ \E w \in FinalTasks \cap running' : r \in received'[w]
           \/ Handover(S)' /\ r \in wal'[op'.task].rec
    BY <2>2, <2>4, <2>5, <1>z, <1>o
  <2> QED
    BY <2>1, <2>2, <2>3, <2>6, <1>z, <1>o DEF Once
<1>u. ASSUME UNCHANGED <<output, excused, running, pipe, received, wal, flushing, buffer, lateFlush>>,
             ~Whole(S) => (LastMerge(op) <=> LastMerge(op')) /\ (LastMerge(op) => op'.task = op.task)
      PROVE  Once(S)'
  <2>1. \A w \in FinalTasks : Records(w)' = Records(w)
    BY <1>u DEF Records
  <2> QED
    BY <2>1, <1>u, <1>z
<1>1. CASE Reported
  BY <1>1, <1>u DEF LastMerge, Reported, NodesUnchanged, eomVars, logVars
<1>2. ASSUME NEW u \in Tasks, scaleUpStage(u) PROVE Once(S)'
  <2>1. op.pc = "idle" /\ op'.pc = "add"
    BY <1>2 DEF scaleUpStage, NoOp
  <2> QED
    BY <1>2, <2>1, <1>u DEF LastMerge, scaleUpStage, LeaderStep, NodesUnchanged, eomVars, logVars
<1>3. ASSUME NEW x \in Tasks, NEW v \in Tasks, scaleDownStage(x, v) PROVE Once(S)'
  <2>1. op.pc = "idle" /\ op'.pc = "kill"
    BY <1>3 DEF scaleDownStage, NoOp
  <2> QED
    BY <1>3, <2>1, <1>u DEF LastMerge, scaleDownStage, LeaderStep, NodesUnchanged, eomVars, logVars
<1>4. CASE AddTask
  <2>1. /\ op.pc = "add" /\ op.task \in Tasks \ FinalTasks /\ op.task \notin running
        /\ UNCHANGED <<output, excused, pipe, wal, flushing, buffer, lateFlush>>
    BY <1>4, <1>a, <1>f, <1>l DEF AddTask, OpStep, OpKnown, LeaderStep, logVars, AgreeWhileQuiet, AllOK, NodesOK
  <2>2. running' = running \cup {op.task} /\ received' = [received EXCEPT ![op.task] = wal[op.task].rec]
    BY <1>4, <2>1 DEF AddTask, InitializeTask
  <2>3. \A w \in FinalTasks : received'[w] = received[w] /\ Records(w)' = Records(w)
    BY <2>1, <2>2, <1>a DEF Records
  <2>4. FinalTasks \cap running' = FinalTasks \cap running /\ Whole(S)
    BY <2>1, <2>2, <1>l
  <2> QED
    BY <2>1, <2>3, <2>4, <1>z
<1>5. CASE KillTask
  <2> DEFINE x == op.task
  <2>1. op.pc = "kill" /\ x \in Tasks /\ x \in running /\ (x \in FinalTasks => Whole(S))
    BY <1>5, <1>a, <1>f, <1>l DEF KillTask, OpStep, OpKnown, AgreeWhileQuiet
  <2>2. /\ running' = running \ {x}
        /\ received' = [received EXCEPT ![x] = {}] /\ pipe' = [pipe EXCEPT ![x] = {}]
        /\ buffer' = [buffer EXCEPT ![x] = LogEmpty] /\ flushing' = [flushing EXCEPT ![x] = NoFlush]
        /\ lateFlush' \subseteq lateFlush \cup {[task |-> x, log |-> flushing[x].log, ids |-> flushing[x].ids]}
        /\ excused' = (IF Stage[x] = NStages THEN excused \cup buffer[x].rec \cup flushing[x].log.rec ELSE excused)
        /\ UNCHANGED <<output, wal>>
    BY <1>5, <2>1 DEF KillTask, KillTaskProcess, OpStep, LeaderStep
  <2>3. op'.pc = "merge" /\ op'.task = x
    BY <1>5, <2>1, <1>a DEF KillTask, OpType
  <2> HIDE DEF x
  <2>4. \A w \in FinalTasks :
          /\ received'[w] = IF w = x THEN {} ELSE received[w]
          /\ pipe'[w] = IF w = x THEN {} ELSE pipe[w]
          /\ buffer'[w] = IF w = x THEN LogEmpty ELSE buffer[w]
          /\ flushing'[w] = IF w = x THEN NoFlush ELSE flushing[w]
    BY <2>2, <1>a
  <2>5. CASE x \notin FinalTasks
    <3>1. \A w \in FinalTasks : /\ pipe'[w] = pipe[w] /\ received'[w] = received[w]
                                /\ Records(w)' = Records(w) /\ wal'[w] = wal[w]
      BY <2>2, <2>4, <2>5 DEF Records
    <3>2. ~LastMerge(op) /\ ~LastMerge(op')
      BY <2>1, <2>3, <2>5, <1>f DEF LastMerge
    <3> QED
      BY <2>1, <2>2, <2>5, <3>1, <3>2, <1>z
  <2>6. CASE x \in FinalTasks
    <3>1. excused' = excused \cup buffer[x].rec \cup flushing[x].log.rec
      BY <2>1, <2>2, <2>6, <1>f
    <3>2. ~Whole(S)' /\ Handover(S)'
      <4>1. x \in S
        BY <2>1, <2>6, <1>f, <1>a DEF LastStage
      <4> QED
        BY <2>1, <2>2, <2>3, <2>6, <4>1, <1>f DEF Whole, Handover, LastMerge
    <3>3. Written' = Written
      BY <2>2 DEF Written
    <3>4. ASSUME NEW r \in Written' \ excused'
          PROVE  (\E w \in FinalTasks \cap running' : r \in received'[w]) \/ r \in wal'[x].rec
      <4>1. PICK w \in FinalTasks \cap running : r \in received[w]
        BY <2>1, <2>6, <3>1, <3>3, <3>4, <1>o DEF Handover, LastMerge
      <4>2. CASE w # x
        BY <2>2, <2>4, <4>1, <4>2
      <4>3. CASE w = x
        <5>1. r \in Tuples /\ output[r] # 0
          BY <3>3, <3>4, <1>a DEF Written
        <5>2. r \notin pipe[x]
          BY <2>6, <3>1, <3>4, <5>1, <1>o
        <5>3. r \in Records(x)
          BY <2>1, <2>6, <4>1, <4>3, <5>2, <1>o
        <5> QED
          BY <2>2, <3>1, <3>4, <5>3 DEF Records
      <4> QED
        BY <4>2, <4>3
    <3>5. ByHash(S)'
      <4>1. \A w \in FinalTasks : received'[w] \cup Records(w)' \subseteq received[w] \cup Records(w)
        BY <2>2, <2>4 DEF Records, LogEmpty, NoFlush
      <4>2. flushing[x].log.rec \subseteq Records(x)
        BY DEF Records
      <4>3. ByHash(S)
        BY <2>1, <2>6, <1>o
      <4>4. \A w \in FinalTasks : \A t \in received'[w] \cup Records(w)' : Select(S, t) = w
        BY <4>1, <4>3 DEF ByHash
      <4>5. \A f \in lateFlush' : f.task \in FinalTasks => \A t \in f.log.rec : Select(S, t) = f.task
        BY <2>2, <2>6, <4>2, <4>3 DEF ByHash
      <4> QED
        BY <4>4, <4>5 DEF ByHash
    <3>6. \A w \in FinalTasks : pipe'[w] \subseteq received'[w] /\ pipe'[w] \subseteq pipe[w]
      BY <2>4, <1>o
    <3>7. excused \subseteq excused'
      BY <3>1
    <3> QED
      BY <2>2, <2>3, <3>2, <3>4, <3>5, <3>6, <3>7, <1>o DEF Once
  <2> QED
    BY <2>5, <2>6
<1>6. CASE MergeWal
  <2>1. PICK x \in Tasks, v \in Tasks : x = op.task /\ v = op.keep
    BY <1>6, <1>a DEF MergeWal, OpStep, OpKnown
  <2>2. /\ op.pc = "merge" /\ op'.pc = "append" /\ Stage[x] = Stage[v] /\ MergeMaps(x, v)
        /\ UNCHANGED <<output, excused, running, pipe, wal, flushing, buffer, lateFlush>>
    BY <1>6, <2>1, <1>a, <1>k DEF MergeWal, OpStep, MergeWalForTask, OpType, LeaderStep
  <2>3. \A w \in Tasks : received'[w] = IF w = v /\ v \in running THEN received[w] \cup wal[x].rec ELSE received[w]
    BY <2>2, <1>a DEF MergeMaps
  <2>4. CASE x \notin FinalTasks
    <3>1. v \notin FinalTasks
      BY <2>2, <2>4, <1>f
    <3>2. \A w \in FinalTasks : received'[w] = received[w] /\ Records(w)' = Records(w)
      BY <2>2, <2>3, <3>1, <1>a DEF Records
    <3>3. ~LastMerge(op) /\ ~LastMerge(op')
      BY <2>1, <2>2, <2>4, <1>f DEF LastMerge
    <3> QED
      BY <2>2, <3>2, <3>3, <1>z
  <2>5. CASE x \in FinalTasks
    <3>1. ~Whole(S) /\ v \in FinalTasks \cap running
      BY <2>1, <2>2, <2>5, <1>f, <1>l
    <3>2. ~Whole(S)' /\ ~Handover(S)'
      BY <2>2, <3>1 DEF Whole, Handover, LastMerge
    <3>3. Written' = Written
      BY <2>2 DEF Written
    <3>4. \A r \in Written' \ excused' : \E w \in FinalTasks \cap running' : r \in received'[w]
      BY <2>1, <2>2, <2>3, <3>1, <3>3, <1>o, <1>a
    <3>5. \A w \in FinalTasks : received[w] \subseteq received'[w]
      BY <2>3, <1>a
    <3> QED
      BY <2>2, <3>2, <3>4, <3>5, <1>o DEF Once
  <2> QED
    BY <2>4, <2>5
<1>7. ASSUME NEW m \in merging, MergeWalAppend(m) PROVE Once(S)'
  <2>1. op.pc = "append" /\ m.old = op.task /\ Stage[m.old] = Stage[m.keep] /\ m.keep \in Tasks /\ m.old \in Tasks
    BY <1>a DEF SurvivorRuns, Undisturbed, StagesKept
  <2>2. /\ UNCHANGED <<output, excused, running, pipe, received, flushing, buffer, lateFlush>>
        /\ op'.pc \in {"append", "update"}
        /\ \A w \in Tasks : w # m.keep => wal'[w] = wal[w]
    BY <1>7, <2>1, <1>a DEF MergeWalAppend, eomVars, SendTopologyUpdate, NoOp
  <2>3. CASE m.keep \notin FinalTasks
    <3>1. \A w \in FinalTasks : wal'[w] = wal[w] /\ Records(w)' = Records(w)
      BY <2>2, <2>3, <1>a DEF Records
    <3> QED
      BY <2>1, <2>2, <3>1, <1>z DEF LastMerge
  <2>4. CASE m.keep \in FinalTasks
    <3>1. ~Whole(S)
      BY <2>1, <2>4, <1>f, <1>l
    <3>2. ~Whole(S)' /\ ~Handover(S) /\ ~Handover(S)'
      BY <2>1, <2>2, <3>1 DEF Whole, Handover, LastMerge
    <3>3. Written' = Written
      BY <2>2 DEF Written
    <3> QED
      BY <2>2, <3>2, <3>3, <1>o DEF Once
  <2> QED
    BY <2>3, <2>4
<1>8. ASSUME NEW n \in NodeNames, UpdateNode(n) PROVE Once(S)'
  <2>1. op.pc = "update" /\ op'.pc \in {"idle", "update"}
    BY <1>8, OpTypes DEF UpdateNode, OpStep
  <2> QED
    BY <1>8, <2>1, <1>u DEF LastMerge, UpdateNode, OpStep, LeaderStep, eomVars, logVars
<1> QED
  BY <1>1, <1>2, <1>3, <1>4, <1>5, <1>6, <1>7, <1>8, UndisturbedSteps

\* Whatever the job was submitted with.
OnceInv == \A S : Original(S) /\ OnceCase(S) => Plan(S) /\ Routes(S) /\ Once(S)

LEMMA OnceInit == Init => Steady /\ OnceInv
<1> SUFFICES ASSUME Init, NEW S, Original(S) PROVE Steady /\ Plan(S) /\ Routes(S) /\ Once(S)
  BY DEF OnceInv, Original
<1>1. Initial \in SUBSET Tasks
  BY ScenarioFacts DEF Init, Initial
<1>2. op.pc = "idle" /\ topo = Initial /\ running = Initial
  BY DEF Init, NoOp
<1>3. Steady
  BY DEF Steady, Init, SurvivorRuns, NoOp
<1>4. Plan(S)
  BY <1>2 DEF Plan, Original, OfStage
<1>5. Routes(S)
  <2>1. \A u \in Tasks : outs[u] = IF u \in Initial THEN OutputTargets(Initial, u) ELSE {}
    BY DEF Init
  <2>2. \A u \in Tasks : OutputTargets(Initial, u) \subseteq OfStage(Tasks, Stage[u] + 1)
    BY <1>1 DEF OutputTargets, OfStage
  <2>3. \A u \in Tasks : Stage[u] + 1 = NStages => OutputTargets(Initial, u) = S
    BY DEF OutputTargets, Original
  <2> QED
    BY <1>1, <1>2, <2>1, <2>2, <2>3 DEF Routes, Init
<1>6. Once(S)
  <2>1. /\ \A w \in FinalTasks : pipe[w] = {} /\ received[w] = {} /\ Records(w) = {}
        /\ Written = {} /\ lateFlush = {} /\ \A t \in Tuples : output[t] = 0
    BY DEF Init, FinalTasks, OfStage, Records, Written, LogEmpty, NoFlush
  <2> QED
    BY <2>1 DEF Once, ByHash
<1> QED
  BY <1>3, <1>4, <1>5, <1>6

LEMMA OnceNext ==
  ASSUME NStages > 1, AllOK, Agree, StagesKept, Steady, OnceInv, [Next]_vars
  PROVE  OnceInv'
<1> SUFFICES ASSUME NEW S, Original(S)', OnceCase(S)' PROVE Plan(S)' /\ Routes(S)' /\ Once(S)'
  BY DEF OnceInv
<1>1. Undisturbed' /\ Undisturbed
  BY UndisturbedBefore DEF OnceCase, Undisturbed
<1>2. Original(S) /\ OnceCase(S)
  BY <1>1, ScenarioStays DEF Original, OnceCase, Initial, OfStage, Undisturbed
<1>3. AgreeWhileQuiet /\ SurvivorRuns /\ Plan(S) /\ Routes(S) /\ Once(S)
  BY <1>1, <1>2, SteadyFacts DEF OnceInv
<1>4. LastStage(S) /\ S \in SUBSET FinalTasks
  BY <1>2, <1>3, LastStageFacts
<1>5. Plan(S)' /\ Routes(S)'
  BY <1>1, <1>2, <1>3, PlanNext, RoutesNext
<1>6. Once(S)'
  BY <1>1, <1>3, <1>4, OnceFlow, OnceScaling
<1> QED
  BY <1>5, <1>6

\* A scale-down repeats no tuple in the output: between the kill and the merge the tuples that the removed
\* task has written are still routed to it, and fail; the survivor has taken them over before any other
\* task is told to send to it.  What the reader of a removed task of an earlier stage still sends on goes by the
\* OutputTargets the task had, to the task the survivor's retry goes to.  This holds for scale-downs of any
\* stages, of a last stage with two tasks as of the stages before, with scale-ups of those, retries, lost calls,
\* late flushes and duplicates, for the tuples that were not acknowledged or written before they were durable,
\* which is what the reader of a removed last task writes; in a job of one stage the leader itself routes by its
\* own topology, which is ahead of the merge.
THEOREM ScaledOutputOnce == ASSUME NStages > 1 PROVE Spec => []OutputOnce
<1>1. AllOK /\ Agree /\ StagesKept /\ Steady /\ OnceInv /\ [Next]_vars => Agree' /\ StagesKept' /\ Steady' /\ OnceInv'
  <2>1. AllOK /\ Agree /\ [Next]_vars => Agree'
    BY AgreeNext
  <2> QED
    BY <2>1, StagesNext, SteadyNext, OnceNext
<1>2. OnceInv => OutputOnce
  <2> SUFFICES ASSUME OnceInv, NEW S, Original(S), OnceCase(S), NEW t \in Tuples \ excused PROVE output[t] <= 1
    BY DEF OutputOnce, OnceCase, Original
  <2> QED
    BY DEF OnceInv, Once
<1>3. Init => Agree /\ StagesKept /\ Steady /\ OnceInv
  BY AgreeInit, LogInit, OnceInit DEF LogInv
<1> QED
  BY <1>1, <1>2, <1>3, TypesInvariant, PTL DEF Spec
=============================================================================
