---------------------------- MODULE ExactlyOnce ----------------------------
(***************************************************************************)
(* The exactly-once delivery pipeline of RainStorm: the leader streams the *)
(* lines of a file to the task of stage 1, each stage's task runs them      *)
(* through an executable and forwards the outputs to the next stage, and    *)
(* the last stage appends them to an output file in HyDFS.  Every hop is    *)
(* guarded by an ExactlyOnceManager (exactly_once.go): it drops duplicates, *)
(* keeps unacknowledged outputs for a retry loop, and writes REC, SENT and  *)
(* ACK records to a write-ahead log (WAL) from which a restarted task       *)
(* rebuilds its state.                                                      *)
(*                                                                          *)
(* Without autoscaling a tuple's path is fixed by its key, so one task per  *)
(* stage shows all a tuple can meet.  Tuples keep their ID from stage to    *)
(* stage, as the executables of the repository do.                          *)
(*                                                                          *)
(* A killed task is restarted with a new manager, reader and process, while *)
(* goroutines of the old one may still be running.  The model therefore     *)
(* keeps one INSTANCE <<s, e>> per stage s and incarnation e; <<0, 1>> is   *)
(* the leader's manager.                                                    *)
(***************************************************************************)
EXTENDS Integers, EomLog

\* Tuples, the lines of the source file, is declared in EomLog.
CONSTANTS
  NStages,      \* number of processing stages (JobSpec.NStages)
  Nodes,        \* machines
  Host,         \* [0..NStages -> Nodes]: where the leader and the tasks run
  Outcome,      \* what a stage's executable does with a tuple, see below
  MaxEpoch,     \* [0..NStages -> Nat]: bound on the incarnations of a task
  MaxRetry,     \* bound on the retry iterations of a manager; 0 for no bound
  MaxLoss,      \* bound on TCP calls that fail before they are handled
  MaxHydfsFail, \* bound on HyDFS operations that fail
  LateTicks,    \* BOOLEAN: a loop that was stopped may win another tick
  MaxCrash      \* bound on executables that exit by themselves

Stages  == 1..NStages
Senders == 0..(NStages - 1)

(***************************************************************************)
(* "emit": one output line with one tuple; "drop": an output line with no   *)
(* tuples (a filter that did not match); "silent": no line at all (a filter *)
(* whose column is missing).                                                *)
(***************************************************************************)
Outcomes == {"emit", "drop", "silent"}

ASSUME StagesAssumption   == NStages \in Nat \ {0}
ASSUME HostAssumption     == Host \in [0..NStages -> Nodes]
ASSUME OutcomeAssumption  == Outcome \in [Stages -> [Tuples -> Outcomes]]
ASSUME MaxEpochAssumption == MaxEpoch \in [0..NStages -> Nat \ {0}] /\ MaxEpoch[0] = 1
ASSUME BoundsAssumption   ==
  /\ LateTicks \in BOOLEAN /\ MaxRetry \in Nat /\ MaxLoss \in Nat
  /\ MaxHydfsFail \in Nat /\ MaxCrash \in Nat

Inst    == UNION {{s} \X (1..MaxEpoch[s]) : s \in 0..NStages}
Leader  == <<0, 1>>
Threads == {"reader", "retry"}

VARIABLES
  source,       \* lines the leader has not read yet
  status,       \* NodeManager.TaskStatus, and presence in TaskInfos
  epoch,        \* current incarnation of each stage's task
  received,     \* receivedTuples of each manager
  sent,         \* sentTuples of each manager
  buffer,       \* writeBuffer of each manager, summarised (see EomLog)
  pendingAcks,  \* pendingAcks of each manager
  flushing,     \* what an ACK-flush iteration took out and has not appended
  wal,          \* the WAL file of each task in HyDFS, summarised by its replay
  stdin,        \* tuples written to the executable, its answer still to come
  stdout,       \* output lines the reader goroutine has not read
  crashed,      \* executables that exited by themselves
  reader,       \* the tuple the reader goroutine is inside SendTuple for
  toRetry,      \* the snapshot of a RetryPendingSends iteration
  retries,      \* retry iterations so far, counted when MaxRetry bounds them
  calls,        \* open TUPLE calls, and the ACK calls their handlers make
  acks,         \* ACK calls started by the ACK-flush loop
  outputBuffer, \* NodeManager.outputBuffer of the last stage's node
  outFile,      \* the output file in HyDFS: how often each tuple is in it
  losses, hydfsFails, crashes   \* failures so far, against their bounds

hopVars  == <<reader, toRetry, retries, calls>>
eomVars  == <<received, sent, buffer, pendingAcks>>
outVars  == <<outputBuffer, outFile>>
procVars == <<stdin, stdout, crashed>>
vars == <<source, status, epoch, received, sent, buffer, pendingAcks, flushing,
          wal, stdin, stdout, crashed, reader, toRetry, retries, calls, acks,
          outputBuffer, outFile, losses, hydfsFails, crashes>>

----------------------------------------------------------------------------
Init ==
  /\ source = Tuples
  /\ status = [s \in Stages |-> "Running"]
  /\ epoch  = [s \in 0..NStages |-> 1]
  /\ received = [i \in Inst |-> [t \in Tuples |-> "none"]]
  /\ sent        = [i \in Inst |-> {}]
  /\ buffer      = [i \in Inst |-> LogEmpty]
  /\ pendingAcks = [i \in Inst |-> {}]
  /\ flushing    = [i \in Inst |-> [log |-> LogEmpty, ids |-> {}]]
  /\ wal         = [s \in Stages |-> MapsEmpty]
  /\ stdin    = [i \in Inst |-> {}]
  /\ stdout   = [i \in Inst |-> {}]
  /\ crashed  = [i \in Inst |-> FALSE]
  /\ reader   = [i \in Inst |-> {}]
  /\ toRetry  = [i \in Inst |-> {}]
  /\ retries  = [i \in Inst |-> 0]
  /\ calls = {} /\ acks = {}
  /\ outputBuffer = [t \in Tuples |-> 0]
  /\ outFile      = [t \in Tuples |-> 0]
  /\ losses = 0 /\ hydfsFails = 0 /\ crashes = 0

----------------------------------------------------------------------------
Cur(s)     == <<s, epoch[s]>>
IsFinal(i) == i[1] = NStages

\* The manager of instance i is in use (the leader's always is).
Live(i) == i[2] = epoch[i[1]] /\ (i # Leader => status[i[1]] = "Running")

\* A loop of a stopped manager ends at its next select, unless a tick is ready
\* as well: select then picks at random.
MayIterate(i) == Live(i) \/ LateTicks

\* An open call: a TUPLE sent by a thread of instance i; in phase "ack" the
\* receiver is inside the ACK call it makes for a duplicate before it answers.
Call(i, th, t, ph) == [inst |-> i, thread |-> th, id |-> t, phase |-> ph]
OpenCall(i, th)    == \E c \in calls : c.inst = i /\ c.thread = th

\* Updates of a manager.  What no goroutine will read again is left out: the
\* maps and buffers of a stopped manager without another tick, and the records of
\* the leader's, which has no flush loop and no WAL.
Update(f, i, v) == IF MayIterate(i) THEN [f EXCEPT ![i] = v] ELSE f
Logged(i, l)    == IF i = Leader THEN buffer ELSE Update(buffer, i, l)

\* Faults of SendTuple: the tuple is not tracked at all, or in memory only.
SendTupleUntracked(i, th, t) ==
  /\ calls' = calls \cup {Call(i, th, t, "tuple")}
  /\ UNCHANGED <<sent, buffer>>

SendTupleUnlogged(i, th, t) ==
  /\ sent'  = Update(sent, i, sent[i] \cup {t})
  /\ calls' = calls \cup {Call(i, th, t, "tuple")}
  /\ UNCHANGED buffer

\* SendTuple: AddSentTuple records the tuple before it goes on the wire.
SendTuple(i, th, t) ==
  /\ sent'   = Update(sent, i, sent[i] \cup {t})
  /\ buffer' = Logged(i, LogSENT(buffer[i], t))
  /\ calls'  = calls \cup {Call(i, th, t, "tuple")}

\* Processed := true, a REC record and a pending ACK.
MarkProcessed(i, t) ==
  /\ received'    = [received EXCEPT ![i][t] = "processed"]
  /\ buffer'      = Logged(i, LogREC(buffer[i], t))
  /\ pendingAcks' = Update(pendingAcks, i, pendingAcks[i] \cup {t})

----------------------------------------------------------------------------
(* The leader's source loop: one synchronous SendTuple per line.            *)

EmitTuple(t) ==
  /\ t \in source /\ ~OpenCall(Leader, "reader")
  /\ source' = source \ {t}
  /\ SendTuple(Leader, "reader", t)
  /\ UNCHANGED <<status, epoch, received, pendingAcks, flushing, wal, procVars,
                 reader, toRetry, retries, acks, outVars, losses, hydfsFails, crashes>>

----------------------------------------------------------------------------
(* The receiving side of a TUPLE call: handleTupleMessage.                  *)

\* Fault: a tuple for a task that is not running is acknowledged as well.
TupleRejectedAcked(c) ==
  /\ c \in calls /\ c.phase = "tuple"
  /\ status[c.inst[1] + 1] # "Running"
  /\ calls' = (calls \ {c}) \cup {[c EXCEPT !.phase = "ack"]}
  /\ UNCHANGED <<source, status, epoch, eomVars, flushing, wal, procVars, reader,
                 toRetry, retries, acks, outVars, losses, hydfsFails, crashes>>

TupleRejected(c) ==
  /\ c \in calls /\ c.phase = "tuple"
  /\ status[c.inst[1] + 1] # "Running"
  /\ calls' = calls \ {c}
  /\ UNCHANGED <<source, status, epoch, eomVars, flushing, wal, procVars, reader,
                 toRetry, retries, acks, outVars, losses, hydfsFails, crashes>>

\* Fault: AddReceivedTuple does not look for an existing entry.
TupleAcceptedUnchecked(c) ==
  LET s == c.inst[1] + 1 IN
  /\ c \in calls /\ c.phase = "tuple"
  /\ status[s] = "Running"
  /\ received' = [received EXCEPT ![Cur(s)][c.id] = "pending"]
  /\ stdin' = [stdin EXCEPT ![Cur(s)] = @ \cup {c.id}]
  /\ calls' = calls \ {c}
  /\ UNCHANGED <<source, status, epoch, sent, buffer, pendingAcks, flushing, wal,
                 stdout, crashed, reader, toRetry, retries, acks, outVars, losses,
                 hydfsFails, crashes>>

\* Fault: the REC record is written on receipt.
TupleAcceptedLogged(c) ==
  LET s == c.inst[1] + 1 IN
  /\ c \in calls /\ c.phase = "tuple"
  /\ status[s] = "Running"
  /\ received[Cur(s)][c.id] = "none"
  /\ received' = [received EXCEPT ![Cur(s)][c.id] = "pending"]
  /\ buffer' = Logged(Cur(s), LogREC(buffer[Cur(s)], c.id))
  /\ stdin' = [stdin EXCEPT ![Cur(s)] = @ \cup {c.id}]
  /\ calls' = calls \ {c}
  /\ UNCHANGED <<source, status, epoch, sent, pendingAcks, flushing, wal, stdout,
                 crashed, reader, toRetry, retries, acks, outVars, losses, hydfsFails,
                 crashes>>

\* A tuple not seen before is entered in receivedTuples and then written to
\* the executable; a write to an executable that has exited fails after that.
TupleAccepted(c) ==
  LET s == c.inst[1] + 1 IN
  /\ c \in calls /\ c.phase = "tuple"
  /\ status[s] = "Running"
  /\ received[Cur(s)][c.id] = "none"
  /\ received' = [received EXCEPT ![Cur(s)][c.id] = "pending"]
  /\ stdin' = IF crashed[Cur(s)] THEN stdin
                                 ELSE [stdin EXCEPT ![Cur(s)] = @ \cup {c.id}]
  /\ calls' = calls \ {c}
  /\ UNCHANGED <<source, status, epoch, sent, buffer, pendingAcks, flushing, wal,
                 stdout, crashed, reader, toRetry, retries, acks, outVars, losses,
                 hydfsFails, crashes>>

\* Fault: a duplicate is dropped without an ACK.
TupleDuplicateDropped(c) ==
  /\ c \in calls /\ c.phase = "tuple"
  /\ status[c.inst[1] + 1] = "Running"
  /\ received[Cur(c.inst[1] + 1)][c.id] # "none"
  /\ calls' = calls \ {c}
  /\ UNCHANGED <<source, status, epoch, eomVars, flushing, wal, procVars, reader,
                 toRetry, retries, acks, outVars, losses, hydfsFails, crashes>>

\* A duplicate is acknowledged at once, inside the handler.
TupleDuplicate(c) ==
  LET s == c.inst[1] + 1 IN
  /\ c \in calls /\ c.phase = "tuple"
  /\ status[s] = "Running"
  /\ received[Cur(s)][c.id] # "none"
  /\ calls' = (calls \ {c}) \cup {[c EXCEPT !.phase = "ack"]}
  /\ UNCHANGED <<source, status, epoch, eomVars, flushing, wal, procVars, reader,
                 toRetry, retries, acks, outVars, losses, hydfsFails, crashes>>

----------------------------------------------------------------------------
(* An ACK for t reaches the node of stage s: handleACKMessage.  The node    *)
(* searches the managers of ALL its tasks, in map order, and then the       *)
(* leader's, for one that has t in sentTuples.                              *)

AckOwners(s, t) ==
  LET local == {u \in Stages : /\ Host[u] = Host[s]
                               /\ status[u] = "Running"
                               /\ t \in sent[Cur(u)]}
  IN IF local # {} THEN {Cur(u) : u \in local}
     ELSE IF Host[0] = Host[s] /\ t \in sent[Leader] THEN {Leader} ELSE {}

HandleACK(s, t) ==
  \/ \E i \in AckOwners(s, t) :
       /\ sent'   = [sent EXCEPT ![i] = @ \ {t}]
       /\ buffer' = Logged(i, LogACK(buffer[i], t))
  \/ AckOwners(s, t) = {} /\ UNCHANGED <<sent, buffer>>

DeliverAck(a) ==
  /\ a \in acks
  /\ acks' = acks \ {a}
  /\ HandleACK(a.stage, a.id)
  /\ UNCHANGED <<source, status, epoch, received, pendingAcks, flushing, wal,
                 procVars, hopVars, outVars, losses, hydfsFails, crashes>>

\* The nested ACK call returns, and with it the TUPLE call.
DeliverDuplicateAck(c) ==
  /\ c \in calls /\ c.phase = "ack"
  /\ calls' = calls \ {c}
  /\ HandleACK(c.inst[1], c.id)
  /\ UNCHANGED <<source, status, epoch, received, pendingAcks, flushing, wal,
                 procVars, reader, toRetry, retries, acks, outVars, losses,
                 hydfsFails, crashes>>

----------------------------------------------------------------------------
(* The executable and the reader goroutine of an instance.  The reader of a *)
(* killed task goes on until its pipe is empty.                             *)

RunTask(i, t) ==
  /\ t \in stdin[i]
  /\ stdin'  = [stdin EXCEPT ![i] = @ \ {t}]
  /\ stdout' = IF Outcome[i[1]][t] = "silent" THEN stdout
               ELSE [stdout EXCEPT ![i] = @ \cup {t}]
  /\ UNCHANGED <<source, status, epoch, eomVars, flushing, wal, crashed, hopVars,
                 acks, outVars, losses, hydfsFails, crashes>>

ReadLine(i, t) ==
  /\ t \in stdout[i] /\ reader[i] = {}
  /\ stdout' = [stdout EXCEPT ![i] = @ \ {t}]

\* No tuples in the line: processed at once.
ReadDropped(i, t) ==
  /\ ReadLine(i, t) /\ Outcome[i[1]][t] = "drop"
  /\ MarkProcessed(i, t)
  /\ UNCHANGED <<source, status, epoch, sent, flushing, wal, stdin, crashed,
                 hopVars, acks, outVars, losses, hydfsFails, crashes>>

\* Last stage: the output goes to the node's output buffer.
ReadFinalOutput(i, t) ==
  /\ ReadLine(i, t) /\ Outcome[i[1]][t] = "emit" /\ IsFinal(i)
  /\ outputBuffer' = [outputBuffer EXCEPT ![t] = @ + 1]
  /\ MarkProcessed(i, t)
  /\ UNCHANGED <<source, status, epoch, sent, flushing, wal, stdin, crashed,
                 hopVars, acks, outFile, losses, hydfsFails, crashes>>

\* Fault: the last stage forwards like the others.
ReadAndForwardAnywhere(i, t) ==
  /\ ReadLine(i, t) /\ Outcome[i[1]][t] = "emit"
  /\ SendTuple(i, "reader", t)
  /\ reader' = [reader EXCEPT ![i] = {t}]
  /\ UNCHANGED <<source, status, epoch, received, pendingAcks, flushing, wal, stdin,
                 crashed, toRetry, retries, acks, outVars, losses, hydfsFails, crashes>>

\* Other stages: the reader blocks in SendTuple ...
ReadAndForward(i, t) ==
  /\ ReadLine(i, t) /\ Outcome[i[1]][t] = "emit" /\ ~IsFinal(i)
  /\ SendTuple(i, "reader", t)
  /\ reader' = [reader EXCEPT ![i] = {t}]
  /\ UNCHANGED <<source, status, epoch, received, pendingAcks, flushing, wal, stdin,
                 crashed, toRetry, retries, acks, outVars, losses, hydfsFails, crashes>>

\* ... and counts the output when the call has returned, answered or failed.
ForwardReturn(i, t) ==
  /\ reader[i] = {t} /\ ~OpenCall(i, "reader")
  /\ reader' = [reader EXCEPT ![i] = {}]
  /\ MarkProcessed(i, t)
  /\ UNCHANGED <<source, status, epoch, sent, flushing, wal, procVars, toRetry,
                 retries, calls, acks, outVars, losses, hydfsFails, crashes>>

----------------------------------------------------------------------------
(* The retry loop: a snapshot of old entries under the lock, then one       *)
(* SendTuple per entry outside it, which enters the tuple in sentTuples     *)
(* again.                                                                   *)

RetryPendingSends(i, R) ==
  /\ MayIterate(i)
  /\ toRetry[i] = {} /\ ~OpenCall(i, "retry")
  /\ R # {} /\ R \subseteq sent[i]
  /\ toRetry' = [toRetry EXCEPT ![i] = R]
  /\ MaxRetry = 0 \/ retries[i] < MaxRetry
  /\ retries' = IF MaxRetry = 0 THEN retries ELSE [retries EXCEPT ![i] = @ + 1]
  /\ UNCHANGED <<source, status, epoch, eomVars, flushing, wal, procVars, reader,
                 calls, acks, outVars, losses, hydfsFails, crashes>>

RetrySend(i, t) ==
  /\ t \in toRetry[i] /\ ~OpenCall(i, "retry")
  /\ toRetry'  = [toRetry EXCEPT ![i] = @ \ {t}]
  /\ SendTuple(i, "retry", t)
  /\ UNCHANGED <<source, status, epoch, received, pendingAcks, flushing, wal,
                 procVars, reader, retries, acks, outVars, losses, hydfsFails, crashes>>

----------------------------------------------------------------------------
(* The ACK-flush loop: buffer and pendingAcks are taken out under the lock, *)
(* appended to the WAL outside it, and the ACKs are sent whether or not the *)
(* append worked.  A stopped loop finishes the iteration it is in.          *)

Idle == [log |-> LogEmpty, ids |-> {}]

\* Fault: the ACKs go out before the append.
FlushSnapshotAcksFirst(i) ==
  /\ i # Leader /\ MayIterate(i) /\ flushing[i] = Idle
  /\ buffer[i] # LogEmpty \/ pendingAcks[i] # {}
  /\ acks' = acks \cup {[stage |-> i[1] - 1, id |-> t] : t \in pendingAcks[i]}
  /\ flushing'    = [flushing EXCEPT ![i] = [log |-> buffer[i], ids |-> {}]]
  /\ buffer'      = [buffer EXCEPT ![i] = LogEmpty]
  /\ pendingAcks' = [pendingAcks EXCEPT ![i] = {}]
  /\ UNCHANGED <<source, status, epoch, received, sent, wal, procVars, hopVars,
                 outVars, losses, hydfsFails, crashes>>

FlushSnapshot(i) ==
  /\ i # Leader /\ MayIterate(i) /\ flushing[i] = Idle
  /\ buffer[i] # LogEmpty \/ pendingAcks[i] # {}
  /\ flushing'    = [flushing EXCEPT ![i] = [log |-> buffer[i], ids |-> pendingAcks[i]]]
  /\ buffer'      = [buffer EXCEPT ![i] = LogEmpty]
  /\ pendingAcks' = [pendingAcks EXCEPT ![i] = {}]
  /\ UNCHANGED <<source, status, epoch, received, sent, wal, procVars, hopVars, acks,
                 outVars, losses, hydfsFails, crashes>>

SendFlushedAcks(i) ==
  /\ flushing[i] # Idle
  /\ acks' = acks \cup {[stage |-> i[1] - 1, id |-> t] : t \in flushing[i].ids}
  /\ flushing' = [flushing EXCEPT ![i] = Idle]
  /\ UNCHANGED <<source, status, epoch, eomVars, procVars, hopVars, outVars, losses,
                 crashes>>

FlushAppend(i) ==
  /\ SendFlushedAcks(i)
  /\ wal' = [wal EXCEPT ![i[1]] = Replay(@, flushing[i].log)]
  /\ UNCHANGED hydfsFails

FlushAppendFails(i) ==
  /\ hydfsFails < MaxHydfsFail
  /\ hydfsFails' = hydfsFails + 1
  /\ SendFlushedAcks(i)
  /\ UNCHANGED wal

----------------------------------------------------------------------------
(* The output flush loop of the node manager.                               *)

TakeOutput ==
  /\ \E t \in Tuples : outputBuffer[t] > 0
  /\ outputBuffer' = [t \in Tuples |-> 0]
  /\ UNCHANGED <<source, status, epoch, eomVars, flushing, wal, procVars, hopVars,
                 acks, losses, crashes>>

OutputFlush ==
  /\ TakeOutput
  /\ outFile' = [t \in Tuples |-> outFile[t] + outputBuffer[t]]
  /\ UNCHANGED hydfsFails

\* Fault: a batch that was appended although the append failed is kept for the
\* next iteration.
OutputFlushFailsRetried ==
  /\ hydfsFails < MaxHydfsFail
  /\ hydfsFails' = hydfsFails + 1
  /\ outFile' = [t \in Tuples |-> outFile[t] + outputBuffer[t]]
  /\ UNCHANGED <<source, status, epoch, eomVars, flushing, wal, procVars, hopVars,
                 acks, outputBuffer, losses, crashes>>

OutputFlushFails ==
  /\ hydfsFails < MaxHydfsFail
  /\ hydfsFails' = hydfsFails + 1
  /\ TakeOutput
  /\ UNCHANGED outFile

----------------------------------------------------------------------------
(* Kill and restart.  KillTaskProcess stops the manager, kills the process  *)
(* and drops the task's in-memory state; the leader's health monitor sees   *)
(* the Stopped status and has the task initialised again on the same node.  *)

KillTask(s) ==
  /\ status[s] = "Running" /\ epoch[s] < MaxEpoch[s]
  /\ status' = [status EXCEPT ![s] = "Stopped"]
  /\ stdin'  = [stdin EXCEPT ![Cur(s)] = {}]
  /\ IF LateTicks THEN UNCHANGED <<sent, buffer, pendingAcks>>
     ELSE /\ sent'        = [sent EXCEPT ![Cur(s)] = {}]
          /\ buffer'      = [buffer EXCEPT ![Cur(s)] = LogEmpty]
          /\ pendingAcks' = [pendingAcks EXCEPT ![Cur(s)] = {}]
  /\ UNCHANGED <<source, epoch, received, flushing, wal, stdout, crashed, hopVars,
                 acks, outVars, losses, hydfsFails, crashes>>

StartIncarnation(s, rec, snt) ==
  LET i == <<s, epoch[s] + 1>> IN
  /\ status[s] = "Stopped"
  /\ status'   = [status EXCEPT ![s] = "Running"]
  /\ epoch'    = [epoch EXCEPT ![s] = @ + 1]
  /\ received' = [received EXCEPT ![i] =
                    [t \in Tuples |-> IF t \in rec THEN "processed" ELSE "none"]]
  /\ sent'     = [sent EXCEPT ![i] = snt]
  /\ UNCHANGED <<source, buffer, pendingAcks, flushing, wal, procVars, hopVars, acks,
                 outVars, losses, crashes>>

\* Fault: only the received tuples are restored.
RestartTaskForgetsSent(s) ==
  /\ StartIncarnation(s, wal[s].rec, {})
  /\ UNCHANGED hydfsFails

RestartTask(s) ==
  /\ StartIncarnation(s, wal[s].rec, wal[s].sent)
  /\ UNCHANGED hydfsFails

\* The WAL cannot be found or fetched: the task starts with empty maps.
RestartTaskNoWal(s) ==
  /\ hydfsFails < MaxHydfsFail
  /\ hydfsFails' = hydfsFails + 1
  /\ StartIncarnation(s, {}, {})

\* The executable exits by itself.  Nobody waits for it, so it stays a zombie
\* that signal 0 finds alive: the task keeps its Running status.
CrashProcess(s) ==
  /\ status[s] = "Running" /\ ~crashed[Cur(s)] /\ crashes < MaxCrash
  /\ crashes' = crashes + 1
  /\ crashed' = [crashed EXCEPT ![Cur(s)] = TRUE]
  /\ stdin'   = [stdin EXCEPT ![Cur(s)] = {}]
  /\ UNCHANGED <<source, status, epoch, eomVars, flushing, wal, stdout, hopVars,
                 acks, outVars, losses, hydfsFails>>

----------------------------------------------------------------------------
(* A TCP call fails before it is handled; its caller only logs the error.   *)

LoseCall(c) ==
  /\ c \in calls /\ losses < MaxLoss
  /\ losses' = losses + 1
  /\ calls'  = calls \ {c}
  /\ UNCHANGED <<source, status, epoch, eomVars, flushing, wal, procVars, reader,
                 toRetry, retries, acks, outVars, hydfsFails, crashes>>

LoseAck(a) ==
  /\ a \in acks /\ losses < MaxLoss
  /\ losses' = losses + 1
  /\ acks'   = acks \ {a}
  /\ UNCHANGED <<source, status, epoch, eomVars, flushing, wal, procVars, hopVars,
                 outVars, hydfsFails, crashes>>

----------------------------------------------------------------------------
HandleTuple(c) == TupleRejected(c) \/ TupleAccepted(c) \/ TupleDuplicate(c)
HandleCall(c)  == HandleTuple(c) \/ DeliverDuplicateAck(c)

ReadOutput(i, t) == ReadDropped(i, t) \/ ReadFinalOutput(i, t) \/ ReadAndForward(i, t)

InstanceStep(i) ==
  \/ \E t \in Tuples : RunTask(i, t) \/ ReadOutput(i, t) \/ ForwardReturn(i, t)
  \/ \E t \in Tuples : RetrySend(i, t)
  \/ \E R \in SUBSET Tuples : RetryPendingSends(i, R)
  \/ FlushSnapshot(i) \/ FlushAppend(i) \/ FlushAppendFails(i)

TaskStep(s) == KillTask(s) \/ RestartTask(s) \/ RestartTaskNoWal(s) \/ CrashProcess(s)

Next ==
  \/ \E t \in Tuples : EmitTuple(t)
  \/ \E c \in calls : HandleCall(c) \/ LoseCall(c)
  \/ \E a \in acks : DeliverAck(a) \/ LoseAck(a)
  \/ \E i \in Inst : InstanceStep(i)
  \/ \E s \in Stages : TaskStep(s)
  \/ OutputFlush \/ OutputFlushFails

Spec == Init /\ [][Next]_vars

(***************************************************************************)
(* Fairness.  Every goroutine the code starts keeps being scheduled, and a  *)
(* call that is not lost is answered.  The tickers of a manager that is not *)
(* stopped fire for ever, and an entry older than the retry interval is in  *)
(* every snapshot: strong fairness per tuple, since the loop is idle only   *)
(* now and then.  Nothing is assumed of kills, losses, crashes or failing   *)
(* appends, nor of a stopped manager beyond the iteration it is in.         *)
(***************************************************************************)
ReaderLoop(i) == \E t \in Tuples : ReadOutput(i, t) \/ ForwardReturn(i, t)
FlushLoop(i)  == FlushAppend(i) \/ (Live(i) /\ FlushSnapshot(i))

Fairness ==
  /\ WF_vars(\E t \in Tuples : EmitTuple(t))
  /\ WF_vars(OutputFlush)
  /\ \A s \in Stages : WF_vars(RestartTask(s))
  /\ \A s \in Senders, t \in Tuples : WF_vars(DeliverAck([stage |-> s, id |-> t]))
  /\ \A i \in Inst : i[1] \in Stages =>
       /\ WF_vars(\E t \in Tuples : RunTask(i, t))
       /\ WF_vars(ReaderLoop(i))
       /\ WF_vars(FlushLoop(i))
  /\ \A i \in Inst : i[1] \in Senders =>
       /\ WF_vars(\E c \in calls : c.inst = i /\ c.thread = "reader" /\ HandleCall(c))
       /\ WF_vars(\E c \in calls : c.inst = i /\ c.thread = "retry" /\ HandleCall(c))
       /\ WF_vars(\E t \in Tuples : RetrySend(i, t))
       /\ \A t \in Tuples :
            SF_vars(Live(i) /\ \E R \in SUBSET Tuples : t \in R /\ RetryPendingSends(i, R))

FairSpec == Spec /\ Fairness

----------------------------------------------------------------------------
(* Properties.                                                              *)

Marks     == {"none", "pending", "processed"}
CallType  == [inst : {i \in Inst : i[1] \in Senders}, thread : Threads, id : Tuples, phase : {"tuple", "ack"}]
AckType   == [stage : Senders, id : Tuples]
FlushType == [log : Log, ids : SUBSET Tuples]

TaskTypeOK ==
  /\ source \subseteq Tuples
  /\ status \in [Stages -> {"Running", "Stopped"}]
  /\ epoch \in [0..NStages -> Nat \ {0}]
  /\ \A s \in 0..NStages : epoch[s] <= MaxEpoch[s]
  /\ \A s \in Stages : status[s] = "Stopped" => epoch[s] < MaxEpoch[s]
  /\ losses \in Nat /\ hydfsFails \in Nat /\ crashes \in Nat

MapsTypeOK ==
  /\ received \in [Inst -> [Tuples -> Marks]]
  /\ sent \in [Inst -> SUBSET Tuples]
  /\ pendingAcks \in [Inst -> SUBSET Tuples]

LogTypeOK ==
  /\ buffer \in [Inst -> Log]
  /\ flushing \in [Inst -> FlushType]
  /\ wal \in [Stages -> Maps]

ProcTypeOK ==
  /\ stdin \in [Inst -> SUBSET Tuples]
  /\ stdout \in [Inst -> SUBSET Tuples]
  /\ crashed \in [Inst -> BOOLEAN]
  /\ reader \in [Inst -> SUBSET Tuples]

HopTypeOK ==
  /\ toRetry \in [Inst -> SUBSET Tuples]
  /\ retries \in [Inst -> Nat]
  /\ calls \subseteq CallType
  /\ acks \subseteq AckType

OutTypeOK ==
  /\ outputBuffer \in [Tuples -> Nat]
  /\ outFile \in [Tuples -> Nat]

\* Nothing leaves the last stage, and nothing enters the leader.
RolesOK ==
  /\ \A i \in Inst : i[1] = NStages =>
       /\ sent[i] = {} /\ toRetry[i] = {}
       /\ buffer[i].sent = {} /\ flushing[i].log.sent = {}
  /\ wal[NStages].sent = {}
  /\ stdin[Leader] = {} /\ stdout[Leader] = {} /\ reader[Leader] = {}
  /\ pendingAcks[Leader] = {} /\ flushing[Leader] = Idle

\* Every variable keeps its shape; a killed task can be restarted within its
\* bound; only managers with a next stage ever hold sent tuples or open calls;
\* and the leader's manager receives, flushes and acknowledges nothing.
TypeOK ==
  /\ TaskTypeOK /\ MapsTypeOK /\ LogTypeOK /\ ProcTypeOK /\ HopTypeOK /\ OutTypeOK
  /\ RolesOK

\* Some incarnation of stage s has t in its receivedTuples.
Accepted(s, t) == \E i \in Inst : i[1] = s /\ received[i][t] # "none"

\* Instance i is done with t and its output belongs to the next stage.
Forwarded(i, t) ==
  \/ i = Leader /\ t \notin source
  \/ /\ i[1] \in 1..(NStages - 1)
     /\ received[i][t] = "processed"
     /\ Outcome[i[1]][t] = "emit"

\* Every output that a running manager counts as forwarded and that the next stage
\* has not accepted is in its sentTuples, so that the retry loop will send it
\* again: lost calls, kills and restarts, and late flushes of a stopped manager
\* never leave such a tuple with nobody to forward it.
\* (The tasks are on different nodes and no HyDFS operation has failed.)
InFlightRetried ==
  hydfsFails = 0 =>
    \A i \in Inst, t \in Tuples :
      Live(i) /\ Forwarded(i, t) /\ ~Accepted(i[1] + 1, t) => t \in sent[i]

\* The same of the durable state: a WAL with a REC record for a tuple whose output
\* the next stage has not accepted has it as sent and unacknowledged, so a restart
\* at any moment resumes the retries.  This rests on SENT being logged before
\* REC and on a flush appending both in one piece.
DurableInFlight ==
  hydfsFails = 0 =>
    \A s \in 1..(NStages - 1), t \in Tuples :
      /\ t \in wal[s].rec
      /\ Outcome[s][t] = "emit"
      /\ ~Accepted(s + 1, t)
      => t \in wal[s].sent

\* The ACK-flush loop keeps the promise of the README: an ACK it sends is for a
\* tuple whose REC record is in the WAL, also when the task was killed meanwhile.
FlushedAckIsDurable ==
  hydfsFails = 0 => \A a \in acks : a.id \in wal[a.stage + 1].rec

\* An entry leaves the sentTuples of a manager only when the next stage has
\* accepted the tuple (handleACKMessage removes the entry of the right sender).
AckedWasAccepted ==
  [][\A i \in Inst, t \in Tuples :
       t \in sent[i] /\ t \notin sent'[i] /\ Live(i)' => Accepted(i[1] + 1, t)]_vars

\* Retries, lost calls and restarts of the earlier stages never put a tuple into
\* the output twice: each incarnation of the LAST task adds it at most once.
OutputOncePerIncarnation ==
  \A t \in Tuples : outputBuffer[t] + outFile[t] <= epoch[NStages]

\* The tuples that every stage lets through.
Surviving == {t \in Tuples : \A s \in Stages : Outcome[s][t] = "emit"}

\* Every line of the source that no stage filters out reaches the output file, as
\* long as no task is killed, in spite of calls that fail: the retry loops and the
\* output flush loop get it there.
DeliveredUnlessKilled ==
  \A t \in Surviving : <>(outFile[t] > 0 \/ \E s \in Stages : status[s] = "Stopped")

\* Retrying ends: from some moment on no running manager holds an unacknowledged
\* tuple.
RetriesEnd == <>[](\A s \in 0..NStages : sent[Cur(s)] = {})

----------------------------------------------------------------------------
(* What the documents say and the code does not do (run eo_lost).           *)

\* README.md:55: after a failure the new instance replays the WAL, so that every
\* line that no stage filters out reaches the output file all the same.
Delivered == \A t \in Surviving : <>(outFile[t] > 0)
=============================================================================
