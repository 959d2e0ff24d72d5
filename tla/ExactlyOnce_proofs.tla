------------------------- MODULE ExactlyOnce_proofs -------------------------
(***************************************************************************)
(* Proofs about the exactly-once pipeline, for any number of tuples, stages *)
(* and incarnations and any bound on losses and failures.                   *)
(***************************************************************************)
EXTENDS ExactlyOnce, FiniteSetTheorems, TLAPS

\* An instance is a stage together with one of its incarnations.
LEMMA InstFacts ==
  /\ \A i \in Inst : /\ i[1] \in 0..NStages
                     /\ i[2] \in 1..MaxEpoch[i[1]]
                     /\ i = <<i[1], i[2]>>
  /\ \A s \in 0..NStages, e \in Nat \ {0} : e <= MaxEpoch[s] => <<s, e>> \in Inst
  /\ Leader \in Inst
BY StagesAssumption, MaxEpochAssumption DEF Inst, Leader

\* The current instance of a task is an instance, and so is the next one of a
\* killed task.
LEMMA CurFacts ==
  ASSUME TypeOK
  PROVE  /\ \A s \in 0..NStages : Cur(s) \in Inst
         /\ \A s \in Stages : status[s] = "Stopped" => <<s, epoch[s] + 1>> \in Inst
<1>1. ASSUME NEW s \in 0..NStages PROVE Cur(s) \in Inst
  <2>1. epoch[s] \in Nat \ {0} /\ epoch[s] <= MaxEpoch[s]
    BY DEF TypeOK, TaskTypeOK
  <2> QED
    BY <2>1, InstFacts DEF Cur
<1>2. ASSUME NEW s \in Stages, status[s] = "Stopped" PROVE <<s, epoch[s] + 1>> \in Inst
  <2>1. s \in 0..NStages
    BY StagesAssumption DEF Stages
  <2>2. epoch[s] \in Nat \ {0} /\ epoch[s] < MaxEpoch[s] /\ MaxEpoch[s] \in Nat
    BY <1>2, <2>1, MaxEpochAssumption DEF TypeOK, TaskTypeOK
  <2>3. epoch[s] + 1 \in Nat \ {0} /\ epoch[s] + 1 <= MaxEpoch[s]
    BY <2>2
  <2> QED
    BY <2>1, <2>3, InstFacts
<1> QED
  BY <1>1, <1>2


\* The initial state has the types.
LEMMA TypeInit == Init => TypeOK
<1> SUFFICES ASSUME Init PROVE TypeOK
  OBVIOUS
<1> USE InstFacts, StagesAssumption, MaxEpochAssumption DEF Init
<1>1. TaskTypeOK
  BY DEF TaskTypeOK, Stages
<1>2. MapsTypeOK /\ ProcTypeOK /\ HopTypeOK /\ OutTypeOK
  BY DEF MapsTypeOK, ProcTypeOK, HopTypeOK, OutTypeOK, Marks
<1>3. LogTypeOK
  BY DEF LogTypeOK, Log, LogEmpty, FlushType, Maps, MapsEmpty
<1>4. RolesOK
  BY DEF RolesOK, Idle, LogEmpty, MapsEmpty, Stages
<1> QED
  BY <1>1, <1>2, <1>3, <1>4 DEF TypeOK


\* An ACK removes at most one entry, from the sentTuples of one instance.
LEMMA AckEffect ==
  ASSUME TypeOK, NEW s, NEW t, HandleACK(s, t)
  PROVE  \/ UNCHANGED <<sent, buffer>>
         \/ \E i \in AckOwners(s, t) :
              /\ i \in Inst /\ t \in sent[i]
              /\ sent' = [sent EXCEPT ![i] = @ \ {t}]
              /\ buffer' = Logged(i, LogACK(buffer[i], t))
<1>1. ASSUME NEW u \in Stages PROVE Cur(u) \in Inst
  BY CurFacts DEF Stages
<1>2. \A i \in AckOwners(s, t) : i \in Inst /\ t \in sent[i]
  BY <1>1, InstFacts DEF AckOwners
<1> QED
  BY <1>2 DEF HandleACK

\* It keeps the types, and adds no SENT record.
LEMMA AckTypes ==
  ASSUME TypeOK, NEW s, NEW t \in Tuples, HandleACK(s, t)
  PROVE  /\ sent' \in [Inst -> SUBSET Tuples]
         /\ buffer' \in [Inst -> Log]
         /\ \A j \in Inst : /\ sent'[j] \subseteq sent[j]
                            /\ buffer'[j].sent \subseteq buffer[j].sent
<1>1. CASE UNCHANGED <<sent, buffer>>
  BY <1>1 DEF TypeOK, MapsTypeOK, LogTypeOK
<1>2. ASSUME NEW i \in Inst,
             sent' = [sent EXCEPT ![i] = @ \ {t}],
             buffer' = Logged(i, LogACK(buffer[i], t))
      PROVE  /\ sent' \in [Inst -> SUBSET Tuples]
             /\ buffer' \in [Inst -> Log]
             /\ \A j \in Inst : /\ sent'[j] \subseteq sent[j]
                                /\ buffer'[j].sent \subseteq buffer[j].sent
  <2>1. LogACK(buffer[i], t) \in Log /\ LogACK(buffer[i], t).sent \subseteq buffer[i].sent
    BY DEF TypeOK, LogTypeOK, Log, LogACK
  <2>2. buffer' = buffer \/ buffer' = [buffer EXCEPT ![i] = LogACK(buffer[i], t)]
    BY <1>2 DEF Logged, Update
  <2> QED
    BY <1>2, <2>1, <2>2 DEF TypeOK, MapsTypeOK, LogTypeOK
<1> QED
  BY <1>1, <1>2, AckEffect

\* Every step of every action keeps the types.
LEMMA TypeNext == TypeOK /\ [Next]_vars => TypeOK'
<1> SUFFICES ASSUME TypeOK, [Next]_vars PROVE TypeOK'
  OBVIOUS
<1> USE InstFacts, StagesAssumption, MaxEpochAssumption
<1>a. /\ \A s \in 0..NStages : Cur(s) \in Inst
      /\ \A s \in Stages : status[s] = "Stopped" => <<s, epoch[s] + 1>> \in Inst
      /\ Stages = 1..NStages
  BY CurFacts DEF Stages
<1>1. ASSUME NEW t \in Tuples, EmitTuple(t) PROVE TypeOK'
  <2>1. TaskTypeOK'
    BY <1>1 DEF EmitTuple, TypeOK, TaskTypeOK, eomVars, hopVars, outVars, procVars
  <2>2. MapsTypeOK'
    BY <1>1 DEF EmitTuple, TypeOK, MapsTypeOK, SendTuple, Update, Logged, eomVars,
       hopVars, outVars, procVars
  <2>3. LogTypeOK'
    BY <1>1 DEF EmitTuple, TypeOK, LogTypeOK, SendTuple, Update, Logged, LogSENT, Log,
       eomVars, hopVars, outVars, procVars
  <2>4. HopTypeOK'
    BY <1>1 DEF EmitTuple, TypeOK, HopTypeOK, SendTuple, CallType, Call, Threads,
       Senders, Leader, eomVars, hopVars, outVars, procVars
  <2>5. RolesOK'
    BY <1>1 DEF EmitTuple, TypeOK, RolesOK, SendTuple, Update, Logged, Leader, eomVars,
       hopVars, outVars, procVars
  <2>6. ProcTypeOK' /\ OutTypeOK'
    BY <1>1 DEF EmitTuple, TypeOK, ProcTypeOK, OutTypeOK, eomVars, hopVars, outVars,
       procVars
  <2> QED
    BY <2>1, <2>2, <2>3, <2>4, <2>5, <2>6 DEF TypeOK
<1>2. ASSUME NEW c \in calls, TupleRejected(c) PROVE TypeOK'
  <2>1. HopTypeOK'
    BY <1>2 DEF TupleRejected, TypeOK, HopTypeOK, eomVars, hopVars, outVars, procVars
  <2>2. TaskTypeOK' /\ MapsTypeOK' /\ LogTypeOK' /\ ProcTypeOK' /\ OutTypeOK' /\ RolesOK'
    BY <1>2 DEF TupleRejected, TypeOK, TaskTypeOK, MapsTypeOK, LogTypeOK, ProcTypeOK,
       OutTypeOK, RolesOK, eomVars, hopVars, outVars, procVars
  <2> QED
    BY <2>1, <2>2 DEF TypeOK
<1>3. ASSUME NEW c \in calls, TupleAccepted(c) PROVE TypeOK'
  <2>1. MapsTypeOK'
    BY <1>3, <1>a DEF TupleAccepted, TypeOK, MapsTypeOK, Marks, HopTypeOK, CallType,
       Senders, eomVars, hopVars, outVars, procVars
  <2>2. ProcTypeOK'
    BY <1>3, <1>a DEF TupleAccepted, TypeOK, ProcTypeOK, HopTypeOK, CallType, Senders,
       eomVars, hopVars, outVars, procVars
  <2>3. HopTypeOK'
    BY <1>3, <1>a DEF TupleAccepted, TypeOK, HopTypeOK, eomVars, hopVars, outVars,
       procVars
  <2>4. RolesOK'
    BY <1>3, <1>a DEF TupleAccepted, TypeOK, RolesOK, HopTypeOK, CallType, Senders, Cur,
       Leader, eomVars, hopVars, outVars, procVars
  <2>5. TaskTypeOK' /\ LogTypeOK' /\ OutTypeOK'
    BY <1>3 DEF TupleAccepted, TypeOK, TaskTypeOK, LogTypeOK, OutTypeOK, eomVars,
       hopVars, outVars, procVars
  <2> QED
    BY <2>1, <2>2, <2>3, <2>4, <2>5 DEF TypeOK
<1>4. ASSUME NEW c \in calls, TupleDuplicate(c) PROVE TypeOK'
  <2>1. HopTypeOK'
    BY <1>4 DEF TupleDuplicate, TypeOK, HopTypeOK, CallType, eomVars, hopVars, outVars,
       procVars
  <2>2. TaskTypeOK' /\ MapsTypeOK' /\ LogTypeOK' /\ ProcTypeOK' /\ OutTypeOK' /\ RolesOK'
    BY <1>4 DEF TupleDuplicate, TypeOK, TaskTypeOK, MapsTypeOK, LogTypeOK, ProcTypeOK,
       OutTypeOK, RolesOK, eomVars, hopVars, outVars, procVars
  <2> QED
    BY <2>1, <2>2 DEF TypeOK
<1>5. ASSUME NEW a \in acks, DeliverAck(a) PROVE TypeOK'
  <2>1. a.id \in Tuples
    BY DEF TypeOK, HopTypeOK, AckType
  <2>2. /\ sent' \in [Inst -> SUBSET Tuples]
        /\ buffer' \in [Inst -> Log]
        /\ \A j \in Inst : /\ sent'[j] \subseteq sent[j]
                           /\ buffer'[j].sent \subseteq buffer[j].sent
    BY <1>5, <2>1, AckTypes DEF DeliverAck
  <2>3. MapsTypeOK' /\ LogTypeOK'
    BY <1>5, <2>2 DEF DeliverAck, TypeOK, MapsTypeOK, LogTypeOK, hopVars, outVars, procVars
  <2>4. HopTypeOK' /\ TaskTypeOK' /\ ProcTypeOK' /\ OutTypeOK'
    BY <1>5 DEF DeliverAck, TypeOK, HopTypeOK, TaskTypeOK, ProcTypeOK, OutTypeOK, hopVars,
       outVars, procVars
  <2>5. RolesOK'
    BY <1>5, <2>2 DEF DeliverAck, TypeOK, RolesOK, hopVars, outVars, procVars
  <2> QED
    BY <2>3, <2>4, <2>5 DEF TypeOK
<1>6. ASSUME NEW c \in calls, DeliverDuplicateAck(c) PROVE TypeOK'
  <2>1. c.id \in Tuples
    BY DEF TypeOK, HopTypeOK, CallType
  <2>2. /\ sent' \in [Inst -> SUBSET Tuples]
        /\ buffer' \in [Inst -> Log]
        /\ \A j \in Inst : /\ sent'[j] \subseteq sent[j]
                           /\ buffer'[j].sent \subseteq buffer[j].sent
    BY <1>6, <2>1, AckTypes DEF DeliverDuplicateAck
  <2>3. MapsTypeOK' /\ LogTypeOK'
    BY <1>6, <2>2 DEF DeliverDuplicateAck, TypeOK, MapsTypeOK, LogTypeOK, hopVars, outVars, procVars
  <2>4. HopTypeOK' /\ TaskTypeOK' /\ ProcTypeOK' /\ OutTypeOK'
    BY <1>6 DEF DeliverDuplicateAck, TypeOK, HopTypeOK, TaskTypeOK, ProcTypeOK, OutTypeOK, hopVars,
       outVars, procVars
  <2>5. RolesOK'
    BY <1>6, <2>2 DEF DeliverDuplicateAck, TypeOK, RolesOK, hopVars, outVars, procVars
  <2> QED
    BY <2>3, <2>4, <2>5 DEF TypeOK
<1>7. ASSUME NEW i \in Inst, NEW t \in Tuples, RunTask(i, t) PROVE TypeOK'
  <2>1. ProcTypeOK'
    BY <1>7 DEF RunTask, TypeOK, ProcTypeOK, eomVars, hopVars, outVars, procVars
  <2>2. RolesOK'
    BY <1>7 DEF RunTask, TypeOK, RolesOK, ProcTypeOK, eomVars, hopVars, outVars,
       procVars
  <2>3. TaskTypeOK' /\ MapsTypeOK' /\ LogTypeOK' /\ HopTypeOK' /\ OutTypeOK'
    BY <1>7 DEF RunTask, TypeOK, TaskTypeOK, MapsTypeOK, LogTypeOK, HopTypeOK,
       OutTypeOK, eomVars, hopVars, outVars, procVars
  <2> QED
    BY <2>1, <2>2, <2>3 DEF TypeOK
<1>8. ASSUME NEW i \in Inst, NEW t \in Tuples, ReadDropped(i, t) PROVE TypeOK'
  <2>1. MapsTypeOK'
    BY <1>8 DEF ReadDropped, ReadLine, TypeOK, MapsTypeOK, MarkProcessed, Update,
       Logged, Marks, eomVars, hopVars, outVars, procVars
  <2>2. LogTypeOK'
    BY <1>8 DEF ReadDropped, ReadLine, TypeOK, LogTypeOK, MarkProcessed, Update, Logged,
       LogREC, Log, eomVars, hopVars, outVars, procVars
  <2>3. ProcTypeOK'
    BY <1>8 DEF ReadDropped, ReadLine, TypeOK, ProcTypeOK, eomVars, hopVars, outVars,
       procVars
  <2>4. RolesOK'
    BY <1>8 DEF ReadDropped, ReadLine, TypeOK, RolesOK, MarkProcessed, Update, Logged,
       LogREC, ProcTypeOK, LogTypeOK, eomVars, hopVars, outVars, procVars
  <2>5. TaskTypeOK' /\ HopTypeOK' /\ OutTypeOK'
    BY <1>8 DEF ReadDropped, ReadLine, TypeOK, TaskTypeOK, HopTypeOK, OutTypeOK,
       eomVars, hopVars, outVars, procVars
  <2> QED
    BY <2>1, <2>2, <2>3, <2>4, <2>5 DEF TypeOK
<1>9. ASSUME NEW i \in Inst, NEW t \in Tuples, ReadFinalOutput(i, t) PROVE TypeOK'
  <2>1. MapsTypeOK'
    BY <1>9 DEF ReadFinalOutput, ReadLine, TypeOK, MapsTypeOK, MarkProcessed, Update,
       Logged, Marks, eomVars, hopVars, outVars, procVars
  <2>2. LogTypeOK'
    BY <1>9 DEF ReadFinalOutput, ReadLine, TypeOK, LogTypeOK, MarkProcessed, Update,
       Logged, LogREC, Log, eomVars, hopVars, outVars, procVars
  <2>3. ProcTypeOK'
    BY <1>9 DEF ReadFinalOutput, ReadLine, TypeOK, ProcTypeOK, eomVars, hopVars,
       outVars, procVars
  <2>4. OutTypeOK'
    BY <1>9 DEF ReadFinalOutput, ReadLine, TypeOK, OutTypeOK, eomVars, hopVars, outVars,
       procVars
  <2>5. RolesOK'
    BY <1>9 DEF ReadFinalOutput, ReadLine, TypeOK, RolesOK, MarkProcessed, Update,
       Logged, LogREC, ProcTypeOK, LogTypeOK, eomVars, hopVars, outVars, procVars
  <2>6. TaskTypeOK' /\ HopTypeOK'
    BY <1>9 DEF ReadFinalOutput, ReadLine, TypeOK, TaskTypeOK, HopTypeOK, eomVars,
       hopVars, outVars, procVars
  <2> QED
    BY <2>1, <2>2, <2>3, <2>4, <2>5, <2>6 DEF TypeOK
<1>10. ASSUME NEW i \in Inst, NEW t \in Tuples, ReadAndForward(i, t) PROVE TypeOK'
  <2>1. MapsTypeOK'
    BY <1>10 DEF ReadAndForward, ReadLine, TypeOK, MapsTypeOK, SendTuple, Update,
       Logged, eomVars, hopVars, outVars, procVars
  <2>2. LogTypeOK'
    BY <1>10 DEF ReadAndForward, ReadLine, TypeOK, LogTypeOK, SendTuple, Update, Logged,
       LogSENT, Log, eomVars, hopVars, outVars, procVars
  <2>3. ProcTypeOK'
    BY <1>10 DEF ReadAndForward, ReadLine, TypeOK, ProcTypeOK, eomVars, hopVars,
       outVars, procVars
  <2>4. HopTypeOK'
    BY <1>10 DEF ReadAndForward, ReadLine, TypeOK, HopTypeOK, SendTuple, CallType, Call,
       Threads, Senders, IsFinal, eomVars, hopVars, outVars, procVars
  <2>5. RolesOK'
    BY <1>10 DEF ReadAndForward, ReadLine, TypeOK, RolesOK, SendTuple, Update, Logged,
       IsFinal, ProcTypeOK, eomVars, hopVars, outVars, procVars
  <2>6. TaskTypeOK' /\ OutTypeOK'
    BY <1>10 DEF ReadAndForward, ReadLine, TypeOK, TaskTypeOK, OutTypeOK, eomVars,
       hopVars, outVars, procVars
  <2> QED
    BY <2>1, <2>2, <2>3, <2>4, <2>5, <2>6 DEF TypeOK
<1>11. ASSUME NEW i \in Inst, NEW t \in Tuples, ForwardReturn(i, t) PROVE TypeOK'
  <2>1. MapsTypeOK'
    BY <1>11 DEF ForwardReturn, TypeOK, MapsTypeOK, MarkProcessed, Update, Logged,
       Marks, eomVars, hopVars, outVars, procVars
  <2>2. LogTypeOK'
    BY <1>11 DEF ForwardReturn, TypeOK, LogTypeOK, MarkProcessed, Update, Logged,
       LogREC, Log, eomVars, hopVars, outVars, procVars
  <2>3. ProcTypeOK'
    BY <1>11 DEF ForwardReturn, TypeOK, ProcTypeOK, eomVars, hopVars, outVars, procVars
  <2>4. RolesOK'
    <3>1. i # Leader /\ (i[1] = NStages => LogREC(buffer[i], t).sent = {})
      BY <1>11 DEF ForwardReturn, TypeOK, RolesOK, LogREC
    <3>2. /\ \/ buffer' = buffer
             \/ buffer' = [buffer EXCEPT ![i] = LogREC(buffer[i], t)]
          /\ \/ pendingAcks' = pendingAcks
             \/ pendingAcks' = [pendingAcks EXCEPT ![i] = @ \cup {t}]
          /\ reader' = [reader EXCEPT ![i] = {}]
          /\ UNCHANGED <<sent, flushing, wal, stdin, stdout, toRetry>>
      BY <1>11 DEF ForwardReturn, MarkProcessed, Update, Logged, procVars
    <3> QED
      BY <3>1, <3>2 DEF TypeOK, RolesOK, ProcTypeOK, LogTypeOK, MapsTypeOK
  <2>5. TaskTypeOK' /\ HopTypeOK' /\ OutTypeOK'
    BY <1>11 DEF ForwardReturn, TypeOK, TaskTypeOK, HopTypeOK, OutTypeOK, eomVars,
       hopVars, outVars, procVars
  <2> QED
    BY <2>1, <2>2, <2>3, <2>4, <2>5 DEF TypeOK
<1>12. ASSUME NEW i \in Inst, NEW t \in Tuples, RetrySend(i, t) PROVE TypeOK'
  <2>1. MapsTypeOK'
    BY <1>12 DEF RetrySend, TypeOK, MapsTypeOK, SendTuple, Update, Logged, eomVars,
       hopVars, outVars, procVars
  <2>2. LogTypeOK'
    BY <1>12 DEF RetrySend, TypeOK, LogTypeOK, SendTuple, Update, Logged, LogSENT, Log,
       eomVars, hopVars, outVars, procVars
  <2>3. HopTypeOK'
    BY <1>12 DEF RetrySend, TypeOK, HopTypeOK, SendTuple, CallType, Call, Threads,
       Senders, RolesOK, eomVars, hopVars, outVars, procVars
  <2>4. RolesOK'
    BY <1>12 DEF RetrySend, TypeOK, RolesOK, SendTuple, Update, Logged, HopTypeOK,
       eomVars, hopVars, outVars, procVars
  <2>5. TaskTypeOK' /\ ProcTypeOK' /\ OutTypeOK'
    BY <1>12 DEF RetrySend, TypeOK, TaskTypeOK, ProcTypeOK, OutTypeOK, eomVars, hopVars,
       outVars, procVars
  <2> QED
    BY <2>1, <2>2, <2>3, <2>4, <2>5 DEF TypeOK
<1>13. ASSUME NEW i \in Inst, NEW R \in SUBSET Tuples, RetryPendingSends(i, R) PROVE TypeOK'
  <2>1. HopTypeOK'
    BY <1>13 DEF RetryPendingSends, TypeOK, HopTypeOK, eomVars, hopVars, outVars,
       procVars
  <2>2. RolesOK'
    BY <1>13 DEF RetryPendingSends, TypeOK, RolesOK, HopTypeOK, eomVars, hopVars,
       outVars, procVars
  <2>3. TaskTypeOK' /\ MapsTypeOK' /\ LogTypeOK' /\ ProcTypeOK' /\ OutTypeOK'
    BY <1>13 DEF RetryPendingSends, TypeOK, TaskTypeOK, MapsTypeOK, LogTypeOK,
       ProcTypeOK, OutTypeOK, eomVars, hopVars, outVars, procVars
  <2> QED
    BY <2>1, <2>2, <2>3 DEF TypeOK
<1>14. ASSUME NEW i \in Inst, FlushSnapshot(i) PROVE TypeOK'
  <2>1. MapsTypeOK'
    BY <1>14 DEF FlushSnapshot, TypeOK, MapsTypeOK, eomVars, hopVars, outVars, procVars
  <2>2. LogTypeOK'
    BY <1>14 DEF FlushSnapshot, TypeOK, LogTypeOK, FlushType, Log, LogEmpty, MapsTypeOK,
       eomVars, hopVars, outVars, procVars
  <2>3. RolesOK'
    BY <1>14 DEF FlushSnapshot, TypeOK, RolesOK, LogEmpty, LogTypeOK, MapsTypeOK,
       eomVars, hopVars, outVars, procVars
  <2>4. TaskTypeOK' /\ ProcTypeOK' /\ HopTypeOK' /\ OutTypeOK'
    BY <1>14 DEF FlushSnapshot, TypeOK, TaskTypeOK, ProcTypeOK, HopTypeOK, OutTypeOK,
       eomVars, hopVars, outVars, procVars
  <2> QED
    BY <2>1, <2>2, <2>3, <2>4 DEF TypeOK
<1>15. ASSUME NEW i \in Inst, FlushAppend(i) PROVE TypeOK'
  <2>1. LogTypeOK'
    BY <1>15, <1>a DEF FlushAppend, SendFlushedAcks, TypeOK, LogTypeOK, Replay, Maps,
       FlushType, Log, LogEmpty, Idle, RolesOK, Leader, Stages, eomVars, hopVars,
       outVars, procVars
  <2>2. HopTypeOK'
    <3>1. i # Leader /\ flushing[i].ids \subseteq Tuples
      BY <1>15 DEF FlushAppend, SendFlushedAcks, TypeOK, RolesOK, LogTypeOK, FlushType
    <3>2. i[1] - 1 \in Senders
      BY <3>1 DEF Senders, Leader
    <3>3. acks' \subseteq AckType
      BY <1>15, <3>1, <3>2 DEF FlushAppend, SendFlushedAcks, TypeOK, HopTypeOK, AckType
    <3> QED
      BY <1>15, <3>3 DEF FlushAppend, SendFlushedAcks, TypeOK, HopTypeOK, hopVars
  <2>3. RolesOK'
    <3>0. i # Leader
      BY <1>15 DEF FlushAppend, SendFlushedAcks, TypeOK, RolesOK
    <3>1. i[1] \in Stages
      BY <3>0, InstFacts DEF Stages, Leader
    <3>3. wal'[NStages].sent = {}
      <4>1. CASE i[1] = NStages
        <5>1. wal'[NStages] = Replay(wal[NStages], flushing[i].log)
          BY <1>15, <3>1, <4>1 DEF FlushAppend, TypeOK, LogTypeOK
        <5>2. wal[NStages].sent = {} /\ flushing[i].log.sent = {}
          BY <4>1 DEF TypeOK, RolesOK
        <5> QED
          BY <5>1, <5>2 DEF Replay
      <4>2. CASE i[1] # NStages
        <5>1. NStages \in Stages
          BY StagesAssumption DEF Stages
        <5>2. wal'[NStages] = wal[NStages]
          BY <1>15, <3>1, <4>2, <5>1 DEF FlushAppend, TypeOK, LogTypeOK
        <5> QED
          BY <5>2 DEF TypeOK, RolesOK
      <4> QED
        BY <4>1, <4>2
    <3>4. Idle.log.sent = {}
      BY DEF Idle, LogEmpty
    <3> QED
      BY <1>15, <3>3, <3>4 DEF FlushAppend, SendFlushedAcks, TypeOK, RolesOK, LogTypeOK,
         eomVars, hopVars, procVars
  <2>4. TaskTypeOK' /\ MapsTypeOK' /\ ProcTypeOK' /\ OutTypeOK'
    BY <1>15 DEF FlushAppend, SendFlushedAcks, TypeOK, TaskTypeOK, MapsTypeOK,
       ProcTypeOK, OutTypeOK, eomVars, hopVars, outVars, procVars
  <2> QED
    BY <2>1, <2>2, <2>3, <2>4 DEF TypeOK
<1>16. ASSUME NEW i \in Inst, FlushAppendFails(i) PROVE TypeOK'
  <2>1. TaskTypeOK'
    BY <1>16 DEF FlushAppendFails, SendFlushedAcks, TypeOK, TaskTypeOK, eomVars,
       hopVars, outVars, procVars
  <2>2. LogTypeOK'
    BY <1>16, <1>a DEF FlushAppendFails, SendFlushedAcks, TypeOK, LogTypeOK, FlushType,
       Log, LogEmpty, Idle, eomVars, hopVars, outVars, procVars
  <2>3. HopTypeOK'
    <3>1. i # Leader /\ flushing[i].ids \subseteq Tuples
      BY <1>16 DEF FlushAppendFails, SendFlushedAcks, TypeOK, RolesOK, LogTypeOK, FlushType
    <3>2. i[1] - 1 \in Senders
      BY <3>1 DEF Senders, Leader
    <3>3. acks' \subseteq AckType
      BY <1>16, <3>1, <3>2 DEF FlushAppendFails, SendFlushedAcks, TypeOK, HopTypeOK, AckType
    <3> QED
      BY <1>16, <3>3 DEF FlushAppendFails, SendFlushedAcks, TypeOK, HopTypeOK, hopVars
  <2>4. RolesOK'
    BY <1>16, <1>a DEF FlushAppendFails, SendFlushedAcks, TypeOK, RolesOK, LogTypeOK,
       LogEmpty, Idle, eomVars, hopVars, outVars, procVars
  <2>5. MapsTypeOK' /\ ProcTypeOK' /\ OutTypeOK'
    BY <1>16 DEF FlushAppendFails, SendFlushedAcks, TypeOK, MapsTypeOK, ProcTypeOK,
       OutTypeOK, eomVars, hopVars, outVars, procVars
  <2> QED
    BY <2>1, <2>2, <2>3, <2>4, <2>5 DEF TypeOK
<1>17. ASSUME NEW s \in Stages, KillTask(s) PROVE TypeOK'
  <2>1. TaskTypeOK'
    BY <1>17, <1>a DEF KillTask, TypeOK, TaskTypeOK, Stages, eomVars, hopVars, outVars,
       procVars
  <2>2. MapsTypeOK'
    BY <1>17, <1>a DEF KillTask, TypeOK, MapsTypeOK, eomVars, hopVars, outVars, procVars
  <2>3. LogTypeOK'
    <3>1. LogEmpty \in Log /\ Cur(s) \in Inst
      BY <1>a DEF Log, LogEmpty
    <3>2. buffer' = buffer \/ buffer' = [buffer EXCEPT ![Cur(s)] = LogEmpty]
      BY <1>17 DEF KillTask
    <3> QED
      BY <1>17, <3>1, <3>2 DEF KillTask, TypeOK, LogTypeOK
  <2>4. ProcTypeOK'
    BY <1>17, <1>a DEF KillTask, TypeOK, ProcTypeOK, eomVars, hopVars, outVars, procVars
  <2>5. RolesOK'
    <3>1. Cur(s) \in Inst /\ Cur(s) # Leader /\ LogEmpty.sent = {}
      BY <1>a DEF LogEmpty, Cur, Leader
    <3>2. /\ buffer' = buffer \/ buffer' = [buffer EXCEPT ![Cur(s)] = LogEmpty]
          /\ sent' = sent \/ sent' = [sent EXCEPT ![Cur(s)] = {}]
          /\ pendingAcks' = pendingAcks \/ pendingAcks' = [pendingAcks EXCEPT ![Cur(s)] = {}]
          /\ stdin' = [stdin EXCEPT ![Cur(s)] = {}]
          /\ UNCHANGED <<flushing, wal, stdout, reader, toRetry>>
      BY <1>17 DEF KillTask, hopVars
    <3> QED
      BY <3>1, <3>2 DEF TypeOK, RolesOK, ProcTypeOK, LogTypeOK, MapsTypeOK
  <2>6. HopTypeOK' /\ OutTypeOK'
    BY <1>17 DEF KillTask, TypeOK, HopTypeOK, OutTypeOK, eomVars, hopVars, outVars,
       procVars
  <2> QED
    BY <2>1, <2>2, <2>3, <2>4, <2>5, <2>6 DEF TypeOK
<1>18. ASSUME NEW s \in Stages, RestartTask(s) PROVE TypeOK'
  <2>1. TaskTypeOK'
    BY <1>18 DEF RestartTask, StartIncarnation, TypeOK, TaskTypeOK, Stages, eomVars,
       hopVars, outVars, procVars
  <2>2. MapsTypeOK'
    BY <1>18, <1>a DEF RestartTask, StartIncarnation, TypeOK, MapsTypeOK, Marks,
       LogTypeOK, Maps, eomVars, hopVars, outVars, procVars
  <2>3. RolesOK'
    <3> DEFINE i == <<s, epoch[s] + 1>>
    <3>1. i \in Inst /\ (s = NStages => wal[s].sent = {}) /\ i[1] = s
      BY <1>18, <1>a DEF RestartTask, StartIncarnation, TypeOK, RolesOK
    <3>2. /\ sent' = [sent EXCEPT ![i] = wal[s].sent]
          /\ UNCHANGED <<buffer, pendingAcks, flushing, wal, stdin, stdout, reader, toRetry>>
      BY <1>18 DEF RestartTask, StartIncarnation, procVars, hopVars
    <3> HIDE DEF i
    <3> QED
      BY <3>1, <3>2 DEF TypeOK, RolesOK, MapsTypeOK
  <2>4. LogTypeOK' /\ ProcTypeOK' /\ HopTypeOK' /\ OutTypeOK'
    BY <1>18 DEF RestartTask, StartIncarnation, TypeOK, LogTypeOK, ProcTypeOK,
       HopTypeOK, OutTypeOK, eomVars, hopVars, outVars, procVars
  <2> QED
    BY <2>1, <2>2, <2>3, <2>4 DEF TypeOK
<1>19. ASSUME NEW s \in Stages, RestartTaskNoWal(s) PROVE TypeOK'
  <2>1. TaskTypeOK'
    BY <1>19 DEF RestartTaskNoWal, StartIncarnation, TypeOK, TaskTypeOK, Stages,
       eomVars, hopVars, outVars, procVars
  <2>2. MapsTypeOK'
    BY <1>19, <1>a DEF RestartTaskNoWal, StartIncarnation, TypeOK, MapsTypeOK, Marks,
       eomVars, hopVars, outVars, procVars
  <2>3. RolesOK'
    BY <1>19, <1>a DEF RestartTaskNoWal, StartIncarnation, TypeOK, RolesOK, MapsTypeOK,
       Leader, Stages, eomVars, hopVars, outVars, procVars
  <2>4. LogTypeOK' /\ ProcTypeOK' /\ HopTypeOK' /\ OutTypeOK'
    BY <1>19 DEF RestartTaskNoWal, StartIncarnation, TypeOK, LogTypeOK, ProcTypeOK,
       HopTypeOK, OutTypeOK, eomVars, hopVars, outVars, procVars
  <2> QED
    BY <2>1, <2>2, <2>3, <2>4 DEF TypeOK
<1>20. ASSUME NEW s \in Stages, CrashProcess(s) PROVE TypeOK'
  <2>1. TaskTypeOK'
    BY <1>20 DEF CrashProcess, TypeOK, TaskTypeOK, eomVars, hopVars, outVars, procVars
  <2>2. ProcTypeOK'
    BY <1>20, <1>a DEF CrashProcess, TypeOK, ProcTypeOK, eomVars, hopVars, outVars,
       procVars
  <2>3. RolesOK'
    BY <1>20, <1>a DEF CrashProcess, TypeOK, RolesOK, ProcTypeOK, eomVars, hopVars,
       outVars, procVars
  <2>4. MapsTypeOK' /\ LogTypeOK' /\ HopTypeOK' /\ OutTypeOK'
    BY <1>20 DEF CrashProcess, TypeOK, MapsTypeOK, LogTypeOK, HopTypeOK, OutTypeOK,
       eomVars, hopVars, outVars, procVars
  <2> QED
    BY <2>1, <2>2, <2>3, <2>4 DEF TypeOK
<1>21. ASSUME NEW c \in calls, LoseCall(c) PROVE TypeOK'
  <2>1. TaskTypeOK'
    BY <1>21 DEF LoseCall, TypeOK, TaskTypeOK, eomVars, hopVars, outVars, procVars
  <2>2. HopTypeOK'
    BY <1>21 DEF LoseCall, TypeOK, HopTypeOK, eomVars, hopVars, outVars, procVars
  <2>3. MapsTypeOK' /\ LogTypeOK' /\ ProcTypeOK' /\ OutTypeOK' /\ RolesOK'
    BY <1>21 DEF LoseCall, TypeOK, MapsTypeOK, LogTypeOK, ProcTypeOK, OutTypeOK,
       RolesOK, eomVars, hopVars, outVars, procVars
  <2> QED
    BY <2>1, <2>2, <2>3 DEF TypeOK
<1>22. ASSUME NEW a \in acks, LoseAck(a) PROVE TypeOK'
  <2>1. TaskTypeOK'
    BY <1>22 DEF LoseAck, TypeOK, TaskTypeOK, eomVars, hopVars, outVars, procVars
  <2>2. HopTypeOK'
    BY <1>22 DEF LoseAck, TypeOK, HopTypeOK, eomVars, hopVars, outVars, procVars
  <2>3. MapsTypeOK' /\ LogTypeOK' /\ ProcTypeOK' /\ OutTypeOK' /\ RolesOK'
    BY <1>22 DEF LoseAck, TypeOK, MapsTypeOK, LogTypeOK, ProcTypeOK, OutTypeOK, RolesOK,
       eomVars, hopVars, outVars, procVars
  <2> QED
    BY <2>1, <2>2, <2>3 DEF TypeOK
<1>23. CASE OutputFlush
  <2>1. OutTypeOK'
    BY <1>23 DEF OutputFlush, TakeOutput, TypeOK, OutTypeOK, eomVars, hopVars, outVars,
       procVars
  <2>2. TaskTypeOK' /\ MapsTypeOK' /\ LogTypeOK' /\ ProcTypeOK' /\ HopTypeOK' /\ RolesOK'
    BY <1>23 DEF OutputFlush, TakeOutput, TypeOK, TaskTypeOK, MapsTypeOK, LogTypeOK,
       ProcTypeOK, HopTypeOK, RolesOK, eomVars, hopVars, outVars, procVars
  <2> QED
    BY <2>1, <2>2 DEF TypeOK
<1>24. CASE OutputFlushFails
  <2>1. TaskTypeOK'
    BY <1>24 DEF OutputFlushFails, TakeOutput, TypeOK, TaskTypeOK, eomVars, hopVars,
       outVars, procVars
  <2>2. OutTypeOK'
    BY <1>24 DEF OutputFlushFails, TakeOutput, TypeOK, OutTypeOK, eomVars, hopVars,
       outVars, procVars
  <2>3. MapsTypeOK' /\ LogTypeOK' /\ ProcTypeOK' /\ HopTypeOK' /\ RolesOK'
    BY <1>24 DEF OutputFlushFails, TakeOutput, TypeOK, MapsTypeOK, LogTypeOK,
       ProcTypeOK, HopTypeOK, RolesOK, eomVars, hopVars, outVars, procVars
  <2> QED
    BY <2>1, <2>2, <2>3 DEF TypeOK
<1>25. CASE UNCHANGED vars
  BY <1>25 DEF vars, TypeOK, TaskTypeOK, MapsTypeOK, LogTypeOK, ProcTypeOK, HopTypeOK,
     OutTypeOK, RolesOK
<1> QED
  BY <1>1, <1>2, <1>3, <1>4, <1>5, <1>6, <1>7, <1>8, <1>9, <1>10, <1>11, <1>12, <1>13,
     <1>14, <1>15, <1>16, <1>17, <1>18, <1>19, <1>20, <1>21, <1>22, <1>23, <1>24, <1>25
     DEF Next, HandleCall, HandleTuple, InstanceStep, TaskStep, ReadOutput

\* The state of the pipeline keeps its shape in every behaviour.
THEOREM TypeCorrect == Spec => []TypeOK
BY TypeInit, TypeNext, PTL DEF Spec

----------------------------------------------------------------------------
(* The ACKs of the flush loop are durable: while no HyDFS operation fails,  *)
(* an ACK that the loop sends is for a tuple with a REC record in the WAL.  *)

\* An ACK is buffered together with its REC record, and taken out with it.
AckWithRecord ==
  \A i \in Inst : /\ pendingAcks[i] \subseteq buffer[i].rec
                  /\ flushing[i].ids \subseteq flushing[i].log.rec

ackVars == <<buffer, pendingAcks, flushing, wal, acks, hydfsFails>>

\* Nothing is pending and nothing is acknowledged at the start.
LEMMA AckWithRecordInit == Init => AckWithRecord /\ FlushedAckIsDurable
BY DEF Init, AckWithRecord, FlushedAckIsDurable, LogEmpty

\* A pending ACK and its REC record move together: from the manager to the flush
\* in progress, and from there the record to the WAL with the ACK on its way.
LEMMA AckWithRecordNext ==
  ASSUME TypeOK, AckWithRecord, FlushedAckIsDurable, [Next]_vars
  PROVE  AckWithRecord' /\ FlushedAckIsDurable'
<1> DEFINE Inv == AckWithRecord /\ FlushedAckIsDurable
<1>c. /\ buffer \in [Inst -> Log] /\ pendingAcks \in [Inst -> SUBSET Tuples]
      /\ flushing \in [Inst -> FlushType] /\ wal \in [Stages -> Maps]
      /\ acks \subseteq AckType /\ hydfsFails \in Nat
  BY DEF TypeOK, TaskTypeOK, MapsTypeOK, LogTypeOK, HopTypeOK
<1>1. CASE UNCHANGED ackVars
  BY <1>1 DEF ackVars, AckWithRecord, FlushedAckIsDurable
\* A step that only adds records to a buffer, or a REC record with its ACK.
<1>2. ASSUME NEW i \in Inst, NEW l, l.rec = buffer[i].rec,
             buffer' \in {buffer, [buffer EXCEPT ![i] = l]},
             UNCHANGED <<pendingAcks, flushing, wal, acks, hydfsFails>>
      PROVE  Inv'
  BY <1>2, <1>c DEF AckWithRecord, FlushedAckIsDurable
<1>3. ASSUME NEW i \in Inst, NEW t \in Tuples, MarkProcessed(i, t), i # Leader,
             UNCHANGED <<flushing, wal, acks, hydfsFails>>
      PROVE  Inv'
  <2>1. CASE MayIterate(i)
    <3>1. /\ buffer' = [buffer EXCEPT ![i] = LogREC(buffer[i], t)]
          /\ pendingAcks' = [pendingAcks EXCEPT ![i] = pendingAcks[i] \cup {t}]
      BY <1>3, <2>1 DEF MarkProcessed, Logged, Update
    <3>2. LogREC(buffer[i], t).rec = buffer[i].rec \cup {t}
      BY DEF LogREC
    <3>3. AckWithRecord'
      BY <1>3, <1>c, <3>1, <3>2 DEF AckWithRecord
    <3> QED
      BY <1>3, <3>3 DEF FlushedAckIsDurable
  <2>2. CASE ~MayIterate(i)
    <3>1. UNCHANGED ackVars
      BY <1>3, <2>2 DEF MarkProcessed, Logged, Update, ackVars
    <3> QED
      BY <3>1, <1>1
  <2> QED
    BY <2>1, <2>2
<1>4. ASSUME NEW i \in Inst, NEW th, NEW t, SendTuple(i, th, t),
             UNCHANGED <<pendingAcks, flushing, wal, acks, hydfsFails>>
      PROVE  Inv'
  <2>1. LogSENT(buffer[i], t).rec = buffer[i].rec
    BY DEF LogSENT
  <2>2. buffer' \in {buffer, [buffer EXCEPT ![i] = LogSENT(buffer[i], t)]}
    BY <1>4 DEF SendTuple, Logged, Update
  <2> QED
    BY <1>2, <1>4, <2>1, <2>2
<1>5. ASSUME NEW s, NEW t, HandleACK(s, t),
             UNCHANGED <<pendingAcks, flushing, wal, hydfsFails>>, acks' \subseteq acks
      PROVE  Inv'
  <2>1. CASE UNCHANGED <<sent, buffer>>
    BY <1>5, <2>1 DEF AckWithRecord, FlushedAckIsDurable
  <2>2. ASSUME NEW i \in Inst, buffer' = Logged(i, LogACK(buffer[i], t)) PROVE Inv'
    <3>1. LogACK(buffer[i], t).rec = buffer[i].rec
      BY DEF LogACK
    <3>2. buffer' \in {buffer, [buffer EXCEPT ![i] = LogACK(buffer[i], t)]}
      BY <2>2 DEF Logged, Update
    <3> QED
      BY <1>5, <1>c, <3>1, <3>2 DEF AckWithRecord, FlushedAckIsDurable
  <2> QED
    BY <1>5, <2>1, <2>2, AckEffect
<1>6. ASSUME NEW i \in Inst, FlushSnapshot(i) PROVE Inv'
  <2>1. /\ flushing' = [flushing EXCEPT ![i] = [log |-> buffer[i], ids |-> pendingAcks[i]]]
        /\ buffer' = [buffer EXCEPT ![i] = LogEmpty]
        /\ pendingAcks' = [pendingAcks EXCEPT ![i] = {}]
        /\ UNCHANGED <<wal, acks, hydfsFails>>
    BY <1>6 DEF FlushSnapshot
  <2>2. AckWithRecord'
    BY <2>1, <1>c DEF AckWithRecord
  <2> QED
    BY <2>1, <2>2 DEF FlushedAckIsDurable
<1>7. ASSUME NEW i \in Inst, FlushAppend(i) PROVE Inv'
  <2>1. /\ acks' = acks \cup {[stage |-> i[1] - 1, id |-> t] : t \in flushing[i].ids}
        /\ flushing' = [flushing EXCEPT ![i] = Idle]
        /\ wal' = [wal EXCEPT ![i[1]] = Replay(@, flushing[i].log)]
        /\ UNCHANGED <<buffer, pendingAcks, hydfsFails>>
    BY <1>7 DEF FlushAppend, SendFlushedAcks, eomVars
  <2>2. AckWithRecord'
    BY <2>1, <1>c DEF AckWithRecord, Idle
  <2>3. i[1] \in Stages
    <3>1. i # Leader
      BY <1>7 DEF FlushAppend, SendFlushedAcks, TypeOK, RolesOK
    <3> QED
      BY <3>1, InstFacts, MaxEpochAssumption DEF Stages, Leader
  <2>4. wal'[i[1]].rec = wal[i[1]].rec \cup flushing[i].log.rec
    BY <2>1, <2>3, <1>c DEF Replay
  <2>5. \A s \in Stages : wal[s].rec \subseteq wal'[s].rec
    BY <2>1, <2>3, <2>4, <1>c
  <2>6. ASSUME hydfsFails' = 0, NEW a \in acks' PROVE a.id \in wal'[a.stage + 1].rec
    <3>1. CASE a \in acks
      <4>1. a.id \in wal[a.stage + 1].rec
        BY <2>1, <2>6, <3>1 DEF FlushedAckIsDurable
      <4>2. a.stage + 1 \in Stages
        BY <1>c, <3>1, StagesAssumption DEF AckType, Senders, Stages
      <4> QED
        BY <4>1, <4>2, <2>5
    <3>2. ASSUME NEW t \in flushing[i].ids, a = [stage |-> i[1] - 1, id |-> t]
          PROVE  a.id \in wal'[a.stage + 1].rec
      <4>1. t \in flushing[i].log.rec
        BY DEF AckWithRecord
      <4>2. a.stage + 1 = i[1] /\ a.id = t
        BY <3>2, <2>3 DEF Stages
      <4> QED
        BY <4>1, <4>2, <2>4
    <3> QED
      BY <2>1, <2>6, <3>1, <3>2
  <2> QED
    BY <2>2, <2>6 DEF FlushedAckIsDurable
<1>8. ASSUME NEW i \in Inst, FlushAppendFails(i) PROVE Inv'
  <2>1. flushing' = [flushing EXCEPT ![i] = Idle] /\ UNCHANGED <<buffer, pendingAcks>>
    BY <1>8 DEF FlushAppendFails, SendFlushedAcks, eomVars
  <2>2. AckWithRecord'
    BY <2>1, <1>c DEF AckWithRecord, Idle
  <2>3. hydfsFails' # 0
    BY <1>8, <1>c DEF FlushAppendFails
  <2> QED
    BY <2>2, <2>3 DEF FlushedAckIsDurable
<1>9. ASSUME NEW s \in Stages, KillTask(s) PROVE Inv'
  <2>1. /\ \/ UNCHANGED <<buffer, pendingAcks>>
           \/ /\ buffer' = [buffer EXCEPT ![Cur(s)] = LogEmpty]
              /\ pendingAcks' = [pendingAcks EXCEPT ![Cur(s)] = {}]
        /\ UNCHANGED <<flushing, wal, acks, hydfsFails>>
    BY <1>9 DEF KillTask
  <2>2. AckWithRecord'
    BY <2>1, <1>c DEF AckWithRecord
  <2> QED
    BY <2>1, <2>2 DEF FlushedAckIsDurable
<1>10. ASSUME AckWithRecord', acks' \subseteq acks, UNCHANGED wal, hydfsFails' = 0 => hydfsFails = 0
       PROVE  Inv'
  BY <1>10 DEF FlushedAckIsDurable
<1>11. ASSUME NEW t \in Tuples, EmitTuple(t) PROVE Inv'
  BY <1>11, <1>4, InstFacts DEF EmitTuple
<1>12. ASSUME NEW c \in calls, HandleCall(c) \/ LoseCall(c) PROVE Inv'
  <2>1. CASE HandleTuple(c) \/ LoseCall(c)
    <3>1. UNCHANGED ackVars
      BY <2>1 DEF ackVars, HandleTuple, TupleRejected, TupleAccepted, TupleDuplicate,
         LoseCall, eomVars
    <3> QED
      BY <3>1, <1>1
  <2>2. CASE DeliverDuplicateAck(c)
    BY <2>2, <1>5 DEF DeliverDuplicateAck
  <2> QED
    BY <1>12, <2>1, <2>2 DEF HandleCall
<1>13. ASSUME NEW a \in acks, DeliverAck(a) PROVE Inv'
  <2>1. acks' \subseteq acks /\ HandleACK(a.stage, a.id) /\ UNCHANGED <<pendingAcks, flushing, wal, hydfsFails>>
    BY <1>13 DEF DeliverAck
  <2> QED
    BY <2>1, <1>5
<1>14. ASSUME NEW a \in acks, LoseAck(a) PROVE Inv'
  <2>1. UNCHANGED <<buffer, pendingAcks, flushing, wal, hydfsFails>> /\ acks' \subseteq acks
    BY <1>14 DEF LoseAck, eomVars
  <2>2. AckWithRecord'
    BY <2>1 DEF AckWithRecord
  <2> QED
    BY <2>1, <2>2, <1>10
<1>15. ASSUME NEW i \in Inst, NEW t \in Tuples,
              ReadDropped(i, t) \/ ReadFinalOutput(i, t) \/ ForwardReturn(i, t)
       PROVE  Inv'
  <2>1. i # Leader
    BY <1>15 DEF ReadDropped, ReadFinalOutput, ForwardReturn, ReadLine, TypeOK, RolesOK
  <2> QED
    BY <1>15, <1>3, <2>1 DEF ReadDropped, ReadFinalOutput, ForwardReturn
<1>16. ASSUME NEW i \in Inst, NEW t \in Tuples, ReadAndForward(i, t) \/ RetrySend(i, t)
       PROVE  Inv'
  BY <1>16, <1>4 DEF ReadAndForward, RetrySend
<1>17. ASSUME NEW i \in Inst, NEW t \in Tuples, RunTask(i, t) PROVE Inv'
  BY <1>17, <1>1 DEF RunTask, ackVars, eomVars
<1>18. ASSUME NEW i \in Inst, NEW R, RetryPendingSends(i, R) PROVE Inv'
  BY <1>18, <1>1 DEF RetryPendingSends, ackVars, eomVars
<1>19. ASSUME NEW s \in Stages, RestartTask(s) PROVE Inv'
  BY <1>19, <1>1 DEF RestartTask, StartIncarnation, ackVars
<1>20. ASSUME NEW s \in Stages, RestartTaskNoWal(s) PROVE Inv'
  <2>1. hydfsFails' # 0 /\ UNCHANGED <<buffer, pendingAcks, flushing>>
    BY <1>20, <1>c DEF RestartTaskNoWal, StartIncarnation
  <2> QED
    BY <2>1 DEF AckWithRecord, FlushedAckIsDurable
<1>21. ASSUME NEW s \in Stages, CrashProcess(s) PROVE Inv'
  BY <1>21, <1>1 DEF CrashProcess, ackVars, eomVars
<1>22. CASE OutputFlush
  BY <1>22, <1>1 DEF OutputFlush, TakeOutput, ackVars, eomVars
<1>23. CASE OutputFlushFails
  <2>1. hydfsFails' # 0 /\ UNCHANGED <<buffer, pendingAcks, flushing>>
    BY <1>23, <1>c DEF OutputFlushFails, TakeOutput, eomVars
  <2> QED
    BY <2>1 DEF AckWithRecord, FlushedAckIsDurable
<1>24. CASE UNCHANGED vars
  BY <1>24, <1>1 DEF vars, ackVars
<1> QED
  BY <1>6, <1>7, <1>8, <1>9, <1>11, <1>12, <1>13, <1>14, <1>15, <1>16, <1>17, <1>18,
     <1>19, <1>20, <1>21, <1>22, <1>23, <1>24
     DEF Next, InstanceStep, TaskStep, ReadOutput

\* The ACK-flush loop acknowledges only what is in the WAL, as long as HyDFS
\* works: not even a kill between the snapshot and the append, or an orphaned
\* iteration of a stopped manager, separates an ACK from its REC record.
THEOREM FlushedAckDurable == Spec => []FlushedAckIsDurable
<1>1. Init => TypeOK /\ AckWithRecord /\ FlushedAckIsDurable
  BY TypeInit, AckWithRecordInit
<1>2. TypeOK /\ AckWithRecord /\ FlushedAckIsDurable /\ [Next]_vars
      => (TypeOK /\ AckWithRecord /\ FlushedAckIsDurable)'
  BY TypeNext, AckWithRecordNext
<1> QED
  BY <1>1, <1>2, PTL DEF Spec

----------------------------------------------------------------------------
(* Each incarnation of the last task puts a tuple into the output at most   *)
(* once, whatever is lost, retried, killed or crashes upstream of it.       *)

\* Nothing has happened yet to an incarnation that has not been started.
Fresh ==
  \A i \in Inst : i[2] > epoch[i[1]] =>
    /\ sent[i] = {} /\ toRetry[i] = {}
    /\ stdin[i] = {} /\ stdout[i] = {} /\ reader[i] = {}
    /\ \A t \in Tuples : received[i][t] = "none"

\* What is in the pipes of an instance is still pending in its receivedTuples, and
\* is in one place only.
PipesPending ==
  \A i \in Inst :
    /\ \A t \in stdin[i] \cup stdout[i] \cup reader[i] : received[i][t] = "pending"
    /\ stdin[i] \cap stdout[i] = {}
    /\ reader[i] \cap (stdin[i] \cup stdout[i]) = {}

pipeVars == <<epoch, received, sent, toRetry, stdin, stdout, reader>>

\* At the start no incarnation has done anything.
LEMMA FreshInit == Init => Fresh /\ PipesPending
BY InstFacts DEF Init, Fresh, PipesPending

\* The leader has one incarnation.
LEMMA LeaderLive == TypeOK => epoch[0] = 1 /\ Live(Leader)
BY MaxEpochAssumption, StagesAssumption DEF TypeOK, TaskTypeOK, Live, Leader

\* Only the current and earlier incarnations are ever touched, and a tuple on its
\* way through an executable stays pending until the reader is done with it.
LEMMA FreshNext ==
  ASSUME TypeOK, Fresh, PipesPending, [Next]_vars
  PROVE  Fresh' /\ PipesPending'
<1>a. /\ \A s \in 0..NStages : Cur(s) \in Inst /\ Cur(s)[1] = s /\ Cur(s)[2] = epoch[s]
      /\ \A s \in Stages : status[s] = "Stopped" => <<s, epoch[s] + 1>> \in Inst
      /\ \A s \in Stages : s \in 0..NStages
  BY CurFacts DEF Stages, Cur
<1>b. \A i \in Inst : i[1] \in 0..NStages /\ i[2] \in Nat /\ epoch[i[1]] \in Nat /\ i = <<i[1], i[2]>>
  BY InstFacts, MaxEpochAssumption DEF TypeOK, TaskTypeOK
<1>c. /\ received \in [Inst -> [Tuples -> Marks]] /\ sent \in [Inst -> SUBSET Tuples]
      /\ stdin \in [Inst -> SUBSET Tuples] /\ stdout \in [Inst -> SUBSET Tuples]
      /\ reader \in [Inst -> SUBSET Tuples] /\ toRetry \in [Inst -> SUBSET Tuples]
      /\ epoch \in [0..NStages -> Nat \ {0}] /\ calls \subseteq CallType
  BY DEF TypeOK, TaskTypeOK, MapsTypeOK, ProcTypeOK, HopTypeOK
<1>1. CASE UNCHANGED pipeVars
  BY <1>1 DEF pipeVars, Fresh, PipesPending
<1>2. ASSUME NEW t \in Tuples, EmitTuple(t) PROVE Fresh' /\ PipesPending'
  <2>1. sent' = [sent EXCEPT ![Leader] = sent[Leader] \cup {t}]
    BY <1>2, LeaderLive DEF EmitTuple, SendTuple, Update, MayIterate
  <2>2. ~(Leader[2] > epoch[Leader[1]])
    BY LeaderLive DEF Leader
  <2>3. UNCHANGED <<epoch, received, toRetry, stdin, stdout, reader>>
    BY <1>2 DEF EmitTuple, procVars
  <2> QED
    BY <2>1, <2>2, <2>3, <1>c DEF Fresh, PipesPending
<1>3. ASSUME NEW c \in calls, TupleAccepted(c) PROVE Fresh' /\ PipesPending'
  <2> DEFINE s == c.inst[1] + 1
             k == Cur(s)
  <2>1. s \in 0..NStages /\ c.id \in Tuples
    BY <1>3, <1>c, StagesAssumption DEF CallType, Senders
  <2>2. k \in Inst /\ ~(k[2] > epoch[k[1]])
    BY <2>1, <1>a, <1>b
  <2>3. /\ received[k][c.id] = "none"
        /\ received' = [received EXCEPT ![k][c.id] = "pending"]
        /\ stdin' = stdin \/ stdin' = [stdin EXCEPT ![k] = @ \cup {c.id}]
        /\ UNCHANGED <<epoch, sent, toRetry, stdout, reader>>
    BY <1>3 DEF TupleAccepted
  <2> HIDE DEF s, k
  <2>4. c.id \notin stdin[k] \cup stdout[k] \cup reader[k]
    BY <2>2, <2>3 DEF PipesPending
  <2>5. Fresh'
    BY <2>1, <2>2, <2>3, <1>c DEF Fresh
  <2>6. PipesPending'
    BY <2>1, <2>2, <2>3, <2>4, <1>c DEF PipesPending
  <2> QED
    BY <2>5, <2>6
<1>4. ASSUME NEW i \in Inst, NEW t \in Tuples, RunTask(i, t) PROVE Fresh' /\ PipesPending'
  <2>1. /\ t \in stdin[i] /\ stdin' = [stdin EXCEPT ![i] = @ \ {t}]
        /\ stdout' = stdout \/ stdout' = [stdout EXCEPT ![i] = @ \cup {t}]
        /\ UNCHANGED <<epoch, received, sent, toRetry, reader>>
    BY <1>4 DEF RunTask, eomVars, hopVars
  <2>2. ~(i[2] > epoch[i[1]])
    BY <2>1 DEF Fresh
  <2>3. Fresh'
    BY <2>1, <2>2, <1>c DEF Fresh
  <2>4. PipesPending'
    BY <2>1, <1>c DEF PipesPending
  <2> QED
    BY <2>3, <2>4
<1>5. ASSUME NEW i \in Inst, NEW t \in Tuples, ReadDropped(i, t) \/ ReadFinalOutput(i, t)
      PROVE Fresh' /\ PipesPending'
  <2>1. /\ t \in stdout[i] /\ stdout' = [stdout EXCEPT ![i] = @ \ {t}]
        /\ received' = [received EXCEPT ![i][t] = "processed"]
        /\ UNCHANGED <<epoch, sent, toRetry, stdin, reader>>
    BY <1>5 DEF ReadDropped, ReadFinalOutput, ReadLine, MarkProcessed, eomVars, hopVars
  <2>2. ~(i[2] > epoch[i[1]])
    BY <2>1 DEF Fresh
  <2>3. Fresh'
    BY <2>1, <2>2, <1>c DEF Fresh
  <2>4. PipesPending'
    BY <2>1, <1>c DEF PipesPending
  <2> QED
    BY <2>3, <2>4
<1>6. ASSUME NEW i \in Inst, NEW t \in Tuples, ReadAndForward(i, t) PROVE Fresh' /\ PipesPending'
  <2>1. /\ t \in stdout[i] /\ stdout' = [stdout EXCEPT ![i] = @ \ {t}]
        /\ reader[i] = {} /\ reader' = [reader EXCEPT ![i] = {t}]
        /\ sent' = sent \/ sent' = [sent EXCEPT ![i] = @ \cup {t}]
        /\ UNCHANGED <<epoch, received, toRetry, stdin>>
    BY <1>6 DEF ReadAndForward, ReadLine, SendTuple, Update, eomVars, hopVars
  <2>2. ~(i[2] > epoch[i[1]])
    BY <2>1 DEF Fresh
  <2>3. Fresh'
    BY <2>1, <2>2, <1>c DEF Fresh
  <2>4. PipesPending'
    BY <2>1, <1>c DEF PipesPending
  <2> QED
    BY <2>3, <2>4
<1>7. ASSUME NEW i \in Inst, NEW t \in Tuples, ForwardReturn(i, t) PROVE Fresh' /\ PipesPending'
  <2>1. /\ reader[i] = {t} /\ reader' = [reader EXCEPT ![i] = {}]
        /\ received' = [received EXCEPT ![i][t] = "processed"]
        /\ UNCHANGED <<epoch, sent, toRetry, stdin, stdout>>
    BY <1>7 DEF ForwardReturn, MarkProcessed, procVars
  <2>2. ~(i[2] > epoch[i[1]])
    BY <2>1 DEF Fresh
  <2>3. Fresh'
    BY <2>1, <2>2, <1>c DEF Fresh
  <2>4. PipesPending'
    BY <2>1, <1>c DEF PipesPending
  <2> QED
    BY <2>3, <2>4
<1>8. ASSUME NEW i \in Inst, NEW R \in SUBSET Tuples, RetryPendingSends(i, R)
      PROVE Fresh' /\ PipesPending'
  <2>1. /\ R # {} /\ R \subseteq sent[i] /\ toRetry' = [toRetry EXCEPT ![i] = R]
        /\ UNCHANGED <<epoch, received, sent, stdin, stdout, reader>>
    BY <1>8 DEF RetryPendingSends, eomVars, procVars
  <2>2. ~(i[2] > epoch[i[1]])
    BY <2>1 DEF Fresh
  <2> QED
    BY <2>1, <2>2, <1>c DEF Fresh, PipesPending
<1>9. ASSUME NEW i \in Inst, NEW t \in Tuples, RetrySend(i, t) PROVE Fresh' /\ PipesPending'
  <2>1. /\ t \in toRetry[i] /\ toRetry' = [toRetry EXCEPT ![i] = @ \ {t}]
        /\ sent' = sent \/ sent' = [sent EXCEPT ![i] = @ \cup {t}]
        /\ UNCHANGED <<epoch, received, stdin, stdout, reader>>
    BY <1>9 DEF RetrySend, SendTuple, Update, procVars
  <2>2. ~(i[2] > epoch[i[1]])
    BY <2>1 DEF Fresh
  <2> QED
    BY <2>1, <2>2, <1>c DEF Fresh, PipesPending
<1>10. ASSUME NEW n, NEW t \in Tuples, HandleACK(n, t),
              UNCHANGED <<epoch, received, toRetry, stdin, stdout, reader>>
       PROVE Fresh' /\ PipesPending'
  <2>1. \A j \in Inst : sent'[j] \subseteq sent[j]
    BY <1>10, AckTypes
  <2> QED
    BY <2>1, <1>10 DEF Fresh, PipesPending
<1>11. ASSUME NEW s \in Stages, KillTask(s) PROVE Fresh' /\ PipesPending'
  <2>1. /\ stdin' = [stdin EXCEPT ![Cur(s)] = {}]
        /\ sent' = sent \/ sent' = [sent EXCEPT ![Cur(s)] = {}]
        /\ UNCHANGED <<epoch, received, toRetry, stdout, reader>>
    BY <1>11 DEF KillTask, hopVars
  <2> QED
    BY <2>1, <1>c, <1>a DEF Fresh, PipesPending
<1>12. ASSUME NEW s \in Stages, NEW rec, NEW snt, StartIncarnation(s, rec, snt)
       PROVE Fresh' /\ PipesPending'
  <2> DEFINE k == <<s, epoch[s] + 1>>
  <2>1. /\ epoch' = [epoch EXCEPT ![s] = @ + 1]
        /\ received' = [received EXCEPT ![k] =
                          [t \in Tuples |-> IF t \in rec THEN "processed" ELSE "none"]]
        /\ sent' = [sent EXCEPT ![k] = snt]
        /\ UNCHANGED <<toRetry, stdin, stdout, reader>>
    BY <1>12 DEF StartIncarnation, hopVars, procVars
  <2>2. k \in Inst /\ k[1] = s /\ k[2] = epoch[s] + 1 /\ epoch[s] \in Nat
    BY <1>12, <1>a, <1>c DEF StartIncarnation
  <2>3. stdin[k] = {} /\ stdout[k] = {} /\ reader[k] = {}
    BY <2>2 DEF Fresh
  <2> HIDE DEF k
  <2>4. PipesPending'
    BY <2>1, <2>2, <2>3, <1>c DEF PipesPending
  <2>5. ASSUME NEW j \in Inst, j[2] > epoch'[j[1]] PROVE j # k /\ j[2] > epoch[j[1]]
    BY <2>1, <2>2, <2>5, <1>a, <1>b, <1>c
  <2>6. Fresh'
    BY <2>1, <2>2, <2>5, <1>c DEF Fresh
  <2> QED
    BY <2>4, <2>6
<1>13. ASSUME NEW s \in Stages, CrashProcess(s) PROVE Fresh' /\ PipesPending'
  <2>1. /\ stdin' = [stdin EXCEPT ![Cur(s)] = {}]
        /\ UNCHANGED <<epoch, received, sent, toRetry, stdout, reader>>
    BY <1>13 DEF CrashProcess, hopVars, eomVars
  <2> QED
    BY <2>1, <1>c, <1>a DEF Fresh, PipesPending
<1>14. ASSUME NEW c \in calls,
              TupleRejected(c) \/ TupleDuplicate(c) \/ LoseCall(c) \/ DeliverDuplicateAck(c)
       PROVE Fresh' /\ PipesPending'
  <2>1. CASE TupleRejected(c) \/ TupleDuplicate(c) \/ LoseCall(c)
    <3>1. UNCHANGED pipeVars
      BY <2>1 DEF pipeVars, TupleRejected, TupleDuplicate, LoseCall, eomVars, procVars
    <3> QED
      BY <3>1, <1>1
  <2>2. CASE DeliverDuplicateAck(c)
    <3>1. c.id \in Tuples
      BY <1>c DEF CallType
    <3> QED
      BY <2>2, <3>1, <1>10 DEF DeliverDuplicateAck, procVars
  <2> QED
    BY <1>14, <2>1, <2>2
<1>15. ASSUME NEW a \in acks, DeliverAck(a) \/ LoseAck(a) PROVE Fresh' /\ PipesPending'
  <2>1. CASE LoseAck(a)
    <3>1. UNCHANGED pipeVars
      BY <2>1 DEF pipeVars, LoseAck, eomVars, procVars, hopVars
    <3> QED
      BY <3>1, <1>1
  <2>2. CASE DeliverAck(a)
    <3>1. a.id \in Tuples
      BY DEF TypeOK, HopTypeOK, AckType
    <3> QED
      BY <2>2, <3>1, <1>10 DEF DeliverAck, procVars, hopVars
  <2> QED
    BY <1>15, <2>1, <2>2
<1>16. ASSUME NEW i \in Inst, FlushSnapshot(i) \/ FlushAppend(i) \/ FlushAppendFails(i)
       PROVE Fresh' /\ PipesPending'
  <2>1. UNCHANGED pipeVars
    BY <1>16 DEF pipeVars, FlushSnapshot, FlushAppend, FlushAppendFails, SendFlushedAcks,
       eomVars, procVars, hopVars
  <2> QED
    BY <2>1, <1>1
<1>17. CASE OutputFlush \/ OutputFlushFails \/ UNCHANGED vars
  <2>1. UNCHANGED pipeVars
    BY <1>17 DEF pipeVars, OutputFlush, OutputFlushFails, TakeOutput, vars, eomVars,
       procVars, hopVars
  <2> QED
    BY <2>1, <1>1
<1>18. ASSUME NEW s \in Stages, RestartTask(s) \/ RestartTaskNoWal(s)
       PROVE Fresh' /\ PipesPending'
  BY <1>18, <1>12 DEF RestartTask, RestartTaskNoWal
<1> QED
  BY <1>2, <1>3, <1>4, <1>5, <1>6, <1>7, <1>8, <1>9, <1>11, <1>13, <1>14, <1>15, <1>16,
     <1>17, <1>18
     DEF Next, HandleCall, HandleTuple, InstanceStep, TaskStep, ReadOutput

----------------------------------------------------------------------------
\* A mark in receivedTuples only advances, and no incarnation comes back.
MarksAdvance ==
  /\ \A i \in Inst, t \in Tuples :
       /\ received[i][t] # "none" => received'[i][t] # "none"
       /\ received[i][t] = "processed" => received'[i][t] = "processed"
  /\ \A s \in 0..NStages : epoch'[s] \in Nat /\ epoch[s] <= epoch'[s]

\* A step only moves a receivedTuples entry forward, and incarnations only grow;
\* the entries of a new incarnation are set while nothing refers to it yet.
LEMMA MarksGrow ==
  ASSUME TypeOK, Fresh, PipesPending, [Next]_vars
  PROVE  MarksAdvance
<1>c. /\ received \in [Inst -> [Tuples -> Marks]]
      /\ epoch \in [0..NStages -> Nat \ {0}] /\ calls \subseteq CallType
  BY DEF TypeOK, TaskTypeOK, MapsTypeOK, HopTypeOK
<1>1. CASE UNCHANGED <<received, epoch>>
  BY <1>1, <1>c DEF MarksAdvance
<1>2. ASSUME NEW i \in Inst, NEW t \in Tuples,
             received' = [received EXCEPT ![i][t] = "processed"], UNCHANGED epoch
      PROVE  MarksAdvance
  BY <1>2, <1>c DEF MarksAdvance
<1>3. ASSUME NEW c \in calls, TupleAccepted(c) PROVE MarksAdvance
  <2> DEFINE k == Cur(c.inst[1] + 1)
  <2>1. c.inst[1] + 1 \in 0..NStages /\ c.id \in Tuples
    BY <1>c, StagesAssumption DEF CallType, Senders
  <2>2. k \in Inst
    BY <2>1, CurFacts
  <2>3. /\ received[k][c.id] = "none" /\ UNCHANGED epoch
        /\ received' = [received EXCEPT ![k][c.id] = "pending"]
    BY <1>3 DEF TupleAccepted
  <2> HIDE DEF k
  <2> QED
    BY <2>1, <2>2, <2>3, <1>c DEF MarksAdvance
<1>4. ASSUME NEW s \in Stages, NEW rec, NEW snt, StartIncarnation(s, rec, snt) PROVE MarksAdvance
  <2> DEFINE k == <<s, epoch[s] + 1>>
             m == [t \in Tuples |-> IF t \in rec THEN "processed" ELSE "none"]
  <2>1. /\ epoch' = [epoch EXCEPT ![s] = @ + 1]
        /\ received' = [received EXCEPT ![k] = m]
    BY <1>4 DEF StartIncarnation
  <2>2. k \in Inst /\ k[1] = s /\ k[2] = epoch[s] + 1 /\ epoch[s] \in Nat
    BY <1>4, <1>c, CurFacts DEF StartIncarnation, Stages
  <2>3. \A t \in Tuples : received[k][t] = "none"
    BY <2>2 DEF Fresh
  <2> HIDE DEF k, m
  <2> QED
    BY <2>1, <2>2, <2>3, <1>c DEF MarksAdvance
<1>5. ASSUME NEW i \in Inst, NEW t \in Tuples,
             ReadDropped(i, t) \/ ReadFinalOutput(i, t) \/ ForwardReturn(i, t)
      PROVE  MarksAdvance
  BY <1>5, <1>2 DEF ReadDropped, ReadFinalOutput, ForwardReturn, MarkProcessed
<1>6. ASSUME NEW s \in Stages, RestartTask(s) \/ RestartTaskNoWal(s) PROVE MarksAdvance
  BY <1>6, <1>4 DEF RestartTask, RestartTaskNoWal
<1>7. ASSUME NEW t, EmitTuple(t) PROVE MarksAdvance
  BY <1>7, <1>1 DEF EmitTuple
<1>8. ASSUME NEW c, TupleRejected(c) \/ TupleDuplicate(c) \/ DeliverDuplicateAck(c) \/ LoseCall(c)
      PROVE  MarksAdvance
  BY <1>8, <1>1 DEF TupleRejected, TupleDuplicate, DeliverDuplicateAck, LoseCall, eomVars
<1>9. ASSUME NEW a, DeliverAck(a) \/ LoseAck(a) PROVE MarksAdvance
  BY <1>9, <1>1 DEF DeliverAck, LoseAck, eomVars
<1>10. ASSUME NEW i, NEW t, RunTask(i, t) \/ ReadAndForward(i, t) \/ RetrySend(i, t) PROVE MarksAdvance
  BY <1>10, <1>1 DEF RunTask, ReadAndForward, RetrySend, eomVars
<1>11. ASSUME NEW i, NEW R, RetryPendingSends(i, R) PROVE MarksAdvance
  BY <1>11, <1>1 DEF RetryPendingSends, eomVars
<1>12. ASSUME NEW i, FlushSnapshot(i) \/ FlushAppend(i) \/ FlushAppendFails(i) PROVE MarksAdvance
  BY <1>12, <1>1 DEF FlushSnapshot, FlushAppend, FlushAppendFails, SendFlushedAcks, eomVars
<1>13. ASSUME NEW s, KillTask(s) \/ CrashProcess(s) PROVE MarksAdvance
  BY <1>13, <1>1 DEF KillTask, CrashProcess, eomVars
<1>14. CASE OutputFlush \/ OutputFlushFails \/ UNCHANGED vars
  BY <1>14, <1>1 DEF OutputFlush, OutputFlushFails, TakeOutput, vars, eomVars
<1> QED
  BY <1>3, <1>5, <1>6, <1>7, <1>8, <1>9, <1>10, <1>11, <1>12, <1>13, <1>14
     DEF Next, HandleCall, HandleTuple, InstanceStep, TaskStep, ReadOutput

----------------------------------------------------------------------------
\* The incarnations of the last task that are done with t.
Done(t) == {e \in 1..epoch[NStages] : received[<<NStages, e>>][t] = "processed"}

\* Every copy of t in the output is the work of one of them.
OutputCounted ==
  \A t \in Tuples : outputBuffer[t] + outFile[t] <= Cardinality(Done(t))

\* The incarnations that are done with a tuple are finitely many.
LEMMA DoneFinite ==
  ASSUME TypeOK, NEW t
  PROVE  IsFiniteSet(Done(t)) /\ Cardinality(Done(t)) \in Nat /\ Cardinality(Done(t)) <= epoch[NStages]
<1>1. epoch[NStages] \in Nat
  BY StagesAssumption DEF TypeOK, TaskTypeOK
<1>2. IsFiniteSet(1..epoch[NStages]) /\ Cardinality(1..epoch[NStages]) = epoch[NStages]
  BY <1>1, FS_Interval
<1>3. Done(t) \subseteq 1..epoch[NStages]
  BY DEF Done
<1> QED
  BY <1>2, <1>3, FS_Subset, FS_CardinalityType

\* They still are after a step.
LEMMA DoneFiniteNext ==
  ASSUME TypeOK', NEW t
  PROVE  IsFiniteSet(Done(t)') /\ Cardinality(Done(t)') \in Nat
<1>1. epoch'[NStages] \in Nat
  BY StagesAssumption DEF TypeOK, TaskTypeOK
<1>2. IsFiniteSet(1..epoch'[NStages])
  BY <1>1, FS_Interval
<1>3. Done(t)' \subseteq 1..epoch'[NStages]
  BY DEF Done
<1> QED
  BY <1>2, <1>3, FS_Subset, FS_CardinalityType

\* A step that reads no final output adds no copy; one that does completes an
\* incarnation that was not done with the tuple before.
LEMMA OutputCountedNext ==
  ASSUME TypeOK, TypeOK', Fresh, PipesPending, OutputCounted, [Next]_vars
  PROVE  OutputCounted'
<1> SUFFICES ASSUME NEW t \in Tuples
             PROVE  outputBuffer'[t] + outFile'[t] <= Cardinality(Done(t)')
  BY DEF OutputCounted
<1>1. Done(t) \subseteq Done(t)'
  <2>1. ASSUME NEW e \in 1..epoch[NStages] PROVE <<NStages, e>> \in Inst
    <3>1. /\ epoch[NStages] \in Nat /\ epoch[NStages] <= MaxEpoch[NStages]
          /\ MaxEpoch[NStages] \in Nat /\ NStages \in 0..NStages
      BY StagesAssumption, MaxEpochAssumption DEF TypeOK, TaskTypeOK
    <3>2. e \in Nat \ {0} /\ e <= MaxEpoch[NStages]
      BY <3>1
    <3> QED
      BY <3>1, <3>2, InstFacts
  <2>2. epoch[NStages] \in Nat /\ epoch'[NStages] \in Nat /\ epoch[NStages] <= epoch'[NStages]
    BY MarksGrow, StagesAssumption DEF MarksAdvance, TypeOK, TaskTypeOK
  <2>3. \A e \in 1..epoch[NStages] :
          received[<<NStages, e>>][t] = "processed" => received'[<<NStages, e>>][t] = "processed"
    BY <2>1, MarksGrow DEF MarksAdvance
  <2> QED
    BY <2>2, <2>3 DEF Done
<1>2. Cardinality(Done(t)) \in Nat /\ Cardinality(Done(t)') \in Nat /\ Cardinality(Done(t)) <= Cardinality(Done(t)')
  BY <1>1, DoneFinite, DoneFiniteNext, FS_Subset
<1>3. /\ outputBuffer[t] \in Nat /\ outFile[t] \in Nat
      /\ outputBuffer[t] + outFile[t] <= Cardinality(Done(t))
  BY DEF OutputCounted, TypeOK, OutTypeOK
<1>4. CASE UNCHANGED outVars
  BY <1>2, <1>3, <1>4 DEF outVars
<1>5. CASE OutputFlush \/ OutputFlushFails
  <2>1. outputBuffer'[t] = 0 /\ outFile'[t] \in {outFile[t], outFile[t] + outputBuffer[t]}
    BY <1>5 DEF OutputFlush, OutputFlushFails, TakeOutput
  <2> QED
    BY <2>1, <1>2, <1>3
<1>6. ASSUME NEW i \in Inst, NEW u \in Tuples, ReadFinalOutput(i, u)
      PROVE  outputBuffer'[t] + outFile'[t] <= Cardinality(Done(t)')
  <2>1. /\ u \in stdout[i] /\ i[1] = NStages
        /\ received' = [received EXCEPT ![i][u] = "processed"]
        /\ outputBuffer' = [outputBuffer EXCEPT ![u] = @ + 1]
        /\ UNCHANGED <<epoch, outFile>>
    BY <1>6 DEF ReadFinalOutput, ReadLine, IsFinal, MarkProcessed
  <2>2. CASE u # t
    BY <2>1, <2>2, <1>2, <1>3 DEF TypeOK, OutTypeOK
  <2>3. CASE u = t
    <3>1. i = <<NStages, i[2]>> /\ i[2] \in 1..epoch[NStages]
      <4>1. i = <<NStages, i[2]>> /\ i[2] \in Nat \ {0}
        BY <2>1, InstFacts, MaxEpochAssumption, StagesAssumption
      <4>2. i[2] <= epoch[NStages] /\ epoch[NStages] \in Nat
        BY <2>1, <4>1, StagesAssumption DEF Fresh, TypeOK, TaskTypeOK
      <4> QED
        BY <4>1, <4>2
    <3>2. received[i][t] = "pending" /\ received'[i][t] = "processed"
      BY <2>1, <2>3 DEF PipesPending, TypeOK, MapsTypeOK
    <3>3. i[2] \in Done(t)' /\ i[2] \notin Done(t)
      BY <2>1, <3>1, <3>2 DEF Done
    <3>4. Cardinality(Done(t) \cup {i[2]}) = Cardinality(Done(t)) + 1
      BY <3>3, DoneFinite, FS_AddElement
    <3>5. Cardinality(Done(t) \cup {i[2]}) <= Cardinality(Done(t)')
      BY <1>1, <3>3, DoneFiniteNext, FS_Subset
    <3>6. outputBuffer'[t] = outputBuffer[t] + 1 /\ outFile'[t] = outFile[t]
      BY <2>1, <2>3 DEF TypeOK, OutTypeOK
    <3> QED
      BY <3>4, <3>5, <3>6, <1>2, <1>3
  <2> QED
    BY <2>2, <2>3
<1>7. ASSUME NEW u, EmitTuple(u) PROVE UNCHANGED outVars
  BY <1>7 DEF EmitTuple
<1>8. ASSUME NEW c, HandleCall(c) \/ LoseCall(c) PROVE UNCHANGED outVars
  BY <1>8 DEF HandleCall, HandleTuple, TupleRejected, TupleAccepted, TupleDuplicate,
     DeliverDuplicateAck, LoseCall
<1>9. ASSUME NEW a, DeliverAck(a) \/ LoseAck(a) PROVE UNCHANGED outVars
  BY <1>9 DEF DeliverAck, LoseAck
<1>10. ASSUME NEW i, NEW u, RunTask(i, u) \/ ReadDropped(i, u) \/ ReadAndForward(i, u)
                            \/ ForwardReturn(i, u) \/ RetrySend(i, u)
       PROVE  UNCHANGED outVars
  BY <1>10 DEF RunTask, ReadDropped, ReadAndForward, ForwardReturn, RetrySend
<1>11. ASSUME NEW i, NEW R, RetryPendingSends(i, R) PROVE UNCHANGED outVars
  BY <1>11 DEF RetryPendingSends
<1>12. ASSUME NEW i, FlushSnapshot(i) \/ FlushAppend(i) \/ FlushAppendFails(i)
       PROVE  UNCHANGED outVars
  BY <1>12 DEF FlushSnapshot, FlushAppend, FlushAppendFails, SendFlushedAcks
<1>13. ASSUME NEW s, TaskStep(s) PROVE UNCHANGED outVars
  BY <1>13 DEF TaskStep, KillTask, RestartTask, RestartTaskNoWal, StartIncarnation, CrashProcess
<1>14. CASE UNCHANGED vars
  BY <1>4, <1>14 DEF vars, outVars
<1> QED
  BY <1>4, <1>5, <1>6, <1>7, <1>8, <1>9, <1>10, <1>11, <1>12, <1>13, <1>14
     DEF Next, InstanceStep, ReadOutput

\* Each incarnation of the last task adds a tuple to the output at most once: the
\* duplicate check of handleTupleMessage, the single line of the executable and
\* the batch taken out by the output flush loop never multiply a tuple, whatever
\* calls are lost or retried and whatever tasks are killed, restarted or crash.
THEOREM OutputOnce == Spec => []OutputOncePerIncarnation
<1> DEFINE IInv == TypeOK /\ Fresh /\ PipesPending /\ OutputCounted
<1>1. Init => IInv
  <2> SUFFICES ASSUME Init PROVE IInv
    OBVIOUS
  <2>1. TypeOK /\ Fresh /\ PipesPending
    BY TypeInit, FreshInit
  <2>2. \A t \in Tuples : outputBuffer[t] = 0 /\ outFile[t] = 0 /\ Cardinality(Done(t)) \in Nat
    BY <2>1, DoneFinite DEF Init
  <2> QED
    BY <2>1, <2>2 DEF OutputCounted
<1>2. IInv /\ [Next]_vars => IInv'
  BY TypeNext, FreshNext, OutputCountedNext
<1>3. IInv => OutputOncePerIncarnation
  <2> SUFFICES ASSUME IInv, NEW t \in Tuples
               PROVE  outputBuffer[t] + outFile[t] <= epoch[NStages]
    BY DEF OutputOncePerIncarnation
  <2>1. outputBuffer[t] \in Nat /\ outFile[t] \in Nat /\ epoch[NStages] \in Nat
    BY StagesAssumption DEF TypeOK, OutTypeOK, TaskTypeOK
  <2> QED
    BY <2>1, DoneFinite DEF OutputCounted
<1> QED
  BY <1>1, <1>2, <1>3, PTL DEF Spec

----------------------------------------------------------------------------
(***************************************************************************)
(* No output is left with nobody to forward it.  While HyDFS works and the  *)
(* tasks of different stages run on different nodes, an output that a stage *)
(* counts as forwarded is in the next stage's receivedTuples or in its own  *)
(* sentTuples, in memory and after any restart from the WAL.                *)
(***************************************************************************)

\* The leader and the tasks run on nodes of their own.
OwnNodes == \A s, u \in 0..NStages : Host[s] = Host[u] => s = u

\* Whatever says that a tuple was acknowledged, or will acknowledge it, is right:
\* the next stage has accepted it.
AcksSound ==
  /\ \A c \in calls : c.phase = "ack" => Accepted(c.inst[1] + 1, c.id)
  /\ \A a \in acks : Accepted(a.stage + 1, a.id)
  /\ \A i \in Inst : \A t \in pendingAcks[i] \cup flushing[i].ids : received[i][t] # "none"
  /\ \A i \in Inst : \A t \in buffer[i].acked \cup flushing[i].log.acked :
       Accepted(i[1] + 1, t)

----------------------------------------------------------------------------
\* A stage that has accepted a tuple never forgets it in all its incarnations.
LEMMA AcceptedGrows ==
  ASSUME TypeOK, MarksAdvance, NEW s, NEW t \in Tuples, Accepted(s, t)
  PROVE  Accepted(s, t)'
BY DEF Accepted, MarksAdvance

\* With a node per stage, an ACK finds only the manager it is meant for.
LEMMA AckOwner ==
  ASSUME OwnNodes, TypeOK, NEW s \in Senders, NEW t, HandleACK(s, t)
  PROVE  \/ UNCHANGED <<sent, buffer>>
         \/ \E i \in Inst :
              /\ i[1] = s /\ t \in sent[i]
              /\ sent' = [sent EXCEPT ![i] = @ \ {t}]
              /\ buffer' = Logged(i, LogACK(buffer[i], t))
<1>1. s \in 0..NStages
  BY StagesAssumption DEF Senders
<1>2. ASSUME NEW i \in AckOwners(s, t) PROVE i[1] = s
  <2>1. ASSUME NEW u \in Stages, Host[u] = Host[s] PROVE u = s
    BY <1>1, <2>1 DEF OwnNodes, Stages
  <2>2. Host[0] = Host[s] => 0 = s
    BY <1>1, StagesAssumption DEF OwnNodes
  <2>3. \A u : Cur(u)[1] = u
    BY DEF Cur
  <2> QED
    BY <1>2, <2>1, <2>2, <2>3 DEF AckOwners, Leader
<1> QED
  BY <1>2, AckEffect

\* No ACK, record or restored map exists at the start.
LEMMA AcksSoundInit == Init => AcksSound
BY DEF Init, AcksSound, LogEmpty

\* No step produces an ACK, or an ACK record, for a tuple its receiver does not have.
LEMMA AcksSoundNext ==
  ASSUME OwnNodes, TypeOK, Fresh, PipesPending, AcksSound, [Next]_vars
  PROVE  AcksSound'
<1>a. MarksAdvance
  BY MarksGrow
<1>b. \A s, t : t \in Tuples /\ Accepted(s, t) => Accepted(s, t)'
  BY <1>a, AcceptedGrows
<1>c. /\ buffer \in [Inst -> Log] /\ pendingAcks \in [Inst -> SUBSET Tuples]
      /\ flushing \in [Inst -> FlushType] /\ received \in [Inst -> [Tuples -> Marks]]
      /\ acks \subseteq AckType /\ calls \subseteq CallType
  BY DEF TypeOK, TaskTypeOK, MapsTypeOK, LogTypeOK, HopTypeOK
<1>d. \A i \in Inst, t \in Tuples : received[i][t] # "none" => received'[i][t] # "none"
  BY <1>a DEF MarksAdvance
<1>e. /\ \A a \in acks : a.id \in Tuples /\ a.stage \in Senders
      /\ \A c \in calls : c.id \in Tuples /\ c.inst \in Inst /\ c.inst[1] \in Senders
      /\ \A i \in Inst : /\ pendingAcks[i] \subseteq Tuples /\ flushing[i].ids \subseteq Tuples
                         /\ buffer[i].acked \subseteq Tuples
                         /\ flushing[i].log.acked \subseteq Tuples
  BY <1>c DEF AckType, CallType, FlushType, Log
\* The parts of AcksSound, each for a step that adds nothing to what it is about.
<1>1. ASSUME \A c \in calls' : c.phase = "ack" => c \in calls
      PROVE  \A c \in calls' : c.phase = "ack" => Accepted(c.inst[1] + 1, c.id)'
  BY <1>1, <1>b, <1>e DEF AcksSound
<1>2. ASSUME acks' \subseteq acks
      PROVE  \A a \in acks' : Accepted(a.stage + 1, a.id)'
  BY <1>2, <1>b, <1>e DEF AcksSound
<1>3. ASSUME \A i \in Inst : /\ pendingAcks'[i] \subseteq pendingAcks[i]
                             /\ flushing'[i].ids \subseteq flushing[i].ids
      PROVE  \A i \in Inst : \A t \in pendingAcks'[i] \cup flushing'[i].ids : received'[i][t] # "none"
  BY <1>3, <1>d, <1>e DEF AcksSound
<1>4. ASSUME \A i \in Inst : /\ buffer'[i].acked \subseteq buffer[i].acked
                             /\ flushing'[i].log.acked \subseteq flushing[i].log.acked
      PROVE  \A i \in Inst : \A t \in buffer'[i].acked \cup flushing'[i].log.acked :
               Accepted(i[1] + 1, t)'
  BY <1>4, <1>b, <1>e DEF AcksSound
<1>5. ASSUME NEW i \in Inst, NEW th, NEW t, SendTuple(i, th, t), UNCHANGED <<acks, pendingAcks, flushing>>
      PROVE  AcksSound'
  <2>1. \A c \in calls' : c.phase = "ack" => c \in calls
    BY <1>5 DEF SendTuple, Call
  <2>2. buffer' \in {buffer, [buffer EXCEPT ![i] = LogSENT(buffer[i], t)]}
    BY <1>5 DEF SendTuple, Logged, Update
  <2>3. LogSENT(buffer[i], t).acked \subseteq buffer[i].acked
    BY DEF LogSENT
  <2>4. \A j \in Inst : buffer'[j].acked \subseteq buffer[j].acked
    BY <2>2, <2>3, <1>c
  <2> QED
    BY <1>1, <1>2, <1>3, <1>4, <1>5, <2>1, <2>4 DEF AcksSound
<1>6. ASSUME NEW s \in Senders, NEW t \in Tuples, HandleACK(s, t), Accepted(s + 1, t),
             calls' \subseteq calls, acks' \subseteq acks, UNCHANGED <<pendingAcks, flushing>>
      PROVE  AcksSound'
  <2>1. ASSUME NEW i \in Inst, i[1] = s, buffer' = Logged(i, LogACK(buffer[i], t)), NEW j \in Inst
        PROVE  buffer'[j].acked \subseteq buffer[j].acked \cup (IF j[1] = s THEN {t} ELSE {})
    <3>1. buffer' \in {buffer, [buffer EXCEPT ![i] = LogACK(buffer[i], t)]}
      BY <2>1 DEF Logged, Update
    <3>2. LogACK(buffer[i], t).acked = buffer[i].acked \cup {t}
      BY DEF LogACK
    <3> QED
      BY <2>1, <3>1, <3>2, <1>c
  <2>2. \A j \in Inst : buffer'[j].acked \subseteq buffer[j].acked \cup (IF j[1] = s THEN {t} ELSE {})
    BY <2>1, <1>6, AckOwner
  <2>3. \A i \in Inst : \A u \in buffer'[i].acked \cup flushing'[i].log.acked :
               Accepted(i[1] + 1, u)'
    BY <2>2, <1>6, <1>b, <1>e DEF AcksSound
  <2> QED
    BY <1>1, <1>2, <1>3, <1>6, <2>3 DEF AcksSound
<1>7. ASSUME NEW i \in Inst, NEW t \in Tuples, MarkProcessed(i, t), i # Leader,
             UNCHANGED <<calls, acks, flushing>>
      PROVE  AcksSound'
  <2>1. buffer' \in {buffer, [buffer EXCEPT ![i] = LogREC(buffer[i], t)]}
    BY <1>7 DEF MarkProcessed, Logged, Update
  <2>2. LogREC(buffer[i], t).acked = buffer[i].acked
    BY DEF LogREC
  <2>3. \A j \in Inst : buffer'[j].acked = buffer[j].acked
    BY <2>1, <2>2, <1>c
  <2>4. /\ pendingAcks' \in {pendingAcks, [pendingAcks EXCEPT ![i] = pendingAcks[i] \cup {t}]}
        /\ received'[i][t] = "processed"
    BY <1>7, <1>c DEF MarkProcessed, Update
  <2>5. \A j \in Inst : \A u \in pendingAcks'[j] \cup flushing'[j].ids : received'[j][u] # "none"
    BY <2>4, <1>7, <1>c, <1>d, <1>e DEF AcksSound
  <2> QED
    BY <1>1, <1>2, <1>4, <1>7, <2>3, <2>5 DEF AcksSound
<1>8. ASSUME NEW i \in Inst, FlushSnapshot(i) PROVE AcksSound'
  <2>1. /\ flushing' = [flushing EXCEPT ![i] = [log |-> buffer[i], ids |-> pendingAcks[i]]]
        /\ buffer' = [buffer EXCEPT ![i] = LogEmpty]
        /\ pendingAcks' = [pendingAcks EXCEPT ![i] = {}]
        /\ UNCHANGED <<calls, acks, received>>
    BY <1>8 DEF FlushSnapshot, hopVars
  <2>2. \A j \in Inst : \A u \in pendingAcks'[j] \cup flushing'[j].ids : received'[j][u] # "none"
    BY <2>1, <1>c DEF AcksSound
  <2>3. LogEmpty.acked = {}
    BY DEF LogEmpty
  <2>4. \A j \in Inst : \A u \in buffer'[j].acked \cup flushing'[j].log.acked :
               u \in buffer[j].acked \cup flushing[j].log.acked
    BY <2>1, <2>3, <1>c
  <2>5. \A j \in Inst : \A u \in buffer'[j].acked \cup flushing'[j].log.acked : Accepted(j[1] + 1, u)'
    BY <2>4, <1>b, <1>e DEF AcksSound
  <2> QED
    BY <1>1, <1>2, <2>1, <2>2, <2>5 DEF AcksSound
<1>9. ASSUME NEW i \in Inst, FlushAppend(i) \/ FlushAppendFails(i) PROVE AcksSound'
  <2>1. /\ acks' = acks \cup {[stage |-> i[1] - 1, id |-> t] : t \in flushing[i].ids}
        /\ flushing' = [flushing EXCEPT ![i] = Idle]
        /\ UNCHANGED <<calls, buffer, pendingAcks>>
    BY <1>9 DEF FlushAppend, FlushAppendFails, SendFlushedAcks, eomVars, hopVars
  <2>2. Idle.ids = {} /\ Idle.log.acked = {}
    BY DEF Idle, LogEmpty
  <2>3. \A j \in Inst : /\ flushing'[j].ids \subseteq flushing[j].ids
                        /\ flushing'[j].log.acked \subseteq flushing[j].log.acked
    BY <2>1, <2>2, <1>c
  <2>4. ASSUME NEW t \in flushing[i].ids PROVE Accepted(i[1] - 1 + 1, t)'
    <3>1. received'[i][t] # "none"
      BY <1>d, <1>e DEF AcksSound
    <3>2. i[1] - 1 + 1 = i[1]
      BY InstFacts
    <3> QED
      BY <3>1, <3>2 DEF Accepted
  <2>5. ASSUME NEW a \in acks' PROVE Accepted(a.stage + 1, a.id)'
    <3>1. CASE a \in acks
      BY <3>1, <1>b, <1>e DEF AcksSound
    <3>2. ASSUME NEW t \in flushing[i].ids, a = [stage |-> i[1] - 1, id |-> t]
          PROVE  Accepted(a.stage + 1, a.id)'
      <4>1. a.stage = i[1] - 1 /\ a.id = t
        BY <3>2
      <4> QED
        BY <4>1, <2>4
    <3> QED
      BY <2>1, <3>1, <3>2
  <2> QED
    BY <1>1, <1>3, <1>4, <2>1, <2>3, <2>5 DEF AcksSound
<1>10. ASSUME NEW s \in Stages, KillTask(s) PROVE AcksSound'
  <2>1. /\ \/ UNCHANGED <<buffer, pendingAcks>>
           \/ /\ buffer' = [buffer EXCEPT ![Cur(s)] = LogEmpty]
              /\ pendingAcks' = [pendingAcks EXCEPT ![Cur(s)] = {}]
        /\ UNCHANGED <<calls, acks, flushing>>
    BY <1>10 DEF KillTask, hopVars
  <2>2. LogEmpty.acked = {}
    BY DEF LogEmpty
  <2>3. \A j \in Inst : /\ pendingAcks'[j] \subseteq pendingAcks[j]
                        /\ buffer'[j].acked \subseteq buffer[j].acked
    BY <2>1, <2>2, <1>c
  <2> QED
    BY <1>1, <1>2, <1>3, <1>4, <2>1, <2>3 DEF AcksSound
<1>11. ASSUME UNCHANGED <<buffer, pendingAcks, flushing>>, acks' \subseteq acks,
              \A c \in calls' : c.phase = "ack" => c \in calls
       PROVE  AcksSound'
  BY <1>1, <1>2, <1>3, <1>4, <1>11 DEF AcksSound
<1>12. ASSUME NEW t, EmitTuple(t) PROVE AcksSound'
  BY <1>12, <1>5, InstFacts DEF EmitTuple
<1>13. ASSUME NEW c \in calls, TupleRejected(c) \/ TupleAccepted(c) \/ LoseCall(c)
       PROVE  AcksSound'
  BY <1>13, <1>11 DEF TupleRejected, TupleAccepted, LoseCall, eomVars
<1>14. ASSUME NEW c \in calls, TupleDuplicate(c) PROVE AcksSound'
  <2>1. /\ received[Cur(c.inst[1] + 1)][c.id] # "none"
        /\ calls' = (calls \ {c}) \cup {[c EXCEPT !.phase = "ack"]}
        /\ UNCHANGED <<acks, buffer, pendingAcks, flushing>>
    BY <1>14 DEF TupleDuplicate, eomVars
  <2>2. c.inst[1] + 1 \in 0..NStages
    BY <1>e, StagesAssumption DEF Senders
  <2>3. Cur(c.inst[1] + 1) \in Inst /\ Cur(c.inst[1] + 1)[1] = c.inst[1] + 1
    BY <2>2, CurFacts DEF Cur
  <2>4. Accepted(c.inst[1] + 1, c.id)
    BY <2>1, <2>3 DEF Accepted
  <2>5. [c EXCEPT !.phase = "ack"].inst = c.inst /\ [c EXCEPT !.phase = "ack"].id = c.id
    BY <1>c DEF CallType
  <2>6. \A d \in calls' : d.phase = "ack" => Accepted(d.inst[1] + 1, d.id)
    BY <2>1, <2>4, <2>5 DEF AcksSound
  <2>7. \A d \in calls' : d.id \in Tuples
    BY <2>1, <2>5, <1>e
  <2> QED
    BY <1>2, <1>3, <1>4, <1>b, <2>1, <2>6, <2>7 DEF AcksSound
<1>15. ASSUME NEW c \in calls, DeliverDuplicateAck(c) PROVE AcksSound'
  <2>1. Accepted(c.inst[1] + 1, c.id)
    BY <1>15 DEF DeliverDuplicateAck, AcksSound
  <2> QED
    BY <1>15, <2>1, <1>6, <1>e DEF DeliverDuplicateAck
<1>16. ASSUME NEW a \in acks, DeliverAck(a) PROVE AcksSound'
  <2>1. Accepted(a.stage + 1, a.id)
    BY DEF AcksSound
  <2> QED
    BY <1>16, <2>1, <1>6, <1>e DEF DeliverAck, hopVars
<1>17. ASSUME NEW a \in acks, LoseAck(a) PROVE AcksSound'
  BY <1>17, <1>11 DEF LoseAck, eomVars, hopVars
<1>18. ASSUME NEW i \in Inst, NEW t \in Tuples,
              ReadDropped(i, t) \/ ReadFinalOutput(i, t) \/ ForwardReturn(i, t)
       PROVE  AcksSound'
  <2>1. i # Leader
    BY <1>18 DEF ReadDropped, ReadFinalOutput, ForwardReturn, ReadLine, TypeOK, RolesOK
  <2> QED
    BY <1>18, <1>7, <2>1 DEF ReadDropped, ReadFinalOutput, ForwardReturn, hopVars
<1>19. ASSUME NEW i \in Inst, NEW t \in Tuples, ReadAndForward(i, t) \/ RetrySend(i, t)
       PROVE  AcksSound'
  BY <1>19, <1>5 DEF ReadAndForward, RetrySend
<1>20. ASSUME NEW i \in Inst, NEW t \in Tuples, RunTask(i, t) PROVE AcksSound'
  BY <1>20, <1>11 DEF RunTask, eomVars, hopVars
<1>21. ASSUME NEW i \in Inst, NEW R, RetryPendingSends(i, R) PROVE AcksSound'
  BY <1>21, <1>11 DEF RetryPendingSends, eomVars
<1>22. ASSUME NEW s \in Stages, RestartTask(s) \/ RestartTaskNoWal(s) \/ CrashProcess(s)
       PROVE  AcksSound'
  BY <1>22, <1>11 DEF RestartTask, RestartTaskNoWal, StartIncarnation, CrashProcess, eomVars, hopVars
<1>23. CASE OutputFlush \/ OutputFlushFails \/ UNCHANGED vars
  BY <1>23, <1>11 DEF OutputFlush, OutputFlushFails, TakeOutput, eomVars, hopVars, vars
<1> QED
  BY <1>8, <1>9, <1>10, <1>12, <1>13, <1>14, <1>15, <1>16, <1>17, <1>18, <1>19, <1>20,
     <1>21, <1>22, <1>23
     DEF Next, HandleCall, HandleTuple, InstanceStep, TaskStep, ReadOutput

----------------------------------------------------------------------------
\* An entry leaves the sentTuples of a running manager only by an ACK, and then
\* the next stage has accepted the tuple.
LEMMA SentShrinks ==
  ASSUME OwnNodes, TypeOK, Fresh, AcksSound, [Next]_vars,
         NEW i \in Inst, NEW t \in Tuples, t \in sent[i], t \notin sent'[i], Live(i)'
  PROVE  Accepted(i[1] + 1, t)
<1>a. sent \in [Inst -> SUBSET Tuples]
  BY DEF TypeOK, MapsTypeOK
<1>1. CASE UNCHANGED sent
  BY <1>1
<1>2. ASSUME NEW j, NEW th, NEW u, SendTuple(j, th, u) PROVE FALSE
  BY <1>2, <1>a DEF SendTuple, Update
<1>3. ASSUME NEW s \in Senders, NEW u, HandleACK(s, u), Accepted(s + 1, u)
      PROVE  Accepted(i[1] + 1, t)
  <2>1. ASSUME NEW j \in Inst, j[1] = s, sent' = [sent EXCEPT ![j] = @ \ {u}]
        PROVE  i[1] = s /\ t = u
    BY <2>1, <1>a
  <2> QED
    BY <1>1, <1>3, <2>1, AckOwner
<1>4. ASSUME NEW s \in Stages, KillTask(s) PROVE FALSE
  <2>1. /\ epoch' = epoch /\ status'[s] = "Stopped"
        /\ sent' \in {sent, [sent EXCEPT ![Cur(s)] = {}]}
    BY <1>4 DEF KillTask, TypeOK, TaskTypeOK
  <2>2. i = Cur(s)
    BY <2>1, <1>a
  <2>3. i # Leader /\ i[1] = s
    BY <2>2 DEF Cur, Leader, Stages
  <2> QED
    BY <2>1, <2>3 DEF Live
<1>5. ASSUME NEW s \in Stages, NEW rec, NEW snt, StartIncarnation(s, rec, snt) PROVE FALSE
  <2> DEFINE k == <<s, epoch[s] + 1>>
  <2>1. k \in Inst /\ k[1] = s /\ k[2] = epoch[s] + 1
    BY <1>5, CurFacts DEF StartIncarnation
  <2>2. epoch[s] \in Nat
    BY DEF TypeOK, TaskTypeOK, Stages
  <2>3. sent[k] = {}
    BY <2>1, <2>2 DEF Fresh
  <2>4. sent' = [sent EXCEPT ![k] = snt]
    BY <1>5 DEF StartIncarnation
  <2> QED
    BY <2>1, <2>3, <2>4, <1>a
<1>6. ASSUME NEW c \in calls, DeliverDuplicateAck(c) PROVE Accepted(i[1] + 1, t)
  <2>1. Accepted(c.inst[1] + 1, c.id) /\ c.inst[1] \in Senders
    BY <1>6 DEF DeliverDuplicateAck, AcksSound, TypeOK, HopTypeOK, CallType
  <2> QED
    BY <1>6, <2>1, <1>3 DEF DeliverDuplicateAck
<1>7. ASSUME NEW a \in acks, DeliverAck(a) PROVE Accepted(i[1] + 1, t)
  <2>1. Accepted(a.stage + 1, a.id) /\ a.stage \in Senders
    BY DEF AcksSound, TypeOK, HopTypeOK, AckType
  <2> QED
    BY <1>7, <2>1, <1>3 DEF DeliverAck
<1>8. ASSUME NEW u, EmitTuple(u) PROVE FALSE
  BY <1>8, <1>2 DEF EmitTuple
<1>9. ASSUME NEW j, NEW u, ReadAndForward(j, u) \/ RetrySend(j, u) PROVE FALSE
  BY <1>9, <1>2 DEF ReadAndForward, RetrySend
<1>10. ASSUME NEW s \in Stages, RestartTask(s) \/ RestartTaskNoWal(s) PROVE FALSE
  BY <1>10, <1>5 DEF RestartTask, RestartTaskNoWal
<1>11. ASSUME NEW c, HandleTuple(c) \/ LoseCall(c) PROVE FALSE
  BY <1>11 DEF HandleTuple, TupleRejected, TupleAccepted, TupleDuplicate, LoseCall, eomVars
<1>12. ASSUME NEW a, LoseAck(a) PROVE FALSE
  BY <1>12 DEF LoseAck, eomVars
<1>13. ASSUME NEW j, NEW u, RunTask(j, u) \/ ReadDropped(j, u) \/ ReadFinalOutput(j, u)
                            \/ ForwardReturn(j, u)
       PROVE  FALSE
  BY <1>13 DEF RunTask, ReadDropped, ReadFinalOutput, ForwardReturn, eomVars
<1>14. ASSUME NEW j, NEW R, RetryPendingSends(j, R) PROVE FALSE
  BY <1>14 DEF RetryPendingSends, eomVars
<1>15. ASSUME NEW j, FlushSnapshot(j) \/ FlushAppend(j) \/ FlushAppendFails(j) PROVE FALSE
  BY <1>15 DEF FlushSnapshot, FlushAppend, FlushAppendFails, SendFlushedAcks, eomVars
<1>16. ASSUME NEW s, CrashProcess(s) PROVE FALSE
  BY <1>16 DEF CrashProcess, eomVars
<1>17. ~(OutputFlush \/ OutputFlushFails \/ UNCHANGED vars)
  BY DEF OutputFlush, OutputFlushFails, TakeOutput, eomVars, vars
<1> QED
  BY <1>4, <1>6, <1>7, <1>8, <1>9, <1>10, <1>11, <1>12, <1>13, <1>14, <1>15, <1>16, <1>17
     DEF Next, HandleCall, InstanceStep, TaskStep, ReadOutput

\* With a node per stage, handleACKMessage removes an entry from sentTuples only
\* when the next stage has the tuple: neither the ACK of a duplicate, nor one that
\* arrives after a restart, nor one for an orphaned flush, ends a retry too early.
THEOREM AckedAccepted ==
  ASSUME OwnNodes
  PROVE  Spec => AckedWasAccepted
<1> DEFINE IInv == TypeOK /\ Fresh /\ PipesPending /\ AcksSound
<1>1. Init => IInv
  BY TypeInit, FreshInit, AcksSoundInit
<1>2. IInv /\ [Next]_vars => IInv'
  BY TypeNext, FreshNext, AcksSoundNext
<1>3. IInv /\ [Next]_vars =>
        [\A i \in Inst, t \in Tuples :
           t \in sent[i] /\ t \notin sent'[i] /\ Live(i)' => Accepted(i[1] + 1, t)]_vars
  BY SentShrinks
<1> QED
  BY <1>1, <1>2, <1>3, PTL DEF Spec, AckedWasAccepted

----------------------------------------------------------------------------
(* In-flight work survives: while HyDFS works and every stage has a node of *)
(* its own, an output counted as forwarded and not accepted by the next     *)
(* stage is in the sentTuples of the running manager, and a WAL that has    *)
(* the REC record of a tuple restores its output as unacknowledged.         *)

\* The next stage still has to get the output of stage s for t.
Owed(s, t) == s \in 1..(NStages - 1) /\ Outcome[s][t] = "emit" /\ ~Accepted(s + 1, t)

\* t is among the SENT records of instance i that a kill at this moment may leave
\* in the WAL now or later.
InLog(i, t) == t \in buffer[i].sent \/ t \in flushing[i].log.sent \/ t \in wal[i[1]].sent

\* A REC record never overtakes the SENT record of the same tuple on its way from
\* the reader through the buffer and the flush to the WAL.
RecAfterSent ==
  hydfsFails = 0 =>
    \A i \in Inst, t \in Tuples : Owed(i[1], t) =>
      /\ t \in buffer[i].rec => InLog(i, t)
      /\ t \in flushing[i].log.rec => t \in flushing[i].log.sent \/ t \in wal[i[1]].sent
      /\ MayIterate(i) /\ t \in reader[i] => t \in sent[i] /\ InLog(i, t)

RecoveryInv == InFlightRetried /\ DurableInFlight /\ RecAfterSent

\* At the start nothing has been forwarded.
LEMMA RecoveryInit == Init => RecoveryInv
<1> SUFFICES ASSUME Init PROVE RecoveryInv
  OBVIOUS
<1>1. InFlightRetried
  <2>1. \A i \in Inst, t \in Tuples : t \in source /\ received[i][t] = "none"
    BY DEF Init
  <2>2. \A i \in Inst, t \in Tuples : ~Forwarded(i, t)
    BY <2>1 DEF Forwarded
  <2> QED
    BY <2>2 DEF InFlightRetried
<1>2. DurableInFlight
  <2>1. \A s \in 1..(NStages - 1) : wal[s].rec = {}
    BY StagesAssumption DEF Init, MapsEmpty, Stages
  <2> QED
    BY <2>1 DEF DurableInFlight
<1>3. RecAfterSent
  BY DEF Init, RecAfterSent, LogEmpty
<1> QED
  BY <1>1, <1>2, <1>3 DEF RecoveryInv

\* Every step keeps each output that is not accepted downstream in sentTuples, in
\* the WAL, or in records that a flush will append with the REC record.
LEMMA RecoveryNext ==
  ASSUME OwnNodes, TypeOK, Fresh, PipesPending, AcksSound, RecoveryInv, [Next]_vars,
         hydfsFails' = 0
  PROVE  RecoveryInv'
<1>a. \A s, t : t \in Tuples /\ Accepted(s, t) => Accepted(s, t)'
  BY MarksGrow, AcceptedGrows
<1>b. \A s, t : t \in Tuples /\ Owed(s, t)' => Owed(s, t)
  BY <1>a DEF Owed
<1>c. /\ buffer \in [Inst -> Log] /\ sent \in [Inst -> SUBSET Tuples]
      /\ flushing \in [Inst -> FlushType] /\ received \in [Inst -> [Tuples -> Marks]]
      /\ wal \in [Stages -> Maps] /\ reader \in [Inst -> SUBSET Tuples]
      /\ calls \subseteq CallType /\ acks \subseteq AckType /\ hydfsFails \in Nat
      /\ epoch \in [0..NStages -> Nat \ {0}] /\ status \in [Stages -> {"Running", "Stopped"}]
  BY DEF TypeOK, TaskTypeOK, MapsTypeOK, LogTypeOK, HopTypeOK, ProcTypeOK
\* The three parts for states in which no HyDFS operation has failed.
<1> DEFINE Flying(i, t)  == Live(i) /\ Forwarded(i, t) /\ ~Accepted(i[1] + 1, t)
           Records(i, t) ==
             Owed(i[1], t) =>
               /\ t \in buffer[i].rec => InLog(i, t)
               /\ t \in flushing[i].log.rec => t \in flushing[i].log.sent \/ t \in wal[i[1]].sent
               /\ MayIterate(i) /\ t \in reader[i] => t \in sent[i] /\ InLog(i, t)
           Durable(s, t) == t \in wal[s].rec /\ Owed(s, t) => t \in wal[s].sent
\* A step after which nothing has failed is a step in which nothing fails.
<1>d. ~(\E i \in Inst : FlushAppendFails(i)) /\ ~OutputFlushFails /\ ~(\E s \in Stages : RestartTaskNoWal(s))
  BY <1>c DEF FlushAppendFails, OutputFlushFails, RestartTaskNoWal
<1>e. hydfsFails = 0
  <2>1. \A t : EmitTuple(t) => hydfsFails' = hydfsFails
    BY DEF EmitTuple
  <2>2. \A c : HandleCall(c) \/ LoseCall(c) => hydfsFails' = hydfsFails
    BY DEF HandleCall, HandleTuple, TupleRejected, TupleAccepted, TupleDuplicate,
       DeliverDuplicateAck, LoseCall
  <2>3. \A x : DeliverAck(x) \/ LoseAck(x) => hydfsFails' = hydfsFails
    BY DEF DeliverAck, LoseAck
  <2>4. \A i, t : RunTask(i, t) \/ ReadOutput(i, t) \/ ForwardReturn(i, t) \/ RetrySend(i, t)
                  => hydfsFails' = hydfsFails
    BY DEF RunTask, ReadOutput, ReadDropped, ReadFinalOutput, ReadAndForward, ForwardReturn,
       RetrySend
  <2>5. \A i, R : RetryPendingSends(i, R) => hydfsFails' = hydfsFails
    BY DEF RetryPendingSends
  <2>6. \A i : FlushSnapshot(i) \/ FlushAppend(i) => hydfsFails' = hydfsFails
    BY DEF FlushSnapshot, FlushAppend
  <2>7. \A s : KillTask(s) \/ RestartTask(s) \/ CrashProcess(s) => hydfsFails' = hydfsFails
    BY DEF KillTask, RestartTask, CrashProcess
  <2>8. OutputFlush \/ UNCHANGED vars => hydfsFails' = hydfsFails
    BY DEF OutputFlush, vars
  <2> QED
    BY <1>d, <2>1, <2>2, <2>3, <2>4, <2>5, <2>6, <2>7, <2>8 DEF Next, InstanceStep, TaskStep
<1>f. /\ \A i \in Inst, t \in Tuples : Flying(i, t) => t \in sent[i]
      /\ \A i \in Inst, t \in Tuples : Records(i, t)
      /\ \A s \in Stages, t \in Tuples : Durable(s, t)
  BY <1>e DEF RecoveryInv, InFlightRetried, RecAfterSent, DurableInFlight, Owed
<1>g. ASSUME \A i \in Inst, t \in Tuples : Flying(i, t)' => t \in sent'[i],
             \A i \in Inst, t \in Tuples : Records(i, t)',
             \A s \in Stages, t \in Tuples : Durable(s, t)'
      PROVE  RecoveryInv'
  <2>1. InFlightRetried' /\ RecAfterSent'
    BY <1>g DEF InFlightRetried, RecAfterSent
  <2>2. DurableInFlight'
    <3> SUFFICES ASSUME NEW s \in 1..(NStages - 1), NEW t \in Tuples,
                        t \in wal'[s].rec, Outcome[s][t] = "emit", ~Accepted(s + 1, t)'
                 PROVE  t \in wal'[s].sent
      BY DEF DurableInFlight
    <3>1. s \in Stages /\ Owed(s, t)'
      BY StagesAssumption DEF Owed, Stages
    <3> QED
      BY <3>1, <1>g
  <2> QED
    BY <2>1, <2>2 DEF RecoveryInv
\* A step that takes away nothing but acknowledged entries.
<1>1. ASSUME UNCHANGED <<source, status, epoch, received, flushing, wal, reader>>,
             \A i \in Inst : \A t \in sent[i] : t \in sent'[i] \/ Accepted(i[1] + 1, t),
             \A i \in Inst : \A t \in buffer[i].sent :
               t \in buffer'[i].sent \/ Accepted(i[1] + 1, t),
             \A i \in Inst : buffer'[i].rec \subseteq buffer[i].rec
      PROVE  RecoveryInv'
  <2>1. \A i \in Inst, t \in Tuples : Flying(i, t)' => Flying(i, t)
    BY <1>1 DEF Live, Forwarded, Accepted
  <2>2. \A i \in Inst, t \in Tuples : Flying(i, t)' => t \in sent'[i]
    BY <1>1, <1>f, <2>1
  <2>3. \A i \in Inst, t \in Tuples : Owed(i[1], t) /\ InLog(i, t) => InLog(i, t)'
    BY <1>1 DEF InLog, Owed
  <2>4. \A i \in Inst : MayIterate(i)' <=> MayIterate(i)
    BY <1>1 DEF MayIterate, Live
  <2>5. ASSUME NEW i \in Inst, NEW t \in Tuples PROVE Records(i, t)'
    <3>1. SUFFICES ASSUME Owed(i[1], t)
                   PROVE  /\ t \in buffer'[i].rec => InLog(i, t)'
                          /\ t \in flushing'[i].log.rec => t \in flushing'[i].log.sent \/ t \in wal'[i[1]].sent
                          /\ MayIterate(i)' /\ t \in reader'[i] => t \in sent'[i] /\ InLog(i, t)'
      BY <1>b
    <3>2. Records(i, t)
      BY <1>f
    <3> QED
      BY <3>1, <3>2, <1>1, <2>3, <2>4 DEF Owed
  <2>6. \A s \in Stages, t \in Tuples : Durable(s, t)'
    BY <1>1, <1>b, <1>f
  <2> QED
    BY <2>2, <2>5, <2>6, <1>g
<1>2. ASSUME NEW i \in Inst, NEW th, NEW t, SendTuple(i, th, t),
             UNCHANGED <<source, status, epoch, received, flushing, wal, reader>>
      PROVE  RecoveryInv'
  <2>1. /\ sent' \in {sent, [sent EXCEPT ![i] = sent[i] \cup {t}]}
        /\ buffer' \in {buffer, [buffer EXCEPT ![i] = LogSENT(buffer[i], t)]}
    BY <1>2 DEF SendTuple, Logged, Update
  <2>2. LogSENT(buffer[i], t).rec = buffer[i].rec /\ buffer[i].sent \subseteq LogSENT(buffer[i], t).sent
    BY DEF LogSENT
  <2> QED
    BY <1>1, <1>2, <1>c, <2>1, <2>2
<1>3. ASSUME NEW s \in Senders, NEW t, HandleACK(s, t), Accepted(s + 1, t),
             UNCHANGED <<source, status, epoch, received, flushing, wal, reader>>
      PROVE  RecoveryInv'
  <2>1. ASSUME NEW i \in Inst, i[1] = s, sent' = [sent EXCEPT ![i] = @ \ {t}],
               buffer' = Logged(i, LogACK(buffer[i], t))
        PROVE  RecoveryInv'
    <3>1. buffer' \in {buffer, [buffer EXCEPT ![i] = LogACK(buffer[i], t)]}
      BY <2>1 DEF Logged, Update
    <3>2. LogACK(buffer[i], t).rec = buffer[i].rec /\ LogACK(buffer[i], t).sent = buffer[i].sent \ {t}
      BY DEF LogACK
    <3>3. \A j \in Inst : \A u \in sent[j] : u \in sent'[j] \/ Accepted(j[1] + 1, u)
      BY <1>3, <1>c, <2>1
    <3>4. \A j \in Inst : \A u \in buffer[j].sent : u \in buffer'[j].sent \/ Accepted(j[1] + 1, u)
      BY <1>3, <1>c, <2>1, <3>1, <3>2
    <3>5. \A j \in Inst : buffer'[j].rec \subseteq buffer[j].rec
      BY <1>c, <3>1, <3>2
    <3> QED
      BY <1>1, <1>3, <3>3, <3>4, <3>5
  <2>2. CASE UNCHANGED <<sent, buffer>>
    BY <1>1, <1>3, <2>2
  <2> QED
    BY <1>3, <2>1, <2>2, AckOwner
<1>4. ASSUME NEW t \in Tuples, EmitTuple(t) PROVE RecoveryInv'
  <2>1. /\ source' = source \ {t}
        /\ sent' = [sent EXCEPT ![Leader] = sent[Leader] \cup {t}]
        /\ UNCHANGED <<status, epoch, received, buffer, flushing, wal, reader>>
    BY <1>4, LeaderLive DEF EmitTuple, SendTuple, Update, Logged, MayIterate, procVars
  <2>2. \A i \in Inst, u \in Tuples : Flying(i, u)' => Flying(i, u) \/ (i = Leader /\ u = t)
    BY <2>1 DEF Live, Forwarded, Accepted
  <2>3. \A i \in Inst, u \in Tuples : Flying(i, u)' => u \in sent'[i]
    BY <2>1, <2>2, <1>c, <1>f, InstFacts
  <2>4. \A i \in Inst : sent[i] \subseteq sent'[i]
    BY <2>1, <1>c
  <2>5. ASSUME NEW i \in Inst, NEW u \in Tuples PROVE Records(i, u)'
    BY <2>1, <2>4, <1>b, <1>f DEF InLog, MayIterate, Live
  <2>6. \A s \in Stages, u \in Tuples : Durable(s, u)'
    BY <2>1, <1>b, <1>f
  <2> QED
    BY <2>3, <2>5, <2>6, <1>g
<1>5. ASSUME NEW c \in calls, TupleAccepted(c) PROVE RecoveryInv'
  <2> DEFINE k == Cur(c.inst[1] + 1)
  <2>1. /\ received' = [received EXCEPT ![k][c.id] = "pending"]
        /\ UNCHANGED <<source, status, epoch, sent, buffer, flushing, wal, reader>>
    BY <1>5 DEF TupleAccepted
  <2> HIDE DEF k
  <2>2. \A i \in Inst, t \in Tuples : received'[i][t] = "processed" => received[i][t] = "processed"
    BY <2>1, <1>c
  <2>3. \A i \in Inst, t \in Tuples : Flying(i, t)' => Flying(i, t)
    BY <2>1, <2>2, <1>a DEF Live, Forwarded
  <2>4. \A i \in Inst, t \in Tuples : Flying(i, t)' => t \in sent'[i]
    BY <2>1, <2>3, <1>f
  <2>5. ASSUME NEW i \in Inst, NEW t \in Tuples PROVE Records(i, t)'
    BY <2>1, <1>b, <1>f DEF InLog, MayIterate, Live
  <2>6. \A s \in Stages, t \in Tuples : Durable(s, t)'
    BY <2>1, <1>b, <1>f
  <2> QED
    BY <2>4, <2>5, <2>6, <1>g
\* The output of t is accounted for, or t has none.
<1>6. ASSUME NEW i \in Inst, NEW t \in Tuples, i # Leader, MarkProcessed(i, t),
             Owed(i[1], t) /\ MayIterate(i) => t \in sent[i] /\ InLog(i, t),
             UNCHANGED <<source, status, epoch, sent, flushing, wal>>,
             \A j \in Inst : reader'[j] \subseteq reader[j]
      PROVE  RecoveryInv'
  <2>1. /\ received' = [received EXCEPT ![i][t] = "processed"]
        /\ buffer' = IF MayIterate(i) THEN [buffer EXCEPT ![i] = LogREC(buffer[i], t)] ELSE buffer
    BY <1>6 DEF MarkProcessed, Logged, Update
  <2>2. LogREC(buffer[i], t).rec = buffer[i].rec \cup {t} /\ LogREC(buffer[i], t).sent = buffer[i].sent
    BY DEF LogREC
  <2>3. /\ \A j \in Inst : buffer'[j].sent = buffer[j].sent
        /\ \A j \in Inst, u \in Tuples : u \in buffer'[j].rec =>
             u \in buffer[j].rec \/ (j = i /\ u = t /\ MayIterate(i))
    BY <2>1, <2>2, <1>c
  <2>4. \A j \in Inst, u \in Tuples : received'[j][u] = "processed" =>
          received[j][u] = "processed" \/ (j = i /\ u = t)
    BY <2>1, <1>c
  <2>5. \A j \in Inst, u \in Tuples : Flying(j, u)' =>
          Flying(j, u) \/ (j = i /\ u = t /\ Live(i) /\ Owed(i[1], t))
    BY <1>6, <2>4, <1>a DEF Live, Forwarded, Owed
  <2>6. \A j \in Inst, u \in Tuples : Flying(j, u)' => u \in sent'[j]
    BY <1>6, <2>5, <1>f DEF MayIterate
  <2>7. \A j \in Inst, u \in Tuples : InLog(j, u)' <=> InLog(j, u)
    BY <1>6, <2>3 DEF InLog
  <2>8. \A j \in Inst : MayIterate(j)' <=> MayIterate(j)
    BY <1>6 DEF MayIterate, Live
  <2>9. ASSUME NEW j \in Inst, NEW u \in Tuples PROVE Records(j, u)'
    <3>1. Records(j, u) /\ (Owed(j[1], u)' => Owed(j[1], u))
      BY <1>b, <1>f
    <3> QED
      BY <3>1, <1>6, <2>3, <2>7, <2>8
  <2>10. \A s \in Stages, u \in Tuples : Durable(s, u)'
    BY <1>6, <1>b, <1>f
  <2> QED
    BY <2>6, <2>9, <2>10, <1>g
<1>7. ASSUME NEW i \in Inst, NEW t \in Tuples, ReadDropped(i, t) \/ ReadFinalOutput(i, t)
      PROVE  RecoveryInv'
  <2>1. i # Leader
    BY <1>7 DEF ReadDropped, ReadFinalOutput, ReadLine, TypeOK, RolesOK
  <2>2. ~Owed(i[1], t)
    BY <1>7, StagesAssumption DEF ReadDropped, ReadFinalOutput, IsFinal, Owed
  <2>3. /\ MarkProcessed(i, t)
        /\ UNCHANGED <<source, status, epoch, sent, flushing, wal, reader>>
    BY <1>7 DEF ReadDropped, ReadFinalOutput, hopVars
  <2> QED
    BY <2>1, <2>2, <2>3, <1>6
<1>8. ASSUME NEW i \in Inst, NEW t \in Tuples, ForwardReturn(i, t) PROVE RecoveryInv'
  <2>1. i # Leader
    BY <1>8 DEF ForwardReturn, TypeOK, RolesOK
  <2>2. Owed(i[1], t) /\ MayIterate(i) => t \in sent[i] /\ InLog(i, t)
    BY <1>8, <1>f DEF ForwardReturn
  <2>3. /\ MarkProcessed(i, t) /\ reader' = [reader EXCEPT ![i] = {}]
        /\ UNCHANGED <<source, status, epoch, sent, flushing, wal>>
    BY <1>8 DEF ForwardReturn
  <2>4. \A j \in Inst : reader'[j] \subseteq reader[j]
    BY <2>3, <1>c
  <2> QED
    BY <2>1, <2>2, <2>3, <2>4, <1>6
<1>9. ASSUME NEW i \in Inst, NEW t \in Tuples, ReadAndForward(i, t) PROVE RecoveryInv'
  <2>1. i # Leader
    BY <1>9 DEF ReadAndForward, ReadLine, TypeOK, RolesOK
  <2>2. /\ reader' = [reader EXCEPT ![i] = {t}]
        /\ sent' = IF MayIterate(i) THEN [sent EXCEPT ![i] = sent[i] \cup {t}] ELSE sent
        /\ buffer' = IF MayIterate(i) THEN [buffer EXCEPT ![i] = LogSENT(buffer[i], t)] ELSE buffer
        /\ UNCHANGED <<source, status, epoch, received, flushing, wal>>
    BY <1>9, <2>1 DEF ReadAndForward, SendTuple, Update, Logged
  <2>3. LogSENT(buffer[i], t).rec = buffer[i].rec /\ LogSENT(buffer[i], t).sent = buffer[i].sent \cup {t}
    BY DEF LogSENT
  <2>4. /\ \A j \in Inst : sent[j] \subseteq sent'[j] /\ buffer[j].sent \subseteq buffer'[j].sent
        /\ \A j \in Inst : buffer'[j].rec = buffer[j].rec
        /\ MayIterate(i) => t \in sent'[i] /\ t \in buffer'[i].sent
    BY <2>2, <2>3, <1>c
  <2>5. \A j \in Inst, u \in Tuples : InLog(j, u) => InLog(j, u)'
    BY <2>2, <2>4 DEF InLog
  <2>6. \A j \in Inst : MayIterate(j)' <=> MayIterate(j)
    BY <2>2 DEF MayIterate, Live
  <2>7. \A j \in Inst, u \in Tuples : Flying(j, u)' => u \in sent'[j]
    BY <2>2, <2>4, <1>f DEF Live, Forwarded, Accepted
  <2>8. \A j \in Inst, u \in Tuples : u \in reader'[j] => u \in reader[j] \/ (j = i /\ u = t)
    BY <2>2, <1>c
  <2>9. ASSUME NEW j \in Inst, NEW u \in Tuples PROVE Records(j, u)'
    <3>1. Records(j, u) /\ (Owed(j[1], u)' => Owed(j[1], u))
      BY <1>b, <1>f
    <3>2. MayIterate(i) => InLog(i, t)'
      BY <2>4 DEF InLog
    <3> QED
      BY <3>1, <3>2, <2>2, <2>4, <2>5, <2>6, <2>8
  <2>10. \A s \in Stages, u \in Tuples : Durable(s, u)'
    BY <2>2, <1>b, <1>f
  <2> QED
    BY <2>7, <2>9, <2>10, <1>g
<1>10. ASSUME NEW i \in Inst, FlushSnapshot(i) PROVE RecoveryInv'
  <2>1. /\ flushing[i] = Idle
        /\ flushing' = [flushing EXCEPT ![i] = [log |-> buffer[i], ids |-> pendingAcks[i]]]
        /\ buffer' = [buffer EXCEPT ![i] = LogEmpty]
        /\ UNCHANGED <<source, status, epoch, received, sent, wal, reader>>
    BY <1>10 DEF FlushSnapshot, hopVars
  <2>2. Idle.log = LogEmpty /\ LogEmpty.sent = {} /\ LogEmpty.rec = {}
    BY DEF Idle, LogEmpty
  <2>3. \A j \in Inst, u \in Tuples : InLog(j, u) => InLog(j, u)'
    BY <2>1, <2>2, <1>c DEF InLog
  <2>4. \A j \in Inst : MayIterate(j)' <=> MayIterate(j)
    BY <2>1 DEF MayIterate, Live
  <2>5. \A j \in Inst, u \in Tuples : Flying(j, u)' => u \in sent'[j]
    BY <2>1, <1>f DEF Live, Forwarded, Accepted
  <2>6. ASSUME NEW j \in Inst, NEW u \in Tuples PROVE Records(j, u)'
    <3>1. Records(j, u) /\ (Owed(j[1], u)' => Owed(j[1], u))
      BY <1>b, <1>f
    <3>2. CASE j = i
      <4>1. /\ buffer'[i].rec = {} /\ flushing'[i].log = buffer[i] /\ flushing[i].log.sent = {}
        BY <2>1, <2>2, <1>c
      <4> QED
        BY <3>1, <3>2, <4>1, <2>1, <2>3, <2>4 DEF InLog
    <3>3. CASE j # i
      <4>1. buffer'[j] = buffer[j] /\ flushing'[j] = flushing[j]
        BY <2>1, <3>3, <1>c
      <4> QED
        BY <3>1, <4>1, <2>1, <2>3, <2>4
    <3> QED
      BY <3>2, <3>3
  <2>7. \A s \in Stages, u \in Tuples : Durable(s, u)'
    BY <2>1, <1>b, <1>f
  <2> QED
    BY <2>5, <2>6, <2>7, <1>g
<1>11. ASSUME NEW i \in Inst, FlushAppend(i) PROVE RecoveryInv'
  <2>1. /\ flushing' = [flushing EXCEPT ![i] = Idle]
        /\ wal' = [wal EXCEPT ![i[1]] = Replay(@, flushing[i].log)]
        /\ UNCHANGED <<source, status, epoch, received, sent, buffer, reader>>
    BY <1>11 DEF FlushAppend, SendFlushedAcks, eomVars, hopVars
  <2>2. i[1] \in Stages
    <3>1. i # Leader
      BY <1>11 DEF FlushAppend, SendFlushedAcks, TypeOK, RolesOK
    <3> QED
      BY <3>1, InstFacts, MaxEpochAssumption DEF Stages, Leader
  <2>3. /\ wal'[i[1]].rec = wal[i[1]].rec \cup flushing[i].log.rec
        /\ wal'[i[1]].sent = (wal[i[1]].sent \ flushing[i].log.acked) \cup flushing[i].log.sent
    BY <2>1, <2>2, <1>c DEF Replay
  <2>4. \A u \in flushing[i].log.acked : Accepted(i[1] + 1, u)
    BY DEF AcksSound
  <2>5. \A s \in Stages, u \in Tuples : Owed(s, u) /\ u \in wal[s].sent => u \in wal'[s].sent
    BY <2>1, <2>2, <2>3, <2>4, <1>c DEF Owed
  <2>6. Idle.log.sent = {} /\ Idle.log.rec = {}
    BY DEF Idle, LogEmpty
  <2>7. \A s \in 1..(NStages - 1) : s \in Stages
    BY StagesAssumption DEF Stages
  <2>8. \A j \in Inst, u \in Tuples : Owed(j[1], u) /\ InLog(j, u) => InLog(j, u)'
    <3> SUFFICES ASSUME NEW j \in Inst, NEW u \in Tuples, Owed(j[1], u), InLog(j, u)
                 PROVE  InLog(j, u)'
      OBVIOUS
    <3>1. j[1] \in Stages
      BY <2>7 DEF Owed
    <3>2. CASE u \in wal[j[1]].sent
      BY <3>1, <3>2, <2>5 DEF InLog
    <3>3. CASE u \in flushing[j].log.sent
      <4>1. CASE j = i
        BY <3>3, <4>1, <2>3 DEF InLog
      <4>2. CASE j # i
        BY <3>3, <4>2, <2>1, <1>c DEF InLog
      <4> QED
        BY <4>1, <4>2
    <3>4. CASE u \in buffer[j].sent
      BY <3>4, <2>1 DEF InLog
    <3> QED
      BY <3>2, <3>3, <3>4 DEF InLog
  <2>9. \A j \in Inst : MayIterate(j)' <=> MayIterate(j)
    BY <2>1 DEF MayIterate, Live
  <2>10. \A j \in Inst, u \in Tuples : Flying(j, u)' => u \in sent'[j]
    BY <2>1, <1>f DEF Live, Forwarded, Accepted
  <2>11. ASSUME NEW j \in Inst, NEW u \in Tuples PROVE Records(j, u)'
    <3>1. Records(j, u) /\ (Owed(j[1], u)' => Owed(j[1], u))
      BY <1>b, <1>f
    <3>2. Owed(j[1], u) => j[1] \in Stages
      BY <2>7 DEF Owed
    <3>3. CASE j = i
      BY <3>1, <3>2, <3>3, <2>1, <2>6, <2>8, <2>9, <1>c
    <3>4. CASE j # i
      <4>1. flushing'[j] = flushing[j]
        BY <3>4, <2>1, <1>c
      <4> QED
        BY <3>1, <3>2, <4>1, <2>1, <2>5, <2>8, <2>9
    <3> QED
      BY <3>3, <3>4
  <2>12. ASSUME NEW s \in Stages, NEW u \in Tuples PROVE Durable(s, u)'
    <3> SUFFICES ASSUME u \in wal'[s].rec, Owed(s, u)' PROVE u \in wal'[s].sent
      OBVIOUS
    <3>1. Owed(s, u)
      BY <1>b
    <3>2. CASE u \in wal[s].rec
      BY <3>1, <3>2, <1>f, <2>5
    <3>3. CASE u \notin wal[s].rec
      <4>1. s = i[1] /\ u \in flushing[i].log.rec
        BY <3>3, <2>1, <2>2, <2>3, <1>c
      <4>2. u \in flushing[i].log.sent \/ u \in wal[s].sent
        BY <4>1, <3>1, <1>f
      <4> QED
        BY <4>1, <4>2, <3>1, <2>3, <2>5
    <3> QED
      BY <3>2, <3>3
  <2> QED
    BY <2>10, <2>11, <2>12, <1>g
<1>12. ASSUME NEW s \in Stages, KillTask(s) PROVE RecoveryInv'
  <2> DEFINE k == Cur(s)
  <2>1. /\ status' = [status EXCEPT ![s] = "Stopped"]
        /\ UNCHANGED <<source, epoch, received, flushing, wal, reader>>
        /\ \/ UNCHANGED <<sent, buffer>> /\ LateTicks
           \/ /\ ~LateTicks
              /\ sent' = [sent EXCEPT ![k] = {}]
              /\ buffer' = [buffer EXCEPT ![k] = LogEmpty]
    BY <1>12, BoundsAssumption DEF KillTask, hopVars
  <2>2. k[1] = s /\ k # Leader
    BY DEF Cur, Leader, Stages
  <2>3. \A j \in Inst : Live(j)' => Live(j) /\ j # k
    BY <2>1, <2>2, <1>c, InstFacts DEF Live, Stages, Leader
  <2> HIDE DEF k
  <2>4. LogEmpty.rec = {}
    BY DEF LogEmpty
  <2>5. \A j \in Inst : /\ MayIterate(j)' => MayIterate(j)
                        /\ (MayIterate(j)' \/ j # k) => sent'[j] = sent[j] /\ buffer'[j] = buffer[j]
                        /\ buffer'[j].rec \subseteq buffer[j].rec
                        /\ buffer'[j] = buffer[j] \/ buffer'[j].rec = {}
    BY <2>1, <2>3, <2>4, <1>c DEF MayIterate
  <2>6. \A j \in Inst, u \in Tuples : Flying(j, u)' => u \in sent'[j]
    BY <2>1, <2>3, <2>5, <1>f DEF Forwarded, Accepted
  <2>7. ASSUME NEW j \in Inst, NEW u \in Tuples PROVE Records(j, u)'
    <3>1. Records(j, u) /\ (Owed(j[1], u)' => Owed(j[1], u))
      BY <1>b, <1>f
    <3>2. buffer'[j] = buffer[j] => (InLog(j, u)' <=> InLog(j, u))
      BY <2>1 DEF InLog
    <3> QED
      BY <3>1, <3>2, <2>1, <2>5
  <2>8. \A r \in Stages, u \in Tuples : Durable(r, u)'
    BY <2>1, <1>b, <1>f
  <2> QED
    BY <2>6, <2>7, <2>8, <1>g
<1>13. ASSUME NEW s \in Stages, RestartTask(s) PROVE RecoveryInv'
  <2> DEFINE k == <<s, epoch[s] + 1>>
             m == [t \in Tuples |-> IF t \in wal[s].rec THEN "processed" ELSE "none"]
  <2>1. /\ status' = [status EXCEPT ![s] = "Running"] /\ status[s] = "Stopped"
        /\ epoch' = [epoch EXCEPT ![s] = @ + 1]
        /\ received' = [received EXCEPT ![k] = m]
        /\ sent' = [sent EXCEPT ![k] = wal[s].sent]
        /\ UNCHANGED <<source, buffer, flushing, wal, reader>>
    BY <1>13 DEF RestartTask, StartIncarnation, hopVars
  <2>2. /\ k \in Inst /\ k[1] = s /\ k[2] = epoch[s] + 1 /\ k # Leader
        /\ epoch[s] \in Nat /\ s \in 0..NStages
    BY <2>1, <1>c, CurFacts DEF Stages, Leader
  <2>3. reader[k] = {}
    BY <2>2 DEF Fresh
  <2>4. \A t \in Tuples : m[t] = "processed" => t \in wal[s].rec
    OBVIOUS
  <2>5. \A j \in Inst : Live(j)' => j = k \/ Live(j)
    <3> SUFFICES ASSUME NEW j \in Inst, Live(j)', j # k PROVE Live(j)
      OBVIOUS
    <3>1. j[1] \in 0..NStages /\ j = <<j[1], j[2]>>
      BY InstFacts
    <3>2. j[1] # s
      <4> SUFFICES ASSUME j[1] = s PROVE FALSE
        OBVIOUS
      <4>1. epoch'[s] = epoch[s] + 1
        BY <2>1, <2>2, <1>c
      <4>2. j[2] = epoch[s] + 1
        BY <4>1 DEF Live
      <4> QED
        BY <3>1, <4>2
    <3>3. epoch'[j[1]] = epoch[j[1]]
      BY <2>1, <3>1, <3>2, <1>c
    <3>4. CASE j = Leader
      BY <3>3, <3>4 DEF Live
    <3>5. CASE j # Leader
      <4>1. j[1] \in Stages
        BY <3>1, <3>5, InstFacts, MaxEpochAssumption DEF Stages, Leader
      <4>2. status'[j[1]] = status[j[1]]
        BY <2>1, <3>2, <4>1, <1>c
      <4> QED
        BY <3>3, <3>5, <4>2 DEF Live
    <3> QED
      BY <3>4, <3>5
  <2> HIDE DEF k, m
  <2>6. /\ received'[k] = m /\ sent'[k] = wal[s].sent
        /\ \A j \in Inst : j # k => received'[j] = received[j] /\ sent'[j] = sent[j]
    BY <2>1, <2>2, <1>c
  <2>7. ASSUME NEW j \in Inst, NEW t \in Tuples, Flying(j, t)' PROVE t \in sent'[j]
    <3>1. ~Accepted(j[1] + 1, t)
      BY <2>7, <1>a
    <3>2. CASE j = k
      <4>1. s \in 1..(NStages - 1) /\ Outcome[s][t] = "emit" /\ t \in wal[s].rec
        BY <2>7, <3>2, <2>2, <2>4, <2>6 DEF Forwarded
      <4>2. Owed(s, t)
        BY <4>1, <3>1, <3>2, <2>2 DEF Owed
      <4> QED
        BY <4>1, <4>2, <3>2, <2>6, <1>f
    <3>3. CASE j # k
      <4>1. Live(j) /\ Forwarded(j, t)
        BY <2>7, <3>3, <2>1, <2>5, <2>6 DEF Forwarded
      <4> QED
        BY <4>1, <3>1, <3>3, <2>6, <1>f
    <3> QED
      BY <3>2, <3>3
  <2>8. ASSUME NEW j \in Inst, NEW t \in Tuples PROVE Records(j, t)'
    <3>1. Records(j, t) /\ (Owed(j[1], t)' => Owed(j[1], t))
      BY <1>b, <1>f
    <3>2. InLog(j, t)' <=> InLog(j, t)
      BY <2>1 DEF InLog
    <3>3. MayIterate(j)' => MayIterate(j) \/ j = k
      BY <2>5 DEF MayIterate
    <3> QED
      BY <3>1, <3>2, <3>3, <2>1, <2>3, <2>6
  <2>9. \A r \in Stages, t \in Tuples : Durable(r, t)'
    BY <2>1, <1>b, <1>f
  <2> QED
    BY <2>7, <2>8, <2>9, <1>g
<1>14. ASSUME NEW c \in calls, TupleRejected(c) \/ TupleDuplicate(c) \/ LoseCall(c)
       PROVE  RecoveryInv'
  BY <1>14, <1>1 DEF TupleRejected, TupleDuplicate, LoseCall, eomVars
<1>15. ASSUME NEW c \in calls, DeliverDuplicateAck(c) PROVE RecoveryInv'
  <2>1. Accepted(c.inst[1] + 1, c.id) /\ c.inst[1] \in Senders
    BY <1>15, <1>c DEF DeliverDuplicateAck, AcksSound, CallType
  <2> QED
    BY <1>15, <2>1, <1>3 DEF DeliverDuplicateAck
<1>16. ASSUME NEW a \in acks, DeliverAck(a) PROVE RecoveryInv'
  <2>1. Accepted(a.stage + 1, a.id) /\ a.stage \in Senders
    BY <1>c DEF AcksSound, AckType
  <2> QED
    BY <1>16, <2>1, <1>3 DEF DeliverAck, hopVars
<1>17. ASSUME NEW a \in acks, LoseAck(a) PROVE RecoveryInv'
  BY <1>17, <1>1 DEF LoseAck, eomVars, hopVars
<1>18. ASSUME NEW i \in Inst, NEW t, RetrySend(i, t) PROVE RecoveryInv'
  BY <1>18, <1>2 DEF RetrySend
<1>19. ASSUME NEW i, NEW t, RunTask(i, t) PROVE RecoveryInv'
  BY <1>19, <1>1 DEF RunTask, eomVars, hopVars
<1>20. ASSUME NEW i, NEW R, RetryPendingSends(i, R) PROVE RecoveryInv'
  BY <1>20, <1>1 DEF RetryPendingSends, eomVars
<1>21. ASSUME NEW s, CrashProcess(s) PROVE RecoveryInv'
  BY <1>21, <1>1 DEF CrashProcess, eomVars, hopVars
<1>22. CASE OutputFlush \/ UNCHANGED vars
  BY <1>22, <1>1 DEF OutputFlush, TakeOutput, eomVars, hopVars, vars
<1> HIDE DEF Flying, Records, Durable
<1> QED
  BY <1>d, <1>4, <1>5, <1>7, <1>8, <1>9, <1>10, <1>11, <1>12, <1>13, <1>14, <1>15, <1>16,
     <1>17, <1>18, <1>19, <1>20, <1>21, <1>22
     DEF Next, HandleCall, HandleTuple, InstanceStep, TaskStep, ReadOutput

\* The inductive invariant of the pipeline.
PipelineInv == TypeOK /\ Fresh /\ PipesPending /\ AcksSound /\ RecoveryInv

\* The conjunction is an invariant of the specification.
LEMMA PipelineInvariant ==
  ASSUME OwnNodes
  PROVE  Spec => []PipelineInv
<1>1. Init => PipelineInv
  BY TypeInit, FreshInit, AcksSoundInit, RecoveryInit DEF PipelineInv
<1>2. PipelineInv /\ [Next]_vars => PipelineInv'
  <2> SUFFICES ASSUME PipelineInv, [Next]_vars PROVE PipelineInv'
    OBVIOUS
  <2>1. (TypeOK /\ Fresh /\ PipesPending /\ AcksSound)'
    BY TypeNext, FreshNext, AcksSoundNext DEF PipelineInv
  <2>2. CASE hydfsFails' = 0
    BY <2>1, <2>2, RecoveryNext DEF PipelineInv
  <2>3. CASE hydfsFails' # 0
    BY <2>1, <2>3 DEF PipelineInv, RecoveryInv, InFlightRetried, DurableInFlight, RecAfterSent
  <2> QED
    BY <2>2, <2>3
<1> QED
  BY <1>1, <1>2, PTL DEF Spec

\* Lost calls, kills and restarts at any moment, and late flushes of stopped
\* managers never leave an output with nobody to retry it.
THEOREM InFlight ==
  ASSUME OwnNodes
  PROVE  Spec => []InFlightRetried
<1>1. PipelineInv => InFlightRetried
  BY DEF PipelineInv, RecoveryInv
<1> QED
  BY <1>1, PipelineInvariant, PTL

\* The WAL never says that a tuple is done while its output is neither accepted by
\* the next stage nor restored as unacknowledged.
THEOREM DurableWal ==
  ASSUME OwnNodes
  PROVE  Spec => []DurableInFlight
<1>1. PipelineInv => DurableInFlight
  BY DEF PipelineInv, RecoveryInv
<1> QED
  BY <1>1, PipelineInvariant, PTL
=============================================================================
