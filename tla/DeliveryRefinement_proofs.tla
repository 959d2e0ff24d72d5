---------------------- MODULE DeliveryRefinement_proofs ----------------------
(***************************************************************************)
(* The pipeline implements Delivery, for any number of tuples, stages and   *)
(* incarnations, any placement of the tasks and any bound on failures.      *)
(***************************************************************************)
EXTENDS DeliveryRefinement, ExactlyOnce_proofs

\* The leader has read t and the stages up to s let it through.
Passed(s, t) == t \notin source /\ \A r \in 1..s : Outcome[r][t] = "emit"

\* The tuples that a manager has sent or will, in its maps and in its records.
Outgoing(i) == sent[i] \cup toRetry[i] \cup buffer[i].sent \cup flushing[i].log.sent

\* What stage s sends has passed the stages up to s.
SentPassed ==
  /\ \A c \in calls : Passed(c.inst[1], c.id)
  /\ \A i \in Inst : \A t \in Outgoing(i) : Passed(i[1], t)
  /\ \A s \in Stages : \A t \in wal[s].sent : Passed(s, t)

\* What stage s has accepted has passed the stages before it, and only a stage
\* with a successor forwards.
ReceivedPassed ==
  /\ \A i \in Inst, t \in Tuples : received[i][t] # "none" => Passed(i[1] - 1, t)
  /\ \A i \in Inst : i[1] = NStages => reader[i] = {}

\* An incarnation of stage s is done with t.
Finished(s, t) == \E j \in Inst : j[1] = s /\ received[j][t] = "processed"

\* The REC records of a manager that are not in the WAL.
Unflushed(i) == buffer[i].rec \cup flushing[i].log.rec

\* A REC record is only written for a tuple that an incarnation has finished.
RecordsFinished ==
  /\ \A i \in Inst : \A t \in Unflushed(i) : Finished(i[1], t)
  /\ \A s \in Stages : \A t \in wal[s].rec : Finished(s, t)

PathInv == SentPassed /\ ReceivedPassed /\ RecordsFinished

\* At the start nothing has been read, sent or recorded.
LEMMA PathInit == Init => PathInv
<1> SUFFICES ASSUME Init PROVE PathInv
  OBVIOUS
<1>1. \A i \in Inst : Outgoing(i) = {} /\ Unflushed(i) = {}
  BY DEF Init, Outgoing, Unflushed, LogEmpty
<1>2. \A s \in Stages : wal[s].sent = {} /\ wal[s].rec = {}
  BY DEF Init, MapsEmpty
<1> QED
  BY <1>1, <1>2 DEF Init, PathInv, SentPassed, ReceivedPassed, RecordsFinished

\* An ACK writes no REC record.
LEMMA AckKeepsRec ==
  ASSUME TypeOK, NEW s, NEW t \in Tuples, HandleACK(s, t), NEW j \in Inst
  PROVE  buffer'[j].rec = buffer[j].rec
<1>1. CASE UNCHANGED <<sent, buffer>>
  BY <1>1
<1>2. ASSUME NEW i \in Inst, buffer' = Logged(i, LogACK(buffer[i], t))
      PROVE  buffer'[j].rec = buffer[j].rec
  <2>1. LogACK(buffer[i], t).rec = buffer[i].rec
    BY DEF LogACK
  <2>2. buffer' = buffer \/ buffer' = [buffer EXCEPT ![i] = LogACK(buffer[i], t)]
    BY <1>2 DEF Logged, Update
  <2> QED
    BY <2>1, <2>2 DEF TypeOK, LogTypeOK
<1> QED
  BY <1>1, <1>2, AckEffect

----------------------------------------------------------------------------
\* What a step may add to the state, if it is to keep PathInv: a call for a tuple
\* of an earlier call, or one that has passed; the same for what is sent; and
\* records only where an incarnation has finished.
CallsFollow ==
  \A c \in calls' : \/ \E d \in calls : d.inst = c.inst /\ d.id = c.id
                    \/ Passed(c.inst[1], c.id)'

SendsFollow ==
  /\ \A i \in Inst : \A t \in Outgoing(i)' : t \in Outgoing(i) \/ Passed(i[1], t)'
  /\ \A s \in Stages : \A t \in wal'[s].sent :
       t \in wal[s].sent \/ \E i \in Inst : i[1] = s /\ t \in Outgoing(i)

MarksFollow ==
  /\ \A i \in Inst, t \in Tuples :
       received'[i][t] # "none" => received[i][t] # "none" \/ Passed(i[1] - 1, t)'
  /\ \A i \in Inst : i[1] = NStages => reader'[i] \subseteq reader[i]

RecordsFollow ==
  /\ \A i \in Inst : \A t \in Unflushed(i)' : t \in Unflushed(i) \/ Finished(i[1], t)'
  /\ \A s \in Stages : \A t \in wal'[s].rec :
       t \in wal[s].rec \/ \E i \in Inst : i[1] = s /\ t \in Unflushed(i)

\* Lines are read and marks advance once and for all, so that what has passed or
\* is finished stays so.
LEMMA PathKept ==
  ASSUME TypeOK, PathInv, source' \subseteq source, MarksAdvance,
         CallsFollow, SendsFollow, MarksFollow, RecordsFollow,
         \A i \in Inst : Unflushed(i) \subseteq Tuples, \A s \in Stages : wal[s].rec \subseteq Tuples
  PROVE  PathInv'
<1>1. ASSUME NEW s, NEW t, Passed(s, t) PROVE Passed(s, t)'
  BY <1>1 DEF Passed
<1>2. ASSUME NEW s, NEW t \in Tuples, Finished(s, t) PROVE Finished(s, t)'
  BY <1>2 DEF Finished, MarksAdvance
<1>3. SentPassed'
  <2>1. ASSUME NEW c \in calls' PROVE Passed(c.inst[1], c.id)'
    BY <2>1, <1>1 DEF CallsFollow, PathInv, SentPassed
  <2>2. ASSUME NEW i \in Inst, NEW t \in Outgoing(i)' PROVE Passed(i[1], t)'
    BY <2>2, <1>1 DEF SendsFollow, PathInv, SentPassed
  <2>3. ASSUME NEW s \in Stages, NEW t \in wal'[s].sent PROVE Passed(s, t)'
    BY <2>3, <1>1 DEF SendsFollow, PathInv, SentPassed
  <2> QED
    BY <2>1, <2>2, <2>3 DEF SentPassed
<1>4. ReceivedPassed'
  <2>1. ASSUME NEW i \in Inst, NEW t \in Tuples, received'[i][t] # "none" PROVE Passed(i[1] - 1, t)'
    BY <2>1, <1>1 DEF MarksFollow, PathInv, ReceivedPassed
  <2>2. ASSUME NEW i \in Inst, i[1] = NStages PROVE reader'[i] = {}
    BY <2>2 DEF MarksFollow, PathInv, ReceivedPassed
  <2> QED
    BY <2>1, <2>2 DEF ReceivedPassed
<1>5. RecordsFinished'
  <2>1. ASSUME NEW i \in Inst, NEW t \in Unflushed(i)' PROVE Finished(i[1], t)'
    BY <2>1, <1>2 DEF RecordsFollow, PathInv, RecordsFinished
  <2>2. ASSUME NEW s \in Stages, NEW t \in wal'[s].rec PROVE Finished(s, t)'
    BY <2>2, <1>2 DEF RecordsFollow, PathInv, RecordsFinished
  <2> QED
    BY <2>1, <2>2 DEF RecordsFinished
<1> QED
  BY <1>3, <1>4, <1>5 DEF PathInv

\* Lines are only taken out of the source.
LEMMA SourceShrinks == [Next]_vars => source' \subseteq source
<1> SUFFICES ASSUME [Next]_vars PROVE source' \subseteq source
  OBVIOUS
<1>1. ASSUME NEW t, EmitTuple(t) PROVE source' \subseteq source
  BY <1>1 DEF EmitTuple
<1>2. ASSUME NEW c, HandleCall(c) \/ LoseCall(c) PROVE source' = source
  BY <1>2 DEF HandleCall, HandleTuple, TupleRejected, TupleAccepted, TupleDuplicate,
     DeliverDuplicateAck, LoseCall
<1>3. ASSUME NEW a, DeliverAck(a) \/ LoseAck(a) PROVE source' = source
  BY <1>3 DEF DeliverAck, LoseAck
<1>4. ASSUME NEW i, NEW t, RunTask(i, t) \/ ReadOutput(i, t) \/ ForwardReturn(i, t) \/ RetrySend(i, t)
      PROVE  source' = source
  BY <1>4 DEF RunTask, ReadOutput, ReadDropped, ReadFinalOutput, ReadAndForward,
     ForwardReturn, RetrySend
<1>5. ASSUME NEW i, NEW R, RetryPendingSends(i, R) PROVE source' = source
  BY <1>5 DEF RetryPendingSends
<1>6. ASSUME NEW i, FlushSnapshot(i) \/ FlushAppend(i) \/ FlushAppendFails(i) PROVE source' = source
  BY <1>6 DEF FlushSnapshot, FlushAppend, FlushAppendFails, SendFlushedAcks
<1>7. ASSUME NEW s, TaskStep(s) PROVE source' = source
  BY <1>7 DEF TaskStep, KillTask, RestartTask, RestartTaskNoWal, StartIncarnation, CrashProcess
<1>8. CASE OutputFlush \/ OutputFlushFails \/ UNCHANGED vars
  BY <1>8 DEF OutputFlush, OutputFlushFails, TakeOutput, vars
<1> QED
  BY <1>1, <1>2, <1>3, <1>4, <1>5, <1>6, <1>7, <1>8 DEF Next, InstanceStep

\* Every step keeps PathInv.
LEMMA PathNext ==
  ASSUME TypeOK, Fresh, PipesPending, PathInv, [Next]_vars
  PROVE  PathInv'
<1>a. source' \subseteq source /\ MarksAdvance
  BY SourceShrinks, MarksGrow
<1>b. /\ \A i \in Inst : Unflushed(i) \subseteq Tuples
      /\ \A s \in Stages : wal[s].rec \subseteq Tuples
  BY DEF TypeOK, LogTypeOK, FlushType, Log, Maps, Unflushed
<1> DEFINE Follow == CallsFollow /\ SendsFollow /\ MarksFollow /\ RecordsFollow
<1> SUFFICES Follow
  BY <1>a, <1>b, PathKept
<1>c. /\ received \in [Inst -> [Tuples -> Marks]] /\ sent \in [Inst -> SUBSET Tuples]
      /\ buffer \in [Inst -> Log] /\ flushing \in [Inst -> FlushType] /\ wal \in [Stages -> Maps]
      /\ reader \in [Inst -> SUBSET Tuples] /\ toRetry \in [Inst -> SUBSET Tuples]
      /\ calls \subseteq CallType
  BY DEF TypeOK, MapsTypeOK, LogTypeOK, ProcTypeOK, HopTypeOK
<1>d. \A i \in Inst : i[1] \in 0..NStages
  BY InstFacts
\* Steps that add nothing.
<1>1. ASSUME \A c \in calls' : \E d \in calls : d.inst = c.inst /\ d.id = c.id
      PROVE  CallsFollow
  BY <1>1 DEF CallsFollow
<1>2. ASSUME \A i \in Inst : Outgoing(i)' \subseteq Outgoing(i), UNCHANGED wal
      PROVE  SendsFollow
  BY <1>2 DEF SendsFollow
<1>3. ASSUME UNCHANGED <<received, reader>> PROVE MarksFollow
  BY <1>3 DEF MarksFollow
<1>4. ASSUME \A i \in Inst : Unflushed(i)' \subseteq Unflushed(i), UNCHANGED wal
      PROVE  RecordsFollow
  BY <1>4 DEF RecordsFollow
<1>5. ASSUME UNCHANGED <<sent, toRetry, buffer, flushing, wal>> PROVE SendsFollow /\ RecordsFollow
  BY <1>5, <1>2, <1>4 DEF Outgoing, Unflushed
<1>6. CASE UNCHANGED <<received, reader, sent, toRetry, buffer, flushing, wal, calls>>
  BY <1>6, <1>1, <1>3, <1>5
\* The actions.
<1>7. ASSUME NEW t \in Tuples, EmitTuple(t) PROVE Follow
  <2>1. /\ calls' = calls \cup {Call(Leader, "reader", t, "tuple")}
        /\ UNCHANGED <<received, reader, toRetry, flushing, wal>>
        /\ sent' = [sent EXCEPT ![Leader] = @ \cup {t}] /\ buffer' = buffer
        /\ t \notin source'
    BY <1>7, LeaderLive DEF EmitTuple, SendTuple, Update, MayIterate, Logged
  <2>2. Passed(0, t)'
    BY <2>1 DEF Passed
  <2>3. CallsFollow
    BY <2>1, <2>2 DEF CallsFollow, Call, Leader
  <2>4. SendsFollow
    BY <2>1, <2>2, <1>c, InstFacts DEF SendsFollow, Outgoing, Leader
  <2> QED
    BY <2>1, <2>3, <2>4, <1>3, <1>4 DEF Unflushed
<1>8. ASSUME NEW c \in calls, TupleRejected(c) \/ TupleDuplicate(c) \/ LoseCall(c) PROVE Follow
  <2>1. /\ UNCHANGED <<received, reader, sent, toRetry, buffer, flushing, wal>>
        /\ calls' \subseteq calls \cup {[c EXCEPT !.phase = "ack"]}
    BY <1>8 DEF TupleRejected, TupleDuplicate, LoseCall, eomVars, procVars
  <2>2. CallsFollow
    BY <2>1, <1>1, <1>c DEF CallType
  <2> QED
    BY <2>1, <2>2, <1>3, <1>5
<1>9. ASSUME NEW c \in calls, TupleAccepted(c) PROVE Follow
  <2> DEFINE k == Cur(c.inst[1] + 1)
  <2>1. c.inst[1] + 1 \in 0..NStages /\ c.id \in Tuples /\ c.inst[1] \in Int
    BY <1>c, StagesAssumption DEF CallType, Senders
  <2>2. k \in Inst /\ k[1] = c.inst[1] + 1
    BY <2>1, CurFacts DEF Cur
  <2>3. /\ received' = [received EXCEPT ![k][c.id] = "pending"] /\ calls' = calls \ {c}
        /\ UNCHANGED <<source, reader, sent, toRetry, buffer, flushing, wal>>
    BY <1>9 DEF TupleAccepted
  <2>4. Passed(c.inst[1], c.id)'
    <3>1. Passed(c.inst[1], c.id)
      BY DEF PathInv, SentPassed
    <3> QED
      BY <3>1, <2>3 DEF Passed
  <2> HIDE DEF k
  <2>5. MarksFollow
    <3>1. \A i \in Inst, t \in Tuples :
            received'[i][t] # "none" => received[i][t] # "none" \/ (i = k /\ t = c.id)
      BY <2>1, <2>2, <2>3, <1>c
    <3>2. k[1] - 1 = c.inst[1]
      BY <2>1, <2>2
    <3> QED
      BY <3>1, <3>2, <2>3, <2>4 DEF MarksFollow
  <2> QED
    BY <2>3, <2>5, <1>1, <1>5
<1>10. ASSUME NEW n, NEW t \in Tuples, HandleACK(n, t), calls' \subseteq calls,
              UNCHANGED <<received, reader, toRetry, flushing, wal>>
       PROVE Follow
  <2>1. \A j \in Inst : /\ sent'[j] \subseteq sent[j] /\ buffer'[j].sent \subseteq buffer[j].sent
                        /\ buffer'[j].rec = buffer[j].rec
    BY <1>10, AckTypes, AckKeepsRec
  <2>2. \A j \in Inst : Outgoing(j)' \subseteq Outgoing(j) /\ Unflushed(j)' \subseteq Unflushed(j)
    BY <2>1, <1>10 DEF Outgoing, Unflushed
  <2> QED
    BY <2>2, <1>10, <1>1, <1>2, <1>3, <1>4
<1>11. ASSUME NEW c \in calls, DeliverDuplicateAck(c) PROVE Follow
  <2>1. c.id \in Tuples
    BY <1>c DEF CallType
  <2> QED
    BY <1>11, <2>1, <1>10 DEF DeliverDuplicateAck
<1>12. ASSUME NEW a \in acks, DeliverAck(a) \/ LoseAck(a) PROVE Follow
  <2>1. a.id \in Tuples
    BY DEF TypeOK, HopTypeOK, AckType
  <2>2. CASE DeliverAck(a)
    BY <2>1, <2>2, <1>10 DEF DeliverAck, hopVars
  <2>3. CASE LoseAck(a)
    BY <2>3, <1>6 DEF LoseAck, eomVars, hopVars
  <2> QED
    BY <1>12, <2>2, <2>3
<1>13. ASSUME NEW i \in Inst, NEW t \in Tuples, RunTask(i, t) PROVE Follow
  BY <1>13, <1>6 DEF RunTask, eomVars, hopVars
<1>14. ASSUME NEW i \in Inst, NEW t \in Tuples,
              ReadDropped(i, t) \/ ReadFinalOutput(i, t) \/ ForwardReturn(i, t)
       PROVE Follow
  <2>1. /\ received' = [received EXCEPT ![i][t] = "processed"]
        /\ buffer' = buffer \/ buffer' = [buffer EXCEPT ![i] = LogREC(buffer[i], t)]
        /\ UNCHANGED <<source, sent, toRetry, flushing, wal, calls>>
        /\ reader' = reader \/ reader' = [reader EXCEPT ![i] = {}]
    BY <1>14 DEF ReadDropped, ReadFinalOutput, ForwardReturn, MarkProcessed, Logged, Update, hopVars
  <2>2. t \in stdout[i] \cup reader[i]
    BY <1>14 DEF ReadDropped, ReadFinalOutput, ForwardReturn, ReadLine
  <2>3. received[i][t] # "none"
    BY <2>2 DEF PipesPending
  <2>4. Finished(i[1], t)'
    BY <2>1, <1>c DEF Finished
  <2>5. /\ LogREC(buffer[i], t).sent = buffer[i].sent
        /\ LogREC(buffer[i], t).rec = buffer[i].rec \cup {t}
    BY DEF LogREC
  <2>6. \A j \in Inst : /\ buffer'[j].sent = buffer[j].sent
                        /\ buffer'[j].rec = buffer[j].rec \/ (j = i /\ buffer'[j].rec = buffer[j].rec \cup {t})
    BY <2>1, <2>5, <1>c
  <2>7. SendsFollow
    BY <2>1, <2>6, <1>2 DEF Outgoing
  <2>8. RecordsFollow
    BY <2>1, <2>4, <2>6 DEF RecordsFollow, Unflushed
  <2>9. MarksFollow
    BY <2>1, <2>3, <1>c DEF MarksFollow
  <2> QED
    BY <2>1, <2>7, <2>8, <2>9, <1>1
<1>15. ASSUME NEW i \in Inst, NEW t \in Tuples, NEW th \in Threads, SendTuple(i, th, t), Passed(i[1], t)',
              \A j \in Inst : toRetry'[j] \subseteq toRetry[j], UNCHANGED <<flushing, wal>>
       PROVE  CallsFollow /\ SendsFollow /\ RecordsFollow
  <2>1. /\ calls' = calls \cup {Call(i, th, t, "tuple")}
        /\ sent' = sent \/ sent' = [sent EXCEPT ![i] = @ \cup {t}]
        /\ buffer' = buffer \/ buffer' = [buffer EXCEPT ![i] = LogSENT(buffer[i], t)]
    BY <1>15 DEF SendTuple, Update, Logged
  <2>2. CallsFollow
    BY <2>1, <1>15 DEF CallsFollow, Call
  <2>3. /\ LogSENT(buffer[i], t).sent = buffer[i].sent \cup {t}
        /\ LogSENT(buffer[i], t).rec = buffer[i].rec
    BY DEF LogSENT
  <2>4. \A j \in Inst : /\ buffer'[j].rec = buffer[j].rec
                        /\ \A u \in sent'[j] \cup buffer'[j].sent :
                             u \in sent[j] \cup buffer[j].sent \/ (j = i /\ u = t)
    BY <2>1, <2>3, <1>c
  <2>5. SendsFollow
    BY <2>4, <1>15 DEF SendsFollow, Outgoing
  <2>6. RecordsFollow
    BY <2>4, <1>15, <1>4 DEF Unflushed
  <2> QED
    BY <2>2, <2>5, <2>6
<1>16. ASSUME NEW i \in Inst, NEW t \in Tuples, ReadAndForward(i, t) PROVE Follow
  <2>1. /\ t \in stdout[i] /\ Outcome[i[1]][t] = "emit" /\ i[1] # NStages
        /\ SendTuple(i, "reader", t) /\ reader' = [reader EXCEPT ![i] = {t}]
        /\ UNCHANGED <<source, received, toRetry, flushing, wal>>
    BY <1>16 DEF ReadAndForward, ReadLine, IsFinal
  <2>2. Passed(i[1] - 1, t)
    <3>1. received[i][t] # "none"
      BY <2>1 DEF PipesPending
    <3> QED
      BY <3>1 DEF PathInv, ReceivedPassed
  <2>3. Passed(i[1], t)'
    <3>1. \A r \in 1..i[1] : r \in 1..(i[1] - 1) \/ r = i[1]
      BY <1>d
    <3> QED
      BY <3>1, <2>1, <2>2 DEF Passed
  <2>4. CallsFollow /\ SendsFollow /\ RecordsFollow
    BY <2>1, <2>3, <1>15 DEF Threads
  <2>5. MarksFollow
    BY <2>1, <1>c DEF MarksFollow
  <2> QED
    BY <2>4, <2>5
<1>17. ASSUME NEW i \in Inst, NEW t \in Tuples, RetrySend(i, t) PROVE Follow
  <2>1. /\ t \in toRetry[i] /\ toRetry' = [toRetry EXCEPT ![i] = @ \ {t}]
        /\ SendTuple(i, "retry", t)
        /\ UNCHANGED <<source, received, reader, flushing, wal>>
    BY <1>17 DEF RetrySend
  <2>2. Passed(i[1], t)
    BY <2>1 DEF PathInv, SentPassed, Outgoing
  <2>3. Passed(i[1], t)'
    BY <2>1, <2>2 DEF Passed
  <2>4. \A j \in Inst : toRetry'[j] \subseteq toRetry[j]
    BY <2>1, <1>c
  <2> QED
    BY <2>1, <2>3, <2>4, <1>3, <1>15 DEF Threads
<1>18. ASSUME NEW i \in Inst, NEW R \in SUBSET Tuples, RetryPendingSends(i, R) PROVE Follow
  <2>1. /\ R \subseteq sent[i] /\ toRetry' = [toRetry EXCEPT ![i] = R]
        /\ UNCHANGED <<received, reader, sent, buffer, flushing, wal, calls>>
    BY <1>18 DEF RetryPendingSends, eomVars
  <2>2. \A j \in Inst : Outgoing(j)' \subseteq Outgoing(j) /\ Unflushed(j)' \subseteq Unflushed(j)
    BY <2>1, <1>c DEF Outgoing, Unflushed
  <2> QED
    BY <2>1, <2>2, <1>1, <1>2, <1>3, <1>4
<1>19. ASSUME NEW i \in Inst, FlushSnapshot(i) PROVE Follow
  <2>1. /\ flushing' = [flushing EXCEPT ![i] = [log |-> buffer[i], ids |-> pendingAcks[i]]]
        /\ buffer' = [buffer EXCEPT ![i] = LogEmpty]
        /\ UNCHANGED <<received, reader, sent, toRetry, wal, calls>>
    BY <1>19 DEF FlushSnapshot, hopVars
  <2>2. /\ \A j \in Inst \ {i} : buffer'[j] = buffer[j] /\ flushing'[j] = flushing[j]
        /\ buffer'[i].sent = {} /\ buffer'[i].rec = {} /\ flushing'[i].log = buffer[i]
    BY <2>1, <1>c DEF LogEmpty
  <2>3. \A j \in Inst : Outgoing(j)' \subseteq Outgoing(j) /\ Unflushed(j)' \subseteq Unflushed(j)
    BY <2>1, <2>2 DEF Outgoing, Unflushed
  <2> QED
    BY <2>1, <2>3, <1>1, <1>2, <1>3, <1>4
<1>20. ASSUME NEW i \in Inst, FlushAppend(i) \/ FlushAppendFails(i) PROVE Follow
  <2>1. /\ flushing' = [flushing EXCEPT ![i] = Idle]
        /\ UNCHANGED <<received, reader, sent, toRetry, buffer, calls>>
        /\ wal' = wal \/ wal' = [wal EXCEPT ![i[1]] = Replay(@, flushing[i].log)]
    BY <1>20 DEF FlushAppend, FlushAppendFails, SendFlushedAcks, eomVars, hopVars
  <2>2. \A j \in Inst : /\ flushing'[j].log.sent \subseteq flushing[j].log.sent
                        /\ flushing'[j].log.rec \subseteq flushing[j].log.rec
    BY <2>1, <1>c DEF Idle, LogEmpty
  <2>3. \A s \in Stages :
          /\ \A t \in wal'[s].sent : t \in wal[s].sent \/ (i[1] = s /\ t \in flushing[i].log.sent)
          /\ \A t \in wal'[s].rec : t \in wal[s].rec \/ (i[1] = s /\ t \in flushing[i].log.rec)
    BY <2>1, <1>c DEF Replay
  <2>4. SendsFollow
    BY <2>1, <2>2, <2>3 DEF SendsFollow, Outgoing
  <2>5. RecordsFollow
    BY <2>1, <2>2, <2>3 DEF RecordsFollow, Unflushed
  <2> QED
    BY <2>1, <2>4, <2>5, <1>1, <1>3
<1>21. ASSUME NEW s \in Stages, KillTask(s) PROVE Follow
  <2>1. /\ UNCHANGED <<received, reader, toRetry, flushing, wal, calls>>
        /\ sent' = sent \/ sent' = [sent EXCEPT ![Cur(s)] = {}]
        /\ buffer' = buffer \/ buffer' = [buffer EXCEPT ![Cur(s)] = LogEmpty]
    BY <1>21 DEF KillTask, hopVars
  <2>2. \A j \in Inst : /\ sent'[j] \subseteq sent[j]
                        /\ buffer'[j].sent \subseteq buffer[j].sent
                        /\ buffer'[j].rec \subseteq buffer[j].rec
    <3>1. LogEmpty.sent = {} /\ LogEmpty.rec = {}
      BY DEF LogEmpty
    <3>2. \A j \in Inst : /\ sent'[j] = sent[j] \/ sent'[j] = {}
                          /\ buffer'[j] = buffer[j] \/ buffer'[j] = LogEmpty
      BY <2>1, <1>c
    <3> QED
      BY <3>1, <3>2
  <2>3. \A j \in Inst : Outgoing(j)' \subseteq Outgoing(j) /\ Unflushed(j)' \subseteq Unflushed(j)
    BY <2>1, <2>2 DEF Outgoing, Unflushed
  <2> QED
    BY <2>1, <2>3, <1>1, <1>2, <1>3, <1>4
<1>22. ASSUME NEW s \in Stages, NEW rec, NEW snt, StartIncarnation(s, rec, snt),
              rec \subseteq wal[s].rec, snt \subseteq wal[s].sent
       PROVE  Follow
  <2> DEFINE k == <<s, epoch[s] + 1>>
             m == [t \in Tuples |-> IF t \in rec THEN "processed" ELSE "none"]
  <2>1. /\ received' = [received EXCEPT ![k] = m] /\ sent' = [sent EXCEPT ![k] = snt]
        /\ UNCHANGED <<source, reader, toRetry, buffer, flushing, wal, calls>>
    BY <1>22 DEF StartIncarnation, hopVars
  <2>2. k \in Inst /\ k[1] = s
    BY <1>22, CurFacts DEF StartIncarnation
  <2>3. ASSUME NEW t \in rec PROVE Passed(s - 1, t)'
    <3>1. t \in Tuples /\ Finished(s, t)
      BY <1>22, <1>b DEF PathInv, RecordsFinished
    <3>2. Passed(s - 1, t)
      BY <3>1 DEF Finished, PathInv, ReceivedPassed
    <3> QED
      BY <3>2, <2>1 DEF Passed
  <2>4. ASSUME NEW t \in snt PROVE Passed(s, t)'
    BY <1>22, <2>1 DEF PathInv, SentPassed, Passed
  <2>5. \A t \in Tuples : m[t] # "none" => t \in rec
    OBVIOUS
  <2> HIDE DEF k, m
  <2>6. MarksFollow
    BY <2>1, <2>2, <2>3, <2>5, <1>c DEF MarksFollow
  <2>7. SendsFollow
    BY <2>1, <2>2, <2>4, <1>c DEF SendsFollow, Outgoing
  <2>8. RecordsFollow
    BY <2>1, <1>4 DEF Unflushed
  <2> QED
    BY <2>1, <2>6, <2>7, <2>8, <1>1
<1>23. ASSUME NEW s \in Stages, RestartTask(s) \/ RestartTaskNoWal(s) PROVE Follow
  BY <1>23, <1>22 DEF RestartTask, RestartTaskNoWal
<1>24. ASSUME NEW s \in Stages, CrashProcess(s) PROVE Follow
  BY <1>24, <1>6 DEF CrashProcess, eomVars, hopVars
<1>25. CASE OutputFlush \/ OutputFlushFails \/ UNCHANGED vars
  BY <1>25, <1>6 DEF OutputFlush, OutputFlushFails, TakeOutput, vars, eomVars, hopVars
<1> QED
  BY <1>7, <1>8, <1>9, <1>11, <1>12, <1>13, <1>14, <1>16, <1>17, <1>18, <1>19, <1>20,
     <1>21, <1>23, <1>24, <1>25
     DEF Next, HandleCall, HandleTuple, InstanceStep, TaskStep, ReadOutput

----------------------------------------------------------------------------
\* The invariant that the refinement needs.
LEMMA PathInvariant == Spec => [](TypeOK /\ Fresh /\ PipesPending /\ PathInv)
<1> DEFINE IInv == TypeOK /\ Fresh /\ PipesPending /\ PathInv
<1>1. Init => IInv
  BY TypeInit, FreshInit, PathInit
<1>2. IInv /\ [Next]_vars => IInv'
  BY TypeNext, FreshNext, PathNext
<1> QED
  BY <1>1, <1>2, PTL DEF Spec

\* Produced follows receivedTuples of the last stage.
LEMMA ProducedKept ==
  ASSUME TypeOK, \A e \in 1..MaxEpoch[NStages], t \in Surviving :
           received'[<<NStages, e>>][t] = "processed" <=> received[<<NStages, e>>][t] = "processed"
  PROVE  Produced' = Produced
BY DEF Produced, Surviving

\* Every step of the pipeline is a step of Delivery, or changes none of its
\* variables.
LEMMA StepImplements ==
  ASSUME TypeOK, TypeOK', Fresh, PipesPending, PathInv, [Next]_vars
  PROVE  [D!Next]_(D!vars)
<1> DEFINE Last(e) == <<NStages, e>>
           Runs == 1..MaxEpoch[NStages]
<1>a. \A e \in Runs : Last(e) \in Inst /\ Last(e)[1] = NStages /\ Last(e)[2] = e
  BY InstFacts, StagesAssumption, MaxEpochAssumption
<1>b. /\ received \in [Inst -> [Tuples -> Marks]] /\ epoch \in [0..NStages -> Nat \ {0}]
      /\ calls \subseteq CallType /\ NStages \in 0..NStages /\ NStages \in Stages
      /\ outputBuffer \in [Tuples -> Nat] /\ Surviving \subseteq Tuples
      /\ epoch[NStages] \in Nat \ {0} /\ MaxEpoch[NStages] \in Nat \ {0}
  <2>1. NStages \in 0..NStages /\ NStages \in Stages
    BY StagesAssumption DEF Stages
  <2>2. epoch \in [0..NStages -> Nat \ {0}] /\ MaxEpoch[NStages] \in Nat \ {0}
    BY <2>1, MaxEpochAssumption DEF TypeOK, TaskTypeOK
  <2>3. received \in [Inst -> [Tuples -> Marks]] /\ calls \subseteq CallType
    BY DEF TypeOK, MapsTypeOK, HopTypeOK
  <2>4. outputBuffer \in [Tuples -> Nat] /\ Surviving \subseteq Tuples
    BY DEF TypeOK, OutTypeOK, Surviving
  <2> QED
    BY <2>1, <2>2, <2>3, <2>4
<1> DEFINE Stutter == UNCHANGED <<source, epoch[NStages], Produced, outputBuffer, outFile>>
<1> SUFFICES D!Next \/ Stutter
  BY DEF D!vars
<1>1. ASSUME UNCHANGED <<source, epoch, received, outputBuffer, outFile>> PROVE Stutter
  BY <1>1 DEF Produced
<1>2. ASSUME NEW t \in Tuples, EmitTuple(t) PROVE D!Next
  <2>1. /\ t \in source /\ source' = source \ {t}
        /\ UNCHANGED <<epoch, received, outputBuffer, outFile>>
    BY <1>2 DEF EmitTuple, outVars
  <2>2. UNCHANGED Produced
    BY <2>1 DEF Produced
  <2>3. D!Read(t)
    BY <2>1, <2>2 DEF D!Read
  <2> QED
    BY <2>3 DEF D!Next
<1>3. ASSUME NEW c \in calls, TupleAccepted(c) PROVE Stutter
  <2> DEFINE k == Cur(c.inst[1] + 1)
  <2>1. c.inst[1] + 1 \in 0..NStages /\ c.id \in Tuples
    BY <1>b, StagesAssumption DEF CallType, Senders
  <2>2. k \in Inst
    BY <2>1, CurFacts
  <2>3. /\ received[k][c.id] = "none" /\ received' = [received EXCEPT ![k][c.id] = "pending"]
        /\ UNCHANGED <<source, epoch, outputBuffer, outFile>>
    BY <1>3 DEF TupleAccepted, outVars
  <2> HIDE DEF k
  <2>4. \A i \in Inst, t \in Tuples : received'[i][t] = "processed" <=> received[i][t] = "processed"
    BY <2>1, <2>2, <2>3, <1>b
  <2>5. UNCHANGED Produced
    BY <2>4, <1>a, <1>b, ProducedKept
  <2> QED
    BY <2>3, <2>5
<1>4. ASSUME NEW i \in Inst, NEW t \in Tuples, ReadDropped(i, t) \/ ForwardReturn(i, t) PROVE Stutter
  <2>1. /\ received' = [received EXCEPT ![i][t] = "processed"]
        /\ UNCHANGED <<source, epoch, outputBuffer, outFile>>
    BY <1>4 DEF ReadDropped, ForwardReturn, MarkProcessed, outVars
  <2>2. i[1] # NStages \/ t \notin Surviving
    <3>1. CASE ReadDropped(i, t)
      BY <3>1, <1>b DEF ReadDropped, Surviving
    <3>2. CASE ForwardReturn(i, t)
      BY <3>2 DEF ForwardReturn, PathInv, ReceivedPassed
    <3> QED
      BY <1>4, <3>1, <3>2
  <2>3. \A e \in Runs, u \in Surviving : received'[Last(e)][u] = received[Last(e)][u]
    BY <2>1, <2>2, <1>a, <1>b
  <2>4. UNCHANGED Produced
    BY <2>3, ProducedKept
  <2> QED
    BY <2>1, <2>4
<1>5. ASSUME NEW i \in Inst, NEW t \in Tuples, ReadFinalOutput(i, t) PROVE D!Next
  <2>1. /\ t \in stdout[i] /\ Outcome[i[1]][t] = "emit" /\ i[1] = NStages
        /\ received' = [received EXCEPT ![i][t] = "processed"]
        /\ outputBuffer' = [outputBuffer EXCEPT ![t] = @ + 1]
        /\ UNCHANGED <<source, epoch, outFile>>
    BY <1>5 DEF ReadFinalOutput, ReadLine, IsFinal, MarkProcessed
  <2>2. i = Last(i[2]) /\ i[2] \in Runs /\ i[2] <= epoch[NStages]
    <3>1. ~(i[2] > epoch[i[1]])
      BY <2>1 DEF Fresh
    <3> QED
      BY <2>1, <3>1, <1>b, InstFacts
  <2>3. received[i][t] = "pending"
    BY <2>1 DEF PipesPending
  <2>4. Passed(i[1] - 1, t)
    BY <2>3 DEF PathInv, ReceivedPassed
  <2>5. t \in Surviving /\ t \notin source
    <3>1. \A r \in Stages : r \in 1..(NStages - 1) \/ r = NStages
      BY StagesAssumption DEF Stages
    <3> QED
      BY <3>1, <2>1, <2>4 DEF Passed, Surviving
  <2>6. t \notin Produced[i[2]]
    BY <2>2, <2>3 DEF Produced
  <2>7. \A e \in Runs, u \in Tuples :
          received'[Last(e)][u] = "processed" <=>
            received[Last(e)][u] = "processed" \/ (e = i[2] /\ u = t)
    BY <2>1, <2>2, <1>a, <1>b
  <2>8. Produced' = [Produced EXCEPT ![i[2]] = @ \cup {t}]
    <3>1. \A e \in Runs, u \in Tuples :
            /\ u \in Produced[e] <=> u \in Surviving /\ received[Last(e)][u] = "processed"
            /\ u \in Produced'[e] <=> u \in Surviving /\ received'[Last(e)][u] = "processed"
      BY DEF Produced
    <3>2. \A e \in Runs : Produced[e] \subseteq Tuples /\ Produced'[e] \subseteq Tuples
      BY <1>b DEF Produced
    <3>3. \A e \in Runs : Produced'[e] = IF e = i[2] THEN Produced[e] \cup {t} ELSE Produced[e]
      <4> SUFFICES ASSUME NEW e \in Runs, NEW u \in Tuples
                   PROVE  u \in Produced'[e] <=> u \in Produced[e] \/ (e = i[2] /\ u = t)
        BY <3>2, Zenon
      <4>1. u \in Produced'[e] <=> u \in Surviving /\ received'[Last(e)][u] = "processed"
        BY <3>1
      <4>2. u \in Produced[e] <=> u \in Surviving /\ received[Last(e)][u] = "processed"
        BY <3>1
      <4>3. received'[Last(e)][u] = "processed" <=>
              received[Last(e)][u] = "processed" \/ (e = i[2] /\ u = t)
        BY <2>7
      <4> QED
        BY <2>5, <4>1, <4>2, <4>3
    <3> QED
      BY <3>3, <2>2 DEF Produced
  <2>9. D!Produce(i[2], t)
    BY <2>1, <2>2, <2>5, <2>6, <2>8 DEF D!Produce
  <2> QED
    BY <2>2, <2>9 DEF D!Next
<1>6. ASSUME NEW s \in Stages, NEW rec, NEW snt, StartIncarnation(s, rec, snt), rec \subseteq wal[s].rec
      PROVE  D!Next \/ Stutter
  <2> DEFINE k == <<s, epoch[s] + 1>>
             m == [t \in Tuples |-> IF t \in rec THEN "processed" ELSE "none"]
  <2>1. /\ received' = [received EXCEPT ![k] = m] /\ epoch' = [epoch EXCEPT ![s] = @ + 1]
        /\ UNCHANGED <<source, outputBuffer, outFile>>
    BY <1>6 DEF StartIncarnation, outVars
  <2>2. k \in Inst /\ k[1] = s /\ k[2] = epoch[s] + 1
    BY <1>6, CurFacts DEF StartIncarnation
  <2>3. CASE s # NStages
    <3>1. UNCHANGED epoch[NStages]
      BY <2>1, <2>3, <1>b
    <3>2. \A e \in Runs : received'[Last(e)] = received[Last(e)]
      BY <2>1, <2>2, <2>3, <1>a, <1>b
    <3>3. UNCHANGED Produced
      BY <3>2, ProducedKept
    <3> QED
      BY <2>1, <3>1, <3>3
  <2>4. CASE s = NStages
    <3> DEFINE done == rec \cap Surviving
               next == epoch[NStages] + 1
    <3>1. next \in Runs /\ epoch[NStages] < MaxEpoch[NStages] /\ k = Last(next)
      BY <2>2, <2>4, InstFacts, <1>b
    <3>2. epoch'[NStages] = epoch[NStages] + 1
      BY <2>1, <2>4, <1>b
    <3>3. \A t \in Tuples : m[t] = "processed" <=> t \in rec
      OBVIOUS
    <3> HIDE DEF m, k
    <3>4. /\ \A t \in Tuples : received'[Last(next)][t] = "processed" <=> t \in rec
          /\ \A e \in Runs : e # next => received'[Last(e)] = received[Last(e)]
      BY <2>1, <2>2, <3>1, <3>3, <1>a, <1>b
    <3>5. Produced' = [Produced EXCEPT ![next] = done]
      <4>1. Produced'[next] = done
        BY <3>1, <3>4, <1>b DEF Produced
      <4>2. \A e \in Runs : e # next => Produced'[e] = Produced[e]
        BY <3>4 DEF Produced
      <4> QED
        BY <4>1, <4>2, <3>1 DEF Produced
    <3>6. ASSUME NEW t \in done PROVE t \in UNION {Produced[r] : r \in 1..epoch[NStages]}
      <4>1. t \in Surviving /\ t \in Tuples /\ Finished(NStages, t)
        BY <1>6, <2>4, <1>b DEF PathInv, RecordsFinished
      <4>2. PICK j \in Inst : j[1] = NStages /\ received[j][t] = "processed"
        BY <4>1 DEF Finished
      <4>3. j = Last(j[2]) /\ j[2] \in 1..epoch[NStages] /\ j[2] \in Runs
        <5>1. ~(j[2] > epoch[j[1]])
          BY <4>1, <4>2 DEF Fresh
        <5> QED
          BY <4>2, <5>1, <1>b, InstFacts
      <4>4. t \in Produced[j[2]]
        BY <4>1, <4>2, <4>3 DEF Produced
      <4> QED
        BY <4>3, <4>4
    <3>7. D!NewRun(done)
      <4>1. done \subseteq UNION {Produced[r] : r \in 1..epoch[NStages]}
        BY <3>6
      <4> HIDE DEF done
      <4> QED
        BY <2>1, <3>1, <3>2, <3>5, <4>1 DEF D!NewRun
    <3>8. done \in SUBSET Surviving
      OBVIOUS
    <3> QED
      BY <3>7, <3>8 DEF D!Next
  <2> QED
    BY <2>3, <2>4
<1>7. ASSUME NEW s \in Stages, RestartTask(s) \/ RestartTaskNoWal(s) PROVE D!Next \/ Stutter
  BY <1>7, <1>6 DEF RestartTask, RestartTaskNoWal
<1>8. CASE OutputFlush \/ OutputFlushFails
  <2>1. /\ outputBuffer' = [t \in Tuples |-> 0]
        /\ UNCHANGED <<source, epoch, received>>
        /\ outFile' = outFile \/ outFile' = [t \in Tuples |-> outFile[t] + outputBuffer[t]]
    BY <1>8 DEF OutputFlush, OutputFlushFails, TakeOutput, eomVars
  <2>2. UNCHANGED Produced
    BY <2>1 DEF Produced
  <2>3. D!WriteBatch \/ D!LoseBatch
    BY <2>1, <2>2 DEF D!WriteBatch, D!LoseBatch
  <2> QED
    BY <2>3 DEF D!Next
<1>9. ASSUME NEW c, TupleRejected(c) \/ TupleDuplicate(c) \/ DeliverDuplicateAck(c) \/ LoseCall(c)
      PROVE  Stutter
  BY <1>9, <1>1 DEF TupleRejected, TupleDuplicate, DeliverDuplicateAck, LoseCall, eomVars, outVars
<1>10. ASSUME NEW a, DeliverAck(a) \/ LoseAck(a) PROVE Stutter
  BY <1>10, <1>1 DEF DeliverAck, LoseAck, eomVars, outVars
<1>11. ASSUME NEW i, NEW t, RunTask(i, t) \/ ReadAndForward(i, t) \/ RetrySend(i, t) PROVE Stutter
  BY <1>11, <1>1 DEF RunTask, ReadAndForward, RetrySend, eomVars, outVars
<1>12. ASSUME NEW i, NEW R, RetryPendingSends(i, R) PROVE Stutter
  BY <1>12, <1>1 DEF RetryPendingSends, eomVars, outVars
<1>13. ASSUME NEW i, FlushSnapshot(i) \/ FlushAppend(i) \/ FlushAppendFails(i) PROVE Stutter
  BY <1>13, <1>1 DEF FlushSnapshot, FlushAppend, FlushAppendFails, SendFlushedAcks, eomVars, outVars
<1>14. ASSUME NEW s, KillTask(s) \/ CrashProcess(s) PROVE Stutter
  BY <1>14, <1>1 DEF KillTask, CrashProcess, eomVars, outVars
<1>15. CASE UNCHANGED vars
  BY <1>15, <1>1 DEF vars
<1> QED
  BY <1>2, <1>3, <1>4, <1>5, <1>7, <1>8, <1>9, <1>10, <1>11, <1>12, <1>13, <1>14, <1>15
     DEF Next, HandleCall, HandleTuple, InstanceStep, TaskStep, ReadOutput

\* The pipeline keeps the promise of Delivery to the reader of the output file, for
\* every job: whatever is lost, retried, killed, restarted or crashes, no incarnation of
\* the last task produces a tuple twice, or one that a stage filters out or that was not
\* read; a restart skips only what an earlier incarnation produced; batches are
\* written whole and once, or lost.
THEOREM PipelineImplementsDelivery == Spec => ImplementsDelivery
<1>1. Init => D!Init
  <2> SUFFICES ASSUME Init PROVE D!Init
    OBVIOUS
  <2>1. \A e \in 1..MaxEpoch[NStages] : <<NStages, e>> \in Inst
    BY InstFacts, StagesAssumption, MaxEpochAssumption
  <2>2. Produced = [e \in 1..MaxEpoch[NStages] |-> {}]
    BY <2>1 DEF Init, Produced, Surviving
  <2>3. epoch[NStages] = 1
    BY StagesAssumption DEF Init
  <2> QED
    BY <2>2, <2>3 DEF Init, D!Init
<1> DEFINE IInv == TypeOK /\ Fresh /\ PipesPending /\ PathInv
<1>2. IInv /\ IInv' /\ [Next]_vars => [D!Next]_(D!vars)
  BY StepImplements
<1> HIDE DEF IInv
<1>3. Spec => []IInv
  BY PathInvariant DEF IInv
<1> QED
  BY <1>1, <1>2, <1>3, PTL DEF Spec, ImplementsDelivery, D!Spec
=============================================================================
