----------------------------- MODULE WalRecords -----------------------------
(***************************************************************************)
(* The WAL of a task record by record: logRecord writes REC, SENT and ACK   *)
(* records in the order in which the manager changes its maps, and a new    *)
(* manager replays them line by line.  The module checks the summary that   *)
(* the pipeline model uses (EomLog) against that loop.                      *)
(***************************************************************************)
EXTENDS EomLog, Integers, Sequences, SequencesExt

CONSTANT MaxLog   \* bound on the number of records

VARIABLES
  received,   \* tuples marked processed in receivedTuples
  sent,       \* sentTuples
  log         \* the records logged so far: WAL, flush in progress, buffer

Record == [type : {"REC", "SENT", "ACK"}, id : Tuples]
Rec(ty, t) == [type |-> ty, id |-> t]

----------------------------------------------------------------------------
(* restoreFromLogs and mergeStateFromLocalWal: one record applied to the    *)
(* maps, and the loop over the file.                                        *)

\* Fault: ACK records are skipped.
ApplyRecordSkipsAck(m, r) ==
  CASE r.type = "REC"  -> [m EXCEPT !.rec = @ \cup {r.id}]
    [] r.type = "SENT" -> [m EXCEPT !.sent = @ \cup {r.id}]
    [] OTHER           -> m

ApplyRecord(m, r) ==
  CASE r.type = "REC"  -> [m EXCEPT !.rec = @ \cup {r.id}]
    [] r.type = "SENT" -> [m EXCEPT !.sent = @ \cup {r.id}]
    [] r.type = "ACK"  -> [m EXCEPT !.sent = @ \ {r.id}]

MergeRecords(m, l)  == FoldLeft(ApplyRecord, m, l)
RestoreFromLogs(l)  == MergeRecords(MapsEmpty, l)

\* The summary of EomLog, record by record.
SummariseRecord(l, r) ==
  CASE r.type = "REC"  -> LogREC(l, r.id)
    [] r.type = "SENT" -> LogSENT(l, r.id)
    [] r.type = "ACK"  -> LogACK(l, r.id)

Summary(l) == FoldLeft(SummariseRecord, LogEmpty, l)

----------------------------------------------------------------------------
(* The operations of the manager that write records.                        *)

Init == received = {} /\ sent = {} /\ log = <<>>

logRecord(ty, t) == Len(log) < MaxLog /\ log' = Append(log, Rec(ty, t))

\* IncrementOutputCount reaching the expected count, or an expected count of 0.
MarkProcessed(t) ==
  /\ t \notin received
  /\ received' = received \cup {t}
  /\ logRecord("REC", t)
  /\ UNCHANGED sent

\* First sends and retries alike; a retry may follow the ACK.
AddSentTuple(t) ==
  /\ sent' = sent \cup {t}
  /\ logRecord("SENT", t)
  /\ UNCHANGED received

RemoveSentTuple(t) ==
  /\ t \in sent
  /\ sent' = sent \ {t}
  /\ logRecord("ACK", t)
  /\ UNCHANGED received

Next == \E t \in Tuples : MarkProcessed(t) \/ AddSentTuple(t) \/ RemoveSentTuple(t)

Spec == Init /\ [][Next]_<<received, sent, log>>

----------------------------------------------------------------------------
\* Replaying all records gives back the maps the manager had in memory: a task
\* killed after a complete flush restarts with the state it was killed in, in
\* particular with a retried tuple acknowledged twice or sent after its ACK.
ReplayGivesMaps == RestoreFromLogs(log) = [rec |-> received, sent |-> sent]

\* Wherever a flush cuts the records into a durable part and a part appended
\* later, restoring the durable part and replaying the summary of the rest is
\* the same as the line-by-line replay of the whole file.
SummaryLosesNothing ==
  \A k \in 0..Len(log) :
    LET durable == SubSeq(log, 1, k)
        rest    == SubSeq(log, k + 1, Len(log))
    IN /\ Replay(RestoreFromLogs(durable), Summary(rest)) = RestoreFromLogs(log)
       /\ Summary(rest) \in Log
=============================================================================
