------------------------------- MODULE EomLog -------------------------------
(***************************************************************************)
(* The write-ahead log of an ExactlyOnceManager, by what its replay gives.  *)
(*                                                                          *)
(* A log is read only by replaying it into receivedTuples and sentTuples    *)
(* (restoreFromLogs), and a flush appends a whole buffer at once.  A run of *)
(* records is therefore kept as three sets: the tuples with a REC record,   *)
(* and the tuples whose last record among SENT and ACK is a SENT, or an     *)
(* ACK.  Module WalRecords has the records themselves and checks that this  *)
(* summary loses nothing.                                                   *)
(***************************************************************************)
CONSTANT Tuples

Log      == [rec : SUBSET Tuples, sent : SUBSET Tuples, acked : SUBSET Tuples]
LogEmpty == [rec |-> {}, sent |-> {}, acked |-> {}]

\* Fault: an ACK record does not cancel an earlier SENT record.
LogACKKeepsSent(l, t) == [rec |-> l.rec, sent |-> l.sent, acked |-> l.acked \cup {t}]

\* logRecord, for each type of record.
LogREC(l, t)  == [rec |-> l.rec \cup {t}, sent |-> l.sent, acked |-> l.acked]
LogSENT(l, t) == [rec |-> l.rec, sent |-> l.sent \cup {t}, acked |-> l.acked \ {t}]
LogACK(l, t)  == [rec |-> l.rec, sent |-> l.sent \ {t}, acked |-> l.acked \cup {t}]

\* What a manager restores: processed tuples, and unacknowledged sent tuples.
Maps      == [rec : SUBSET Tuples, sent : SUBSET Tuples]
MapsEmpty == [rec |-> {}, sent |-> {}]

\* The maps after a log that restores to w is extended by the records l.
Replay(w, l) == [rec |-> w.rec \cup l.rec, sent |-> (w.sent \ l.acked) \cup l.sent]
=============================================================================
