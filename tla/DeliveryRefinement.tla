------------------------- MODULE DeliveryRefinement -------------------------
(***************************************************************************)
(* ExactlyOnce implements Delivery.                                         *)
(***************************************************************************)
EXTENDS ExactlyOnce

\* What each incarnation of the last task has in receivedTuples as processed.
Produced ==
  [e \in 1..MaxEpoch[NStages] |-> {t \in Surviving : received[<<NStages, e>>][t] = "processed"}]

D == INSTANCE Delivery WITH
       Passing <- Surviving, MaxRun <- MaxEpoch[NStages],
       unread <- source, run <- epoch[NStages], produced <- Produced,
       buffered <- outputBuffer, written <- outFile

\* The pipeline keeps the promise of Delivery, also across lost calls, retries, kills,
\* restarts, crashed executables, late goroutines of a killed task and failed HyDFS
\* operations: no incarnation of the last task produces a tuple twice, none produces a
\* tuple that a stage filters out, and a restart takes for processed (restoreFromLogs)
\* only what an earlier incarnation has really produced.
ImplementsDelivery == D!Spec
=============================================================================
