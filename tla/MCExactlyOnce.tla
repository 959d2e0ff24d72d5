--------------------------- MODULE MCExactlyOnce ---------------------------
(***************************************************************************)
(* Small instances of ExactlyOnce for TLC: what the stages do with the      *)
(* tuples, and which task may be killed.                                    *)
(***************************************************************************)
EXTENDS DeliveryRefinement

CONSTANTS t1, t2, n0, n1, n2, n3

\* Every task on a node of its own.
OwnHosts == [s \in 0..NStages |-> <<n0, n1, n2, n3>>[s + 1]]

\* The first two stages share a node, as they do when there are more tasks than nodes.
SharedHost == [s \in 0..NStages |-> <<n0, n1, n1, n3>>[s + 1]]

\* Every tuple passes every stage.
AllEmit == [s \in 1..NStages |-> [t \in Tuples |-> "emit"]]
\* The first stage filters: it drops t2.
DropSecond ==
  [s \in 1..NStages |-> [t \in Tuples |-> IF s = 1 /\ t = t2 THEN "drop" ELSE "emit"]]
\* The first stage prints nothing for t2.
SilentSecond ==
  [s \in 1..NStages |-> [t \in Tuples |-> IF s = 1 /\ t = t2 THEN "silent" ELSE "emit"]]

\* Which task may be killed, and restarted, once.
NoKill    == [s \in 0..NStages |-> 1]
KillFirst == [s \in 0..NStages |-> IF s = 1 THEN 2 ELSE 1]
KillLast  == [s \in 0..NStages |-> IF s = NStages THEN 2 ELSE 1]
=============================================================================
