------------------------------- MODULE MCJobs -------------------------------
(***************************************************************************)
(* Small instances of Jobs: a job of one stage and one of two, submitted in *)
(* either order.                                                            *)
(***************************************************************************)
EXTENDS Jobs

CONSTANTS j1, j2, t1, t2, n1, n2

Stages    == [j \in Jobs |-> IF j = j1 THEN 1 ELSE 2]
OwnFiles  == [j \in Jobs |-> IF j = j1 THEN {t1} ELSE {t2}]
SameFile  == [j \in Jobs |-> {t1}]
OneScaled == [j \in Jobs |-> j = j2]
Hosts     == [u \in Tasks |-> IF u = <<j2, 2>> THEN n2 ELSE n1]

Scenario(f, e, r, to, l) ==
  [file |-> f, eager |-> e, reports |-> r, timeouts |-> to, losses |-> l]

\* Jobs one after the other with RPCs that time out, restarts and lost calls, and jobs
\* that are submitted at any time.
MainScenarios ==
  {Scenario(SameFile, FALSE, TRUE, 1, 1), Scenario(OwnFiles, TRUE, FALSE, 0, 1)}
=============================================================================
