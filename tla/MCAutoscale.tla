---------------------------- MODULE MCAutoscale ----------------------------
(***************************************************************************)
(* Small instances of Autoscale: two stages of two and one tasks, or of one *)
(* and two, and a task that may be added.                                   *)
(***************************************************************************)
EXTENDS Autoscale

CONSTANTS t1, x, y, z, d, e, n1, n2, n3, leader

TaskStage == [u \in Tasks |-> IF u \in {x, y, z} THEN 1 ELSE 2]
TaskRank  == [u \in Tasks |-> CASE u = x -> 0 [] u = y -> 1 [] u = z -> 2 [] u = d -> 3 [] u = e -> 4]
TaskHost  == [u \in Tasks |-> CASE u = x -> n1 [] u = y -> n2 [] u = z -> n3 [] u = d -> n2 [] u = e -> n1]
Hash2     == [t \in Tuples |-> 2]

Scenario(us, s, u, dn, k, to, l) ==
  [tasks |-> us, stages |-> s, ups |-> u, downs |-> dn, kills |-> k, timeouts |-> to, losses |-> l]

\* A scale-down of either stage, with a lost tuple or a late RPC; a scale-up and a
\* scale-down, of one stage or of one each, also with a late RPC of the first; a killed task
\* and its restart, also late; a scale-down of one of two stages of two.
MainScenarios ==
  {Scenario({x, y, d}, {1}, 0, 1, 0, 0, 1),
   Scenario({x, d},    {1}, 1, 1, 0, 0, 0),
   Scenario({x, d},    {1, 2}, 1, 1, 0, 0, 0),
   Scenario({x, d, e}, {2}, 0, 1, 0, 1, 1),
   Scenario({x, d},    {2}, 1, 1, 0, 1, 0),
   Scenario({x, d},    {1}, 1, 0, 0, 1, 1),
   Scenario({x, d},    {1}, 0, 0, 1, 1, 0),
   Scenario({x, y, d, e}, {1, 2}, 0, 1, 0, 0, 0)}

\* One scale-down and one lost tuple.
DownScenario == {Scenario({x, y, d}, {1}, 0, 1, 0, 0, 1)}
=============================================================================
