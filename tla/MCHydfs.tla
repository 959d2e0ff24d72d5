------------------------------ MODULE MCHydfs ------------------------------
(***************************************************************************)
(* Small instances of Hydfs: three members and two that may join.           *)
(***************************************************************************)
EXTENDS Hydfs

CONSTANTS na, nb, nc, nj, nk, wa, wb1, wb2, wc, wj1, wj2, wk

RingHome == [w \in Workers |-> CASE w = wa -> na [] w \in {wb1, wb2} -> nb [] w = wc -> nc
                                [] w \in {wj1, wj2} -> nj [] w = wk -> nk]

Alike == Permutations({wb1, wb2}) \cup Permutations({wj1, wj2})

RingHash == [n \in Nodes |-> CASE n = na -> 1 [] n = nj -> 3 [] n = nb -> 4 [] n = nk -> 5 [] n = nc -> 6]

Scenario(kd, e, cs, js, ws, w, m, cr, f, t) ==
  [kind |-> kd, exists |-> e, clients |-> cs, joiners |-> js, workers |-> ws, writes |-> w, merges |-> m,
   crashes |-> cr, fails |-> f, seconds |-> t]

Singles == Workers \ {wb2, wj2}

\* Overlapping writes and a merge in a ring that does not change, of two clients or with a
\* broken call; two merges; a join by a node with two workers; an append with a join or a
\* crash; the first writes of a file.
MainScenarios ==
  {Scenario("regular", TRUE,  {na, nb}, {},   Singles, 3, 1, 0, 0, 0),
   Scenario("regular", TRUE,  {na},     {},   Singles, 3, 1, 0, 1, 1),
   Scenario("regular", TRUE,  {na},     {},   Workers, 2, 2, 0, 0, 0),
   Scenario("regular", TRUE,  {na},     {nj}, Workers, 1, 0, 0, 0, 0),
   Scenario("regular", TRUE,  {na},     {nj}, Singles, 2, 0, 0, 0, 0),
   Scenario("regular", TRUE,  {na},     {nk}, Singles, 2, 0, 0, 0, 0),
   Scenario("regular", TRUE,  {na},     {},   Workers, 2, 0, 1, 0, 0),
   Scenario("regular", FALSE, {na},     {},   Singles, 3, 0, 0, 0, 1),
   Scenario("stream",  FALSE, {na, nb}, {},   Singles, 3, 0, 0, 0, 0),
   Scenario("stream",  TRUE,  {na},     {nk}, Singles, 2, 0, 0, 0, 0),
   Scenario("stream",  TRUE,  {na},     {},   Workers, 2, 0, 1, 1, 0)}

\* One append, one join, one merge.
JoinScenario == {Scenario("regular", TRUE, {na}, {nj}, Workers, 2, 1, 0, 0, 0)}
=============================================================================
