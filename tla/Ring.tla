-------------------------------- MODULE Ring --------------------------------
(***************************************************************************)
(* The ring that places files on nodes (ring.go and findTargetNodes): the   *)
(* members of a node's list, sorted by hash.  A list is given as a function *)
(* v from nodes to statuses; entries of dead members stay in it, between    *)
(* the others, until they are cleaned up.  A suspected member counts as     *)
(* "dead" here: it is in the list and not alive.                            *)
(*                                                                          *)
(* Hashes have 8 bits (HashBits), so two members may have the same one: the *)
(* list then has them in some order.  That order is left open here, but is  *)
(* the same in all lists.                                                   *)
(***************************************************************************)
EXTENDS Integers, FiniteSets, Sequences

CONSTANTS
  Nodes,
  Hash,              \* [Nodes -> Nat], Member.Hash
  Position,          \* [Nodes -> Nat], the order of a sorted list
  ReplicationFactor

ASSUME HashAssumption ==
  /\ IsFiniteSet(Nodes)
  /\ Hash \in [Nodes -> Nat]
  /\ Position \in [Nodes -> Nat]
  /\ \A m, n \in Nodes : Position[m] = Position[n] => m = n
  /\ \A m, n \in Nodes : Hash[m] < Hash[n] => Position[m] < Position[n]
ASSUME ReplicationAssumption == ReplicationFactor \in Nat \ {0}

\* Which is not assumed.  Of two neighbours with the same hash the second has the
\* range (h, h], which is the whole ring.
HashesDiffer == \A m, n \in Nodes : Hash[m] = Hash[n] => m = n

Statuses == {"absent", "alive", "dead"}

Members(v) == {m \in Nodes : v[m] # "absent"}
Alive(v)   == {m \in Nodes : v[m] = "alive"}
Size(v)    == Cardinality(Members(v))

\* The list is kept sorted: an index counts the members before this one.
GetNodeIndex(v, m) == Cardinality({k \in Members(v) : Position[k] < Position[m]})

\* The member at an index, which wraps around the ring.
At(v, i) == CHOOSE m \in Members(v) : GetNodeIndex(v, m) = i % Size(v)

FirstOf(S) == CHOOSE m \in S : \A k \in S : Position[m] <= Position[k]
LastOf(S)  == CHOOSE m \in S : \A k \in S : Position[m] >= Position[k]

\* The j-th smallest number in I, and the elements of s at the indices in I, in order.
Nth(I, j) == CHOOSE i \in I : Cardinality({k \in I : k < i}) = j - 1
AtIndices(s, I) == [j \in 1..Cardinality(I) |-> s[Nth(I, j)]]

OnlyAlive(v, s) == AtIndices(s, {i \in DOMAIN s : v[s[i]] = "alive"})

\* The first alive member at or after the hash h.
Primary(v, h) ==
  LET after == {m \in Alive(v) : Hash[m] >= h}
  IN FirstOf(IF after # {} THEN after ELSE Alive(v))

\* The primary and the members at the next indices; a dead one among them is left
\* out, and not made up for.
FindTargetNodes(v, h) ==
  IF Alive(v) = {} THEN <<>>
  ELSE LET p == GetNodeIndex(v, Primary(v, h))
       IN OnlyAlive(v, [i \in 1..ReplicationFactor |-> At(v, p + i - 1)])

\* The nearest alive member before n on the ring; n itself if it is the only one.
Predecessor(v, n) ==
  LET before == {m \in Alive(v) : Position[m] < Position[n]}
  IN LastOf(IF before # {} THEN before ELSE Alive(v))

\* Fault: no wrap-around.
IsHashInRangeUnwrapped(h, start, end) == start < h /\ h <= end

\* The range (start, end], which wraps around.
IsHashInRange(h, start, end) ==
  IF start < end THEN start < h /\ h <= end ELSE start < h \/ h <= end

\* h is in GetPrimaryKeyRange of n.
InPrimaryRange(v, n, h) ==
  /\ n \in Members(v) /\ Alive(v) # {}
  /\ IsHashInRange(h, Hash[Predecessor(v, n)], Hash[n])

\* The next ReplicationFactor - 1 alive members after n.
GetSuccessors(v, n) ==
  LET others == OnlyAlive(v, [i \in 1..(Size(v) - 1) |-> At(v, GetNodeIndex(v, n) + i)])
  IN SubSeq(others, 1, IF Len(others) < ReplicationFactor THEN Len(others)
                                                         ELSE ReplicationFactor - 1)

\* The index of m is i after, or -i before, that of n; dead entries count.
IsAt(v, n, i, m) == GetNodeIndex(v, m) = (GetNodeIndex(v, n) + Size(v) + i) % Size(v)

\* Fault: the member right before n is not looked at.
InReplicationWindowForward(v, n, m) ==
  /\ {m, n} \subseteq Members(v)
  /\ \E i \in 1..(ReplicationFactor - 1) : IsAt(v, n, i, m)

\* handleReplicationWindowChange: m is at one of the next ReplicationFactor - 1
\* indices or right before n.
InReplicationWindow(v, n, m) ==
  /\ {m, n} \subseteq Members(v)
  /\ \E i \in 1..(ReplicationFactor - 1) : IsAt(v, n, i, m) \/ IsAt(v, n, -1, m)
=============================================================================
