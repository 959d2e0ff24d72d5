---------------------------- MODULE Ring_proofs ----------------------------
(***************************************************************************)
(* Lemmas about the ring: ranks in a sorted list, and what the functions    *)
(* that place a file return, for any nodes, hashes and replication factor.  *)
(***************************************************************************)
EXTENDS Ring, FunctionTheorems, FiniteSetTheorems, TLAPS

----------------------------------------------------------------------------
(* Ranks.                                                                   *)

\* The elements of S that f puts before m.
Below(S, f, m) == {k \in S : f[k] < f[m]}
Rank(S, f, m)  == Cardinality(Below(S, f, m))

\* f numbers the elements of a finite set.
Numbers(f, S) ==
  /\ IsFiniteSet(S)
  /\ \A m \in S : f[m] \in Int
  /\ \A m, k \in S : f[m] = f[k] => m = k

\* A rank is an index of the sorted list, and ranks are ordered as f orders.
LEMMA RankOrder ==
  ASSUME NEW S, NEW f, Numbers(f, S)
  PROVE  /\ Cardinality(S) \in Nat
         /\ \A m \in S : Rank(S, f, m) \in 0..(Cardinality(S) - 1)
         /\ \A m, k \in S : f[m] < f[k] => Rank(S, f, m) < Rank(S, f, k)
<1>1. Cardinality(S) \in Nat
  BY FS_CardinalityType DEF Numbers
<1>2. ASSUME NEW m \in S
      PROVE  /\ IsFiniteSet(Below(S, f, m) \cup {m})
             /\ Rank(S, f, m) \in Nat
             /\ Cardinality(Below(S, f, m) \cup {m}) = Rank(S, f, m) + 1
             /\ Below(S, f, m) \cup {m} \subseteq S
  <2>1. Below(S, f, m) \subseteq S /\ m \notin Below(S, f, m)
    BY DEF Below, Numbers
  <2>2. IsFiniteSet(Below(S, f, m))
    BY <2>1, FS_Subset DEF Numbers
  <2> QED
    BY <2>1, <2>2, FS_AddElement, FS_CardinalityType DEF Rank
<1>3. ASSUME NEW m \in S PROVE Rank(S, f, m) \in 0..(Cardinality(S) - 1)
  <2>1. Cardinality(Below(S, f, m) \cup {m}) <= Cardinality(S)
    BY <1>2, FS_Subset DEF Numbers
  <2>2. Rank(S, f, m) \in Nat /\ Cardinality(Below(S, f, m) \cup {m}) = Rank(S, f, m) + 1
    BY <1>2
  <2> QED
    BY <1>1, <2>1, <2>2
<1>4. ASSUME NEW m \in S, NEW k \in S, f[m] < f[k]
      PROVE  Rank(S, f, m) < Rank(S, f, k)
  <2>1. Below(S, f, m) \cup {m} \subseteq Below(S, f, k)
    BY <1>4 DEF Below, Numbers
  <2>2. IsFiniteSet(Below(S, f, k))
    BY <1>2, FS_Subset
  <2>3. Cardinality(Below(S, f, m) \cup {m}) <= Rank(S, f, k)
    BY <2>1, <2>2, FS_Subset DEF Rank
  <2>4. /\ Rank(S, f, m) \in Nat /\ Rank(S, f, k) \in Nat
        /\ Cardinality(Below(S, f, m) \cup {m}) = Rank(S, f, m) + 1
    BY <1>2
  <2> QED
    BY <2>3, <2>4
<1> QED
  BY <1>1, <1>3, <1>4

\* Every index of the sorted list is the rank of exactly one element.
LEMMA RankExists ==
  ASSUME NEW S, NEW f, Numbers(f, S), NEW j \in 0..(Cardinality(S) - 1)
  PROVE  \E m \in S : Rank(S, f, m) = j
<1> DEFINE T == 0..(Cardinality(S) - 1)
           g == [m \in S |-> Rank(S, f, m)]
<1>1. Cardinality(S) \in Nat /\ g \in [S -> T]
  BY RankOrder
<1>2. ASSUME NEW m \in S, NEW k \in S, g[m] = g[k] PROVE m = k
  BY <1>2, RankOrder DEF Numbers
<1>3. g \in Injection(S, T)
  <2> HIDE DEF g
  <2> QED BY <1>1, <1>2, Fun_IsInj
<1>4. IsFiniteSet(T) /\ Cardinality(T) = Cardinality(S)
  BY <1>1, FS_Interval
<1>5. g \in Surjection(S, T)
  <2> HIDE DEF g, T
  <2> QED BY <1>3, <1>4, FS_Injection
<1> QED
  BY <1>5 DEF Surjection

LEMMA RankUnique ==
  ASSUME NEW S, NEW f, Numbers(f, S), NEW m \in S, NEW k \in S,
         Rank(S, f, m) = Rank(S, f, k)
  PROVE  m = k
BY RankOrder DEF Numbers

----------------------------------------------------------------------------
(* The first and the last member of a list.                                 *)

LEMMA PositionsNumber ==
  ASSUME NEW S \in SUBSET Nodes
  PROVE  Numbers(Position, S)
<1>1. IsFiniteSet(S)
  BY HashAssumption, FS_Subset
<1> QED
  BY <1>1, HashAssumption DEF Numbers

LEMMA FirstIn ==
  ASSUME NEW S \in SUBSET Nodes, S # {}
  PROVE  FirstOf(S) \in S /\ \A k \in S : /\ Position[FirstOf(S)] <= Position[k]
                                          /\ Hash[FirstOf(S)] <= Hash[k]
<1>1. Numbers(Position, S)
  BY PositionsNumber
<1>2. Cardinality(S) \in Nat \ {0}
  BY <1>1, FS_EmptySet, FS_CardinalityType DEF Numbers
<1>3. PICK m \in S : Rank(S, Position, m) = 0
  BY <1>1, <1>2, RankExists
<1>4. IsFiniteSet(Below(S, Position, m))
  BY <1>1, FS_Subset DEF Numbers, Below
<1>5. Below(S, Position, m) = {}
  BY <1>3, <1>4, FS_EmptySet DEF Rank
<1>6. \A k \in S : Position[m] <= Position[k]
  BY <1>5, HashAssumption DEF Below
<1>7. FirstOf(S) \in S /\ \A k \in S : Position[FirstOf(S)] <= Position[k]
  BY <1>6 DEF FirstOf
<1> QED
  BY <1>7, HashAssumption

LEMMA LastIn ==
  ASSUME NEW S \in SUBSET Nodes, S # {}
  PROVE  LastOf(S) \in S /\ \A k \in S : /\ Position[LastOf(S)] >= Position[k]
                                         /\ Hash[LastOf(S)] >= Hash[k]
<1>1. Numbers(Position, S)
  BY PositionsNumber
<1>2. Cardinality(S) \in Nat \ {0}
  BY <1>1, FS_EmptySet, FS_CardinalityType DEF Numbers
<1>3. PICK m \in S : Rank(S, Position, m) = Cardinality(S) - 1
  BY <1>1, <1>2, RankExists
<1>4. ASSUME NEW k \in S PROVE Position[m] >= Position[k]
  <2>1. Rank(S, Position, k) \in 0..(Cardinality(S) - 1)
    BY <1>1, RankOrder
  <2>2. ~(Position[m] < Position[k])
    BY <1>1, <1>2, <1>3, <2>1, RankOrder
  <2> QED
    BY <2>2, HashAssumption
<1>5. LastOf(S) \in S /\ \A k \in S : Position[LastOf(S)] >= Position[k]
  BY <1>4 DEF LastOf
<1> QED
  BY <1>5, HashAssumption

----------------------------------------------------------------------------
(* The elements of a sequence at some of its indices.                       *)

\* The numbers in I before i.
Place(I, i) == Cardinality({k \in I : k < i})

\* The places of the numbers in I are 0, 1, ... in their order.
LEMMA Places ==
  ASSUME NEW I \in SUBSET Int, IsFiniteSet(I)
  PROVE  /\ Cardinality(I) \in Nat
         /\ \A i \in I : Place(I, i) \in 0..(Cardinality(I) - 1)
         /\ \A i, k \in I : i < k => Place(I, i) < Place(I, k)
         /\ \A j \in 0..(Cardinality(I) - 1) : \E i \in I : Place(I, i) = j
<1> DEFINE f == [i \in I |-> i]
<1>1. Numbers(f, I) /\ \A i, k \in I : f[i] < f[k] <=> i < k
  BY DEF Numbers
<1>2. ASSUME NEW i \in I PROVE Rank(I, f, i) = Place(I, i)
  <2>1. Below(I, f, i) = {k \in I : k < i}
    BY DEF Below
  <2> QED
    BY <2>1 DEF Rank, Place
<1> HIDE DEF f
<1>3. /\ Cardinality(I) \in Nat
      /\ \A i \in I : Place(I, i) \in 0..(Cardinality(I) - 1)
      /\ \A i, k \in I : i < k => Place(I, i) < Place(I, k)
  BY <1>1, <1>2, RankOrder
<1>4. ASSUME NEW j \in 0..(Cardinality(I) - 1)
      PROVE  \E i \in I : Place(I, i) = j
  <2>1. PICK i \in I : Rank(I, f, i) = j
    BY <1>1, RankExists
  <2> QED
    BY <1>2, <2>1
<1> QED
  BY <1>3, <1>4

\* The j-th smallest number in I is in I; it grows with j; and every number in I
\* has its place.
LEMMA NthOf ==
  ASSUME NEW I \in SUBSET Int, IsFiniteSet(I)
  PROVE  /\ Cardinality(I) \in Nat
         /\ \A j \in 1..Cardinality(I) : Nth(I, j) \in I
         /\ \A j, k \in 1..Cardinality(I) : j < k => Nth(I, j) < Nth(I, k)
         /\ \A i \in I : /\ Place(I, i) + 1 \in 1..Cardinality(I)
                         /\ Nth(I, Place(I, i) + 1) = i
<1>1. Cardinality(I) \in Nat
  BY Places
<1>2. ASSUME NEW j \in 1..Cardinality(I)
      PROVE  Nth(I, j) \in I /\ Place(I, Nth(I, j)) = j - 1
  <2>1. PICK i \in I : Place(I, i) = j - 1
    <3>1. j - 1 \in 0..(Cardinality(I) - 1)
      BY <1>1
    <3> QED
      BY <3>1, Places
  <2> QED
    BY <2>1 DEF Nth, Place
<1>3. ASSUME NEW i \in I, NEW k \in I, ~(i < k)
      PROVE  ~(Place(I, i) < Place(I, k))
  <2>1. i = k \/ k < i
    BY <1>3
  <2>2. Place(I, i) \in Int /\ Place(I, k) \in Int
    BY Places
  <2>3. k < i => Place(I, k) < Place(I, i)
    BY Places
  <2> QED
    BY <2>1, <2>2, <2>3
<1>4. ASSUME NEW j \in 1..Cardinality(I), NEW k \in 1..Cardinality(I), j < k
      PROVE  Nth(I, j) < Nth(I, k)
  <2>1. /\ Nth(I, j) \in I /\ Place(I, Nth(I, j)) = j - 1
        /\ Nth(I, k) \in I /\ Place(I, Nth(I, k)) = k - 1
    BY <1>2
  <2>2. Place(I, Nth(I, j)) < Place(I, Nth(I, k))
    BY <1>1, <1>4, <2>1
  <2> QED
    BY <1>3, <2>1, <2>2
<1>5. ASSUME NEW i \in I
      PROVE  Place(I, i) + 1 \in 1..Cardinality(I) /\ Nth(I, Place(I, i) + 1) = i
  <2>1. Place(I, i) \in 0..(Cardinality(I) - 1)
    BY Places
  <2> DEFINE j == Place(I, i) + 1
             n == Nth(I, j)
  <2>2. j \in 1..Cardinality(I) /\ j - 1 = Place(I, i)
    BY <1>1, <2>1
  <2> HIDE DEF j
  <2>3. n \in I /\ Place(I, n) = Place(I, i)
    BY <1>2, <2>2
  <2> HIDE DEF n
  <2>4. n < i => Place(I, n) < Place(I, i)
    BY <2>3, Places
  <2>5. i < n => Place(I, i) < Place(I, n)
    BY <2>3, Places
  <2>6. n = i
    BY <2>1, <2>3, <2>4, <2>5
  <2> QED
    BY <2>2, <2>6 DEF n, j
<1> QED
  BY <1>1, <1>2, <1>4, <1>5

\* What AtIndices returns: the elements at the indices, in their order.
LEMMA AtIndicesOf ==
  ASSUME NEW T, NEW s \in Seq(T), NEW I \in SUBSET DOMAIN s
  PROVE  /\ IsFiniteSet(I)
         /\ AtIndices(s, I) \in Seq(T)
         /\ Len(AtIndices(s, I)) = Cardinality(I)
         /\ DOMAIN AtIndices(s, I) = 1..Cardinality(I)
         /\ \A j \in 1..Cardinality(I) :
              Nth(I, j) \in I /\ AtIndices(s, I)[j] = s[Nth(I, j)]
<1>1. DOMAIN s = 1..Len(s) /\ Len(s) \in Nat
  OBVIOUS
<1>2. IsFiniteSet(I) /\ I \in SUBSET Int
  <2>1. I \in SUBSET (1..Len(s)) /\ IsFiniteSet(1..Len(s))
    BY <1>1, FS_Interval
  <2> QED
    BY <2>1, FS_Subset
<1>3. Cardinality(I) \in Nat /\ \A j \in 1..Cardinality(I) : Nth(I, j) \in I
  BY <1>2, NthOf
<1>4. \A j \in 1..Cardinality(I) : s[Nth(I, j)] \in T
  BY <1>1, <1>3
<1> QED
  BY <1>2, <1>3, <1>4 DEF AtIndices

----------------------------------------------------------------------------
(* Indices that wrap around.                                                *)

LEMMA Division ==
  ASSUME NEW x \in Int, NEW n \in Nat \ {0}
  PROVE  /\ x % n \in 0..(n - 1)
         /\ x \div n \in Int
         /\ x = n * (x \div n) + (x % n)
OBVIOUS

LEMMA Multiples ==
  ASSUME NEW n \in Nat \ {0}, NEW q \in Int, NEW p \in Int, q < p
  PROVE  n * q + n <= n * p
<1> DEFINE d == p - q
<1>1. d \in Nat \ {0}
  OBVIOUS
<1> HIDE DEF d
<1>2. n * d >= n
  BY <1>1
<1>3. n * (p - q) >= n
  BY <1>2 DEF d
<1> QED
  BY <1>3

\* Quotient and remainder are unique.
LEMMA Remainder ==
  ASSUME NEW x \in Int, NEW n \in Nat \ {0}, NEW p \in Int, NEW r \in 0..(n - 1),
         x = n * p + r
  PROVE  x % n = r
<1> DEFINE q == x \div n
           t == x % n
<1>1. q \in Int /\ t \in 0..(n - 1) /\ x = n * q + t
  BY Division
<1> HIDE DEF q, t
<1>2. n * q \in Int /\ n * p \in Int
  BY <1>1
<1>3. q < p => n * q + n <= n * p
  BY <1>1, Multiples
<1>4. p < q => n * p + n <= n * q
  BY <1>1, Multiples
<1>5. p = q
  BY <1>1, <1>2, <1>3, <1>4
<1>6. t = r
  BY <1>1, <1>2, <1>5
<1> QED
  BY <1>6 DEF t

LEMMA Smaller ==
  ASSUME NEW x \in Nat, NEW n \in Nat \ {0}
  PROVE  x % n \in 0..(n - 1) /\ x % n <= x
<1> DEFINE q == x \div n
           r == x % n
<1>1. q \in Int /\ r \in 0..(n - 1) /\ x = n * q + r
  BY Division
<1> HIDE DEF q, r
<1>2. q < 0 => n * q + n <= n * 0
  BY <1>1, Multiples
<1>3. q > 0 => n * 0 + n <= n * q
  BY <1>1, Multiples
<1>4. n * 0 = 0 /\ n * q \in Int /\ (q = 0 => n * q = 0)
  BY <1>1
<1>5. r \in 0..(n - 1) /\ r <= x
  BY <1>1, <1>2, <1>3, <1>4
<1> QED
  BY <1>5 DEF r

\* An index stays the same if the offset is taken modulo the size first.
LEMMA Wrap ==
  ASSUME NEW n \in Nat \ {0}, NEW x \in Int, NEW y \in Int
  PROVE  (x + (y % n)) % n = (x + y) % n
<1> DEFINE k == y \div n
           q == (x + (y % n)) \div n
           r == (x + (y % n)) % n
<1>1. y % n \in Int /\ k \in Int /\ y = n * k + (y % n)
  BY Division
<1>2. q \in Int /\ r \in 0..(n - 1) /\ x + (y % n) = n * q + r
  BY <1>1, Division
<1> HIDE DEF k, q, r
<1>3. n * (k + q) = n * k + n * q /\ n * k \in Int /\ n * q \in Int
  BY <1>1, <1>2
<1>4. x + y = n * (k + q) + r
  BY <1>1, <1>2, <1>3
<1> DEFINE z == x + y
           p == k + q
<1>5. z \in Int /\ p \in Int /\ z = n * p + r
  BY <1>1, <1>2, <1>4
<1> HIDE DEF z, p
<1>6. z % n = r
  BY <1>2, <1>5, Remainder
<1> QED
  BY <1>6 DEF r, z

\* Offsets less than the size apart lead to different indices.
LEMMA Apart ==
  ASSUME NEW n \in Nat \ {0}, NEW x \in Int, NEW y \in Int, x < y, y < x + n
  PROVE  x % n # y % n
<1> SUFFICES ASSUME x % n = y % n PROVE FALSE
  OBVIOUS
<1> DEFINE p == x \div n
           q == y \div n
           r == x % n
<1>1. p \in Int /\ q \in Int /\ r \in Int /\ x = n * p + r /\ y = n * q + r
  BY Division
<1> HIDE DEF p, q, r
<1>2. n * q \in Int /\ n * p \in Int
  BY <1>1
<1>3. p < q => n * p + n <= n * q
  BY <1>1, Multiples
<1>4. q < p => n * q + n <= n * p
  BY <1>1, Multiples
<1>5. p = q
  BY <1>1, <1>2, <1>3, <1>4
<1> QED
  BY <1>1, <1>2, <1>5

----------------------------------------------------------------------------
(* Indices of the ring.                                                     *)

\* The list of a view, sorted by hash: every index has its member, and a member
\* its index.
LEMMA Indices ==
  ASSUME NEW v
  PROVE  /\ Size(v) \in Nat
         /\ Members(v) # {} => Size(v) # 0
         /\ \A m \in Members(v) : GetNodeIndex(v, m) \in 0..(Size(v) - 1)
         /\ \A m, k \in Members(v) : GetNodeIndex(v, m) = GetNodeIndex(v, k) => m = k
         /\ \A m : GetNodeIndex(v, m) \in Nat
<1>1. Members(v) \in SUBSET Nodes /\ Numbers(Position, Members(v))
  BY PositionsNumber DEF Members
<1>2. \A m : GetNodeIndex(v, m) = Rank(Members(v), Position, m)
  BY DEF GetNodeIndex, Rank, Below
<1>3. Size(v) \in Nat /\ (Members(v) # {} => Size(v) # 0)
  BY <1>1, FS_EmptySet, FS_CardinalityType DEF Size, Numbers
<1>4. ASSUME NEW m PROVE GetNodeIndex(v, m) \in Nat
  <2>1. IsFiniteSet(Below(Members(v), Position, m))
    BY <1>1, FS_Subset DEF Numbers, Below
  <2> QED
    BY <1>2, <2>1, FS_CardinalityType DEF Rank
<1>5. \A m \in Members(v) : GetNodeIndex(v, m) \in 0..(Size(v) - 1)
  BY <1>1, <1>2, RankOrder DEF Size
<1>6. \A m, k \in Members(v) : GetNodeIndex(v, m) = GetNodeIndex(v, k) => m = k
  BY <1>1, <1>2, RankUnique
<1> QED
  BY <1>3, <1>4, <1>5, <1>6

\* The member at an index, which wraps around.
LEMMA AtIndex ==
  ASSUME NEW v, Members(v) # {}, NEW i \in Int
  PROVE  At(v, i) \in Members(v) /\ GetNodeIndex(v, At(v, i)) = i % Size(v)
<1>1. Members(v) \in SUBSET Nodes /\ Numbers(Position, Members(v))
  BY PositionsNumber DEF Members
<1>2. Size(v) \in Nat \ {0}
  BY Indices
<1>3. i % Size(v) \in 0..(Size(v) - 1)
  BY <1>2, Division
<1>4. PICK m \in Members(v) : Rank(Members(v), Position, m) = i % Size(v)
  BY <1>1, <1>3, RankExists DEF Size
<1>5. GetNodeIndex(v, m) = i % Size(v)
  BY <1>4 DEF GetNodeIndex, Rank, Below
<1> QED
  BY <1>5 DEF At

LEMMA AtOwnIndex ==
  ASSUME NEW v, NEW m \in Members(v), NEW i \in Int, i % Size(v) = GetNodeIndex(v, m)
  PROVE  At(v, i) = m
<1>1. At(v, i) \in Members(v) /\ GetNodeIndex(v, At(v, i)) = i % Size(v)
  BY AtIndex
<1> QED
  BY <1>1, Indices

----------------------------------------------------------------------------
(* Where a file goes.                                                       *)

\* The members of v at the indices from x on.
Onward(v, x, k) == [i \in 1..k |-> At(v, x + i)]

LEMMA OnwardSeq ==
  ASSUME NEW v, Members(v) # {}, NEW x \in Int, NEW k \in Nat
  PROVE  Onward(v, x, k) \in Seq(Members(v)) /\ Len(Onward(v, x, k)) = k
<1>1. \A i \in 1..k : At(v, x + i) \in Members(v)
  BY AtIndex
<1> QED
  BY <1>1 DEF Onward

\* The indices of s with an alive member.
AliveAt(v, s) == {i \in DOMAIN s : v[s[i]] = "alive"}

\* r has the i-th element of s, at an index up to i.
Reached(r, s, i) == \E j \in 1..i : j \in DOMAIN r /\ r[j] = s[i]

\* OnlyAlive keeps the alive members, in their order.
LEMMA OnlyAliveOf ==
  ASSUME NEW v, NEW s \in Seq(Members(v)), NEW I, I = AliveAt(v, s)
  PROVE  /\ OnlyAlive(v, s) = AtIndices(s, I)
         /\ OnlyAlive(v, s) \in Seq(Alive(v))
         /\ \A i \in I : Reached(OnlyAlive(v, s), s, i)
<1>1. OnlyAlive(v, s) = AtIndices(s, I) /\ I \in SUBSET DOMAIN s
  BY DEF OnlyAlive, AliveAt
<1>2. /\ IsFiniteSet(I)
      /\ AtIndices(s, I) \in Seq(Members(v))
      /\ Len(AtIndices(s, I)) = Cardinality(I)
      /\ DOMAIN AtIndices(s, I) = 1..Cardinality(I)
      /\ \A j \in 1..Cardinality(I) : Nth(I, j) \in I /\ AtIndices(s, I)[j] = s[Nth(I, j)]
  BY <1>1, AtIndicesOf
<1>3. DOMAIN s = 1..Len(s) /\ Len(s) \in Nat
  OBVIOUS
<1>4. I \in SUBSET Int
  BY <1>1, <1>3
<1>5. OnlyAlive(v, s) \in Seq(Alive(v))
  <2>1. \A i \in I : s[i] \in Alive(v)
    BY <1>1, <1>3 DEF Alive, Members, AliveAt
  <2>2. \A j \in 1..Cardinality(I) : AtIndices(s, I)[j] \in Alive(v)
    BY <1>2, <2>1
  <2> QED
    BY <1>1, <1>2, <2>2
<1>6. ASSUME NEW i \in I
      PROVE  Reached(OnlyAlive(v, s), s, i)
  <2> DEFINE j == Place(I, i) + 1
  <2>1. i \in Nat \ {0}
    BY <1>1, <1>3
  <2>2. j \in 1..Cardinality(I) /\ Nth(I, j) = i
    BY <1>2, <1>4, NthOf
  <2>3. Place(I, i) <= i - 1
    <3> DEFINE n == i - 1
    <3>1. n \in Nat /\ {k \in I : k < i} \in SUBSET (1..n)
      BY <1>1, <1>3, <2>1
    <3> HIDE DEF n
    <3>2. IsFiniteSet(1..n) /\ Cardinality(1..n) = n
      BY <3>1, FS_Interval
    <3>3. Place(I, i) <= n
      BY <3>1, <3>2, FS_Subset DEF Place
    <3> QED
      BY <3>3 DEF n
  <2>4. Place(I, i) \in Nat
    BY <1>2, <1>4, Places
  <2>5. j \in 1..i
    BY <2>1, <2>3, <2>4
  <2> HIDE DEF j
  <2> QED
    BY <1>1, <1>2, <2>2, <2>5 DEF Reached
<1> QED
  BY <1>1, <1>5, <1>6

LEMMA PrimaryAlive ==
  ASSUME NEW v, Alive(v) # {}, NEW h
  PROVE  /\ Primary(v, h) \in Alive(v)
         /\ Primary(v, h) \in Members(v)
<1>1. Alive(v) \in SUBSET Nodes
  BY DEF Alive
<1>2. \A S \in SUBSET Alive(v) : S # {} => FirstOf(S) \in S
  BY <1>1, FirstIn
<1>3. Primary(v, h) \in Alive(v)
  BY <1>1, <1>2 DEF Primary
<1> QED
  BY <1>3 DEF Alive, Members

\* The primary comes first; the others are alive members at the indices that follow.
LEMMA TargetsOf ==
  ASSUME NEW v, NEW h, Alive(v) # {},
         NEW T, T = FindTargetNodes(v, h), NEW p, p = Primary(v, h)
  PROVE  /\ T \in Seq(Alive(v)) /\ T # <<>> /\ T[1] = p
         /\ \A i \in DOMAIN T : \E k \in 0..(ReplicationFactor - 1) :
              T[i] = At(v, GetNodeIndex(v, p) + k)
         /\ Size(v) >= ReplicationFactor =>
              \A i, k \in DOMAIN T : T[i] = T[k] => i = k
<1> DEFINE x == GetNodeIndex(v, p)
           s == [i \in 1..ReplicationFactor |-> At(v, x + i - 1)]
           I == AliveAt(v, s)
<1>1. p \in Alive(v) /\ p \in Members(v) /\ Members(v) # {}
  BY PrimaryAlive
<1>2. Size(v) \in Nat \ {0} /\ x \in 0..(Size(v) - 1)
  BY <1>1, Indices
<1>3. s \in Seq(Members(v)) /\ DOMAIN s = 1..ReplicationFactor
  <2>1. \A i \in 1..ReplicationFactor : x + i - 1 \in Int
    BY <1>2
  <2>2. \A i \in 1..ReplicationFactor : At(v, x + i - 1) \in Members(v)
    BY <1>1, <2>1, AtIndex
  <2> QED
    BY <2>2, ReplicationAssumption
<1>4. T = OnlyAlive(v, s)
  BY DEF FindTargetNodes
<1>5. s[1] = p /\ 1 \in I
  <2>1. x % Size(v) = x /\ x + 1 - 1 = x
    BY <1>2, Remainder
  <2>2. s[1] = At(v, x) /\ At(v, x) = p
    BY <1>1, <1>2, <2>1, AtOwnIndex, ReplicationAssumption
  <2> QED
    BY <1>1, <1>3, <2>2, ReplicationAssumption DEF Alive, AliveAt
<1>6. /\ T = AtIndices(s, I) /\ T \in Seq(Alive(v))
      /\ \A i \in I : Reached(T, s, i)
  <2>1. I = AliveAt(v, s)
    OBVIOUS
  <2> HIDE DEF s, I
  <2>2. OnlyAlive(v, s) = AtIndices(s, I) /\ OnlyAlive(v, s) \in Seq(Alive(v))
    BY <1>3, <2>1, OnlyAliveOf
  <2>3. \A i \in I : Reached(OnlyAlive(v, s), s, i)
    BY <1>3, <2>1, OnlyAliveOf
  <2> QED
    BY <1>4, <2>2, <2>3
<1>7. T # <<>> /\ T[1] = p
  <2>1. PICK j \in 1..1 : j \in DOMAIN T /\ T[j] = s[1]
    BY <1>5, <1>6 DEF Reached
  <2> QED
    BY <1>5, <2>1
<1>8. /\ I \in SUBSET Int /\ IsFiniteSet(I)
      /\ DOMAIN T = 1..Cardinality(I)
      /\ \A i \in DOMAIN T : Nth(I, i) \in I /\ T[i] = s[Nth(I, i)]
  <2> HIDE DEF s
  <2>1. I \in SUBSET DOMAIN s
    BY DEF AliveAt
  <2>2. I \in SUBSET Int
    BY <1>3, <2>1, ReplicationAssumption
  <2> HIDE DEF I
  <2>3. /\ IsFiniteSet(I) /\ DOMAIN AtIndices(s, I) = 1..Cardinality(I)
        /\ \A j \in 1..Cardinality(I) : Nth(I, j) \in I /\ AtIndices(s, I)[j] = s[Nth(I, j)]
    BY <1>3, <2>1, AtIndicesOf
  <2> QED
    BY <1>6, <2>2, <2>3
<1>9. \A i \in I : i \in 1..ReplicationFactor /\ s[i] = At(v, x + (i - 1))
  <2>1. ASSUME NEW i \in I
        PROVE  i \in 1..ReplicationFactor /\ x + i - 1 = x + (i - 1) /\ s[i] = At(v, x + i - 1)
    BY <1>2, <1>3, ReplicationAssumption DEF AliveAt
  <2> QED
    BY <2>1
<1> HIDE DEF s, I
<1>10. ASSUME NEW i \in DOMAIN T
       PROVE  \E k \in 0..(ReplicationFactor - 1) : T[i] = At(v, x + k)
  <2>1. PICK n \in I : T[i] = s[n]
    BY <1>8
  <2>2. n - 1 \in 0..(ReplicationFactor - 1) /\ T[i] = At(v, x + (n - 1))
    BY <1>9, <2>1, ReplicationAssumption
  <2> QED
    BY <2>2
<1>11. ASSUME Size(v) >= ReplicationFactor, NEW i \in I, NEW k \in I, i < k
       PROVE  s[i] # s[k]
  <2>1. i \in 1..ReplicationFactor /\ k \in 1..ReplicationFactor
    BY <1>9
  <2> DEFINE y == x + (i - 1)
             z == x + (k - 1)
  <2>2. y \in Int /\ z \in Int /\ y < z /\ z < y + Size(v)
    BY <1>2, <1>11, <2>1, ReplicationAssumption
  <2>3. s[i] = At(v, y) /\ s[k] = At(v, z)
    BY <1>9
  <2> HIDE DEF y, z
  <2>4. y % Size(v) # z % Size(v)
    BY <1>2, <2>2, Apart
  <2> QED
    BY <1>1, <2>2, <2>3, <2>4, AtIndex
<1>12. ASSUME Size(v) >= ReplicationFactor, NEW i \in DOMAIN T, NEW k \in DOMAIN T, i < k
       PROVE  T[i] # T[k]
  <2>1. Nth(I, i) < Nth(I, k)
    BY <1>8, <1>12, NthOf
  <2> QED
    BY <1>8, <1>11, <1>12, <2>1
<1>13. ASSUME Size(v) >= ReplicationFactor, NEW i \in DOMAIN T, NEW k \in DOMAIN T, T[i] = T[k]
       PROVE  i = k
  <2>1. i \in Int /\ k \in Int
    BY <1>8
  <2> QED
    BY <1>12, <1>13, <2>1
<1> QED
  BY <1>6, <1>7, <1>10, <1>13

\* Targets are members, also when nobody is alive.
LEMMA TargetsType ==
  ASSUME NEW v, NEW h
  PROVE  FindTargetNodes(v, h) \in Seq(Nodes)
<1>1. CASE Alive(v) = {}
  BY <1>1 DEF FindTargetNodes
<1>2. CASE Alive(v) # {}
  <2>1. FindTargetNodes(v, h) \in Seq(Alive(v))
    BY <1>2, TargetsOf
  <2>2. Alive(v) \subseteq Nodes
    BY DEF Alive
  <2> QED
    BY <2>1, <2>2
<1> QED
  BY <1>1, <1>2

\* The alive members at the ReplicationFactor - 1 indices after n are among n's successors.
LEMMA SuccessorsOf ==
  ASSUME NEW v, NEW n, NEW S, S = GetSuccessors(v, n)
  PROVE  /\ S \in Seq(Nodes)
         /\ n \in Members(v) =>
              \A i \in 1..(ReplicationFactor - 1) : \A m \in Alive(v) \ {n} :
                m = At(v, GetNodeIndex(v, n) + i) => \E j \in DOMAIN S : S[j] = m
<1> DEFINE x == GetNodeIndex(v, n)
           z == Size(v)
           s == [i \in 1..(z - 1) |-> At(v, x + i)]
           I == AliveAt(v, s)
           r == OnlyAlive(v, s)
           k == IF Len(r) < ReplicationFactor THEN Len(r) ELSE ReplicationFactor - 1
<1>1. z \in Nat /\ x \in Nat
  BY Indices
<1>2. s \in Seq(Members(v)) /\ DOMAIN s = 1..(z - 1)
  <2>1. CASE z > 1
    <3>1. Members(v) # {}
      BY <1>1, <2>1, FS_EmptySet DEF Size
    <3>2. \A i \in 1..(z - 1) : At(v, x + i) \in Members(v)
      BY <1>1, <3>1, AtIndex
    <3> QED
      BY <1>1, <2>1, <3>2
  <2>2. CASE ~(z > 1)
    <3>1. 1..(z - 1) = 1..0
      BY <1>1, <2>2
    <3>2. s = [i \in 1..0 |-> At(v, x + i)]
      BY <3>1
    <3>3. \A i \in 1..0 : At(v, x + i) \in Members(v)
      OBVIOUS
    <3> HIDE DEF s, x
    <3> QED
      BY <3>1, <3>2, <3>3
  <2> QED
    BY <2>1, <2>2
<1>3. S = SubSeq(r, 1, k)
  BY DEF GetSuccessors
<1>4. r \in Seq(Alive(v)) /\ \A i \in I : Reached(r, s, i)
  <2> HIDE DEF s
  <2> QED
    BY <1>2, OnlyAliveOf
<1>5. /\ Len(r) \in Nat /\ DOMAIN r = 1..Len(r)
      /\ k \in Nat /\ k <= Len(r) /\ k <= ReplicationFactor - 1
      /\ k < Len(r) => k = ReplicationFactor - 1
  <2> HIDE DEF r
  <2> QED
    BY <1>4, ReplicationAssumption
<1>6. S \in Seq(Alive(v)) /\ DOMAIN S = 1..k /\ \A j \in 1..k : S[j] = r[j]
  <2> HIDE DEF r, k
  <2> QED
    BY <1>3, <1>4, <1>5
<1>7. S \in Seq(Nodes)
  <2>1. Alive(v) \subseteq Nodes
    BY DEF Alive
  <2> QED
    BY <1>6, <2>1
<1>8. ASSUME n \in Members(v), NEW i \in 1..(ReplicationFactor - 1),
             NEW m \in Alive(v) \ {n}, m = At(v, x + i)
      PROVE  \E j \in DOMAIN S : S[j] = m
  <2> DEFINE q == i % z
  <2>1. z \in Nat \ {0} /\ i \in Nat \ {0}
    BY <1>1, <1>8, Indices, ReplicationAssumption
  <2>2. q \in 0..(z - 1) /\ q <= i
    BY <2>1, Smaller
  <2>3. At(v, x + q) = m
    <3>1. (x + (i % z)) % z = (x + i) % z
      BY <1>1, <2>1, Wrap
    <3> QED
      BY <1>8, <3>1 DEF At
  <2>4. q # 0
    <3>1. SUFFICES ASSUME q = 0 PROVE FALSE
      OBVIOUS
    <3>2. m = At(v, x)
      BY <1>1, <2>3, <3>1
    <3>3. x \in 0..(z - 1)
      BY <1>8, Indices
    <3>4. x % z = x
      BY <2>1, <3>3, Remainder
    <3>5. At(v, x) = n
      BY <1>1, <1>8, <3>4, AtOwnIndex
    <3> QED
      BY <3>2, <3>5
  <2> HIDE DEF q
  <2>5. q \in DOMAIN s /\ s[q] = m
    BY <1>1, <1>2, <2>1, <2>2, <2>3, <2>4
  <2>6. q \in I
    BY <2>5 DEF AliveAt, Alive
  <2>7. PICK j \in 1..q : j \in DOMAIN r /\ r[j] = s[q]
    BY <1>4, <2>6 DEF Reached
  <2>8. j \in 1..k
    <3> HIDE DEF r, k
    <3> QED
      BY <1>5, <2>1, <2>2, <2>7, ReplicationAssumption
  <2> QED
    BY <1>6, <2>5, <2>7, <2>8
<1> QED
  BY <1>7, <1>8

\* A member is not among its own successors.
LEMMA NotItsOwnSuccessor ==
  ASSUME NEW v, NEW n \in Members(v), NEW S, S = GetSuccessors(v, n)
  PROVE  S \in Seq(Members(v) \ {n})
<1> DEFINE x == GetNodeIndex(v, n)
           z == Size(v)
           s == [i \in 1..(z - 1) |-> At(v, x + i)]
           I == AliveAt(v, s)
           r == OnlyAlive(v, s)
           k == IF Len(r) < ReplicationFactor THEN Len(r) ELSE ReplicationFactor - 1
           T == Members(v) \ {n}
<1>1. z \in Nat \ {0} /\ x \in 0..(z - 1) /\ Members(v) # {}
  BY Indices
<1>2. ASSUME NEW i \in 1..(z - 1) PROVE At(v, x + i) \in T
  <2>1. x + i \in Int /\ x < x + i /\ x + i < x + z
    BY <1>1
  <2>2. x % z # (x + i) % z
    BY <1>1, <2>1, Apart
  <2>3. x % z = x
    BY <1>1, Remainder
  <2>4. At(v, x + i) \in Members(v) /\ GetNodeIndex(v, At(v, x + i)) = (x + i) % z
    BY <1>1, <2>1, AtIndex
  <2> QED
    BY <2>2, <2>3, <2>4
<1>3. s \in Seq(T)
  <2> HIDE DEF T, x
  <2>1. z - 1 \in Nat
    BY <1>1
  <2> HIDE DEF z
  <2> QED
    BY <1>2, <2>1
<1>4. r = AtIndices(s, I) /\ I \in SUBSET DOMAIN s
  BY DEF OnlyAlive, AliveAt
<1>5. r \in Seq(T)
  <2> HIDE DEF s, I, T, r
  <2> QED
    BY <1>3, <1>4, AtIndicesOf
<1>6. S = SubSeq(r, 1, k)
  BY DEF GetSuccessors
<1>7. k \in Nat /\ k <= Len(r)
  <2> HIDE DEF r
  <2> QED
    BY <1>5, ReplicationAssumption
<1> HIDE DEF r, k, T
<1>8. S \in Seq(T)
  BY <1>5, <1>6, <1>7
<1> QED
  BY <1>8 DEF T

\* All elements, at their indices.
LEMMA AllIndices ==
  ASSUME NEW T, NEW s \in Seq(T), NEW I, I = DOMAIN s
  PROVE  AtIndices(s, I) = s
<1> DEFINE r == AtIndices(s, I)
           n == Len(s)
<1>1. n \in Nat /\ DOMAIN s = 1..n /\ I = 1..n
  OBVIOUS
<1> HIDE DEF r, n
<1>2. I \in SUBSET DOMAIN s /\ I \in SUBSET Int /\ IsFiniteSet(I) /\ Cardinality(I) = n
  BY <1>1, FS_Interval
<1>3. /\ r \in Seq(T) /\ DOMAIN r = 1..n
      /\ \A j \in 1..n : r[j] = s[Nth(I, j)]
  <2>1. /\ AtIndices(s, I) \in Seq(T)
        /\ DOMAIN AtIndices(s, I) = 1..Cardinality(I)
        /\ \A j \in 1..Cardinality(I) : AtIndices(s, I)[j] = s[Nth(I, j)]
    BY <1>2, AtIndicesOf
  <2> QED
    BY <1>2, <2>1 DEF r
<1>4. ASSUME NEW i \in 1..n PROVE Nth(I, i) = i
  <2> DEFINE d == i - 1
  <2>1. d \in Nat /\ {k \in I : k < i} = 1..d /\ d + 1 = i
    BY <1>1
  <2> HIDE DEF d
  <2>2. Cardinality(1..d) = d
    BY <2>1, FS_Interval
  <2>3. Place(I, i) = d
    BY <2>1, <2>2 DEF Place
  <2>4. Nth(I, Place(I, i) + 1) = i
    BY <1>1, <1>2, NthOf
  <2> QED
    BY <2>1, <2>4, <2>3
<1>5. \A j \in 1..n : r[j] = s[j]
  BY <1>3, <1>4
<1>6. r = s
  BY <1>1, <1>3, <1>5
<1> QED
  BY <1>6 DEF r

\* With no dead entry in the list OnlyAlive leaves nothing out.
LEMMA AllAlive ==
  ASSUME NEW v, Members(v) \subseteq Alive(v), NEW s \in Seq(Members(v))
  PROVE  OnlyAlive(v, s) = s
<1> DEFINE I == AliveAt(v, s)
<1>1. \A i \in DOMAIN s : v[s[i]] = "alive"
  <2>1. \A i \in DOMAIN s : s[i] \in Members(v)
    OBVIOUS
  <2> QED
    BY <2>1 DEF Alive
<1>2. I = DOMAIN s
  BY <1>1 DEF AliveAt
<1>3. OnlyAlive(v, s) = AtIndices(s, I)
  BY DEF OnlyAlive, AliveAt
<1> HIDE DEF I
<1> QED
  BY <1>2, <1>3, AllIndices

LEMMA FirstOnes ==
  ASSUME NEW T, NEW s \in Seq(T), NEW k \in Nat, k <= Len(s), NEW S, S = SubSeq(s, 1, k)
  PROVE  DOMAIN S = 1..k /\ \A i \in 1..k : S[i] = s[i] /\ i \in DOMAIN s
<1>1. Len(s) \in Nat /\ DOMAIN s = 1..Len(s)
  OBVIOUS
<1>2. DOMAIN S = 1..k /\ \A i \in 1..k : S[i] = s[i]
  BY <1>1
<1> QED
  BY <1>1, <1>2

\* Then the primary sends to all of its successors what it gets itself.
LEMMA SuccessorsAreTargets ==
  ASSUME NEW v, NEW h, Alive(v) # {}, Members(v) \subseteq Alive(v),
         NEW p, p = Primary(v, h), NEW m, NEW j \in DOMAIN GetSuccessors(v, p),
         m = GetSuccessors(v, p)[j]
  PROVE  \E i \in DOMAIN FindTargetNodes(v, h) : FindTargetNodes(v, h)[i] = m
<1> DEFINE x == GetNodeIndex(v, p)
           z == Size(v)
           s == [i \in 1..(z - 1) |-> At(v, x + i)]
           t == [i \in 1..ReplicationFactor |-> At(v, x + i - 1)]
           k == IF Len(s) < ReplicationFactor THEN Len(s) ELSE ReplicationFactor - 1
<1>1. p \in Members(v) /\ Members(v) # {}
  BY PrimaryAlive
<1>2. z \in Nat \ {0} /\ x \in Nat
  BY <1>1, Indices
<1>3. s \in Seq(Members(v)) /\ DOMAIN s = 1..(z - 1)
  <2>1. \A i \in 1..(z - 1) : At(v, x + i) \in Members(v)
    BY <1>1, <1>2, AtIndex
  <2>2. z - 1 \in Nat
    BY <1>2
  <2> HIDE DEF x, z
  <2> QED
    BY <2>1, <2>2
<1>4. t \in Seq(Members(v)) /\ DOMAIN t = 1..ReplicationFactor
  <2>1. \A i \in 1..ReplicationFactor : x + i - 1 \in Int
    BY <1>2
  <2>2. \A i \in 1..ReplicationFactor : At(v, x + i - 1) \in Members(v)
    BY <1>1, <2>1, AtIndex
  <2> QED
    BY <2>2, ReplicationAssumption
<1>5. FindTargetNodes(v, h) = t
  <2>1. FindTargetNodes(v, h) = OnlyAlive(v, t)
    BY DEF FindTargetNodes
  <2> HIDE DEF t
  <2> QED
    BY <1>4, <2>1, AllAlive
<1>6. GetSuccessors(v, p) = SubSeq(s, 1, k)
  <2>1. OnlyAlive(v, s) = s
    <3> HIDE DEF s
    <3> QED
      BY <1>3, AllAlive
  <2> QED
    BY <2>1 DEF GetSuccessors
<1>7. k \in Nat /\ k <= Len(s) /\ k <= ReplicationFactor - 1
  <2> HIDE DEF s
  <2> QED
    BY <1>3, ReplicationAssumption
<1>8. j \in 1..k /\ m = s[j] /\ j \in DOMAIN s
  <2> HIDE DEF s, k
  <2>1. DOMAIN GetSuccessors(v, p) = 1..k
    BY <1>3, <1>6, <1>7, FirstOnes
  <2>2. \A i \in 1..k : GetSuccessors(v, p)[i] = s[i] /\ i \in DOMAIN s
    BY <1>3, <1>6, <1>7, FirstOnes
  <2> QED
    BY <2>1, <2>2
<1>9. j + 1 \in 1..ReplicationFactor /\ x + (j + 1) - 1 = x + j
  BY <1>2, <1>7, <1>8, ReplicationAssumption
<1>10. m = At(v, x + j)
  BY <1>3, <1>8
<1>11. t[j + 1] = m
  BY <1>9, <1>10
<1> QED
  BY <1>4, <1>5, <1>9, <1>11

----------------------------------------------------------------------------
(* Members with different hashes are in the order of these.                 *)

LEMMA HashOrder ==
  ASSUME HashesDiffer
  PROVE  \A m, n \in Nodes : /\ Hash[m] \in Nat /\ Hash[n] \in Nat
                             /\ Hash[m] = Hash[n] => m = n
                             /\ Position[m] < Position[n] <=> Hash[m] < Hash[n]
BY HashAssumption DEF HashesDiffer

----------------------------------------------------------------------------
(* One list: one node has the file in its primary range.                    *)

LEMMA OnePrimary ==
  ASSUME HashesDiffer, NEW v, NEW h \in Nat, Alive(v) # {}, NEW n \in Alive(v)
  PROVE  InPrimaryRange(v, n, h) <=> n = Primary(v, h)
<1> DEFINE A == Alive(v)
           before == {m \in A : Hash[m] < Hash[n]}
           after == {m \in A : Hash[m] >= h}
           b == Predecessor(v, n)
           p == Primary(v, h)
<1>1. A \in SUBSET Nodes /\ n \in Members(v)
  BY DEF Alive, Members
<1>2. /\ b \in A
      /\ before # {} => b \in before /\ \A k \in before : Hash[b] >= Hash[k]
      /\ before = {} => \A k \in A : Hash[b] >= Hash[k]
  <2>1. before = {m \in A : Position[m] < Position[n]}
    BY <1>1, HashOrder
  <2> QED
    BY <1>1, <2>1, LastIn DEF Predecessor
<1>3. /\ p \in A
      /\ after # {} => p \in after /\ \A k \in after : Hash[p] <= Hash[k]
      /\ after = {} => \A k \in A : Hash[p] <= Hash[k]
  BY <1>1, FirstIn DEF Primary
<1>4. InPrimaryRange(v, n, h) <=> IsHashInRange(h, Hash[b], Hash[n])
  BY <1>1 DEF InPrimaryRange
<1> HIDE DEF b, p
<1>5. \A k \in A : Hash[k] \in Nat
  BY <1>1, HashAssumption, HashOrder
<1>6. CASE before # {}
  <2>1. Hash[b] < Hash[n] /\ \A k \in A : Hash[k] < Hash[n] => Hash[k] <= Hash[b]
    BY <1>2, <1>5, <1>6
  <2>2. ASSUME Hash[b] < h, h <= Hash[n] PROVE n = p
    <3>1. n \in after
      BY <1>5, <2>2
    <3>2. Hash[p] <= Hash[n] /\ Hash[p] >= h
      BY <1>3, <3>1
    <3>3. ~(Hash[p] < Hash[n])
      BY <1>2, <1>3, <1>5, <2>1, <2>2, <3>2
    <3>4. Hash[p] = Hash[n]
      BY <1>3, <1>5, <3>2, <3>3
    <3> QED
      BY <1>1, <1>3, <3>4, HashAssumption, HashOrder
  <2>3. ASSUME n = p PROVE Hash[b] < h /\ h <= Hash[n]
    <3>1. after # {}
      BY <1>2, <1>3, <1>5, <2>1, <2>3
    <3>2. h <= Hash[n]
      BY <1>3, <1>5, <2>3, <3>1
    <3>3. b \notin after
      BY <1>2, <1>3, <1>5, <2>1, <2>3, <3>1
    <3> QED
      BY <1>2, <1>5, <3>2, <3>3
  <2> QED
    BY <1>4, <2>1, <2>2, <2>3 DEF IsHashInRange, b, p
<1>7. CASE before = {}
  <2>1. \A k \in A : Hash[n] <= Hash[k] /\ Hash[k] <= Hash[b]
    BY <1>2, <1>5, <1>7
  <2>2. ASSUME Hash[b] < h \/ h <= Hash[n] PROVE n = p
    <3>1. CASE after = {}
      <4>1. Hash[p] = Hash[n]
        BY <1>3, <1>5, <2>1, <3>1
      <4> QED
        BY <1>1, <1>3, <4>1, HashAssumption, HashOrder
    <3>2. CASE after # {}
      <4>1. h <= Hash[n]
        BY <1>2, <1>3, <1>5, <2>1, <2>2, <3>2
      <4>2. n \in after
        BY <1>5, <4>1
      <4>3. Hash[p] = Hash[n]
        BY <1>3, <1>5, <2>1, <3>2, <4>2
      <4> QED
        BY <1>1, <1>3, <4>3, HashAssumption, HashOrder
    <3> QED
      BY <3>1, <3>2
  <2>3. ASSUME n = p PROVE Hash[b] < h \/ h <= Hash[n]
    <3>1. CASE after = {}
      BY <1>2, <1>5, <3>1
    <3>2. CASE after # {}
      BY <1>3, <1>5, <2>3, <3>2
    <3> QED
      BY <3>1, <3>2
  <2>4. ~(Hash[b] < Hash[n])
    BY <1>2, <1>5, <2>1
  <2> QED
    BY <1>4, <2>2, <2>3, <2>4 DEF IsHashInRange, b, p
<1> QED
  BY <1>6, <1>7

----------------------------------------------------------------------------
(* The way round the ring from a hash.                                      *)

Lap == Hash[LastOf(Nodes)] + 1

\* The hashes, with those before h put behind all others.
WayFrom(h) == [m \in Nodes |-> IF Hash[m] >= h THEN Hash[m] ELSE Hash[m] + Lap]

\* How many members of A come before m on the way round from h.
Steps(A, h, m) == Rank(A, WayFrom(h), m)

Sooner(h, k, m) ==
  IF Hash[k] >= h THEN Hash[m] < h \/ Hash[k] < Hash[m] ELSE Hash[m] < h /\ Hash[k] < Hash[m]

LEMMA WayOf ==
  ASSUME HashesDiffer, NEW h \in Nat
  PROVE  /\ \A m, k \in Nodes : WayFrom(h)[k] < WayFrom(h)[m] <=> Sooner(h, k, m)
         /\ \A S \in SUBSET Nodes : Numbers(WayFrom(h), S)
<1>1. ASSUME NEW m \in Nodes, NEW k \in Nodes
      PROVE  /\ WayFrom(h)[m] \in Nat /\ WayFrom(h)[k] \in Nat
             /\ WayFrom(h)[k] < WayFrom(h)[m] <=> Sooner(h, k, m)
             /\ WayFrom(h)[k] = WayFrom(h)[m] => k = m
  <2>1. PICK lap : lap = Lap
    OBVIOUS
  <2>2. Hash[m] < lap /\ Hash[k] < lap /\ lap \in Nat
    <3>1. LastOf(Nodes) \in Nodes /\ \A i \in Nodes : Hash[LastOf(Nodes)] >= Hash[i]
      BY LastIn
    <3> QED
      BY <2>1, <3>1, HashAssumption, HashOrder DEF Lap
  <2>3. /\ WayFrom(h)[m] = IF Hash[m] >= h THEN Hash[m] ELSE Hash[m] + lap
        /\ WayFrom(h)[k] = IF Hash[k] >= h THEN Hash[k] ELSE Hash[k] + lap
    BY <2>1 DEF WayFrom
  <2>4. Hash[m] \in Nat /\ Hash[k] \in Nat /\ (Hash[k] = Hash[m] => k = m)
    BY HashAssumption, HashOrder
  <2>5. WayFrom(h)[m] \in Nat /\ WayFrom(h)[k] \in Nat
    BY <2>2, <2>3, <2>4
  <2>6. WayFrom(h)[k] < WayFrom(h)[m] <=> Sooner(h, k, m)
    BY <2>2, <2>3, <2>4 DEF Sooner
  <2>7. WayFrom(h)[k] = WayFrom(h)[m] => k = m
    BY <2>2, <2>3, <2>4
  <2> QED
    BY <2>5, <2>6, <2>7
<1>2. ASSUME NEW S \in SUBSET Nodes PROVE Numbers(WayFrom(h), S)
  <2>1. IsFiniteSet(S)
    BY HashAssumption, HashOrder, FS_Subset
  <2> QED
    BY <1>1, <2>1 DEF Numbers
<1> QED
  BY <1>1, <1>2

LEMMA Disjoint ==
  ASSUME NEW S, NEW T, IsFiniteSet(S), IsFiniteSet(T), S \cap T = {}
  PROVE  /\ IsFiniteSet(S \cup T) /\ Cardinality(S) \in Nat /\ Cardinality(T) \in Nat
         /\ Cardinality(S \cup T) = Cardinality(S) + Cardinality(T)
<1>1. Cardinality(S \cap T) = 0
  BY FS_EmptySet
<1>2. Cardinality(S \cup T) = Cardinality(S) + Cardinality(T) - Cardinality(S \cap T)
  BY FS_Union
<1> QED
  BY <1>1, <1>2, FS_Union, FS_CardinalityType

\* The members at the next indices are those that come next on the way.
LEMMA StepsAreIndices ==
  ASSUME HashesDiffer, NEW v, NEW n \in Members(v), NEW m \in Members(v), NEW i, i = Steps(Members(v), Hash[n], m)
  PROVE  i \in 0..(Size(v) - 1) /\ m = At(v, GetNodeIndex(v, n) + i)
<1> DEFINE M == Members(v)
           x == GetNodeIndex(v, n)
           y == GetNodeIndex(v, m)
           z == Size(v)
           L == {k \in M : Hash[k] < Hash[n]}
           U == {k \in M : Hash[k] < Hash[m]}
           W == Below(M, WayFrom(Hash[n]), m)
<1>1. /\ M \in SUBSET Nodes /\ IsFiniteSet(M) /\ Hash[n] \in Nat /\ Hash[m] \in Nat
      /\ \A k \in M : Hash[k] \in Nat
  <2>1. M \in SUBSET Nodes
    BY DEF Members
  <2> QED
    BY <2>1, HashAssumption, HashOrder, FS_Subset
<1>2. z \in Nat \ {0} /\ x \in 0..(z - 1) /\ y \in 0..(z - 1)
  BY Indices
<1>3. i = Cardinality(W) /\ i \in 0..(z - 1)
  <2>1. Numbers(WayFrom(Hash[n]), M)
    BY <1>1, WayOf
  <2>2. i \in 0..(Cardinality(M) - 1)
    BY <2>1, RankOrder DEF Steps
  <2> QED
    BY <2>2 DEF Steps, Rank, Size
<1>4. W = {k \in M : Sooner(Hash[n], k, m)}
  BY <1>1, WayOf DEF Below
<1>5. /\ IsFiniteSet(L) /\ IsFiniteSet(U) /\ IsFiniteSet(W)
      /\ Cardinality(L) = x /\ Cardinality(U) = y /\ Cardinality(M) = z
  <2>1. L \subseteq M /\ U \subseteq M /\ W \subseteq M
    BY <1>4
  <2>2. /\ L = {k \in M : Position[k] < Position[n]}
        /\ U = {k \in M : Position[k] < Position[m]}
    BY <1>1, HashOrder
  <2> QED
    BY <1>1, <2>1, <2>2, FS_Subset DEF GetNodeIndex, Size
<1>6. IF Hash[m] >= Hash[n] THEN W \cup L = U /\ W \cap L = {}
                             ELSE W = (M \ L) \cup U /\ (M \ L) \cap U = {}
  BY <1>1, <1>4 DEF Sooner
<1>7. L \subseteq M
  OBVIOUS
<1> HIDE DEF W, M, x, y, z, L, U
<1>8. (x + i) % z = y
  <2>1. CASE Hash[m] >= Hash[n]
    <3>1. Cardinality(U) = Cardinality(W) + Cardinality(L)
      BY <1>5, <1>6, <2>1, Disjoint
    <3>2. y = x + i
      BY <1>2, <1>3, <1>5, <3>1
    <3>3. x + i = z * 0 + y
      BY <1>2, <3>2
    <3> QED
      BY <1>2, <1>3, <3>3, Remainder
  <2>2. CASE ~(Hash[m] >= Hash[n])
    <3>1. Cardinality(M \ L) = z - x /\ IsFiniteSet(M \ L)
      <4>1. M = (M \ L) \cup L /\ (M \ L) \cap L = {}
        BY <1>7
      <4>2. IsFiniteSet(M \ L)
        BY <1>1, FS_Subset
      <4>3. Cardinality(M) = Cardinality(M \ L) + Cardinality(L) /\ Cardinality(M \ L) \in Nat
        BY <1>5, <4>1, <4>2, Disjoint
      <4> QED
        BY <1>2, <1>5, <4>2, <4>3
    <3>2. Cardinality(W) = Cardinality(M \ L) + Cardinality(U)
      BY <1>5, <1>6, <2>2, <3>1, Disjoint
    <3>3. x + i = z * 1 + y
      BY <1>2, <1>3, <1>5, <3>1, <3>2
    <3> QED
      BY <1>2, <1>3, <3>3, Remainder
  <2> QED
    BY <2>1, <2>2
<1>9. At(v, x + i) = m
  BY <1>2, <1>3, <1>8, AtOwnIndex DEF M, x, y, z
<1> QED
  BY <1>3, <1>9 DEF x, z

LEMMA SameSize ==
  ASSUME NEW T, IsFiniteSet(T), NEW U, NEW g \in [T -> U],
         \A k, l \in T : g[k] = g[l] => k = l, \A u \in U : \E k \in T : g[k] = u
  PROVE  IsFiniteSet(U) /\ Cardinality(U) = Cardinality(T)
<1>1. g \in Bijection(T, U)
  BY Fun_IsBij
<1> QED
  BY <1>1, FS_Bijection DEF ExistsBijection

\* The successors of n are the next alive members on the way, dead ones in between.
LEMMA SuccessorsAre ==
  ASSUME HashesDiffer, NEW v, NEW n \in Alive(v), NEW S, S = GetSuccessors(v, n)
  PROVE  /\ S \in Seq(Alive(v))
         /\ \A m : m \in {S[j] : j \in DOMAIN S} <=>
                    m \in Alive(v) \ {n} /\ Steps(Alive(v), Hash[n], m) < ReplicationFactor
<1> DEFINE M == Members(v)
           A == Alive(v)
           f == WayFrom(Hash[n])
           x == GetNodeIndex(v, n)
           z == Size(v)
           s == [i \in 1..(z - 1) |-> At(v, x + i)]
           I == AliveAt(v, s)
           r == OnlyAlive(v, s)
           k == IF Len(r) < ReplicationFactor THEN Len(r) ELSE ReplicationFactor - 1
<1>1. A \subseteq M /\ M \subseteq Nodes /\ n \in M /\ Hash[n] \in Nat
  <2>1. A \subseteq M /\ M \subseteq Nodes
    BY DEF Alive, Members
  <2> QED
    BY <2>1, HashAssumption, HashOrder
<1>2. /\ Numbers(f, M) /\ Numbers(f, A) /\ IsFiniteSet(M)
      /\ \A m, l \in M : f[l] < f[m] <=> Sooner(Hash[n], l, m)
      /\ \A m, l \in M : f[l] < f[m] \/ f[m] < f[l] \/ m = l
      /\ \A m, l \in M : f[l] < f[m] => ~(f[m] < f[l]) /\ m # l
  <2>1. Numbers(f, M) /\ Numbers(f, A)
    BY <1>1, WayOf
  <2> HIDE DEF f
  <2>2. \A m, l \in M : f[l] < f[m] \/ f[m] < f[l] \/ m = l
    BY <2>1 DEF Numbers
  <2>3. \A m, l \in M : f[l] < f[m] => ~(f[m] < f[l]) /\ m # l
    BY <2>1 DEF Numbers
  <2> QED
    BY <1>1, <2>1, <2>2, <2>3, WayOf DEF f, Numbers
<1>3. ASSUME NEW m \in M \ {n} PROVE f[n] < f[m] /\ ~(f[m] < f[n])
  <2>1. Hash[m] \in Nat /\ Hash[m] # Hash[n]
    BY <1>1, HashAssumption, HashOrder
  <2>2. Sooner(Hash[n], n, m)
    BY <1>1, <2>1 DEF Sooner
  <2> QED
    BY <1>1, <1>2, <2>2
<1>4. z \in Nat \ {0} /\ z = Cardinality(M) /\ M # {}
  BY <1>1, Indices DEF Size
<1> DEFINE Nr(m) == Rank(M, f, m)
<1>5. ASSUME NEW m \in M PROVE Nr(m) \in 0..(z - 1) /\ m = At(v, x + Nr(m))
  BY <1>1, StepsAreIndices DEF Steps
<1>6. Nr(n) = 0
  <2>1. Below(M, f, n) = {}
    BY <1>2, <1>3 DEF Below
  <2> QED
    BY <2>1, FS_EmptySet DEF Rank
<1>7. \A m, l \in M : f[l] < f[m] <=> Nr(l) < Nr(m)
  <2> HIDE DEF f
  <2>1. \A m, l \in M : f[l] < f[m] => Nr(l) < Nr(m)
    BY <1>2, RankOrder
  <2>2. \A m \in M : Nr(m) \in Int
    BY <1>5
  <2> HIDE DEF Nr
  <2> QED
    BY <1>2, <2>1, <2>2
<1>8. \A m, l \in M : Nr(l) = Nr(m) => l = m
  BY <1>2, RankUnique
<1>9. \A i \in 0..(z - 1) : \E m \in M : Nr(m) = i
  BY <1>2, <1>4, RankExists
<1> HIDE DEF Nr
<1>10. ASSUME NEW i \in 1..(z - 1)
       PROVE  s[i] \in M \ {n} /\ Nr(s[i]) = i
  <2>1. PICK m \in M : Nr(m) = i
    BY <1>4, <1>9
  <2> QED
    BY <1>4, <1>5, <1>6, <2>1
<1>11. ASSUME NEW m \in M \ {n}
       PROVE  Nr(m) \in DOMAIN s /\ s[Nr(m)] = m
  <2>1. Nr(m) \in 1..(z - 1)
    BY <1>1, <1>4, <1>5, <1>6, <1>8
  <2> QED
    BY <1>5, <2>1
<1>12. s \in Seq(M) /\ DOMAIN s = 1..(z - 1)
  BY <1>4, <1>10
<1> HIDE DEF s
<1>13. I = {i \in 1..(z - 1) : s[i] \in A} /\ I \in SUBSET Int /\ IsFiniteSet(I) /\ I \in SUBSET DOMAIN s
  <2>1. \A i \in 1..(z - 1) : v[s[i]] = "alive" <=> s[i] \in A
    BY <1>1, <1>10 DEF Alive
  <2>2. IsFiniteSet(1..(z - 1))
    BY <1>4, FS_Interval
  <2>3. I = {i \in 1..(z - 1) : s[i] \in A}
    BY <1>12, <2>1 DEF AliveAt
  <2> HIDE DEF I
  <2>4. IsFiniteSet(I)
    BY <2>2, <2>3, FS_Subset
  <2> QED
    BY <1>4, <1>12, <2>3, <2>4
<1>14. r = AtIndices(s, I)
  BY <1>12, OnlyAliveOf
<1> HIDE DEF I, r
<1>15. ASSUME NEW i \in I
       PROVE  Rank(A, f, s[i]) = Place(I, i) + 1
  <2> DEFINE T == {j \in I : j < i}
             U == Below(A, f, s[i]) \ {n}
             g == [j \in T |-> s[j]]
  <2>1. i \in 1..(z - 1) /\ s[i] \in A \ {n} /\ Nr(s[i]) = i
    BY <1>10, <1>13
  <2>2. ASSUME NEW j \in T PROVE j \in 1..(z - 1) /\ s[j] \in A \ {n} /\ Nr(s[j]) = j /\ s[j] \in U
    <3>1. j \in 1..(z - 1) /\ s[j] \in A \ {n} /\ Nr(s[j]) = j /\ j < i
      BY <1>10, <1>13
    <3>2. f[s[j]] < f[s[i]]
      BY <1>1, <1>7, <2>1, <3>1
    <3> QED
      BY <3>1, <3>2 DEF Below
  <2>3. ASSUME NEW m \in U PROVE Nr(m) \in T /\ s[Nr(m)] = m
    <3>1. m \in A \ {n} /\ f[m] < f[s[i]]
      BY DEF Below
    <3>2. Nr(m) \in 1..(z - 1) /\ s[Nr(m)] = m
      BY <1>1, <1>11, <1>12, <3>1
    <3>3. Nr(m) < i
      BY <1>1, <1>7, <2>1, <3>1
    <3> QED
      BY <1>13, <3>1, <3>2, <3>3
  <2>4. n \in Below(A, f, s[i])
    BY <1>1, <1>3, <2>1 DEF Below
  <2>5. Below(A, f, s[i]) = U \cup {n} /\ n \notin U
    BY <2>4
  <2> HIDE DEF U, f
  <2>6. g \in [T -> U] /\ (\A j, l \in T : g[j] = g[l] => j = l) /\ (\A u \in U : \E j \in T : g[j] = u)
    BY <2>2, <2>3
  <2>7. IsFiniteSet(T)
    BY <1>13, FS_Subset
  <2>8. IsFiniteSet(U) /\ Cardinality(U) = Cardinality(T)
    <3> HIDE DEF g, T
    <3> QED
      BY <2>6, <2>7, SameSize
  <2>9. Cardinality(U \cup {n}) = Cardinality(U) + 1
    BY <2>5, <2>8, FS_AddElement
  <2> QED
    BY <2>5, <2>8, <2>9 DEF Rank, Place
<1>16. /\ r \in Seq(M) /\ Len(r) = Cardinality(I) /\ Cardinality(I) \in Nat
       /\ \A j \in 1..Cardinality(I) : Nth(I, j) \in I /\ r[j] = s[Nth(I, j)]
       /\ \A i \in I : Place(I, i) + 1 \in 1..Cardinality(I) /\ Nth(I, Place(I, i) + 1) = i
       /\ \A j, l \in 1..Cardinality(I) : j < l => Nth(I, j) < Nth(I, l)
  <2>1. /\ AtIndices(s, I) \in Seq(M) /\ Len(AtIndices(s, I)) = Cardinality(I)
        /\ \A j \in 1..Cardinality(I) :
              Nth(I, j) \in I /\ AtIndices(s, I)[j] = s[Nth(I, j)]
    <3>1. s \in Seq(M) /\ I \in SUBSET DOMAIN s
      BY <1>12, <1>13
    <3> HIDE DEF M
    <3> QED
      BY <3>1, AtIndicesOf
  <2>2. /\ Cardinality(I) \in Nat
        /\ \A j \in 1..Cardinality(I) : Nth(I, j) \in I
        /\ \A j, l \in 1..Cardinality(I) : j < l => Nth(I, j) < Nth(I, l)
        /\ \A i \in I : Place(I, i) + 1 \in 1..Cardinality(I) /\ Nth(I, Place(I, i) + 1) = i
    BY <1>13, NthOf
  <2> QED
    BY <1>14, <2>1, <2>2
<1>17. ASSUME NEW j \in 1..Len(r) PROVE r[j] \in A \ {n} /\ Rank(A, f, r[j]) = j
  <2>1. PICK i \in I : i = Nth(I, j)
    BY <1>16
  <2>2. PICK l \in 1..Cardinality(I) : l = Place(I, i) + 1 /\ Nth(I, l) = i
    BY <1>16
  <2>3. j = l
    <3>1. j \in Int /\ l \in Int /\ i \in Int
      BY <1>13, <1>16
    <3>2. ~(j < l) /\ ~(l < j)
      BY <1>16, <2>1, <2>2, <3>1
    <3> QED
      BY <3>1, <3>2
  <2>4. Rank(A, f, s[i]) = j
    BY <1>15, <2>2, <2>3
  <2>5. r[j] = s[i] /\ s[i] \in A \ {n}
    BY <1>10, <1>13, <1>16, <2>1
  <2> QED
    BY <2>4, <2>5
<1>18. ASSUME NEW m \in A \ {n} PROVE \E j \in 1..Len(r) : r[j] = m
  <2>1. PICK i \in I : s[i] = m
    BY <1>1, <1>11, <1>12, <1>13
  <2> QED
    BY <1>16, <2>1
<1>19. S = SubSeq(r, 1, k)
  BY DEF GetSuccessors, r, s
<1>20. r \in Seq(A)
  BY <1>16, <1>17
<1>21. /\ Len(r) \in Nat /\ k \in Nat /\ k <= Len(r) /\ k <= ReplicationFactor - 1
       /\ k < Len(r) => k = ReplicationFactor - 1
  BY <1>16, ReplicationAssumption
<1> HIDE DEF k
<1>22. DOMAIN S = 1..k /\ \A j \in 1..k : S[j] = r[j]
  BY <1>19, <1>20, <1>21, FirstOnes
<1>23. S \in Seq(A)
  BY <1>19, <1>20, <1>21
<1>24. ASSUME NEW j \in DOMAIN S
       PROVE  S[j] \in A \ {n} /\ Steps(A, Hash[n], S[j]) < ReplicationFactor
  <2>1. S[j] = r[j] /\ j \in 1..Len(r) /\ j < ReplicationFactor
    BY <1>21, <1>22, ReplicationAssumption
  <2> QED
    BY <1>17, <2>1 DEF Steps
<1>25. ASSUME NEW m \in A \ {n}, Steps(A, Hash[n], m) < ReplicationFactor
       PROVE  \E j \in DOMAIN S : S[j] = m
  <2>1. PICK j \in 1..Len(r) : r[j] = m
    BY <1>18
  <2>2. j < ReplicationFactor
    BY <1>17, <1>25, <2>1 DEF Steps
  <2>3. j \in 1..k
    BY <1>21, <2>2, ReplicationAssumption
  <2> QED
    BY <1>22, <2>1, <2>3
<1> QED
  BY <1>23, <1>24, <1>25

\* The first ReplicationFactor members of A on the way from h.
Nearest(A, h) == {m \in A : Steps(A, h, m) < ReplicationFactor}

LEMMA StepsOf ==
  ASSUME HashesDiffer, NEW A \in SUBSET Nodes, NEW h \in Nat
  PROVE  /\ IsFiniteSet(A) /\ Cardinality(A) \in Nat
         /\ \A m \in A : Steps(A, h, m) \in 0..(Cardinality(A) - 1) /\ Steps(A, h, m) \in Nat
         /\ \A m, k \in A : Steps(A, h, m) = Steps(A, h, k) => m = k
         /\ \A i \in 0..(Cardinality(A) - 1) : \E m \in A : Steps(A, h, m) = i
         /\ \A m, k \in A : Sooner(h, k, m) => Steps(A, h, k) < Steps(A, h, m)
<1>1. Numbers(WayFrom(h), A) /\ IsFiniteSet(A)
  BY WayOf DEF Numbers
<1>2. /\ Cardinality(A) \in Nat
      /\ \A m \in A : Steps(A, h, m) \in 0..(Cardinality(A) - 1)
      /\ \A m, k \in A : WayFrom(h)[k] < WayFrom(h)[m] => Steps(A, h, k) < Steps(A, h, m)
  BY <1>1, RankOrder DEF Steps
<1>3. \A m \in A : Steps(A, h, m) \in Nat
  BY <1>2
<1> QED
  BY <1>1, <1>2, <1>3, RankUnique, RankExists, WayOf DEF Steps

\* From the hash of the member that comes first the way is the same.
LEMMA FirstOnTheWay ==
  ASSUME HashesDiffer, NEW A \in SUBSET Nodes, NEW h \in Nat, NEW p \in A, \A k \in A : ~Sooner(h, k, p)
  PROVE  \A m \in A : Steps(A, Hash[p], m) = Steps(A, h, m)
<1>1. \A k, m \in A : Sooner(Hash[p], k, m) <=> Sooner(h, k, m)
  BY HashAssumption, HashOrder DEF Sooner
<1>2. ASSUME NEW m \in A PROVE Below(A, WayFrom(Hash[p]), m) = Below(A, WayFrom(h), m)
  BY <1>1, WayOf, HashAssumption, HashOrder DEF Below
<1> QED
  BY <1>2 DEF Steps, Rank

\* The primary comes first, so that the way from it is the way from the file's hash.
LEMMA PrimaryIsFirst ==
  ASSUME HashesDiffer, NEW v, Alive(v) # {}, NEW h \in Nat, NEW p, p = Primary(v, h)
  PROVE  /\ p \in Alive(v) /\ Steps(Alive(v), h, p) = 0
         /\ \A m \in Alive(v) : Steps(Alive(v), Hash[p], m) = Steps(Alive(v), h, m)
<1> DEFINE A == Alive(v)
           after == {m \in A : Hash[m] >= h}
<1>1. A \in SUBSET Nodes /\ \A m \in A : Hash[m] \in Nat
  <2>1. A \in SUBSET Nodes
    BY DEF Alive
  <2> QED
    BY <2>1, HashAssumption, HashOrder
<1>2. /\ p \in A
      /\ after # {} => p \in after /\ \A k \in after : Hash[p] <= Hash[k]
      /\ after = {} => \A k \in A : Hash[p] <= Hash[k]
  BY <1>1, FirstIn DEF Primary
<1>3. \A k \in A : ~Sooner(h, k, p)
  <2>1. CASE after # {}
    BY <1>1, <1>2, <2>1 DEF Sooner
  <2>2. CASE after = {}
    BY <1>1, <1>2, <2>2 DEF Sooner
  <2> QED
    BY <2>1, <2>2
<1>4. Below(A, WayFrom(h), p) = {}
  BY <1>1, <1>2, <1>3, WayOf DEF Below
<1>5. Steps(A, h, p) = 0
  BY <1>4, FS_EmptySet DEF Steps, Rank
<1> QED
  BY <1>1, <1>2, <1>3, <1>5, FirstOnTheWay

\* The replicas of a file are the members nearest to its hash, whoever is dead.
LEMMA ReplicasAreNearest ==
  ASSUME HashesDiffer, NEW v, Alive(v) # {}, NEW h \in Nat, NEW p, p = Primary(v, h),
         NEW S, S = GetSuccessors(v, p)
  PROVE  /\ p \in Nearest(Alive(v), h)
         /\ S \in Seq(Nearest(Alive(v), h) \ {p})
         /\ \A m \in Nearest(Alive(v), h) \ {p} : \E j \in DOMAIN S : S[j] = m
<1>1. /\ p \in Alive(v) /\ Steps(Alive(v), h, p) = 0
      /\ \A m \in Alive(v) : Steps(Alive(v), Hash[p], m) = Steps(Alive(v), h, m)
  BY PrimaryIsFirst
<1>2. /\ S \in Seq(Alive(v))
      /\ \A m : m \in {S[j] : j \in DOMAIN S} <=>
                  m \in Alive(v) \ {p} /\ Steps(Alive(v), Hash[p], m) < ReplicationFactor
  <2>1. p \in Alive(v)
    BY <1>1
  <2> QED
    BY <2>1, SuccessorsAre
<1>3. {S[j] : j \in DOMAIN S} = Nearest(Alive(v), h) \ {p}
  BY <1>1, <1>2 DEF Nearest
<1>4. \A j \in DOMAIN S : S[j] \in Nearest(Alive(v), h) \ {p}
  BY <1>3
<1>5. S \in Seq(Nearest(Alive(v), h) \ {p})
  <2> DEFINE N == Nearest(Alive(v), h) \ {p}
             A == Alive(v)
  <2>1. S \in Seq(A) /\ \A j \in DOMAIN S : S[j] \in N
    BY <1>2, <1>4
  <2> HIDE DEF N, A
  <2>2. S \in Seq(N)
    BY <2>1
  <2> QED
    BY <2>2 DEF N
<1>6. \A m \in Nearest(Alive(v), h) \ {p} : \E j \in DOMAIN S : S[j] = m
  BY <1>3
<1> QED
  BY <1>1, <1>5, <1>6, ReplicationAssumption DEF Nearest

\* With one member less, those behind it come one step nearer.
LEMMA OneLess ==
  ASSUME HashesDiffer, NEW A \in SUBSET Nodes, NEW x \in A, NEW B, B = A \ {x}, NEW h \in Nat, NEW m \in B
  PROVE  Steps(A, h, m) = IF Sooner(h, x, m) THEN Steps(B, h, m) + 1 ELSE Steps(B, h, m)
<1> DEFINE f == WayFrom(h)
           U == Below(A, f, m)
           V == Below(B, f, m)
<1>1. IsFiniteSet(U) /\ IsFiniteSet(V)
  <2>1. IsFiniteSet(A)
    BY StepsOf
  <2>2. U \subseteq A /\ V \subseteq A
    BY DEF Below
  <2> QED
    BY <2>1, <2>2, FS_Subset
<1>2. f[x] < f[m] <=> Sooner(h, x, m)
  BY WayOf
<1>3. IF Sooner(h, x, m) THEN U = V \cup {x} /\ x \notin V ELSE U = V
  BY <1>2 DEF Below
<1> HIDE DEF U, V
<1>4. Cardinality(V) \in Nat /\ (Sooner(h, x, m) => Cardinality(U) = Cardinality(V) + 1)
  BY <1>1, <1>3, FS_AddElement, FS_CardinalityType
<1> QED
  BY <1>3, <1>4 DEF Steps, Rank, U, V

\* The node at one of the next indices, or right before, is in the window.
LEMMA InWindow ==
  ASSUME HashesDiffer, NEW v, NEW n \in Members(v), NEW m \in Members(v),
         \/ Steps(Members(v), Hash[n], m) \in 1..(ReplicationFactor - 1)
         \/ ReplicationFactor > 1 /\ Steps(Members(v), Hash[m], n) = 1
  PROVE  InReplicationWindow(v, n, m)
<1> DEFINE x == GetNodeIndex(v, n)
           y == GetNodeIndex(v, m)
           z == Size(v)
<1>1. z \in Nat \ {0} /\ x \in 0..(z - 1) /\ y \in 0..(z - 1) /\ Members(v) # {}
  BY Indices
<1>2. x = GetNodeIndex(v, n) /\ y = GetNodeIndex(v, m) /\ z = Size(v)
  OBVIOUS
<1> HIDE DEF x, y, z
<1>3. CASE Steps(Members(v), Hash[n], m) \in 1..(ReplicationFactor - 1)
  <2>1. PICK i \in 1..(ReplicationFactor - 1) : i = Steps(Members(v), Hash[n], m)
    BY <1>3
  <2>2. m = At(v, x + i) /\ i \in Nat
    BY <1>2, <2>1, StepsAreIndices, ReplicationAssumption
  <2>3. y = (x + i) % z
    BY <1>1, <1>2, <2>2, AtIndex
  <2>4. (x + z + i) % z = (x + i) % z
    <3>1. z = z * 1 + 0 /\ z \in Int /\ 0 \in 0..(z - 1)
      BY <1>1
    <3>2. z % z = 0
      BY <1>1, <3>1, Remainder
    <3>3. x + i \in Int
      BY <1>1, <2>2
    <3>4. ((x + i) + (z % z)) % z = ((x + i) + z) % z
      BY <1>1, <3>1, <3>3, Wrap
    <3>5. (x + i) + 0 = x + i /\ (x + i) + z = x + z + i
      BY <1>1, <2>2
    <3> QED
      BY <3>2, <3>4, <3>5
  <2>5. IsAt(v, n, i, m)
    BY <1>2, <2>3, <2>4 DEF IsAt
  <2> QED
    BY <2>5 DEF InReplicationWindow
<1>4. CASE ReplicationFactor > 1 /\ Steps(Members(v), Hash[m], n) = 1
  <2>1. n = At(v, y + 1)
    BY <1>4, <1>2, StepsAreIndices
  <2>2. x = (y + 1) % z
    BY <1>1, <1>2, <2>1, AtIndex
  <2>3. x = IF y + 1 = z THEN 0 ELSE y + 1
    <3>1. CASE y + 1 = z
      <4>1. y + 1 = z * 1 + 0
        BY <1>1, <3>1
      <4> QED
        BY <1>1, <2>2, <3>1, <4>1, Remainder
    <3>2. CASE y + 1 # z
      <4>1. y + 1 = z * 0 + (y + 1) /\ y + 1 \in 0..(z - 1)
        BY <1>1, <3>2
      <4> QED
        BY <1>1, <2>2, <3>2, <4>1, Remainder
    <3> QED
      BY <3>1, <3>2
  <2>4. (x + z + (-1)) % z = y
    <3>1. CASE y + 1 = z
      <4>1. x + z + (-1) = z * 0 + y
        BY <1>1, <2>3, <3>1
      <4> QED
        BY <1>1, <4>1, Remainder
    <3>2. CASE y + 1 # z
      <4>1. x + z + (-1) = z * 1 + y
        BY <1>1, <2>3, <3>2
      <4> QED
        BY <1>1, <4>1, Remainder
    <3> QED
      BY <3>1, <3>2
  <2>5. IsAt(v, n, -1, m)
    BY <1>2, <2>4 DEF IsAt
  <2>6. 1 \in 1..(ReplicationFactor - 1)
    BY <1>4, ReplicationAssumption
  <2> QED
    BY <2>5, <2>6 DEF InReplicationWindow
<1> QED
  BY <1>3, <1>4

\* With a member x and without it: the others that are near stay near, and one node at
\* most comes near when x goes.
LEMMA OneComesNear ==
  ASSUME HashesDiffer, NEW A \in SUBSET Nodes, NEW x \in A, NEW B, B = A \ {x}, NEW h \in Nat
  PROVE  /\ Nearest(A, h) \ {x} \subseteq Nearest(B, h)
         /\ \A z \in Nearest(B, h) : z \notin Nearest(A, h) => Nearest(B, h) \ {z} \subseteq Nearest(A, h)
         /\ Nearest(B, h) \ Nearest(A, h) # {} => Steps(A, h, x) < ReplicationFactor
<1>1. /\ B \in SUBSET Nodes
      /\ \A m \in B : Steps(B, h, m) \in Nat
      /\ \A m \in B : Steps(A, h, m) = IF Sooner(h, x, m) THEN Steps(B, h, m) + 1 ELSE Steps(B, h, m)
  <2>1. B \in SUBSET Nodes
    OBVIOUS
  <2>2. ASSUME NEW m \in B
        PROVE  Steps(A, h, m) = IF Sooner(h, x, m) THEN Steps(B, h, m) + 1 ELSE Steps(B, h, m)
    BY OneLess
  <2> QED
    BY <2>1, <2>2, StepsOf
<1>2. /\ \A m \in A : Steps(A, h, m) \in Nat
      /\ \A m, k \in A : Steps(A, h, m) = Steps(A, h, k) => m = k
      /\ \A m, k \in A : Sooner(h, k, m) => Steps(A, h, k) < Steps(A, h, m)
  BY StepsOf
<1>3. Nearest(A, h) \ {x} \subseteq Nearest(B, h)
  BY <1>1, ReplicationAssumption DEF Nearest
<1>4. ASSUME NEW z \in Nearest(B, h) \ Nearest(A, h)
      PROVE  Steps(A, h, z) = ReplicationFactor /\ Steps(A, h, x) < ReplicationFactor
  <2>1. z \in B /\ Steps(B, h, z) < ReplicationFactor /\ ~(Steps(A, h, z) < ReplicationFactor)
    BY DEF Nearest
  <2>2. Sooner(h, x, z) /\ Steps(A, h, z) = ReplicationFactor
    BY <1>1, <2>1, ReplicationAssumption
  <2> QED
    BY <1>2, <2>1, <2>2
<1>5. ASSUME NEW z \in Nearest(B, h), z \notin Nearest(A, h), NEW y \in Nearest(B, h) \ {z}
      PROVE  y \in Nearest(A, h)
  <2> SUFFICES ASSUME y \notin Nearest(A, h) PROVE FALSE
    OBVIOUS
  <2>1. Steps(A, h, z) = Steps(A, h, y) /\ y # z
    BY <1>4, <1>5
  <2>2. z \in A /\ y \in A
    BY <1>5 DEF Nearest
  <2> QED
    BY <1>2, <2>1, <2>2
<1> QED
  BY <1>3, <1>4, <1>5

\* A member goes: the primary, who has a copy already, finds it in its window if a node
\* has to take over a copy.
LEMMA MemberLost ==
  ASSUME HashesDiffer, NEW A \in SUBSET Nodes, NEW x \in A, NEW B, B = A \ {x}, NEW h \in Nat,
         ReplicationFactor > 1, NEW p \in B, Steps(B, h, p) = 0
  PROVE  /\ p \in Nearest(A, h)
         /\ \A v : Members(v) = A /\ Nearest(B, h) \ Nearest(A, h) # {} => InReplicationWindow(v, p, x)
<1>1. Steps(A, h, p) = 0 \/ (Sooner(h, x, p) /\ Steps(A, h, p) = 1)
  <2>1. Steps(A, h, p) = IF Sooner(h, x, p) THEN Steps(B, h, p) + 1 ELSE Steps(B, h, p)
    BY OneLess
  <2> QED
    BY <2>1
<1>2. /\ \A m \in A : Steps(A, h, m) \in Nat
      /\ \A m, k \in A : Steps(A, h, m) = Steps(A, h, k) => m = k
      /\ \A m, k \in A : Sooner(h, k, m) => Steps(A, h, k) < Steps(A, h, m)
  BY StepsOf
<1>3. p \in Nearest(A, h)
  BY <1>1, ReplicationAssumption DEF Nearest
<1>4. ASSUME NEW v, Members(v) = A, Nearest(B, h) \ Nearest(A, h) # {}
      PROVE  InReplicationWindow(v, p, x)
  <2>1. Steps(A, h, x) < ReplicationFactor
    BY <1>4, OneComesNear
  <2>2. CASE Steps(A, h, p) = 0
    <3>1. ASSUME NEW k \in A PROVE ~Sooner(h, k, p)
      BY <1>2, <2>2
    <3>2. \A m \in A : Steps(A, Hash[p], m) = Steps(A, h, m)
      BY <3>1, FirstOnTheWay
    <3>3. Steps(A, h, x) # 0
      BY <1>2, <2>2
    <3>4. Steps(A, Hash[p], x) \in 1..(ReplicationFactor - 1)
      BY <1>2, <2>1, <3>2, <3>3, ReplicationAssumption
    <3> QED
      BY <1>4, <3>4, InWindow
  <2>3. CASE Steps(A, h, p) = 1
    <3>1. Sooner(h, x, p)
      BY <1>1, <2>3
    <3>2. Steps(A, h, x) = 0
      BY <1>2, <2>3, <3>1
    <3>3. ASSUME NEW k \in A PROVE ~Sooner(h, k, x)
      BY <1>2, <3>2
    <3>4. \A m \in A : Steps(A, Hash[x], m) = Steps(A, h, m)
      BY <3>3, FirstOnTheWay
    <3> QED
      BY <1>4, <2>3, <3>4, InWindow
  <2> QED
    BY <1>1, <2>2, <2>3
<1> QED
  BY <1>3, <1>4

\* A member comes that has to get a copy: the primary finds it in its window.
LEMMA MemberNew ==
  ASSUME HashesDiffer, NEW A \in SUBSET Nodes, NEW h \in Nat, ReplicationFactor > 1,
         NEW p \in A, Steps(A, h, p) = 0, NEW x \in Nearest(A, h), x # p
  PROVE  \A v : Members(v) = A => InReplicationWindow(v, p, x)
<1>1. /\ \A m \in A : Steps(A, h, m) \in Nat
      /\ \A m, k \in A : Steps(A, h, m) = Steps(A, h, k) => m = k
      /\ \A m, k \in A : Sooner(h, k, m) => Steps(A, h, k) < Steps(A, h, m)
  <2>1. \A m \in A : Steps(A, h, m) \in Nat
    BY StepsOf
  <2>2. \A m, k \in A : Steps(A, h, m) = Steps(A, h, k) => m = k
    BY StepsOf
  <2>3. \A m, k \in A : Sooner(h, k, m) => Steps(A, h, k) < Steps(A, h, m)
    BY StepsOf
  <2> QED
    BY <2>1, <2>2, <2>3
<1>2. \A m \in A : Steps(A, Hash[p], m) = Steps(A, h, m)
  <2>1. ASSUME NEW k \in A PROVE ~Sooner(h, k, p)
    BY <1>1
  <2> QED
    BY <2>1, FirstOnTheWay
<1>3. x \in A /\ Steps(A, h, x) < ReplicationFactor
  BY DEF Nearest
<1>4. Steps(A, h, x) # 0
  BY <1>1, <1>3
<1>5. Steps(A, Hash[p], x) \in 1..(ReplicationFactor - 1)
  BY <1>1, <1>2, <1>3, <1>4, ReplicationAssumption
<1>6. ASSUME NEW v, Members(v) = A PROVE InReplicationWindow(v, p, x)
  BY <1>3, <1>5, <1>6, InWindow
<1> QED
  BY <1>6

\* The new member is the primary itself: it finds a replica in its own window.
LEMMA PrimaryNew ==
  ASSUME HashesDiffer, NEW A \in SUBSET Nodes, NEW h \in Nat, ReplicationFactor > 1,
         NEW x \in A, Steps(A, h, x) = 0, A \ {x} # {}
  PROVE  \E m \in A \ {x} : /\ m \in Nearest(A, h)
                            /\ \A v : Members(v) = A => InReplicationWindow(v, x, m)
<1>1. /\ \A m, k \in A : Steps(A, h, m) = Steps(A, h, k) => m = k
      /\ \A m \in A : Steps(A, h, m) \in 0..(Cardinality(A) - 1)
      /\ \A i \in 0..(Cardinality(A) - 1) : \E m \in A : Steps(A, h, m) = i
      /\ Cardinality(A) \in Nat
  <2>1. \A m, k \in A : Steps(A, h, m) = Steps(A, h, k) => m = k
    BY StepsOf
  <2>2. \A m \in A : Steps(A, h, m) \in 0..(Cardinality(A) - 1)
    BY StepsOf
  <2>3. \A i \in 0..(Cardinality(A) - 1) : \E m \in A : Steps(A, h, m) = i
    BY StepsOf
  <2>4. Cardinality(A) \in Nat
    BY StepsOf
  <2> QED
    BY <2>1, <2>2, <2>3, <2>4
<1>2. PICK b \in A : b # x
  OBVIOUS
<1>3. Steps(A, h, b) # 0 /\ Steps(A, h, b) \in 0..(Cardinality(A) - 1)
  BY <1>1, <1>2
<1>4. PICK m \in A : Steps(A, h, m) = 1
  BY <1>1, <1>3
<1>5. m # x /\ m \in Nearest(A, h)
  BY <1>4 DEF Nearest
<1>6. \A v : Members(v) = A => InReplicationWindow(v, x, m)
  BY <1>5, MemberNew
<1> QED
  BY <1>5, <1>6

\* Where the file is sent are the primary and its successors, dead entries or not.
LEMMA TargetsAreReplicas ==
  ASSUME NEW v, NEW h, Alive(v) # {}, NEW p, p = Primary(v, h),
         NEW T, T = FindTargetNodes(v, h), NEW S, S = GetSuccessors(v, p)
  PROVE  \A i \in DOMAIN T : T[i] = p \/ \E j \in DOMAIN S : S[j] = T[i]
<1> SUFFICES ASSUME NEW i \in DOMAIN T, T[i] # p PROVE \E j \in DOMAIN S : S[j] = T[i]
  OBVIOUS
<1> DEFINE x == GetNodeIndex(v, p)
<1>1. p \in Members(v)
  BY PrimaryAlive
<1>2. T \in Seq(Alive(v)) /\ \E k \in 0..(ReplicationFactor - 1) : T[i] = At(v, x + k)
  BY TargetsOf
<1>3. PICK k \in 0..(ReplicationFactor - 1) : T[i] = At(v, x + k)
  BY <1>2
<1>4. k # 0
  <2> SUFFICES ASSUME k = 0 PROVE FALSE
    OBVIOUS
  <2>1. Size(v) \in Nat \ {0} /\ x \in 0..(Size(v) - 1)
    BY <1>1, Indices
  <2>2. x + k = x /\ x % Size(v) = x
    BY <2>1, Remainder
  <2>3. At(v, x) = p
    BY <1>1, <2>1, <2>2, AtOwnIndex
  <2> QED
    BY <1>3, <2>2, <2>3
<1>5. T[i] \in Alive(v) \ {p}
  BY <1>2
<1>6. k \in 1..(ReplicationFactor - 1)
  BY <1>4, ReplicationAssumption
<1> QED
  BY <1>1, <1>3, <1>5, <1>6, SuccessorsOf

=============================================================================
