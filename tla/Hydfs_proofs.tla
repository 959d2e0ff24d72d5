---------------------------- MODULE Hydfs_proofs ----------------------------
(***************************************************************************)
(* Proofs about one HyDFS file, for any nodes, hashes, replication factor,  *)
(* scenarios and bound on the clock.                                        *)
(***************************************************************************)
EXTENDS Hydfs, Ring_proofs, SequenceTheorems

----------------------------------------------------------------------------
(* Types.                                                                   *)

AppendIDs == Nodes \X (0..MaxTime)

\* A FileTransfer call on its way, which carries the file without its appends, and
\* an AppendTransfer call, which carries one write; w writes have begun.
FileCall(w) ==
  [by : {"client"} \cup Workers, from : Nodes, to : Nodes, nr : Nat, what : {"file"},
   item : [hash : Nat, apps : {<<>>}], data : Seq(1..w), phase : {"sent", "checked"}]
AppendCall(w) ==
  [by : {"client"} \cup Workers, from : Nodes, to : Nodes, nr : Nat, what : {"append"},
   item : AppendType, data : {<<d>> : d \in 1..w}, phase : {"sent", "written"}]

\* What a job is like at each of its steps: a stabilisation has successors to go
\* through, and so has a merge, also while it stabilises the ring.
GoodJob(kind, j) ==
  /\ j \in JobType
  /\ j.pc \in {"push", "pushing", "pull", "load", "add", "pulling"} => j.left # <<>> /\ j.ring # <<>>
  /\ j.pc \in {"check", "sync", "update"} => j.merging
  /\ j.merging => j.succs # <<>>
  /\ kind = "stream" => j.queue = <<>> /\ j.apps = <<>>

RingOK ==
  /\ scenario \in Scenarios
  /\ up \subseteq Nodes /\ view \in [Nodes -> [Nodes -> Statuses]]
  /\ joining \in [Nodes -> SUBSET Nodes]
  /\ entering \subseteq Nodes \X Nodes /\ pending \in [Nodes -> SUBSET Nodes]
  /\ clock \in 0..MaxTime /\ writes \in Nat /\ merges \in Nat /\ crashes \in Nat
  /\ fails \in Nat /\ raced \in BOOLEAN /\ crossed \in BOOLEAN

StoreOK ==
  /\ meta \in [Nodes -> FileType]
  /\ base \in [Nodes -> Seq(1..writes)]
  /\ chunk \in [Nodes -> SUBSET [id : AppendIDs, data : 1..writes]]
  /\ acked \subseteq 1..writes /\ overwritten \in BOOLEAN
  /\ scenario.kind = "stream" => \A n \in Nodes : meta[n].apps = <<>> /\ chunk[n] = {}

ProbesOK ==
  probing \in [Nodes -> {NoProbe} \cup [left : Seq(Nodes), targets : Seq(Nodes), data : 1..writes]]

CallsOK ==
  /\ transfers \subseteq FileCall(writes) \cup AppendCall(writes)
  /\ \A t \in transfers : t.phase = "written" => scenario.kind = "regular"

JobsOK == job \in [Workers -> JobType] /\ \A w \in Workers : GoodJob(scenario.kind, job[w])

AllOK == RingOK /\ StoreOK /\ ProbesOK /\ CallsOK /\ JobsOK

LEMMA SeqOfMore ==
  ASSUME NEW S, NEW T, S \subseteq T
  PROVE  Seq(S) \subseteq Seq(T)
OBVIOUS

LEMMA ShortSeqs ==
  ASSUME NEW S
  PROVE  <<>> \in Seq(S) /\ \A x \in S : <<x>> \in Seq(S)
OBVIOUS

LEMMA HeadAndTail ==
  ASSUME NEW S, NEW s \in Seq(S), s # <<>>
  PROVE  /\ Len(s) \in Nat \ {0}
         /\ Head(s) \in S
         /\ Tail(s) \in Seq(S) /\ Len(Tail(s)) = Len(s) - 1
         /\ Len(s) > 1 => Tail(s) # <<>>
<1>1. Len(s) \in Nat \ {0}
  BY EmptySeq
<1>2. Head(s) \in S /\ Tail(s) \in Seq(S) /\ Len(Tail(s)) = Len(s) - 1
  BY HeadTailProperties
<1>3. ASSUME Len(s) > 1 PROVE Tail(s) # <<>>
  <2> DEFINE t == Tail(s)
  <2>1. Len(t) # 0
    BY <1>1, <1>2, <1>3
  <2> HIDE DEF t
  <2>2. t # <<>>
    BY <2>1, EmptySeq
  <2> QED
    BY <2>2 DEF t
<1> QED
  BY <1>1, <1>2, <1>3

LEMMA ToSetOf ==
  ASSUME NEW S, NEW s \in Seq(S)
  PROVE  ToSet(s) \subseteq S
BY DEF ToSet

LEMMA HomeOf == ASSUME NEW w \in Workers PROVE Home[w] \in Nodes
BY WorkersAssumption

LEMMA IdleIsGood == ASSUME NEW kind PROVE GoodJob(kind, Idle)
BY DEF GoodJob, Idle, JobType

LEMMA TypesHold == AllOK => TypeOK
<1> SUFFICES ASSUME AllOK PROVE TypeOK
  OBVIOUS
<1> USE DEF AllOK
<1>1. meta \in [Nodes -> FileType] /\ base \in [Nodes -> Seq(Nat)]
  <2>1. base \in [Nodes -> Seq(1..writes)] /\ 1..writes \subseteq Nat
    BY DEF StoreOK, RingOK
  <2>2. Seq(1..writes) \subseteq Seq(Nat)
    BY <2>1, SeqOfMore
  <2> QED
    BY <2>1, <2>2 DEF StoreOK
<1>2. \A n \in Nodes : chunk[n] \subseteq ChunkType
  BY DEF StoreOK, RingOK, ChunkType, AppendIDs
<1>3. probing \in [Nodes -> [left : Seq(Nodes), targets : Seq(Nodes), data : Nat]]
  <2>1. NoProbe \in [left : Seq(Nodes), targets : Seq(Nodes), data : Nat]
    BY ShortSeqs DEF NoProbe
  <2>2. 1..writes \subseteq Nat
    BY DEF RingOK
  <2>3. [left : Seq(Nodes), targets : Seq(Nodes), data : 1..writes]
          \subseteq [left : Seq(Nodes), targets : Seq(Nodes), data : Nat]
    BY <2>2
  <2> QED
    BY <2>1, <2>3 DEF ProbesOK
<1>4. transfers \subseteq TransferType
  <2>1. FileCall(writes) \subseteq TransferType
    <3>1. Seq(1..writes) \subseteq Seq(Nat)
      BY SeqOfMore DEF RingOK
    <3>2. [hash : Nat, apps : {<<>>}] \subseteq FileType
      BY ShortSeqs DEF FileType
    <3> QED
      BY <3>1, <3>2 DEF FileCall, TransferType
  <2>2. AppendCall(writes) \subseteq TransferType
    <3>1. {<<d>> : d \in 1..writes} \subseteq Seq(Nat)
      <4>1. ASSUME NEW d \in 1..writes PROVE <<d>> \in Seq(Nat)
        BY ShortSeqs DEF RingOK
      <4> QED
        BY <4>1
    <3>2. ASSUME NEW t \in AppendCall(writes) PROVE t \in TransferType
      BY <3>1 DEF AppendCall, TransferType
    <3> QED
      BY <3>2
  <2> QED
    BY <2>1, <2>2 DEF CallsOK
<1>5. /\ job \in [Workers -> JobType]
      /\ \A w \in Workers : job[w].pc # "idle" /\ job[w].merging => job[w].succs # <<>>
  BY DEF JobsOK, GoodJob
<1> QED
  BY <1>1, <1>2, <1>3, <1>4, <1>5 DEF TypeOK, RingOK, StoreOK

LEMMA TypeInit == Init => AllOK
<1> SUFFICES ASSUME Init PROVE AllOK
  OBVIOUS
<1>1. RingOK
  <2>1. view \in [Nodes -> [Nodes -> Statuses]] /\ up \subseteq Nodes
    BY NodesAssumption DEF Init, Statuses
  <2>2. clock \in 0..MaxTime
    BY FileAssumption DEF Init
  <2>3. /\ scenario \in Scenarios /\ joining \in [Nodes -> SUBSET Nodes]
        /\ entering \subseteq Nodes \X Nodes /\ pending \in [Nodes -> SUBSET Nodes]
    BY DEF Init
  <2>4. merges \in Nat /\ crashes \in Nat /\ fails \in Nat /\ writes \in Nat
    BY DEF Init
  <2>5. raced \in BOOLEAN /\ crossed \in BOOLEAN
    BY DEF Init
  <2> QED
    BY <2>1, <2>2, <2>3, <2>4, <2>5 DEF RingOK
<1>2. StoreOK
  <2>1. PICK H : H = {n \in Nodes : n \in ToSet(Targets(Introducer))}
    OBVIOUS
  <2>2. chunk = [n \in Nodes |-> {}] /\ overwritten \in BOOLEAN
    BY DEF Init
  <2>3. CASE scenario.exists
    <3>1. /\ writes = 1 /\ acked = {1}
          /\ meta = [n \in Nodes |-> IF n \in H THEN [hash |-> 1, apps |-> <<>>] ELSE NoFile]
          /\ base = [n \in Nodes |-> IF n \in H THEN <<1>> ELSE <<>>]
      BY <2>1, <2>3 DEF Init
    <3>2. 1..writes = {1} /\ <<1>> \in Seq({1}) /\ <<>> \in Seq({1})
      BY <3>1, ShortSeqs
    <3>3. [hash |-> 1, apps |-> <<>>] \in FileType /\ NoFile \in FileType /\ NoFile.apps = <<>>
      BY ShortSeqs DEF FileType, NoFile
    <3> QED
      BY <2>2, <3>1, <3>2, <3>3 DEF StoreOK
  <2>4. CASE ~scenario.exists
    <3>1. /\ writes = 0 /\ acked = {}
          /\ meta = [n \in Nodes |-> NoFile] /\ base = [n \in Nodes |-> <<>>]
      BY <2>4 DEF Init
    <3>2. NoFile \in FileType /\ NoFile.apps = <<>> /\ <<>> \in Seq(1..writes)
      BY ShortSeqs DEF FileType, NoFile
    <3> QED
      BY <2>2, <3>1, <3>2 DEF StoreOK
  <2> QED
    BY <2>3, <2>4
<1>3. ProbesOK
  BY DEF Init, ProbesOK
<1>4. CallsOK
  BY DEF Init, CallsOK
<1>5. JobsOK
  BY IdleIsGood DEF Init, JobsOK, GoodJob
<1> QED
  BY <1>1, <1>2, <1>3, <1>4, <1>5 DEF AllOK

----------------------------------------------------------------------------
(* Lists of appends.                                                        *)

LEMMA Least ==
  ASSUME NEW I \in SUBSET Int, IsFiniteSet(I), I # {}
  PROVE  \E i \in I : \A k \in I : i <= k
<1>1. Cardinality(I) \in Nat \ {0}
  BY FS_EmptySet, FS_CardinalityType
<1>2. PICK i \in I : Place(I, i) = 0
  BY <1>1, Places
<1>3. IsFiniteSet({k \in I : k < i})
  BY FS_Subset
<1>4. {k \in I : k < i} = {}
  BY <1>2, <1>3, FS_EmptySet DEF Place
<1> QED
  BY <1>4

LEMMA IDOf ==
  ASSUME NEW a \in AppendType
  PROVE  ID(a) = <<a.client, a.ts>> /\ ID(a) \in AppendIDs
BY DEF ID, AppendType, AppendIDs

\* s with a put in at index p.
Inserted(s, a, p, r) ==
  /\ Len(r) = Len(s) + 1
  /\ \A i \in 1..Len(r) : r[i] = IF i < p THEN s[i] ELSE IF i = p THEN a ELSE s[i - 1]

LEMMA InsertAtOf ==
  ASSUME NEW T, NEW s \in Seq(T), NEW a \in T, NEW p \in 1..(Len(s) + 1)
  PROVE  InsertAt(s, p, a) \in Seq(T) /\ Inserted(s, a, p, InsertAt(s, p, a))
<1> DEFINE b == SubSeq(s, 1, p - 1)
           c == SubSeq(s, p, Len(s))
<1>1. /\ b \in Seq(T) /\ Len(b) = p - 1
      /\ \A i \in 1..(p - 1) : b[i] = s[i]
  OBVIOUS
<1>2. /\ c \in Seq(T) /\ Len(c) = Len(s) + 1 - p
      /\ \A i \in 1..(Len(s) + 1 - p) : c[i] = s[p + i - 1]
  OBVIOUS
<1>3. InsertAt(s, p, a) = b \o <<a>> \o c
  BY DEF InsertAt
<1> HIDE DEF b, c
<1> DEFINE d == b \o <<a>>
<1>4. /\ d \in Seq(T) /\ Len(d) = p
      /\ \A i \in 1..p : d[i] = IF i < p THEN s[i] ELSE a
  BY <1>1
<1> HIDE DEF d
<1>5. InsertAt(s, p, a) = d \o c
  BY <1>3 DEF d
<1>6. /\ d \o c \in Seq(T) /\ Len(d \o c) = Len(s) + 1
      /\ \A i \in 1..p : (d \o c)[i] = d[i]
      /\ \A i \in (p + 1)..(Len(s) + 1) : (d \o c)[i] = c[i - p]
  <2>1. d \o c \in Seq(T) /\ Len(d \o c) = Len(d) + Len(c)
    BY <1>2, <1>4
  <2>2. Len(d) = p /\ Len(c) = Len(s) + 1 - p /\ Len(s) \in Nat
    BY <1>2, <1>4
  <2>3. \A i \in 1..(Len(d) + Len(c)) :
          (d \o c)[i] = IF i <= Len(d) THEN d[i] ELSE c[i - Len(d)]
    BY <1>2, <1>4
  <2>4. \A i \in 1..p : (d \o c)[i] = d[i]
    BY <2>2, <2>3
  <2>5. \A i \in (p + 1)..(Len(s) + 1) : (d \o c)[i] = c[i - p]
    BY <2>2, <2>3
  <2> QED
    BY <2>1, <2>2, <2>4, <2>5
<1>7. \A i \in (p + 1)..(Len(s) + 1) : c[i - p] = s[i - 1]
  <2>1. ASSUME NEW i \in (p + 1)..(Len(s) + 1)
        PROVE  i - p \in 1..(Len(s) + 1 - p) /\ p + (i - p) - 1 = i - 1
    OBVIOUS
  <2> QED
    BY <1>2, <2>1
<1> QED
  BY <1>4, <1>5, <1>6, <1>7 DEF Inserted

\* The appends of s by a's client that are later than a.
LaterThan(s, a, i) == i \in DOMAIN s /\ s[i].client = a.client /\ s[i].ts > a.ts

\* An append that is new goes before the first later one of the same client.
LEMMA AppendToFileOf ==
  ASSUME NEW s \in Seq(AppendType), NEW a \in AppendType
  PROVE  /\ AppendToFile(s, a) \in Seq(AppendType)
         /\ ID(a) \in IDs(s) => AppendToFile(s, a) = s
         /\ ID(a) \notin IDs(s) =>
              \E p \in 1..(Len(s) + 1) :
                /\ Inserted(s, a, p, AppendToFile(s, a))
                /\ \A i \in 1..(p - 1) : ~LaterThan(s, a, i)
                /\ p <= Len(s) => LaterThan(s, a, p)
<1> DEFINE later == {i \in DOMAIN s : s[i].client = a.client /\ s[i].ts > a.ts}
           p == IF later = {} THEN Len(s) + 1
                ELSE CHOOSE i \in later : \A k \in later : i <= k
<1>1. AppendToFile(s, a) = IF ID(a) \in IDs(s) THEN s ELSE InsertAt(s, p, a)
  BY DEF AppendToFile
<1>2. p \in 1..(Len(s) + 1) /\ (\A i \in 1..(p - 1) : ~LaterThan(s, a, i)) /\ (p <= Len(s) => LaterThan(s, a, p))
  <2>1. CASE later = {}
    BY <2>1 DEF LaterThan
  <2>2. CASE later # {}
    <3>1. later \in SUBSET (1..Len(s)) /\ IsFiniteSet(1..Len(s))
      BY FS_Interval
    <3>2. IsFiniteSet(later) /\ later \in SUBSET Int
      BY <3>1, FS_Subset
    <3> HIDE DEF later
    <3>3. \E i \in later : \A k \in later : i <= k
      BY <2>2, <3>2, Least
    <3>4. p \in later /\ \A k \in later : p <= k
      BY <2>2, <3>3
    <3> HIDE DEF p
    <3> USE DEF later
    <3>5. p \in 1..Len(s) /\ LaterThan(s, a, p)
      BY <3>1, <3>4 DEF LaterThan
    <3>6. ASSUME NEW i \in 1..(p - 1) PROVE ~LaterThan(s, a, i)
      BY <3>4, <3>5 DEF LaterThan
    <3> QED
      BY <3>5, <3>6
  <2> QED
    BY <2>1, <2>2
<1> HIDE DEF p
<1>3. InsertAt(s, p, a) \in Seq(AppendType) /\ Inserted(s, a, p, InsertAt(s, p, a))
  BY <1>2, InsertAtOf
<1> QED
  BY <1>1, <1>2, <1>3

\* Those of one client are in the order of their timestamps.
Ordered(s) ==
  \A i, k \in DOMAIN s : i < k /\ s[i].client = s[k].client => s[i].ts < s[k].ts

LEMMA AppendToFileOrdered ==
  ASSUME NEW s \in Seq(AppendType), NEW a \in AppendType, Ordered(s)
  PROVE  Ordered(AppendToFile(s, a))
<1> DEFINE r == AppendToFile(s, a)
<1>1. CASE ID(a) \in IDs(s)
  BY <1>1, AppendToFileOf
<1>2. CASE ID(a) \notin IDs(s)
  <2>1. r \in Seq(AppendType)
    BY AppendToFileOf
  <2>2. PICK p \in 1..(Len(s) + 1) :
          /\ Inserted(s, a, p, r)
          /\ \A i \in 1..(p - 1) : ~LaterThan(s, a, i)
          /\ p <= Len(s) => LaterThan(s, a, p)
    BY <1>2, AppendToFileOf
  <2> HIDE DEF r
  <2>3. DOMAIN r = 1..(Len(s) + 1) /\ DOMAIN s = 1..Len(s) /\ Len(s) \in Nat
    BY <2>1, <2>2 DEF Inserted
  <2>4. \A i \in DOMAIN s : s[i].ts \in Int /\ a.ts \in Int
    <3>1. \A b \in AppendType : b.ts \in Int
      BY FileAssumption DEF AppendType
    <3>2. \A i \in DOMAIN s : s[i] \in AppendType
      OBVIOUS
    <3> QED
      BY <3>1, <3>2
  <2>5. ASSUME NEW i \in DOMAIN s, s[i].client = a.client PROVE s[i].ts # a.ts
    BY <1>2, <2>5 DEF IDs, ID
  <2>6. ASSUME NEW i \in DOMAIN r, NEW k \in DOMAIN r, i < k, r[i].client = r[k].client
        PROVE  r[i].ts < r[k].ts
    <3>1. r[i] = IF i < p THEN s[i] ELSE IF i = p THEN a ELSE s[i - 1]
      BY <2>2, <2>3 DEF Inserted
    <3>2. r[k] = IF k < p THEN s[k] ELSE IF k = p THEN a ELSE s[k - 1]
      BY <2>2, <2>3 DEF Inserted
    <3>3. CASE k < p
      BY <2>3, <2>6, <3>1, <3>2, <3>3 DEF Ordered
    <3>4. CASE k = p
      <4>1. i \in DOMAIN s /\ r[i] = s[i] /\ r[k] = a
        BY <2>3, <2>6, <3>1, <3>2, <3>4
      <4>2. ~(s[i].ts > a.ts)
        BY <2>2, <2>3, <2>6, <3>4, <4>1 DEF LaterThan
      <4> QED
        BY <2>4, <2>5, <2>6, <4>1, <4>2
    <3>5. CASE i < p /\ p < k
      <4>1. i \in DOMAIN s /\ k - 1 \in DOMAIN s /\ i < k - 1 /\ r[i] = s[i] /\ r[k] = s[k - 1]
        BY <2>3, <2>6, <3>1, <3>2, <3>5
      <4> QED
        BY <2>6, <4>1 DEF Ordered
    <3>6. CASE i = p
      <4>1. k - 1 \in DOMAIN s /\ p \in DOMAIN s /\ p <= k - 1 /\ r[i] = a /\ r[k] = s[k - 1]
        BY <2>3, <2>6, <3>1, <3>2, <3>6
      <4>2. s[p].client = a.client /\ s[p].ts > a.ts
        BY <2>2, <2>3, <4>1 DEF LaterThan
      <4>3. p = k - 1 \/ s[p].ts < s[k - 1].ts
        BY <2>3, <2>6, <4>1, <4>2 DEF Ordered
      <4> QED
        BY <2>4, <4>1, <4>2, <4>3
    <3>7. CASE p < i
      <4>1. i - 1 \in DOMAIN s /\ k - 1 \in DOMAIN s /\ i - 1 < k - 1 /\ r[i] = s[i - 1] /\ r[k] = s[k - 1]
        BY <2>3, <2>6, <3>1, <3>2, <3>7
      <4> QED
        BY <2>6, <4>1 DEF Ordered
    <3> QED
      BY <2>3, <2>6, <3>3, <3>4, <3>5, <3>6, <3>7
  <2> QED
    BY <2>6 DEF Ordered, r
<1> QED
  BY <1>1, <1>2

LEMMA NotListedOf ==
  ASSUME NEW s \in Seq(AppendType), NEW r
  PROVE  /\ NotListed(s, r) \in Seq(AppendType)
         /\ s = <<>> => NotListed(s, r) = <<>>
<1> DEFINE I == {i \in DOMAIN s : ID(s[i]) \notin IDs(r)}
<1>1. NotListed(s, r) = AtIndices(s, I) /\ I \in SUBSET DOMAIN s
  BY DEF NotListed
<1> HIDE DEF I
<1>2. NotListed(s, r) \in Seq(AppendType) /\ Len(NotListed(s, r)) = Cardinality(I)
  BY <1>1, AtIndicesOf
<1>3. ASSUME s = <<>> PROVE NotListed(s, r) = <<>>
  <2>1. I = {}
    BY <1>1, <1>3
  <2>2. Cardinality(I) = 0
    BY <2>1, FS_EmptySet
  <2> QED
    BY <1>2, <2>2
<1> QED
  BY <1>2, <1>3

\* The chunk of a listed append that is stored.
LEMMA ChunkOf ==
  ASSUME NEW n, NEW d, d \in Stored(n)
  PROVE  (CHOOSE k \in chunk[n] : k.id = d) \in chunk[n]
BY DEF Stored

LEMMA GetFileType ==
  ASSUME RingOK, StoreOK, NEW n \in Nodes
  PROVE  GetFile(n) \in Seq(1..writes)
<1> DEFINE s == meta[n].apps
           I == {i \in DOMAIN s : ID(s[i]) \in Stored(n)}
           found == AtIndices(s, I)
           Datum(i) == (CHOOSE k \in chunk[n] : k.id = ID(found[i])).data
           data == [i \in DOMAIN found |-> Datum(i)]
<1>1. GetFile(n) = base[n] \o data
  BY DEF GetFile
<1>2. s \in Seq(AppendType) /\ I \in SUBSET DOMAIN s
  BY DEF StoreOK, FileType
<1>3. /\ found \in Seq(AppendType) /\ DOMAIN found = 1..Len(found) /\ Len(found) \in Nat
      /\ \A j \in DOMAIN found : Nth(I, j) \in I /\ found[j] = s[Nth(I, j)]
  <2> HIDE DEF s, I
  <2> QED
    BY <1>2, AtIndicesOf
<1>4. ASSUME NEW j \in DOMAIN found PROVE Datum(j) \in 1..writes
  <2>1. ID(found[j]) \in Stored(n)
    BY <1>3
  <2>2. (CHOOSE k \in chunk[n] : k.id = ID(found[j])) \in chunk[n]
    BY <2>1, ChunkOf
  <2> QED
    BY <2>2 DEF StoreOK
<1> HIDE DEF found, Datum
<1>5. data \in Seq(1..writes)
  BY <1>3, <1>4
<1> HIDE DEF data
<1> QED
  BY <1>1, <1>5 DEF StoreOK

----------------------------------------------------------------------------
(* Steps of a job.                                                          *)

LEMMA NextSuccessorGood ==
  ASSUME NEW kind, NEW j, GoodJob(kind, j), j.merging
  PROVE  GoodJob(kind, NextSuccessor(j))
<1>1. j.succs \in Seq(Nodes) /\ j.succs # <<>> /\ j \in JobType
  BY DEF GoodJob, JobType
<1>2. CASE Len(j.succs) <= 1
  BY <1>2, IdleIsGood DEF NextSuccessor
<1>3. CASE Len(j.succs) > 1
  <2> DEFINE rest == Tail(j.succs)
  <2>1. rest \in Seq(Nodes) /\ rest # <<>>
    BY <1>1, <1>3, HeadAndTail
  <2>2. NextSuccessor(j) = [j EXCEPT !.pc = "check", !.succs = rest, !.skip = FALSE]
    BY <1>1, <1>3 DEF NextSuccessor, JobType
  <2> HIDE DEF rest
  <2> QED
    BY <2>1, <2>2 DEF GoodJob, JobType
<1> QED
  BY <1>1, <1>2, <1>3

LEMMA StabilisedGood ==
  ASSUME NEW kind, NEW j, GoodJob(kind, j)
  PROVE  GoodJob(kind, Stabilised(j))
<1>1. CASE ~j.merging
  BY <1>1, IdleIsGood DEF Stabilised
<1>2. CASE j.merging /\ j.skip
  BY <1>2, NextSuccessorGood DEF Stabilised
<1>3. CASE j.merging /\ ~j.skip
  <2>1. Stabilised(j) = [j EXCEPT !.pc = "sync", !.drop = {}]
    BY <1>3 DEF Stabilised
  <2> QED
    BY <1>3, <2>1 DEF GoodJob, JobType
<1> QED
  BY <1>1, <1>2, <1>3

LEMMA NextPushGood ==
  ASSUME NEW kind, NEW j, GoodJob(kind, j), j.left # <<>>, j.ring # <<>>
  PROVE  GoodJob(kind, NextPush(j))
<1>1. j \in JobType /\ j.left \in Seq(Nodes) /\ j.ring \in Seq(Nodes)
  BY DEF GoodJob, JobType
<1>2. CASE Len(j.left) > 1
  <2> DEFINE rest == Tail(j.left)
  <2>1. rest \in Seq(Nodes) /\ rest # <<>>
    BY <1>1, <1>2, HeadAndTail
  <2>2. NextPush(j) = [j EXCEPT !.pc = "push", !.left = rest]
    BY <1>1, <1>2 DEF NextPush, JobType
  <2> HIDE DEF rest
  <2> QED
    BY <2>1, <2>2 DEF GoodJob, JobType
<1>3. CASE ~(Len(j.left) > 1)
  <2>1. NextPush(j) = [j EXCEPT !.pc = "pull", !.left = j.ring]
    BY <1>3 DEF NextPush
  <2> QED
    BY <1>1, <2>1 DEF GoodJob, JobType
<1> QED
  BY <1>2, <1>3

LEMMA NextPullGood ==
  ASSUME NEW kind, NEW j, GoodJob(kind, j), j.left # <<>>, j.ring # <<>>
  PROVE  GoodJob(kind, NextPull(j))
<1>1. j \in JobType /\ j.left \in Seq(Nodes)
  BY DEF GoodJob, JobType
<1>2. CASE Len(j.left) > 1
  <2> DEFINE rest == Tail(j.left)
  <2>1. rest \in Seq(Nodes) /\ rest # <<>>
    BY <1>1, <1>2, HeadAndTail
  <2>2. NextPull(j) = [j EXCEPT !.pc = "pull", !.left = rest, !.drop = {}]
    BY <1>1, <1>2 DEF NextPull, JobType
  <2> HIDE DEF rest
  <2> QED
    BY <2>1, <2>2 DEF GoodJob, JobType
<1>3. CASE ~(Len(j.left) > 1)
  <2>1. NextPull(j) = Stabilised([j EXCEPT !.drop = {}])
    BY <1>3 DEF NextPull
  <2>2. GoodJob(kind, [j EXCEPT !.drop = {}])
    BY <1>1 DEF GoodJob, JobType
  <2> QED
    BY <2>1, <2>2, StabilisedGood
<1> QED
  BY <1>2, <1>3

----------------------------------------------------------------------------
(* Types are kept: clients.                                                 *)

\* What has been written stays so when another write begins.
LEMMA MoreWrites ==
  ASSUME RingOK, writes' \in Nat, writes <= writes', scenario' = scenario
  PROVE  /\ StoreOK /\ UNCHANGED <<storeVars, acked>> => StoreOK'
         /\ ProbesOK /\ UNCHANGED probing => ProbesOK'
         /\ CallsOK /\ UNCHANGED transfers => CallsOK'
         /\ FileCall(writes) \subseteq FileCall(writes')
         /\ AppendCall(writes) \subseteq AppendCall(writes')
<1>1. 1..writes \subseteq 1..writes'
  BY DEF RingOK
<1>2. Seq(1..writes) \subseteq Seq(1..writes')
  BY <1>1, SeqOfMore
<1>3. ASSUME StoreOK, UNCHANGED <<storeVars, acked>> PROVE StoreOK'
  <2>1. base \in [Nodes -> Seq(1..writes')]
    BY <1>2, <1>3 DEF StoreOK
  <2>2. [id : AppendIDs, data : 1..writes] \subseteq [id : AppendIDs, data : 1..writes']
    BY <1>1
  <2>3. chunk \in [Nodes -> SUBSET [id : AppendIDs, data : 1..writes']]
    BY <1>3, <2>2 DEF StoreOK
  <2>4. acked \subseteq 1..writes'
    BY <1>1, <1>3 DEF StoreOK
  <2> QED
    BY <1>3, <2>1, <2>3, <2>4 DEF StoreOK, storeVars
<1>4. ASSUME ProbesOK, UNCHANGED probing PROVE ProbesOK'
  <2>1. [left : Seq(Nodes), targets : Seq(Nodes), data : 1..writes]
          \subseteq [left : Seq(Nodes), targets : Seq(Nodes), data : 1..writes']
    BY <1>1
  <2> QED
    BY <1>4, <2>1 DEF ProbesOK
<1>5. FileCall(writes) \subseteq FileCall(writes')
  BY <1>2 DEF FileCall
<1>6. AppendCall(writes) \subseteq AppendCall(writes')
  BY <1>1 DEF AppendCall
<1>7. ASSUME CallsOK, UNCHANGED transfers PROVE CallsOK'
  BY <1>5, <1>6, <1>7 DEF CallsOK
<1> QED
  BY <1>3, <1>4, <1>5, <1>6, <1>7

\* A call as it is sent.
LEMMA NewFileCall ==
  ASSUME NEW by \in {"client"} \cup Workers, NEW n \in Nodes, NEW m \in Nodes, NEW i \in Nat,
         NEW h \in Nat, NEW w, NEW d \in Seq(1..w)
  PROVE  /\ Transfer(by, n, m, i, "file", [hash |-> h, apps |-> <<>>], d) \in FileCall(w)
         /\ Transfer(by, n, m, i, "file", [hash |-> h, apps |-> <<>>], d).phase = "sent"
BY DEF Transfer, FileCall

LEMMA NewAppendCall ==
  ASSUME NEW by \in {"client"} \cup Workers, NEW n \in Nodes, NEW m \in Nodes, NEW i \in Nat,
         NEW a \in AppendType, NEW w, NEW d \in 1..w
  PROVE  /\ Transfer(by, n, m, i, "append", a, <<d>>) \in AppendCall(w)
         /\ Transfer(by, n, m, i, "append", a, <<d>>).phase = "sent"
BY DEF Transfer, AppendCall

LEMMA SendFileCalls ==
  ASSUME RingOK, CallsOK, NEW c \in Nodes, NEW T \in Seq(Nodes), NEW w \in 1..writes',
         writes' \in Nat, writes <= writes', scenario' = scenario, SendFile(c, T, w)
  PROVE  CallsOK'
<1> DEFINE Sent == {Transfer("client", c, T[i], i, "file", [hash |-> w, apps |-> <<>>], <<w>>) :
                      i \in DOMAIN T}
<1>1. transfers' = transfers \cup Sent
  BY DEF SendFile, SendToTargets
<1>2. ASSUME NEW t \in Sent PROVE t \in FileCall(writes') /\ t.phase = "sent"
  <2>1. PICK i \in DOMAIN T :
          t = Transfer("client", c, T[i], i, "file", [hash |-> w, apps |-> <<>>], <<w>>)
    OBVIOUS
  <2>2. i \in Nat /\ T[i] \in Nodes /\ w \in Nat
    OBVIOUS
  <2>3. PICK d \in Seq(1..writes') : d = <<w>>
    BY ShortSeqs
  <2>4. PICK m \in Nodes : m = T[i]
    BY <2>2
  <2>5. t = Transfer("client", c, m, i, "file", [hash |-> w, apps |-> <<>>], d) /\ w \in Nat /\ i \in Nat
    BY <2>1, <2>2, <2>3, <2>4
  <2> QED
    BY <2>3, <2>4, <2>5 DEF Transfer, FileCall
<1> HIDE DEF Sent
<1> QED
  BY <1>1, <1>2, MoreWrites DEF CallsOK

LEMMA SendAppendCalls ==
  ASSUME RingOK, CallsOK, NEW c \in Nodes, NEW T \in Seq(Nodes), NEW s \in 0..MaxTime,
         NEW w \in 1..writes', writes' \in Nat, writes <= writes', scenario' = scenario,
         SendAppend(c, T, s, w)
  PROVE  CallsOK'
<1> DEFINE a == AppendInfo(c, s, w)
           Sent == {Transfer("client", c, T[i], i, "append", a, <<w>>) : i \in DOMAIN T}
<1>1. transfers' = transfers \cup Sent
  BY DEF SendAppend, SendToTargets
<1>2. a \in AppendType
  BY DEF AppendInfo, AppendType
<1> HIDE DEF a
<1>3. ASSUME NEW t \in Sent PROVE t \in AppendCall(writes') /\ t.phase = "sent"
  <2>1. PICK i \in DOMAIN T : t = Transfer("client", c, T[i], i, "append", a, <<w>>)
    OBVIOUS
  <2>2. i \in Nat /\ T[i] \in Nodes
    OBVIOUS
  <2> QED
    BY <1>2, <2>1, <2>2, NewAppendCall
<1> HIDE DEF Sent
<1> QED
  BY <1>1, <1>3, MoreWrites DEF CallsOK

LEMMA WriteTypes ==
  ASSUME AllOK, NEW c \in Nodes,
         handleCreate(c) \/ handleAppend(c) \/ AppendOrCreateFromBuffer(c)
  PROVE  AllOK'
<1> USE DEF AllOK
<1>1. BeginWrite(c)
  BY DEF handleCreate, handleAppend, AppendOrCreateFromBuffer
<1>2. /\ writes' = writes + 1 /\ clock' \in 0..MaxTime
      /\ UNCHANGED <<scenario, ringVars, storeVars, job, merges, crashes, fails, acked, crossed>>
  <2>1. clock' \in clock..scenario.seconds /\ clock \in 0..MaxTime
    BY <1>1 DEF BeginWrite, RingOK
  <2>2. clock' \in 0..MaxTime
    <3>1. scenario.seconds \in 0..MaxTime
      BY ScenarioAssumption DEF RingOK
    <3> QED
      BY <2>1, <3>1, FileAssumption
  <2> QED
    BY <1>1, <2>2 DEF BeginWrite
<1>3. /\ writes' \in Nat /\ writes <= writes' /\ writes' \in 1..writes'
      /\ scenario' = scenario
  BY <1>2 DEF RingOK
<1>4. raced' \in BOOLEAN
  BY DEF handleCreate, handleAppend, AppendOrCreateFromBuffer, Race, RingOK
<1>5. RingOK'
  BY <1>2, <1>3, <1>4 DEF RingOK, ringVars
<1>6. StoreOK'
  BY <1>2, <1>3, MoreWrites
<1>7. JobsOK'
  BY <1>2 DEF JobsOK
<1>8. Targets(c) \in Seq(Nodes)
  BY TargetsType DEF Targets
<1>9. CASE handleCreate(c)
  <2>1. SendFile(c, Targets(c), writes') /\ UNCHANGED probing
    BY <1>9 DEF handleCreate
  <2>2. CallsOK' /\ ProbesOK'
    BY <1>3, <1>8, <2>1, SendFileCalls, MoreWrites
  <2> QED
    BY <1>5, <1>6, <1>7, <2>2
<1>10. CASE handleAppend(c)
  <2>1. SendAppend(c, Targets(c), clock', writes') /\ UNCHANGED probing
    BY <1>10 DEF handleAppend
  <2>2. CallsOK' /\ ProbesOK'
    BY <1>2, <1>3, <1>8, <2>1, SendAppendCalls, MoreWrites
  <2> QED
    BY <1>5, <1>6, <1>7, <2>2
<1>11. CASE AppendOrCreateFromBuffer(c)
  <2> DEFINE q == [left |-> Targets(c), targets |-> Targets(c), data |-> writes']
  <2>1. probing' = [probing EXCEPT ![c] = q] /\ UNCHANGED transfers
    BY <1>11 DEF AppendOrCreateFromBuffer
  <2>2. q \in [left : Seq(Nodes), targets : Seq(Nodes), data : 1..writes']
    BY <1>3, <1>8
  <2>3. 1..writes \subseteq 1..writes'
    BY <1>3 DEF RingOK
  <2>4. [left : Seq(Nodes), targets : Seq(Nodes), data : 1..writes]
          \subseteq [left : Seq(Nodes), targets : Seq(Nodes), data : 1..writes']
    BY <2>3
  <2> HIDE DEF q
  <2>5. ProbesOK'
    BY <2>1, <2>2, <2>4 DEF ProbesOK
  <2>6. CallsOK'
    BY <1>3, <2>1, MoreWrites
  <2> QED
    BY <1>5, <1>6, <1>7, <2>5, <2>6
<1> QED
  BY <1>9, <1>10, <1>11

LEMMA ProbeTypes ==
  ASSUME AllOK, NEW c \in Nodes,
         ProbeFinds(c) \/ ProbeFindsNothing(c) \/ ProbeCreates(c)
  PROVE  AllOK'
<1> USE DEF AllOK
<1>1. ProbeStep(c)
  BY DEF ProbeFinds, ProbeFindsNothing, ProbeCreates
<1>2. /\ probing[c] # NoProbe
      /\ UNCHANGED <<scenario, ringVars, storeVars, job, clock, writes, merges, crashes,
                     acked, raced, crossed>>
  BY <1>1 DEF ProbeStep
<1>3. PICK q : q = probing[c]
  OBVIOUS
<1>4. /\ q \in [left : Seq(Nodes), targets : Seq(Nodes), data : 1..writes]
      /\ q.left \in Seq(Nodes) /\ q.targets \in Seq(Nodes) /\ q.data \in 1..writes
  BY <1>2, <1>3 DEF ProbesOK
<1>5. fails' \in Nat
  BY DEF ProbeFinds, ProbeFindsNothing, ProbeCreates, CallFails, RingOK
<1>6. RingOK'
  BY <1>2, <1>5 DEF RingOK, ringVars
<1>7. /\ writes' \in Nat /\ writes <= writes' /\ scenario' = scenario /\ q.data \in 1..writes'
      /\ clock \in 0..MaxTime
  BY <1>2, <1>4 DEF RingOK
<1>8. StoreOK' /\ JobsOK'
  BY <1>2, <1>7, MoreWrites DEF JobsOK
<1>9. CASE ProbeFinds(c)
  <2>1. SendAppend(c, q.targets, clock, q.data) /\ probing' = [probing EXCEPT ![c] = NoProbe]
    BY <1>3, <1>9 DEF ProbeFinds
  <2>2. CallsOK'
    BY <1>4, <1>7, <2>1, SendAppendCalls
  <2>3. ProbesOK'
    BY <1>2, <2>1 DEF ProbesOK
  <2> QED
    BY <1>6, <1>8, <2>2, <2>3
<1>10. CASE ProbeFindsNothing(c)
  <2>1. /\ q.left # <<>> /\ UNCHANGED transfers
        /\ probing' = [probing EXCEPT ![c].left = Tail(@)]
    BY <1>3, <1>10 DEF ProbeFindsNothing
  <2> DEFINE rest == Tail(q.left)
  <2>2. rest \in Seq(Nodes)
    BY <1>4, <2>1, HeadAndTail
  <2>3. probing' = [probing EXCEPT ![c] = [q EXCEPT !.left = rest]]
    BY <1>3, <2>1
  <2> HIDE DEF rest
  <2>4. ProbesOK'
    BY <1>2, <1>4, <2>2, <2>3 DEF ProbesOK
  <2>5. CallsOK'
    BY <1>7, <2>1, MoreWrites
  <2> QED
    BY <1>6, <1>8, <2>4, <2>5
<1>11. CASE ProbeCreates(c)
  <2>1. SendFile(c, q.targets, q.data) /\ probing' = [probing EXCEPT ![c] = NoProbe]
    BY <1>3, <1>11 DEF ProbeCreates
  <2>2. CallsOK'
    BY <1>4, <1>7, <2>1, SendFileCalls
  <2>3. ProbesOK'
    BY <1>2, <2>1 DEF ProbesOK
  <2> QED
    BY <1>6, <1>8, <2>2, <2>3
<1> QED
  BY <1>9, <1>10, <1>11

----------------------------------------------------------------------------
(* Types are kept: the receiving side of the calls.                         *)

LEMMA CallFacts ==
  ASSUME RingOK, CallsOK, NEW t \in transfers
  PROVE  /\ t.from \in Nodes /\ t.to \in Nodes
         /\ t.what \in {"file", "append"}
         /\ t.what = "file" => t \in FileCall(writes) /\ t.item.hash \in Nat
         /\ t.what = "append" => /\ t \in AppendCall(writes) /\ t.item \in AppendType
                                 /\ t.data[1] \in 1..writes
         /\ t.data \in Seq(1..writes) /\ ToSet(t.data) \subseteq 1..writes
         /\ t.phase \in {"sent", "checked", "written"}
<1>1. CASE t \in FileCall(writes)
  <2>1. /\ t.from \in Nodes /\ t.to \in Nodes /\ t.what = "file" /\ t.item.hash \in Nat
        /\ t.data \in Seq(1..writes) /\ t.phase \in {"sent", "checked"}
    BY <1>1 DEF FileCall
  <2>2. ToSet(t.data) \subseteq 1..writes
    BY <2>1, ToSetOf
  <2> QED
    BY <1>1, <2>1, <2>2
<1>2. CASE t \in AppendCall(writes)
  <2>1. /\ t.from \in Nodes /\ t.to \in Nodes /\ t.what = "append" /\ t.item \in AppendType
        /\ t.phase \in {"sent", "written"}
    BY <1>2 DEF AppendCall
  <2>2. PICK d \in 1..writes : t.data = <<d>>
    BY <1>2 DEF AppendCall
  <2>3. t.data \in Seq(1..writes) /\ ToSet(t.data) = {d} /\ t.data[1] = d
    BY <2>2, ShortSeqs DEF ToSet
  <2> QED
    BY <1>2, <2>1, <2>3
<1> QED
  BY <1>1, <1>2 DEF CallsOK

\* A call that is answered, or goes on, leaves good calls.
LEMMA AnswerTypes ==
  ASSUME CallsOK, UNCHANGED <<scenario, writes>>, NEW t \in transfers, Answer(t)
  PROVE  CallsOK'
BY DEF CallsOK, Answer

LEMMA AdvanceTypes ==
  ASSUME RingOK, CallsOK, UNCHANGED <<scenario, writes>>, NEW t \in transfers, NEW ph,
         Advance(t, ph),
         \/ t.what = "file" /\ ph = "checked"
         \/ t.what = "append" /\ ph = "written" /\ scenario.kind = "regular"
  PROVE  CallsOK'
<1> DEFINE u == [t EXCEPT !.phase = ph]
<1>1. transfers' = (transfers \ {t}) \cup {u}
  BY DEF Advance
<1>2. CASE t.what = "file"
  <2>1. t \in FileCall(writes) /\ ph = "checked"
    BY <1>2, CallFacts
  <2>2. u \in FileCall(writes) /\ u.phase = "checked"
    BY <2>1 DEF FileCall
  <2> HIDE DEF u
  <2> QED
    BY <1>1, <2>2 DEF CallsOK
<1>3. CASE t.what = "append"
  <2>1. t \in AppendCall(writes) /\ ph = "written" /\ scenario.kind = "regular"
    BY <1>3, CallFacts
  <2>2. u \in AppendCall(writes)
    BY <2>1 DEF AppendCall
  <2> HIDE DEF u
  <2> QED
    BY <1>1, <2>1, <2>2 DEF CallsOK
<1> QED
  BY <1>2, <1>3

LEMMA ReceiveTypes ==
  ASSUME AllOK, NEW t \in transfers, Receive(t)
  PROVE  AllOK'
<1> USE DEF AllOK
<1>1. HandleTransfer(t)
  BY DEF Receive, FileTransfer, saveFile, AppendRefused, AppendToBase, WriteChunk, ListAppend
<1>2. UNCHANGED <<scenario, ringVars, probing, job, clock, counters, raced, crossed>>
  BY <1>1 DEF HandleTransfer
<1>3. RingOK' /\ ProbesOK' /\ JobsOK' /\ UNCHANGED <<scenario, writes>>
  BY <1>2 DEF RingOK, ProbesOK, JobsOK, ringVars, counters
<1>4. /\ t.to \in Nodes
      /\ t.data \in Seq(1..writes) /\ ToSet(t.data) \subseteq 1..writes
  BY CallFacts
<1>5. ASSUME UNCHANGED <<storeVars, acked>> PROVE StoreOK'
  BY <1>3, <1>5 DEF StoreOK, storeVars
<1>6. CASE FileTransfer(t)
  <2>1. CallsOK'
    BY <1>3, <1>6, AnswerTypes, AdvanceTypes DEF FileTransfer
  <2> QED
    BY <1>3, <1>5, <1>6, <2>1 DEF FileTransfer
<1>7. CASE saveFile(t)
  <2> DEFINE f == [hash |-> t.item.hash, apps |-> <<>>]
  <2>1. /\ base' = [base EXCEPT ![t.to] = t.data]
        /\ meta' = [meta EXCEPT ![t.to] = f]
        /\ acked' = acked \cup ToSet(t.data) /\ chunk' = chunk /\ Answer(t) /\ t.what = "file"
        /\ overwritten' = (overwritten \/ Exists(t.to))
    BY <1>7 DEF saveFile, Accept
  <2>2. f \in FileType /\ f.apps = <<>>
    BY <2>1, CallFacts, ShortSeqs DEF FileType
  <2>3. CallsOK'
    BY <1>3, <2>1, AnswerTypes
  <2> HIDE DEF f
  <2>4. StoreOK'
    BY <1>3, <1>4, <2>1, <2>2 DEF StoreOK
  <2> QED
    BY <1>3, <2>3, <2>4
<1>8. CASE AppendRefused(t)
  <2>1. CallsOK'
    BY <1>3, <1>8, AnswerTypes DEF AppendRefused
  <2> QED
    BY <1>3, <1>5, <1>8, <2>1 DEF AppendRefused
<1>9. CASE AppendToBase(t)
  <2>1. /\ base' = [base EXCEPT ![t.to] = base[t.to] \o t.data]
        /\ acked' = acked \cup ToSet(t.data) /\ UNCHANGED <<meta, chunk, overwritten>> /\ Answer(t)
    BY <1>9 DEF AppendToBase, Accept
  <2>2. base[t.to] \o t.data \in Seq(1..writes)
    BY <1>4, ConcatProperties DEF StoreOK
  <2>3. CallsOK'
    BY <1>3, <2>1, AnswerTypes
  <2>4. StoreOK'
    BY <1>3, <1>4, <2>1, <2>2 DEF StoreOK
  <2> QED
    BY <1>3, <2>3, <2>4
<1>10. CASE WriteChunk(t)
  <2> DEFINE C == {k \in chunk[t.to] : k.id # ID(t.item)} \cup {[id |-> ID(t.item), data |-> t.data[1]]}
  <2>1. /\ chunk' = [chunk EXCEPT ![t.to] = C] /\ UNCHANGED <<meta, base, overwritten, acked>>
        /\ t.what = "append" /\ scenario.kind = "regular" /\ Advance(t, "written")
    BY <1>10 DEF WriteChunk
  <2>2. ID(t.item) \in AppendIDs /\ t.data[1] \in 1..writes
    BY <2>1, CallFacts, IDOf
  <2>3. C \subseteq [id : AppendIDs, data : 1..writes]
    BY <1>4, <2>2 DEF StoreOK
  <2>4. CallsOK'
    BY <1>3, <2>1, AdvanceTypes
  <2> HIDE DEF C
  <2>5. StoreOK'
    BY <1>3, <2>1, <2>3 DEF StoreOK
  <2> QED
    BY <1>3, <2>4, <2>5
<1>11. CASE ListAppend(t)
  <2> DEFINE r == AppendToFile(meta[t.to].apps, t.item)
  <2>1. /\ meta' = [meta EXCEPT ![t.to].apps = AppendToFile(@, t.item)]
        /\ acked' = acked \cup ToSet(t.data) /\ UNCHANGED <<base, chunk, overwritten>> /\ Answer(t)
        /\ t.what = "append" /\ t.phase = "written"
    BY <1>11 DEF ListAppend, Accept
  <2>2. meta[t.to] \in FileType /\ meta[t.to].apps \in Seq(AppendType)
    BY <1>4 DEF StoreOK, FileType
  <2>3. r \in Seq(AppendType)
    BY <2>1, <2>2, CallFacts, AppendToFileOf
  <2>4. meta' = [meta EXCEPT ![t.to] = [meta[t.to] EXCEPT !.apps = r]]
    BY <2>1
  <2> HIDE DEF r
  <2>5. meta' \in [Nodes -> FileType]
    BY <1>4, <2>2, <2>3, <2>4 DEF StoreOK, FileType
  <2>6. scenario.kind = "regular"
    BY <2>1 DEF CallsOK
  <2>7. StoreOK'
    BY <1>3, <1>4, <2>1, <2>5, <2>6 DEF StoreOK
  <2>8. CallsOK'
    BY <1>3, <2>1, AnswerTypes
  <2> QED
    BY <1>3, <2>7, <2>8
<1> QED
  BY <1>6, <1>7, <1>8, <1>9, <1>10, <1>11 DEF Receive

LEMMA FailTypes ==
  ASSUME AllOK, NEW t \in transfers, TransferFails(t)
  PROVE  AllOK'
<1> USE DEF AllOK
<1>1. /\ Answer(t)
      /\ UNCHANGED <<scenario, ringVars, storeVars, probing, job, clock, writes, merges,
                     crashes, acked, raced, crossed>>
  BY DEF TransferFails
<1>2. fails' \in Nat
  BY DEF TransferFails, CallFails, RingOK
<1>3. RingOK' /\ StoreOK' /\ ProbesOK' /\ JobsOK'
  BY <1>1, <1>2 DEF RingOK, StoreOK, ProbesOK, JobsOK, ringVars, storeVars
<1> QED
  BY <1>1, <1>3, AnswerTypes

----------------------------------------------------------------------------
(* Types are kept: jobs.                                                    *)

\* A good job for w keeps the jobs good.
LEMMA JobTypes ==
  ASSUME JobsOK, scenario' = scenario, NEW w \in Workers, NEW j, GoodJob(scenario.kind, j),
         job' = [job EXCEPT ![w] = j]
  PROVE  JobsOK'
<1>1. j \in JobType
  BY DEF GoodJob
<1>2. job' \in [Workers -> JobType]
  BY <1>1 DEF JobsOK
<1>3. \A v \in Workers : GoodJob(scenario.kind, job'[v])
  BY DEF JobsOK
<1> QED
  BY <1>2, <1>3 DEF JobsOK

\* What a step of a job leaves alone.
LEMMA JobStepFacts ==
  ASSUME AllOK, NEW w \in Workers, NEW pc, JobStep(w, pc), fails' \in Nat
  PROVE  /\ GoodJob(scenario.kind, job[w]) /\ job[w] \in JobType /\ job[w].pc = pc
         /\ UNCHANGED <<scenario, ringVars, probing, clock, writes, merges, crashes, acked, raced,
                      crossed>>
         /\ RingOK' /\ ProbesOK'
         /\ UNCHANGED transfers => CallsOK'
         /\ UNCHANGED storeVars => StoreOK'
<1> USE DEF AllOK
<1>1. /\ job[w].pc = pc
      /\ UNCHANGED <<scenario, ringVars, probing, clock, writes, merges, crashes, acked, raced,
                      crossed>>
  BY DEF JobStep
<1>2. GoodJob(scenario.kind, job[w]) /\ job[w] \in JobType
  BY DEF JobsOK
<1>3. RingOK' /\ ProbesOK'
  BY <1>1 DEF RingOK, ProbesOK, ringVars
<1>4. UNCHANGED transfers => CallsOK'
  BY <1>1 DEF CallsOK
<1>5. UNCHANGED storeVars => StoreOK'
  BY <1>1 DEF StoreOK, storeVars
<1> QED
  BY <1>1, <1>2, <1>3, <1>4, <1>5

LEMMA PushTypes ==
  ASSUME AllOK, NEW w \in Workers,
         PushFetch(w) \/ PushFile(w) \/ PushAppend(w) \/ PushDone(w)
  PROVE  AllOK'
<1> USE DEF AllOK
<1>0. PICK n \in Nodes : n = Home[w]
  BY HomeOf
<1>1. PICK j : j = job[w]
  OBVIOUS
<1>2. GoodJob(scenario.kind, j) /\ j \in JobType /\ meta[n] \in FileType
  BY <1>1 DEF JobsOK, StoreOK
<1>3. meta[n].apps \in Seq(AppendType) /\ (scenario.kind = "stream" => meta[n].apps = <<>>)
  BY <1>2 DEF FileType, StoreOK
<1>4. CASE PushFetch(w)
  <2>1. JobStep(w, "push") /\ UNCHANGED <<storeVars, transfers>>
    BY <1>4 DEF PushFetch
  <2>2. PICK got :
          /\ Fetched(Head(j.left), got)
          /\ job' = [job EXCEPT ![w] =
               IF ~j.mine THEN NextPush(j)
               ELSE [j EXCEPT !.pc = "pushing", !.send = got.hash # meta[n].hash,
                              !.queue = NotListed(meta[n].apps, got.apps)]]
    BY <1>0, <1>1, <1>4 DEF PushFetch
  <2>3. fails' \in Nat
    BY <2>2 DEF Fetched, CallFails, RingOK
  <2>4. j.pc = "push"
    BY <1>1, <2>1 DEF JobStep
  <2>5. j.left # <<>> /\ j.ring # <<>>
    BY <1>2, <2>4 DEF GoodJob
  <2>6. CASE ~j.mine
    <3>1. GoodJob(scenario.kind, NextPush(j)) /\ job' = [job EXCEPT ![w] = NextPush(j)]
      BY <1>2, <2>2, <2>5, <2>6, NextPushGood
    <3>2. JobsOK'
      BY <2>1, <3>1, JobTypes DEF JobStep
    <3> QED
      BY <2>1, <2>3, <3>2, JobStepFacts
  <2>7. CASE j.mine
    <3> DEFINE Q == NotListed(meta[n].apps, got.apps)
               b == got.hash # meta[n].hash
               k == [j EXCEPT !.pc = "pushing", !.send = b, !.queue = Q]
    <3>1. Q \in Seq(AppendType) /\ (scenario.kind = "stream" => Q = <<>>)
      BY <1>3, NotListedOf
    <3>2. job' = [job EXCEPT ![w] = k] /\ b \in BOOLEAN
      BY <2>2, <2>7
    <3> HIDE DEF Q, b
    <3>3. GoodJob(scenario.kind, k)
      BY <1>2, <2>5, <3>1, <3>2 DEF GoodJob, JobType
    <3> HIDE DEF k
    <3>4. JobsOK'
      BY <2>1, <3>2, <3>3, JobTypes DEF JobStep
    <3> QED
      BY <2>1, <2>3, <3>4, JobStepFacts
  <2> QED
    BY <2>6, <2>7
<1>5. ASSUME JobStep(w, "pushing")
      PROVE  Head(j.left) \in Nodes /\ j.left # <<>> /\ j.ring # <<>> /\ j.pc = "pushing"
  <2>1. j.pc = "pushing"
    BY <1>1, <1>5 DEF JobStep
  <2>2. j.left # <<>> /\ j.ring # <<>> /\ j.left \in Seq(Nodes)
    BY <1>2, <2>1 DEF GoodJob, JobType
  <2> QED
    BY <2>1, <2>2, HeadAndTail
<1>6. CASE PushFile(w)
  <2> DEFINE m == Head(j.left)
             t == Transfer(w, n, m, 1, "file", [hash |-> meta[n].hash, apps |-> <<>>], base[n])
  <2>1. /\ JobStep(w, "pushing") /\ UNCHANGED <<storeVars, fails>>
        /\ transfers' = transfers \cup {t}
        /\ job' = [job EXCEPT ![w] = [j EXCEPT !.send = FALSE]]
    BY <1>0, <1>1, <1>6 DEF PushFile, Pushing, Push
  <2>2. t \in FileCall(writes) /\ t.phase = "sent"
    <3>1. m \in Nodes /\ meta[n].hash \in Nat /\ base[n] \in Seq(1..writes)
      BY <1>2, <1>5, <2>1 DEF FileType, StoreOK
    <3>2. w \in {"client"} \cup Workers /\ 1 \in Nat
      OBVIOUS
    <3> HIDE DEF m
    <3> DEFINE h == meta[n].hash
               d == base[n]
    <3>3. h \in Nat /\ d \in Seq(1..writes)
      BY <3>1
    <3> HIDE DEF h, d
    <3>4. /\ Transfer(w, n, m, 1, "file", [hash |-> h, apps |-> <<>>], d) \in FileCall(writes)
          /\ Transfer(w, n, m, 1, "file", [hash |-> h, apps |-> <<>>], d).phase = "sent"
      BY <3>1, <3>2, <3>3, NewFileCall
    <3> QED
      BY <3>4 DEF h, d
  <2> HIDE DEF t
  <2>3. CallsOK'
    BY <2>1, <2>2 DEF CallsOK, JobStep
  <2>4. GoodJob(scenario.kind, [j EXCEPT !.send = FALSE])
    BY <1>2 DEF GoodJob, JobType
  <2>5. JobsOK'
    BY <2>1, <2>4, JobTypes DEF JobStep
  <2>6. fails' \in Nat
    BY <2>1 DEF RingOK
  <2> QED
    BY <2>1, <2>3, <2>5, <2>6, JobStepFacts
<1>7. CASE PushAppend(w)
  <2> DEFINE m == Head(j.left)
             a == Head(j.queue)
             rest == Tail(j.queue)
             Sent == {Transfer(w, n, m, 1, "append", a, <<k.data>>) :
                        k \in {k \in chunk[n] : k.id = ID(a)}}
  <2>1. /\ JobStep(w, "pushing") /\ UNCHANGED <<storeVars, fails>> /\ j.queue # <<>>
        /\ transfers' = transfers \cup Sent
        /\ job' = [job EXCEPT ![w] = [j EXCEPT !.queue = rest]]
    BY <1>0, <1>1, <1>7 DEF PushAppend, Pushing, Push
  <2>2. m \in Nodes
    BY <1>5, <2>1
  <2>3. a \in AppendType /\ rest \in Seq(AppendType)
    <3>1. j.queue \in Seq(AppendType)
      BY <1>2 DEF JobType
    <3> QED
      BY <2>1, <3>1, HeadAndTail
  <2> HIDE DEF m, a, rest
  <2>4. ASSUME NEW t \in Sent PROVE t \in AppendCall(writes) /\ t.phase = "sent"
    <3>1. PICK k \in chunk[n] : t = Transfer(w, n, m, 1, "append", a, <<k.data>>)
      OBVIOUS
    <3> DEFINE d == k.data
    <3>2. d \in 1..writes
      BY DEF StoreOK
    <3> HIDE DEF d
    <3>3. /\ Transfer(w, n, m, 1, "append", a, <<d>>) \in AppendCall(writes)
          /\ Transfer(w, n, m, 1, "append", a, <<d>>).phase = "sent"
      BY <2>2, <2>3, <3>2, NewAppendCall
    <3> QED
      BY <3>1, <3>3 DEF d
  <2> HIDE DEF Sent
  <2>5. CallsOK'
    BY <2>1, <2>4 DEF CallsOK, JobStep
  <2>6. GoodJob(scenario.kind, [j EXCEPT !.queue = rest])
    BY <1>2, <2>1, <2>3 DEF GoodJob, JobType
  <2>7. JobsOK'
    BY <2>1, <2>6, JobTypes DEF JobStep
  <2>8. fails' \in Nat
    BY <2>1 DEF RingOK
  <2> QED
    BY <2>1, <2>5, <2>7, <2>8, JobStepFacts
<1>8. CASE PushDone(w)
  <2>1. /\ JobStep(w, "pushing") /\ UNCHANGED <<storeVars, transfers, fails>>
        /\ job' = [job EXCEPT ![w] = NextPush(j)]
    BY <1>1, <1>8 DEF PushDone, Pushing
  <2>2. GoodJob(scenario.kind, NextPush(j))
    BY <1>2, <1>5, <2>1, NextPushGood
  <2>3. JobsOK'
    BY <2>1, <2>2, JobTypes DEF JobStep
  <2>4. fails' \in Nat
    BY <2>1 DEF RingOK
  <2> QED
    BY <2>1, <2>3, <2>4, JobStepFacts
<1> QED
  BY <1>4, <1>6, <1>7, <1>8

LEMMA RangeTypes ==
  ASSUME AllOK, NEW w \in Workers, GetPrimaryKeyRange(w) \/ FindSuccessors(w)
  PROVE  AllOK'
<1> USE DEF AllOK
<1>0. PICK n \in Nodes : n = Home[w]
  BY HomeOf
<1>1. PICK j : j = job[w]
  OBVIOUS
<1>2. GoodJob(scenario.kind, j) /\ j \in JobType
  BY <1>1 DEF JobsOK
<1>3. GoodJob(scenario.kind, Stabilised(j))
  BY <1>2, StabilisedGood
<1>4. fails' \in Nat /\ scenario' = scenario
  BY DEF GetPrimaryKeyRange, FindSuccessors, JobStep, RingOK
<1>5. CASE GetPrimaryKeyRange(w)
  <2> DEFINE b == Exists(n)
             k == [j EXCEPT !.pc = "succs", !.mine = b]
  <2>1. JobStep(w, "range") /\ UNCHANGED <<storeVars, transfers>>
    BY <1>5 DEF GetPrimaryKeyRange
  <2>2. job' = [job EXCEPT ![w] = k] \/ job' = [job EXCEPT ![w] = Stabilised(j)]
    BY <1>0, <1>1, <1>5 DEF GetPrimaryKeyRange
  <2>3. b \in BOOLEAN
    BY DEF Exists
  <2> HIDE DEF b
  <2>4. GoodJob(scenario.kind, k)
    BY <1>2, <2>3 DEF GoodJob, JobType
  <2> HIDE DEF k
  <2>5. JobsOK'
    BY <1>3, <1>4, <2>2, <2>4, JobTypes
  <2> QED
    BY <1>4, <2>1, <2>5, JobStepFacts
<1>6. CASE FindSuccessors(w)
  <2> DEFINE S == Successors(n)
             k == [j EXCEPT !.pc = "push", !.ring = S, !.left = S]
  <2>1. JobStep(w, "succs") /\ UNCHANGED <<storeVars, transfers>>
    BY <1>6 DEF FindSuccessors
  <2>2. \/ S # <<>> /\ job' = [job EXCEPT ![w] = k]
        \/ job' = [job EXCEPT ![w] = Stabilised(j)]
    BY <1>0, <1>1, <1>6 DEF FindSuccessors
  <2>3. S \in Seq(Nodes)
    BY SuccessorsOf DEF Successors
  <2> HIDE DEF S
  <2>4. S # <<>> => GoodJob(scenario.kind, k)
    BY <1>2, <2>3 DEF GoodJob, JobType
  <2> HIDE DEF k
  <2>5. JobsOK'
    BY <1>3, <1>4, <2>2, <2>4, JobTypes
  <2> QED
    BY <1>4, <2>1, <2>5, JobStepFacts
<1> QED
  BY <1>5, <1>6

LEMMA PullTypes ==
  ASSUME AllOK, NEW w \in Workers,
         PullFetch(w) \/ ReceiveFileFromNode(w) \/ AddFile(w) \/ PullAppends(w)
  PROVE  AllOK'
<1> USE DEF AllOK
<1>0. PICK n \in Nodes : n = Home[w]
  BY HomeOf
<1>1. PICK j : j = job[w]
  OBVIOUS
<1>2. GoodJob(scenario.kind, j) /\ j \in JobType /\ meta[n] \in FileType
  BY <1>1 DEF JobsOK, StoreOK
<1>3. ASSUME NEW pc \in {"pull", "load", "add", "pulling"}, JobStep(w, pc)
      PROVE  Head(j.left) \in Nodes /\ j.left # <<>> /\ j.ring # <<>>
  <2>1. j.pc \in {"pull", "load", "add", "pulling"}
    BY <1>1, <1>3 DEF JobStep
  <2>2. j.left # <<>> /\ j.ring # <<>> /\ j.left \in Seq(Nodes)
    BY <1>2, <2>1 DEF GoodJob, JobType
  <2> QED
    BY <2>2, HeadAndTail
<1>4. ASSUME NEW pc \in {"pull", "load", "add", "pulling"}, JobStep(w, pc)
      PROVE  GoodJob(scenario.kind, NextPull(j))
  BY <1>2, <1>3, <1>4, NextPullGood
<1>5. CASE PullFetch(w)
  <2> DEFINE m == Head(j.left)
             D(got) == IDs(got.apps) \ IDs(meta[n].apps)
             c == IF Exists(n) THEN "pulling" ELSE "load"
  <2>1. JobStep(w, "pull") /\ UNCHANGED <<storeVars, transfers>>
    BY <1>5 DEF PullFetch
  <2>2. PICK got \in Answers(m) :
          /\ Fetched(m, got)
          /\ job' = [job EXCEPT ![w] =
               IF got = NoFile THEN NextPull(j)
               ELSE [j EXCEPT !.pc = c, !.got = got.hash, !.drop = D(got)]]
    BY <1>0, <1>1, <1>5 DEF PullFetch
  <2>3. fails' \in Nat
    BY <2>2 DEF Fetched, CallFails, RingOK
  <2>4. m \in Nodes
    BY <1>3, <2>1
  <2> HIDE DEF m
  <2>5. got \in FileType
    <3>1. NoFile \in FileType
      BY ShortSeqs DEF NoFile, FileType
    <3>2. meta[m] \in FileType
      BY <2>4 DEF StoreOK
    <3>3. got = meta[m] \/ got = NoFile
      BY <2>2 DEF Answers
    <3> QED
      BY <3>1, <3>2, <3>3
  <2>6. CASE got = NoFile
    <3>1. job' = [job EXCEPT ![w] = NextPull(j)]
      BY <2>2, <2>6
    <3>2. JobsOK'
      BY <1>4, <2>1, <3>1, JobTypes DEF JobStep
    <3> QED
      BY <2>1, <2>3, <3>2, JobStepFacts
  <2>7. CASE got # NoFile
    <3> DEFINE E == D(got)
               h == got.hash
               k == [j EXCEPT !.pc = c, !.got = h, !.drop = E]
    <3>1. E \subseteq AppendIDs
      <4>1. got.apps \in Seq(AppendType)
        BY <2>5 DEF FileType
      <4>2. \A i \in DOMAIN got.apps : got.apps[i] \in AppendType
        BY <4>1
      <4> QED
        BY <4>2, IDOf DEF IDs
    <3>2. job' = [job EXCEPT ![w] = k] /\ c \in {"pulling", "load"} /\ h \in Nat
      BY <2>2, <2>5, <2>7 DEF FileType
    <3> HIDE DEF D, E, c, h
    <3>3. GoodJob(scenario.kind, k)
      BY <1>2, <1>3, <2>1, <3>1, <3>2 DEF GoodJob, JobType, AppendIDs
    <3> HIDE DEF k
    <3>4. JobsOK'
      BY <2>1, <3>2, <3>3, JobTypes DEF JobStep
    <3> QED
      BY <2>1, <2>3, <3>4, JobStepFacts
  <2> QED
    BY <2>6, <2>7
<1>7. CASE ReceiveFileFromNode(w)
  <2> DEFINE m == Head(j.left)
             got == GetFile(m)
  <2>1. JobStep(w, "load") /\ UNCHANGED <<meta, chunk, overwritten, transfers>>
    BY <1>7 DEF ReceiveFileFromNode
  <2>2. /\ fails' \in Nat
        /\ base' = [base EXCEPT ![n] = got] \/ base' = [base EXCEPT ![n] = <<>>]
        /\ \/ job' = [job EXCEPT ![w] = [j EXCEPT !.pc = "add"]]
           \/ job' = [job EXCEPT ![w] = NextPull(j)]
    BY <1>0, <1>1, <1>7 DEF ReceiveFileFromNode, CallFails, RingOK
  <2>3. m \in Nodes
    BY <1>3, <2>1
  <2> HIDE DEF m
  <2>4. got \in Seq(1..writes) /\ <<>> \in Seq(1..writes)
    BY <2>3, GetFileType, ShortSeqs
  <2> HIDE DEF got
  <2>5. StoreOK'
    BY <2>1, <2>2, <2>4 DEF StoreOK, JobStep
  <2>6. GoodJob(scenario.kind, [j EXCEPT !.pc = "add"])
    BY <1>2, <1>3, <2>1 DEF GoodJob, JobType
  <2>7. JobsOK'
    BY <1>4, <2>1, <2>2, <2>6, JobTypes DEF JobStep
  <2> QED
    BY <2>1, <2>2, <2>5, <2>7, JobStepFacts
<1>8. CASE AddFile(w)
  <2> DEFINE f == [hash |-> j.got, apps |-> <<>>]
  <2>1. /\ JobStep(w, "add") /\ UNCHANGED <<base, chunk, transfers, fails>>
        /\ meta' = [meta EXCEPT ![n] = f] /\ overwritten' = (overwritten \/ Exists(n))
        /\ job' = [job EXCEPT ![w] = [j EXCEPT !.pc = "pulling"]]
    BY <1>0, <1>1, <1>8 DEF AddFile
  <2>2. f \in FileType /\ f.apps = <<>>
    BY <1>2, ShortSeqs DEF FileType, JobType
  <2> HIDE DEF f
  <2>3. StoreOK'
    BY <2>1, <2>2 DEF StoreOK, JobStep
  <2>4. GoodJob(scenario.kind, [j EXCEPT !.pc = "pulling"])
    BY <1>2, <1>3, <2>1 DEF GoodJob, JobType
  <2>5. JobsOK'
    BY <2>1, <2>4, JobTypes DEF JobStep
  <2>6. fails' \in Nat
    BY <2>1 DEF RingOK
  <2> QED
    BY <2>1, <2>3, <2>5, <2>6, JobStepFacts
<1>6. CASE PullAppends(w)
  <2>1. /\ JobStep(w, "pulling") /\ UNCHANGED <<meta, base, overwritten, transfers, fails>>
        /\ job' = [job EXCEPT ![w] = NextPull(j)]
    BY <1>1, <1>6 DEF PullAppends
  <2>2. PICK gone : chunk' = [chunk EXCEPT ![n] = {k \in @ : k.id \notin gone}]
    BY <1>0, <1>6 DEF PullAppends
  <2>3. StoreOK'
    BY <2>1, <2>2 DEF StoreOK, JobStep
  <2>4. JobsOK'
    BY <1>4, <2>1, JobTypes DEF JobStep
  <2>5. fails' \in Nat
    BY <2>1 DEF RingOK
  <2> QED
    BY <2>1, <2>3, <2>4, <2>5, JobStepFacts
<1> QED
  BY <1>5, <1>6, <1>7, <1>8

LEMMA MergeTypes ==
  ASSUME AllOK, NEW w \in Workers, Merge(w)
  PROVE  AllOK'
<1> USE DEF AllOK
<1>0. PICK n \in Nodes : n = Home[w]
  BY HomeOf
<1>1. PICK j : j = job[w]
  OBVIOUS
<1>2. GoodJob(scenario.kind, j) /\ j \in JobType
  BY <1>1 DEF JobsOK
<1>3. ASSUME JobStep(w, "check") \/ JobStep(w, "sync") \/ JobStep(w, "update")
      PROVE  /\ j.merging /\ j.succs # <<>> /\ Head(j.succs) \in Nodes
             /\ GoodJob(scenario.kind, NextSuccessor(j))
  <2>1. j.pc \in {"check", "sync", "update"}
    BY <1>1, <1>3 DEF JobStep
  <2>2. j.merging /\ j.succs # <<>> /\ j.succs \in Seq(Nodes)
    BY <1>2, <2>1 DEF GoodJob, JobType
  <2> QED
    BY <1>2, <2>2, HeadAndTail, NextSuccessorGood
<1>4. CASE ensureRemoteFileInSync(w)
  <2> DEFINE m == Head(j.succs)
  <2>1. JobStep(w, "check") /\ UNCHANGED <<storeVars, transfers>>
    BY <1>4 DEF ensureRemoteFileInSync
  <2>2. fails' \in Nat
    BY <1>4 DEF ensureRemoteFileInSync, CallFails, RingOK
  <2>3. /\ GoodJob(scenario.kind, [j EXCEPT !.pc = "range", !.skip = TRUE])
        /\ GoodJob(scenario.kind, [j EXCEPT !.pc = "range"])
    BY <1>2 DEF GoodJob, JobType
  <2>4. GoodJob(scenario.kind, [j EXCEPT !.pc = "sync"])
    BY <1>2, <1>3, <2>1 DEF GoodJob, JobType
  <2>5. \/ job' = [job EXCEPT ![w] = NextSuccessor(j)]
        \/ job' = [job EXCEPT ![w] = [j EXCEPT !.pc = "range", !.skip = TRUE]]
        \/ job' = [job EXCEPT ![w] = [j EXCEPT !.pc = "range"]]
        \/ job' = [job EXCEPT ![w] = [j EXCEPT !.pc = "sync"]]
    BY <1>1, <1>4 DEF ensureRemoteFileInSync
  <2>6. JobsOK'
    BY <1>3, <2>1, <2>3, <2>4, <2>5, JobTypes DEF JobStep
  <2> QED
    BY <2>1, <2>2, <2>6, JobStepFacts
<1>5. CASE syncRemoteAppendOrder(w)
  <2>1. JobStep(w, "sync") /\ UNCHANGED <<storeVars, transfers>>
    BY <1>5 DEF syncRemoteAppendOrder
  <2>2. fails' \in Nat
    BY <1>5 DEF syncRemoteAppendOrder, CallFails, RingOK
  <2>3. GoodJob(scenario.kind, [j EXCEPT !.pc = "update"])
    BY <1>2, <1>3, <2>1 DEF GoodJob, JobType
  <2>4. \/ job' = [job EXCEPT ![w] = NextSuccessor(j)]
        \/ job' = [job EXCEPT ![w] = [j EXCEPT !.pc = "update"]]
    BY <1>1, <1>5 DEF syncRemoteAppendOrder
  <2>5. JobsOK'
    BY <1>3, <2>1, <2>3, <2>4, JobTypes DEF JobStep
  <2> QED
    BY <2>1, <2>2, <2>5, JobStepFacts
<1>6. CASE UpdateAppendOrder(w)
  <2> DEFINE m == Head(j.succs)
  <2>1. /\ JobStep(w, "update") /\ UNCHANGED <<base, chunk, overwritten, transfers>>
        /\ job' = [job EXCEPT ![w] = NextSuccessor(j)]
        /\ UNCHANGED meta \/ meta' = [meta EXCEPT ![m].apps = j.apps]
    BY <1>1, <1>6 DEF UpdateAppendOrder
  <2>2. fails' \in Nat
    BY <1>6 DEF UpdateAppendOrder, CallFails, RingOK
  <2>3. JobsOK'
    BY <1>3, <2>1, JobTypes DEF JobStep
  <2>4. CASE UNCHANGED meta
    BY <2>1, <2>2, <2>3, <2>4, JobStepFacts DEF storeVars
  <2>5. CASE meta' = [meta EXCEPT ![m].apps = j.apps]
    <3>1. m \in Nodes
      BY <1>3, <2>1
    <3> HIDE DEF m
    <3>2. meta' = [meta EXCEPT ![m] = [meta[m] EXCEPT !.apps = j.apps]]
      BY <2>5
    <3>3. j.apps \in Seq(AppendType) /\ (scenario.kind = "stream" => j.apps = <<>>)
      BY <1>2 DEF GoodJob, JobType
    <3>4. meta' \in [Nodes -> FileType]
      BY <3>1, <3>2, <3>3 DEF StoreOK, FileType
    <3>5. scenario.kind = "stream" => \A k \in Nodes : meta'[k].apps = <<>>
      BY <3>1, <3>2, <3>3 DEF StoreOK, FileType
    <3>6. StoreOK'
      BY <2>1, <3>4, <3>5 DEF StoreOK, JobStep
    <3> QED
      BY <2>1, <2>2, <2>3, <3>6, JobStepFacts
  <2> QED
    BY <2>1, <2>4, <2>5
<1> QED
  BY <1>4, <1>5, <1>6 DEF Merge

LEMMA MergeCommandTypes ==
  ASSUME AllOK, NEW c \in Nodes, NEW w \in Workers, handleMergeCommand(c, w)
  PROVE  AllOK'
<1> USE DEF AllOK
<1>1. PICK p : /\ p \in Serving /\ Successors(p) # <<>>
               /\ job' = [job EXCEPT ![w] = [Idle EXCEPT !.pc = "check", !.merging = TRUE,
                            !.succs = Successors(p), !.hash = meta[p].hash, !.apps = meta[p].apps]]
  BY DEF handleMergeCommand
<1>2. /\ merges' = merges + 1
      /\ UNCHANGED <<scenario, ringVars, storeVars, probing, transfers, clock, writes,
                     crashes, fails, acked>>
  BY DEF handleMergeCommand
<1>3. raced' \in BOOLEAN /\ crossed' \in BOOLEAN
  BY DEF handleMergeCommand, Race
<1>4. RingOK' /\ StoreOK' /\ ProbesOK' /\ CallsOK'
  BY <1>2, <1>3 DEF RingOK, StoreOK, ProbesOK, CallsOK, ringVars, storeVars
<1>5. p \in Nodes
  BY <1>1 DEF RingOK, Serving
<1> DEFINE S == Successors(p)
           h == meta[p].hash
           a == meta[p].apps
           k == [Idle EXCEPT !.pc = "check", !.merging = TRUE, !.succs = S, !.hash = h, !.apps = a]
<1>6. S \in Seq(Nodes) /\ S # <<>>
  BY <1>1, SuccessorsOf DEF Successors
<1>7. h \in Nat /\ a \in Seq(AppendType) /\ (scenario.kind = "stream" => a = <<>>)
  BY <1>5 DEF StoreOK, FileType
<1>8. job' = [job EXCEPT ![w] = k]
  BY <1>1
<1> HIDE DEF S, h, a
<1>9. GoodJob(scenario.kind, k)
  <2>1. GoodJob(scenario.kind, Idle)
    BY IdleIsGood
  <2> QED
    BY <1>6, <1>7, <2>1 DEF GoodJob, JobType, Idle
<1> HIDE DEF k
<1> QED
  BY <1>2, <1>4, <1>5, <1>8, <1>9, JobTypes

----------------------------------------------------------------------------
(* Types are kept: the ring changes.                                        *)

\* What a change of the ring leaves alone.
LEMMA RingStepFacts ==
  ASSUME AllOK, RingStep
  PROVE  /\ ProbesOK' /\ CallsOK'
         /\ UNCHANGED job => JobsOK'
         /\ UNCHANGED <<base, chunk>> => StoreOK'
         /\ /\ up' \subseteq Nodes /\ view' \in [Nodes -> [Nodes -> Statuses]]
            /\ joining' \in [Nodes -> SUBSET Nodes] /\ entering' \subseteq Nodes \X Nodes
            /\ pending' \in [Nodes -> SUBSET Nodes] /\ crashes' \in Nat /\ raced' \in BOOLEAN
            => RingOK'
<1> USE DEF AllOK
<1>1. UNCHANGED <<scenario, meta, overwritten, probing, transfers, clock, writes, merges, fails,
                  acked, crossed>>
  BY DEF RingStep
<1>2. ProbesOK' /\ CallsOK'
  BY <1>1 DEF ProbesOK, CallsOK
<1>3. UNCHANGED job => JobsOK'
  BY <1>1 DEF JobsOK
<1>4. UNCHANGED <<base, chunk>> => StoreOK'
  BY <1>1 DEF StoreOK
<1>5. /\ up' \subseteq Nodes /\ view' \in [Nodes -> [Nodes -> Statuses]]
      /\ joining' \in [Nodes -> SUBSET Nodes] /\ entering' \subseteq Nodes \X Nodes
      /\ pending' \in [Nodes -> SUBSET Nodes] /\ crashes' \in Nat /\ raced' \in BOOLEAN
      => RingOK'
  BY <1>1 DEF RingOK
<1> QED
  BY <1>2, <1>3, <1>4, <1>5

\* FirstOf picks a member of the set.
LEMMA FirstIsIn ==
  ASSUME NEW S \in SUBSET Nodes, S # {}
  PROVE  FirstOf(S) \in S
BY FirstIn

LEMMA RingTypes ==
  ASSUME AllOK, NEW n \in Nodes, RingChange(n)
  PROVE  AllOK'
<1> USE DEF AllOK
<1>1. CASE Crash(n)
  <2>1. /\ RingStep /\ crashes' = crashes + 1 /\ up' = up \ {n}
        /\ job' = [w \in Workers |-> IF Home[w] = n THEN Idle ELSE job[w]]
        /\ entering' \subseteq entering /\ UNCHANGED <<view, joining, pending, base, chunk>>
    BY <1>1 DEF Crash
  <2>2. raced' \in BOOLEAN
    BY <1>1 DEF Crash, Race
  <2>3. RingOK'
    BY <2>1, <2>2, RingStepFacts DEF RingOK
  <2>4. JobsOK'
    <3>1. \A w \in Workers : GoodJob(scenario.kind, job'[w])
      BY <2>1, IdleIsGood DEF JobsOK
    <3>2. scenario' = scenario /\ job' \in [Workers -> JobType]
      BY <2>1, <3>1 DEF RingStep, GoodJob
    <3> QED
      BY <3>1, <3>2 DEF JobsOK
  <2> QED
    BY <2>1, <2>3, <2>4, RingStepFacts
<1>2. CASE Join(n)
  <2> DEFINE others == Alive(view[Introducer]) \cup {n}
             first == [m \in Nodes |-> IF m = n THEN "alive" ELSE "absent"]
  <2>1. /\ RingStep /\ up' = up \cup {n}
        /\ view' = [view EXCEPT ![Introducer][n] = "alive", ![n] = first]
        /\ joining' = [joining EXCEPT ![n] = others]
        /\ UNCHANGED <<entering, pending, job, base, chunk, crashes>>
    BY <1>2 DEF Join
  <2>2. raced' \in BOOLEAN
    BY <1>2 DEF Join, Race
  <2>3. others \subseteq Nodes /\ first \in [Nodes -> Statuses]
    BY DEF Alive, Statuses
  <2> HIDE DEF others, first
  <2>4. view' \in [Nodes -> [Nodes -> Statuses]]
    BY <2>1, <2>3, NodesAssumption DEF RingOK, Statuses
  <2>5. RingOK'
    BY <2>1, <2>2, <2>3, <2>4, RingStepFacts DEF RingOK
  <2> QED
    BY <2>1, <2>5, RingStepFacts
<1>3. CASE clearHydfsFolder(n)
  <2>1. /\ RingStep /\ joining' = [joining EXCEPT ![n] = {}]
        /\ base' = [base EXCEPT ![n] = <<>>] /\ chunk' = [chunk EXCEPT ![n] = {}]
        /\ UNCHANGED <<up, view, entering, pending, job, crashes, raced>>
    BY <1>3 DEF clearHydfsFolder
  <2>2. RingOK'
    BY <2>1, RingStepFacts DEF RingOK
  <2>3. <<>> \in Seq(1..writes)
    BY ShortSeqs
  <2>4. StoreOK'
    BY <2>1, <2>3 DEF StoreOK, RingStep
  <2> QED
    BY <2>1, <2>2, <2>4, RingStepFacts
<1>4. CASE \E m \in Nodes : \/ MarkDead(n, m) \/ HearOfDeath(n, m) \/ EnterDeath(n, m)
                            \/ CleanUp(n, m) \/ EnterMember(n, m) \/ HearOfMember(n, m)
  <2>1. PICK m \in Nodes : \/ MarkDead(n, m) \/ HearOfDeath(n, m) \/ EnterDeath(n, m)
                           \/ CleanUp(n, m) \/ EnterMember(n, m) \/ HearOfMember(n, m)
    BY <1>4
  <2>2. RingStep /\ UNCHANGED <<up, job, base, chunk, crashes, raced>>
    BY <2>1 DEF MarkDead, HearOfDeath, EnterDeath, CleanUp, EnterMember, HearOfMember
  <2>3. \/ UNCHANGED view
        \/ \E s \in Statuses : view' = [view EXCEPT ![n][m] = s]
    BY <2>1 DEF MarkDead, HearOfDeath, EnterDeath, CleanUp, EnterMember, HearOfMember, Statuses
  <2>4. \/ UNCHANGED pending
        \/ pending' = [pending EXCEPT ![n] = pending[n] \cup {m}]
    BY <2>1 DEF MarkDead, HearOfDeath, EnterDeath, CleanUp, EnterMember, HearOfMember
  <2>5. entering' \subseteq entering \cup {<<n, m>>}
    BY <2>1 DEF MarkDead, HearOfDeath, EnterDeath, CleanUp, EnterMember, HearOfMember
  <2>6. UNCHANGED joining \/ joining' = [joining EXCEPT ![n] = joining[n] \ {m}]
    BY <2>1 DEF MarkDead, HearOfDeath, EnterDeath, CleanUp, EnterMember, HearOfMember
  <2>7. view' \in [Nodes -> [Nodes -> Statuses]]
    BY <2>3 DEF RingOK
  <2>8. pending' \in [Nodes -> SUBSET Nodes]
    BY <2>4 DEF RingOK
  <2>9. entering' \subseteq Nodes \X Nodes /\ joining' \in [Nodes -> SUBSET Nodes]
    BY <2>5, <2>6 DEF RingOK
  <2>10. RingOK'
    BY <2>2, <2>7, <2>8, <2>9, RingStepFacts DEF RingOK
  <2> QED
    BY <2>2, <2>10, RingStepFacts
<1> QED
  BY <1>1, <1>2, <1>3, <1>4 DEF RingChange

LEMMA WindowTypes ==
  ASSUME AllOK, NEW w \in Workers, WindowChange(w)
  PROVE  AllOK'
<1> USE DEF AllOK
<1>1. PICK m \in Nodes : handleReplicationWindowChange(w, m)
  BY DEF WindowChange
<1>2. PICK n \in Nodes : n = Home[w]
  BY HomeOf
<1> DEFINE k == [Idle EXCEPT !.pc = "range"]
<1>3. /\ RingStep /\ pending' = [pending EXCEPT ![n] = pending[n] \ {m}]
      /\ UNCHANGED <<up, view, joining, entering, base, chunk, crashes>>
      /\ job' = [job EXCEPT ![w] = k] \/ job' = job
  BY <1>1, <1>2 DEF handleReplicationWindowChange
<1>4. raced' \in BOOLEAN
  BY <1>1 DEF handleReplicationWindowChange, Race
<1>5. RingOK'
  BY <1>3, <1>4, RingStepFacts DEF RingOK
<1>6. GoodJob(scenario.kind, k)
  <2>1. GoodJob(scenario.kind, Idle)
    BY IdleIsGood
  <2> QED
    BY <2>1 DEF GoodJob, JobType, Idle
<1> HIDE DEF k
<1>7. JobsOK'
  BY <1>3, <1>6, JobTypes, RingStepFacts DEF RingStep
<1> QED
  BY <1>3, <1>5, <1>7, RingStepFacts

----------------------------------------------------------------------------
LEMMA TypeNext == AllOK /\ [Next]_vars => AllOK'
<1> SUFFICES ASSUME AllOK, [Next]_vars PROVE AllOK'
  OBVIOUS
<1>1. ASSUME NEW n \in Nodes, Client(n) PROVE AllOK'
  BY <1>1, WriteTypes, ProbeTypes, MergeCommandTypes DEF Client
<1>2. ASSUME NEW w \in Workers, Stabilisation(w) PROVE AllOK'
  BY <1>2, RangeTypes, PushTypes, PullTypes DEF Stabilisation
<1>3. ASSUME NEW w \in Workers, Merge(w) \/ WindowChange(w) PROVE AllOK'
  BY <1>3, MergeTypes, WindowTypes
<1>4. ASSUME NEW n \in Nodes, RingChange(n) PROVE AllOK'
  BY <1>4, RingTypes
<1>5. ASSUME NEW t \in transfers, Receive(t) \/ TransferFails(t) PROVE AllOK'
  BY <1>5, ReceiveTypes, FailTypes
<1>6. ASSUME UNCHANGED vars PROVE AllOK'
  BY <1>6 DEF vars, AllOK, RingOK, StoreOK, ProbesOK, CallsOK, JobsOK
<1> QED
  BY <1>1, <1>2, <1>3, <1>4, <1>5, <1>6 DEF Next, Terminating

LEMMA TypeInvariant == Spec => []AllOK
<1> QED
  BY TypeInit, TypeNext, PTL DEF Spec

\* Every variable keeps its shape through writes, lost calls, overlapping stabilisations
\* and merges, crashes and joins; a stream gets no appends of its own, and a merge never
\* runs out of successors while it goes on.
THEOREM HydfsTypeCorrect == Spec => []TypeOK
BY TypeInvariant, TypesHold, PTL

----------------------------------------------------------------------------
(* The order of the appends.                                                *)

\* A job that goes on keeps the list a merge began with, and its successors but for
\* the first; one that ends drops them.  No step but PullFetch adds to what a pull
\* is going to remove.
KeepsMerge(j, k) ==
  /\ k.apps \in {j.apps, <<>>}
  /\ k.merging => j.merging /\ k.apps = j.apps /\ k.succs \in {j.succs, Tail(j.succs)}
Continues(j, k) == KeepsMerge(j, k) /\ k.drop \subseteq j.drop

LEMMA IdleContinues ==
  ASSUME NEW j
  PROVE  Continues(j, Idle)
BY DEF Continues, KeepsMerge, Idle

LEMMA SameContinues ==
  ASSUME NEW j \in JobType, NEW k,
         k.apps = j.apps, k.drop \subseteq j.drop, k.merging = j.merging, k.succs = j.succs
  PROVE  Continues(j, k)
BY DEF Continues, KeepsMerge

LEMMA NextSuccessorContinues ==
  ASSUME NEW j \in JobType
  PROVE  Continues(j, NextSuccessor(j))
<1> DEFINE rest == Tail(j.succs)
           k == [j EXCEPT !.pc = "check", !.succs = rest, !.skip = FALSE]
<1>1. NextSuccessor(j) = Idle \/ NextSuccessor(j) = k
  BY DEF NextSuccessor
<1>2. k.apps = j.apps /\ k.drop = j.drop /\ k.merging = j.merging /\ k.succs = rest
  <2> HIDE DEF rest
  <2> QED
    BY DEF JobType
<1> HIDE DEF k
<1>3. Continues(j, k)
  BY <1>2 DEF Continues, KeepsMerge
<1> QED
  BY <1>1, <1>3, IdleContinues

LEMMA StabilisedContinues ==
  ASSUME NEW j \in JobType
  PROVE  Continues(j, Stabilised(j))
<1> DEFINE k == [j EXCEPT !.pc = "sync", !.drop = {}]
<1>1. Stabilised(j) \in {Idle, NextSuccessor(j), k}
  BY DEF Stabilised
<1>2. k.apps = j.apps /\ k.drop = {} /\ k.merging = j.merging /\ k.succs = j.succs
  BY DEF JobType
<1> HIDE DEF k
<1> QED
  BY <1>1, <1>2, IdleContinues, NextSuccessorContinues, SameContinues

LEMMA NextPushContinues ==
  ASSUME NEW j \in JobType
  PROVE  Continues(j, NextPush(j))
<1> DEFINE rest == Tail(j.left)
           k == [j EXCEPT !.pc = "push", !.left = rest]
           l == [j EXCEPT !.pc = "pull", !.left = j.ring]
<1>1. NextPush(j) = k \/ NextPush(j) = l
  BY DEF NextPush
<1>2. /\ k.apps = j.apps /\ k.drop = j.drop /\ k.merging = j.merging /\ k.succs = j.succs
      /\ l.apps = j.apps /\ l.drop = j.drop /\ l.merging = j.merging /\ l.succs = j.succs
  <2> HIDE DEF rest
  <2> QED
    BY DEF JobType
<1> HIDE DEF k, l
<1> QED
  BY <1>1, <1>2, SameContinues

LEMMA NextPullContinues ==
  ASSUME NEW j \in JobType
  PROVE  Continues(j, NextPull(j))
<1> DEFINE rest == Tail(j.left)
           k == [j EXCEPT !.pc = "pull", !.left = rest, !.drop = {}]
           l == [j EXCEPT !.drop = {}]
<1>1. NextPull(j) = k \/ NextPull(j) = Stabilised(l)
  BY DEF NextPull
<1>2. /\ k.apps = j.apps /\ k.drop = {} /\ k.merging = j.merging /\ k.succs = j.succs
      /\ l.apps = j.apps /\ l.drop = {} /\ l.merging = j.merging /\ l.succs = j.succs
      /\ l \in JobType
  <2> HIDE DEF rest
  <2> QED
    BY DEF JobType
<1> HIDE DEF k, l
<1>3. Continues(l, Stabilised(l))
  BY <1>2, StabilisedContinues
<1>4. Continues(j, Stabilised(l))
  BY <1>2, <1>3 DEF Continues, KeepsMerge
<1> QED
  BY <1>1, <1>2, <1>4, SameContinues

\* The AppendIDs a node lists.
Listed(n) == IDs(meta[n].apps)

\* One job goes on or ends; a job that begins is one that a window change asked for.
JobGoesOn(w, k) ==
  Continues(job[w], k) /\ (job[w] # Idle \/ pending[Home[w]] # {} \/ k = Idle)

\* A pull finds out what m lists and its own node does not.
PullReads(w, k) ==
  /\ PullFetch(w) /\ KeepsMerge(job[w], k) /\ job[w] # Idle
  /\ \E m \in up : k.drop = Listed(m) \ Listed(Home[w])

\* A merge begins with the list of its node.
MergeBegins(w, k) ==
  /\ \E c \in up : Home[w] = IF IsPrimary(c) THEN c ELSE Head(Targets(c))
  /\ merges' # 0 /\ job[w] = Idle /\ (crossed' \/ JobsDone)
  /\ k.drop = {} /\ k.merging /\ k.succs = Successors(Home[w]) /\ k.apps = meta[Home[w]].apps

JobChanges(w, k) == JobGoesOn(w, k) \/ PullReads(w, k) \/ MergeBegins(w, k)

\* At most one job changes, but for those of a node that crashes.
JobsGoOn ==
  \/ \A w \in Workers : job'[w] \in {job[w], Idle}
  \/ \E w \in Workers : \E k : job' = [job EXCEPT ![w] = k] /\ JobChanges(w, k)

LEMMA StabilisationGoesOn ==
  ASSUME AllOK, NEW w \in Workers, Stabilisation(w)
  PROVE  JobsGoOn
<1>0. PICK n \in Nodes : n = Home[w]
  BY HomeOf
<1>1. PICK j : j = job[w]
  OBVIOUS
<1>2. j \in JobType
  BY <1>1 DEF AllOK, JobsOK
<1>3. Continues(j, NextPush(j)) /\ Continues(j, NextPull(j)) /\ Continues(j, Stabilised(j))
  BY <1>2, NextPushContinues, NextPullContinues, StabilisedContinues
<1>4. j # Idle
  <2>1. \E pc \in {"range", "succs", "push", "pushing", "pull", "load", "add", "pulling"} :
          JobStep(w, pc)
    BY DEF Stabilisation, GetPrimaryKeyRange, FindSuccessors, PushFetch, PushFile, PushAppend,
       PushDone, Pushing, PullFetch, ReceiveFileFromNode, AddFile, PullAppends
  <2>2. j.pc # "idle"
    BY <1>1, <2>1 DEF JobStep
  <2>3. Idle.pc = "idle"
    BY DEF Idle
  <2> QED
    BY <2>2, <2>3
<1>5. ASSUME NEW k, Continues(j, k), job' = [job EXCEPT ![w] = k] PROVE JobsGoOn
  BY <1>1, <1>4, <1>5 DEF JobsGoOn, JobChanges, JobGoesOn
<1>6. CASE PushFetch(w)
  <2> DEFINE go(got) == [j EXCEPT !.pc = "pushing", !.send = got.hash # meta[n].hash,
                                  !.queue = NotListed(meta[n].apps, got.apps)]
  <2>1. \/ job' = [job EXCEPT ![w] = NextPush(j)]
        \/ \E got : job' = [job EXCEPT ![w] = go(got)]
    BY <1>0, <1>1, <1>6 DEF PushFetch
  <2>2. ASSUME NEW got PROVE Continues(j, go(got))
    <3>1. /\ go(got).apps = j.apps /\ go(got).drop = j.drop
          /\ go(got).merging = j.merging /\ go(got).succs = j.succs
      BY <1>2 DEF JobType
    <3> HIDE DEF go
    <3> QED
      BY <1>2, <3>1, SameContinues
  <2> HIDE DEF go
  <2> QED
    BY <1>3, <1>5, <2>1, <2>2
<1>7. CASE PushFile(w)
  <2>1. job' = [job EXCEPT ![w] = [j EXCEPT !.send = FALSE]]
    BY <1>1, <1>7 DEF PushFile
  <2>2. Continues(j, [j EXCEPT !.send = FALSE])
    BY <1>2 DEF Continues, KeepsMerge, JobType
  <2> QED
    BY <1>5, <2>1, <2>2
<1>8. CASE PushAppend(w)
  <2> DEFINE rest == Tail(j.queue)
  <2>1. job' = [job EXCEPT ![w] = [j EXCEPT !.queue = rest]]
    BY <1>1, <1>8 DEF PushAppend
  <2> HIDE DEF rest
  <2>2. Continues(j, [j EXCEPT !.queue = rest])
    BY <1>2 DEF Continues, KeepsMerge, JobType
  <2> QED
    BY <1>5, <2>1, <2>2
<1>9. CASE PushDone(w)
  BY <1>1, <1>3, <1>5, <1>9 DEF PushDone
<1>10. CASE PullFetch(w)
  <2> DEFINE m == Head(j.left)
  <2>1. PICK got \in Answers(m) :
          /\ Fetched(m, got)
          /\ job' = [job EXCEPT ![w] =
               IF got = NoFile THEN NextPull(j)
               ELSE [j EXCEPT !.pc = IF Exists(n) THEN "pulling" ELSE "load", !.got = got.hash,
                              !.drop = IDs(got.apps) \ IDs(meta[n].apps)]]
    BY <1>0, <1>1, <1>10 DEF PullFetch
  <2> HIDE DEF m
  <2>2. CASE got = NoFile
    BY <1>3, <1>5, <2>1, <2>2
  <2>3. CASE got # NoFile
    <3> DEFINE d == Listed(m) \ Listed(n)
               c == IF Exists(n) THEN "pulling" ELSE "load"
               h == got.hash
               k == [j EXCEPT !.pc = c, !.got = h, !.drop = d]
    <3>1. m \in up /\ got = meta[m]
      BY <2>1, <2>3 DEF Fetched, Serving
    <3>2. job' = [job EXCEPT ![w] = k]
      BY <2>1, <2>3, <3>1 DEF Listed
    <3>3. k.apps = j.apps /\ k.drop = d /\ k.merging = j.merging /\ k.succs = j.succs
      <4> HIDE DEF d, c, h
      <4> QED
        BY <1>2 DEF JobType
    <3> HIDE DEF k
    <3>4. PullReads(w, k)
      BY <1>0, <1>1, <1>4, <1>10, <3>1, <3>3 DEF PullReads, KeepsMerge
    <3> QED
      BY <3>2, <3>4 DEF JobsGoOn, JobChanges
  <2> QED
    BY <2>2, <2>3
<1>11. CASE PullAppends(w)
  BY <1>1, <1>3, <1>5, <1>11 DEF PullAppends
<1>13. CASE GetPrimaryKeyRange(w)
  <2> DEFINE b == Exists(n)
             k == [j EXCEPT !.pc = "succs", !.mine = b]
  <2>1. job' = [job EXCEPT ![w] = k] \/ job' = [job EXCEPT ![w] = Stabilised(j)]
    BY <1>0, <1>1, <1>13 DEF GetPrimaryKeyRange
  <2>2. k.apps = j.apps /\ k.drop = j.drop /\ k.merging = j.merging /\ k.succs = j.succs
    <3> HIDE DEF b
    <3> QED
      BY <1>2 DEF JobType
  <2> HIDE DEF k
  <2> QED
    BY <1>2, <1>3, <1>5, <2>1, <2>2, SameContinues
<1>14. CASE FindSuccessors(w)
  <2> DEFINE S == Successors(n)
             k == [j EXCEPT !.pc = "push", !.ring = S, !.left = S]
  <2>1. job' = [job EXCEPT ![w] = k] \/ job' = [job EXCEPT ![w] = Stabilised(j)]
    BY <1>0, <1>1, <1>14 DEF FindSuccessors
  <2>2. k.apps = j.apps /\ k.drop = j.drop /\ k.merging = j.merging /\ k.succs = j.succs
    <3> HIDE DEF S
    <3> QED
      BY <1>2 DEF JobType
  <2> HIDE DEF k
  <2> QED
    BY <1>2, <1>3, <1>5, <2>1, <2>2, SameContinues
<1>15. ASSUME NEW pc, job' = [job EXCEPT ![w] = [j EXCEPT !.pc = pc]] PROVE JobsGoOn
  <2>1. Continues(j, [j EXCEPT !.pc = pc])
    BY <1>2 DEF Continues, KeepsMerge, JobType
  <2> QED
    BY <1>5, <1>15, <2>1
<1>16. CASE ReceiveFileFromNode(w) \/ AddFile(w)
  BY <1>1, <1>3, <1>5, <1>15, <1>16 DEF ReceiveFileFromNode, AddFile
<1>12. \/ GetPrimaryKeyRange(w) \/ FindSuccessors(w) \/ ReceiveFileFromNode(w) \/ AddFile(w)
       \/ PushFetch(w) \/ PushFile(w) \/ PushAppend(w) \/ PushDone(w)
       \/ PullFetch(w) \/ PullAppends(w)
  BY DEF Stabilisation
<1> QED
  BY <1>6, <1>7, <1>8, <1>9, <1>10, <1>11, <1>12, <1>13, <1>14, <1>16

LEMMA MergeGoesOn ==
  ASSUME AllOK, NEW w \in Workers, Merge(w)
  PROVE  JobsGoOn
<1>1. PICK j : j = job[w]
  OBVIOUS
<1>2. j \in JobType
  BY <1>1 DEF AllOK, JobsOK
<1>3. Continues(j, NextSuccessor(j))
  BY <1>2, NextSuccessorContinues
<1>4. /\ Continues(j, [j EXCEPT !.pc = "sync"]) /\ Continues(j, [j EXCEPT !.pc = "update"])
      /\ Continues(j, [j EXCEPT !.pc = "range"])
      /\ Continues(j, [j EXCEPT !.pc = "range", !.skip = TRUE])
  BY <1>2 DEF Continues, KeepsMerge, JobType
<1>5. \/ job' = [job EXCEPT ![w] = NextSuccessor(j)]
      \/ job' = [job EXCEPT ![w] = [j EXCEPT !.pc = "range", !.skip = TRUE]]
      \/ job' = [job EXCEPT ![w] = [j EXCEPT !.pc = "range"]]
      \/ job' = [job EXCEPT ![w] = [j EXCEPT !.pc = "sync"]]
      \/ job' = [job EXCEPT ![w] = [j EXCEPT !.pc = "update"]]
  BY <1>1 DEF Merge, ensureRemoteFileInSync, syncRemoteAppendOrder, UpdateAppendOrder
<1>6. j # Idle
  BY <1>1 DEF Merge, ensureRemoteFileInSync, syncRemoteAppendOrder, UpdateAppendOrder, JobStep, Idle
<1>7. ASSUME NEW k, Continues(j, k), job' = [job EXCEPT ![w] = k] PROVE JobsGoOn
  BY <1>1, <1>6, <1>7 DEF JobsGoOn, JobChanges, JobGoesOn
<1> QED
  BY <1>3, <1>4, <1>5, <1>7

LEMMA JobSteps ==
  ASSUME AllOK, [Next]_vars
  PROVE  JobsGoOn
<1>1. ASSUME NEW c \in Nodes, NEW w \in Workers, handleMergeCommand(c, w) PROVE JobsGoOn
  <2> DEFINE p == IF IsPrimary(c) THEN c ELSE Head(Targets(c))
             S == Successors(p)
             h == meta[p].hash
             a == meta[p].apps
             k == [Idle EXCEPT !.pc = "check", !.merging = TRUE, !.succs = S, !.hash = h, !.apps = a]
  <2>1. /\ c \in Serving /\ p = Home[w] /\ job[w] = Idle
        /\ job' = [job EXCEPT ![w] = k] /\ merges' = merges + 1
        /\ crossed' = (crossed \/ ~JobsDone)
    BY <1>1 DEF handleMergeCommand
  <2>2. merges' # 0 /\ c \in up /\ (crossed' \/ JobsDone)
    <3>1. merges' # 0 /\ c \in up
      BY <2>1 DEF AllOK, RingOK, Serving
    <3>2. ASSUME ~JobsDone PROVE crossed'
      BY <2>1, <3>2
    <3> QED
      BY <3>1, <3>2
  <2>3. k.drop = {} /\ k.merging /\ k.succs = S /\ k.apps = a
    <3> HIDE DEF S, h, a
    <3> QED
      BY DEF Idle
  <2> HIDE DEF k
  <2>4. MergeBegins(w, k)
    BY <2>1, <2>2, <2>3 DEF MergeBegins
  <2> QED
    BY <2>1, <2>4 DEF JobsGoOn, JobChanges
<1>2. ASSUME UNCHANGED job PROVE JobsGoOn
  BY <1>2 DEF JobsGoOn
<1>3. ASSUME NEW n \in Nodes, Client(n) PROVE JobsGoOn
  <2>1. UNCHANGED job \/ \E w \in Workers : handleMergeCommand(n, w)
    BY <1>3 DEF Client, handleCreate, handleAppend, AppendOrCreateFromBuffer, BeginWrite,
       ProbeFinds, ProbeFindsNothing, ProbeCreates, ProbeStep
  <2> QED
    BY <1>1, <1>2, <2>1
<1>4. ASSUME NEW n \in Nodes, RingChange(n) PROVE JobsGoOn
  <2>1. UNCHANGED job \/ job' = [w \in Workers |-> IF Home[w] = n THEN Idle ELSE job[w]]
    BY <1>4 DEF RingChange, Crash, Join, clearHydfsFolder, MarkDead, HearOfDeath, EnterDeath,
       CleanUp, EnterMember, HearOfMember
  <2> QED
    BY <2>1 DEF JobsGoOn
<1>5. ASSUME NEW w \in Workers, WindowChange(w) PROVE JobsGoOn
  <2> DEFINE k == [Idle EXCEPT !.pc = "range"]
  <2>1. \/ UNCHANGED job
        \/ job[w] = Idle /\ pending[Home[w]] # {} /\ job' = [job EXCEPT ![w] = k]
    BY <1>5 DEF WindowChange, handleReplicationWindowChange
  <2>2. Continues(Idle, k)
    BY DEF Continues, KeepsMerge, Idle
  <2> HIDE DEF k
  <2>3. CASE job[w] = Idle /\ pending[Home[w]] # {} /\ job' = [job EXCEPT ![w] = k]
    <3>1. JobGoesOn(w, k)
      BY <2>2, <2>3 DEF JobGoesOn
    <3> QED
      BY <2>3, <3>1 DEF JobsGoOn, JobChanges
  <2> QED
    BY <1>2, <2>1, <2>3
<1>6. ASSUME NEW t \in transfers, Receive(t) \/ TransferFails(t) PROVE JobsGoOn
  BY <1>2, <1>6 DEF Receive, FileTransfer, saveFile, AppendRefused, AppendToBase, WriteChunk,
     ListAppend, HandleTransfer, TransferFails
<1>7. ASSUME UNCHANGED vars PROVE JobsGoOn
  BY <1>2, <1>7 DEF vars
<1> QED
  BY <1>3, <1>4, <1>5, <1>6, <1>7, StabilisationGoesOn, MergeGoesOn DEF Next, Terminating

\* The lists of a step: one node enters the file without appends, lists one more,
\* or gets the list that a merge began with.
ListsChange ==
  \/ UNCHANGED meta
  \/ \E n \in Nodes : \E f :
       /\ meta' = [meta EXCEPT ![n] = f]
       /\ \/ f.apps = <<>>
          \/ \E a \in AppendType : f.apps = AppendToFile(meta[n].apps, a)
          \/ \E w \in Workers : f.apps = job[w].apps

LEMMA ListSteps ==
  ASSUME AllOK, [Next]_vars
  PROVE  ListsChange
<1> USE DEF AllOK
<1>1. ASSUME NEW n \in Nodes, Client(n) \/ RingChange(n) PROVE ListsChange
  <2>1. UNCHANGED meta
    BY <1>1 DEF Client, handleCreate, handleAppend, AppendOrCreateFromBuffer, BeginWrite,
       ProbeFinds, ProbeFindsNothing, ProbeCreates, ProbeStep, handleMergeCommand, storeVars,
       RingChange, Crash, Join, clearHydfsFolder, MarkDead, HearOfDeath, EnterDeath, CleanUp,
       EnterMember, HearOfMember, RingStep
  <2> QED
    BY <2>1 DEF ListsChange
<1>2. ASSUME NEW w \in Workers, Stabilisation(w) \/ WindowChange(w) PROVE ListsChange
  <2>1. \/ UNCHANGED meta
        \/ \E h : meta' = [meta EXCEPT ![Home[w]] = [hash |-> h, apps |-> <<>>]]
    BY <1>2 DEF Stabilisation, GetPrimaryKeyRange, FindSuccessors, PushFetch, PushFile, PushAppend,
       PushDone, Pushing, PullFetch, ReceiveFileFromNode, AddFile, PullAppends, storeVars,
       WindowChange, handleReplicationWindowChange, RingStep
  <2> QED
    BY <2>1, HomeOf DEF ListsChange
<1>3. ASSUME NEW w \in Workers, Merge(w) PROVE ListsChange
  <2>1. CASE UpdateAppendOrder(w)
    <3>1. PICK m : m = Head(job[w].succs)
      OBVIOUS
    <3>2. \/ UNCHANGED meta
          \/ m \in up /\ meta' = [meta EXCEPT ![m].apps = job[w].apps]
      BY <2>1, <3>1 DEF UpdateAppendOrder, Serving
    <3>3. CASE m \in up /\ meta' = [meta EXCEPT ![m].apps = job[w].apps]
      <4>1. m \in Nodes /\ meta[m] \in FileType
        BY <3>3 DEF RingOK, StoreOK
      <4>2. meta' = [meta EXCEPT ![m] = [meta[m] EXCEPT !.apps = job[w].apps]]
        BY <3>3
      <4>3. [meta[m] EXCEPT !.apps = job[w].apps].apps = job[w].apps
        BY <4>1 DEF FileType
      <4> QED
        BY <4>1, <4>2, <4>3 DEF ListsChange
    <3> QED
      BY <3>2, <3>3 DEF ListsChange
  <2>2. CASE ensureRemoteFileInSync(w) \/ syncRemoteAppendOrder(w)
    BY <2>2 DEF ensureRemoteFileInSync, syncRemoteAppendOrder, storeVars, ListsChange
  <2> QED
    BY <1>3, <2>1, <2>2 DEF Merge
<1>4. ASSUME NEW t \in transfers, Receive(t) \/ TransferFails(t) PROVE ListsChange
  <2>1. t.to \in Nodes /\ (t.what = "append" => t.item \in AppendType)
    BY CallFacts
  <2>2. CASE saveFile(t)
    <3>1. PICK f : f.apps = <<>> /\ meta' = [meta EXCEPT ![t.to] = f]
      BY <2>2 DEF saveFile
    <3> QED
      BY <2>1, <3>1 DEF ListsChange
  <2>3. CASE ListAppend(t)
    <3> DEFINE m == t.to
               s == AppendToFile(meta[m].apps, t.item)
    <3>1. t.item \in AppendType /\ meta' = [meta EXCEPT ![m] = [meta[m] EXCEPT !.apps = s]]
      BY <2>1, <2>3 DEF ListAppend
    <3>2. [meta[m] EXCEPT !.apps = s].apps = s
      BY <2>1 DEF StoreOK, FileType
    <3> QED
      BY <2>1, <3>1, <3>2 DEF ListsChange
  <2>4. CASE FileTransfer(t) \/ AppendRefused(t) \/ AppendToBase(t) \/ WriteChunk(t) \/ TransferFails(t)
    BY <2>4 DEF FileTransfer, AppendRefused, AppendToBase, WriteChunk, TransferFails,
       storeVars, ListsChange
  <2> QED
    BY <1>4, <2>2, <2>3, <2>4 DEF Receive
<1>5. ASSUME UNCHANGED vars PROVE ListsChange
  BY <1>5 DEF vars, ListsChange
<1> QED
  BY <1>1, <1>2, <1>3, <1>4, <1>5 DEF Next, Terminating

\* The lists in the metadata, and those that merges carry.
ListsOrdered ==
  /\ \A n \in Nodes : Ordered(meta[n].apps)
  /\ \A w \in Workers : Ordered(job[w].apps)

LEMMA OrderInit == Init => ListsOrdered
<1> SUFFICES ASSUME Init PROVE ListsOrdered
  OBVIOUS
<1>1. Ordered(<<>>)
  BY DEF Ordered
<1>2. \A w \in Workers : job[w].apps = <<>>
  BY DEF Init, Idle
<1>3. ASSUME NEW n \in Nodes PROVE meta[n].apps = <<>>
  <2>1. CASE scenario.exists
    <3>1. meta[n] = [hash |-> 1, apps |-> <<>>] \/ meta[n] = NoFile
      BY <2>1 DEF Init
    <3> QED
      BY <3>1 DEF NoFile
  <2>2. CASE ~scenario.exists
    BY <2>2 DEF Init, NoFile
  <2> QED
    BY <2>1, <2>2
<1> QED
  BY <1>1, <1>2, <1>3 DEF ListsOrdered

LEMMA OrderNext == AllOK /\ ListsOrdered /\ [Next]_vars => ListsOrdered'
<1> SUFFICES ASSUME AllOK, ListsOrdered, [Next]_vars PROVE ListsOrdered'
  OBVIOUS
<1>1. Ordered(<<>>)
  BY DEF Ordered
<1>2. /\ meta \in [Nodes -> FileType] /\ job \in [Workers -> JobType]
      /\ \A n \in Nodes : meta[n].apps \in Seq(AppendType)
  BY DEF AllOK, StoreOK, JobsOK, FileType
<1>3. ASSUME NEW w \in Workers PROVE Ordered(job'[w].apps)
  <2>1. JobsGoOn
    BY JobSteps
  <2>2. CASE \A v \in Workers : job'[v] \in {job[v], Idle}
    <3>1. job'[w] = job[w] \/ job'[w].apps = <<>>
      BY <2>2 DEF Idle
    <3> QED
      BY <1>1, <3>1 DEF ListsOrdered
  <2>3. CASE \E v \in Workers : \E k : job' = [job EXCEPT ![v] = k] /\ JobChanges(v, k)
    <3>1. PICK v \in Workers : \E k : job' = [job EXCEPT ![v] = k] /\ JobChanges(v, k)
      BY <2>3
    <3> PICK k : job' = [job EXCEPT ![v] = k] /\ JobChanges(v, k)
      BY <3>1
    <3>2. k.apps \in {job[v].apps, <<>>, meta[Home[v]].apps}
      BY DEF JobChanges, JobGoesOn, PullReads, MergeBegins, Continues, KeepsMerge
    <3>3. Ordered(k.apps)
      BY <1>1, <3>2, HomeOf DEF ListsOrdered
    <3>4. job'[w] = job[w] \/ job'[w] = k
      BY <1>2
    <3> QED
      BY <3>3, <3>4 DEF ListsOrdered
  <2> QED
    BY <2>1, <2>2, <2>3 DEF JobsGoOn
<1>4. ASSUME NEW n \in Nodes PROVE Ordered(meta'[n].apps)
  <2>1. ListsChange
    BY ListSteps
  <2>2. CASE UNCHANGED meta
    BY <2>2 DEF ListsOrdered
  <2>3. CASE ~UNCHANGED meta
    <3> DEFINE Step(m, f) ==
                 /\ meta' = [meta EXCEPT ![m] = f]
                 /\ \/ f.apps = <<>>
                    \/ \E a \in AppendType : f.apps = AppendToFile(meta[m].apps, a)
                    \/ \E w \in Workers : f.apps = job[w].apps
    <3>1. PICK m \in Nodes : \E f : Step(m, f)
      BY <2>1, <2>3 DEF ListsChange
    <3> PICK f : Step(m, f)
      BY <3>1
    <3>2. Ordered(f.apps)
      BY <1>1, <1>2, AppendToFileOrdered DEF ListsOrdered
    <3>3. meta'[n] = meta[n] \/ meta'[n] = f
      BY <1>2
    <3> QED
      BY <3>2, <3>3 DEF ListsOrdered
  <2> QED
    BY <2>2, <2>3
<1> QED
  BY <1>3, <1>4 DEF ListsOrdered

\* A client's appends are listed in the order of their timestamps and once each, on
\* every node, however late a transfer arrives, however often a push repeats it, and
\* whatever list a merge puts in its place: merges carry only lists in that order.
THEOREM ClientsKeepTheirOrder == Spec => []ClientOrder
<1>1. ListsOrdered => ClientOrder
  BY DEF ListsOrdered, ClientOrder, Ordered
<1> QED
  BY <1>1, OrderInit, OrderNext, TypeInvariant, PTL DEF Spec

----------------------------------------------------------------------------
(* One primary, and every client sends to it first.                         *)

LEMMA DistinctTargets ==
  ASSUME NEW S, NEW T \in Seq(S), \A i, k \in DOMAIN T : T[i] = T[k] => i = k
  PROVE  Cardinality(ToSet(T)) = Len(T)
<1>1. Len(T) \in Nat /\ DOMAIN T = 1..Len(T)
  OBVIOUS
<1> DEFINE R == ToSet(T)
           n == Len(T)
           f == [i \in 1..n |-> T[i]]
<1>2. /\ \A i \in 1..n : f[i] \in R
      /\ \A t \in R : \E i \in 1..n : f[i] = t
      /\ \A i, k \in 1..n : f[i] = f[k] => i = k
  BY <1>1 DEF ToSet
<1>3. f \in [1..n -> R]
  BY <1>2
<1> HIDE DEF R, n, f
<1>4. f \in Bijection(1..n, R)
  BY <1>2, <1>3, Fun_IsBij
<1>5. ExistsBijection(1..n, R)
  BY <1>4 DEF ExistsBijection
<1>6. Cardinality(R) = n
  BY <1>1, <1>5, FS_CountingElements DEF n
<1> QED
  BY <1>6 DEF R, n

\* In a settled ring all lists name the same primary.
LEMMA SamePrimary ==
  ASSUME RingOK, RingSettled, NEW c \in up, NEW n \in up
  PROVE  /\ Alive(view[n]) = up /\ Alive(view[c]) = up
         /\ Primary(view[n], FileHash) = Primary(view[c], FileHash)
<1>1. Alive(view[n]) = up /\ Alive(view[c]) = up
  BY DEF RingSettled
<1> QED
  BY <1>1 DEF Primary

LEMMA PrimaryIsAgreed ==
  ASSUME RingOK, RingSettled, HashesDiffer
  PROVE  PrimaryAgreed
<1> SUFFICES
      ASSUME NEW c \in up, NEW p, p = Primary(view[c], FileHash)
      PROVE  /\ {n \in up : IsPrimary(n)} = {p}
             /\ Head(Targets(c)) = p
             /\ ToSet(Targets(c)) \subseteq Replicas(c)
             /\ Size(view[c]) >= ReplicationFactor =>
                  Cardinality(ToSet(Targets(c))) = Len(Targets(c))
  BY DEF PrimaryAgreed, Targets, Replicas
<1> DEFINE v == view[c]
           T == Targets(c)
<1>1. Alive(v) = up /\ Alive(v) # {}
  BY SamePrimary
<1>2. p \in up /\ p \in Members(v)
  BY <1>1, PrimaryAlive
<1>3. ASSUME NEW n \in up PROVE IsPrimary(n) <=> n = p
  <2>1. Alive(view[n]) = up /\ Primary(view[n], FileHash) = p
    BY SamePrimary
  <2>2. InPrimaryRange(view[n], n, FileHash) <=> n = Primary(view[n], FileHash)
    BY <2>1, FileAssumption, OnePrimary
  <2> QED
    BY <2>1, <2>2 DEF IsPrimary
<1>4. /\ T \in Seq(Alive(v)) /\ T # <<>> /\ T[1] = p
      /\ \A i \in DOMAIN T : \E k \in 0..(ReplicationFactor - 1) :
           T[i] = At(v, GetNodeIndex(v, p) + k)
      /\ Size(v) >= ReplicationFactor => \A i, k \in DOMAIN T : T[i] = T[k] => i = k
  <2>1. T = FindTargetNodes(v, FileHash)
    BY DEF Targets
  <2> HIDE DEF T
  <2> QED
    BY <1>1, <2>1, TargetsOf
<1> HIDE DEF T
<1>5. Head(T) = p
  BY <1>4
<1>6. ASSUME NEW i \in DOMAIN T PROVE T[i] \in Replicas(c)
  <2> DEFINE S == GetSuccessors(v, p)
             x == GetNodeIndex(v, p)
  <2>1. PICK k \in 0..(ReplicationFactor - 1) : T[i] = At(v, x + k)
    BY <1>4
  <2>2. T[i] \in Alive(v) /\ Replicas(c) = {p} \cup ToSet(S)
    BY <1>4 DEF Replicas, ReplicasIn
  <2>3. CASE k = 0
    <3>1. Size(v) \in Nat \ {0} /\ x \in 0..(Size(v) - 1)
      BY <1>2, Indices
    <3>2. x + k = x /\ x % Size(v) = x
      BY <2>3, <3>1, Remainder
    <3>3. At(v, x) = p
      BY <1>2, <3>1, <3>2, AtOwnIndex
    <3> QED
      BY <2>1, <2>2, <3>2, <3>3
  <2>4. CASE k # 0 /\ T[i] # p
    <3>1. k \in 1..(ReplicationFactor - 1) /\ T[i] \in Alive(v) \ {p}
      BY <2>1, <2>2, <2>4, ReplicationAssumption
    <3>2. \E j \in DOMAIN S : S[j] = T[i]
      BY <1>2, <2>1, <3>1, SuccessorsOf
    <3> QED
      BY <2>2, <3>2 DEF ToSet
  <2>5. CASE T[i] = p
    BY <2>2, <2>5
  <2> QED
    BY <2>3, <2>4, <2>5
<1>7. ToSet(T) \subseteq Replicas(c)
  BY <1>6 DEF ToSet
<1>8. Size(v) >= ReplicationFactor => Cardinality(ToSet(T)) = Len(T)
  BY <1>4, DistinctTargets
<1> QED
  BY <1>2, <1>3, <1>5, <1>7, <1>8 DEF T

\* Once every running node knows who runs, and if no two nodes have the same hash,
\* exactly one of them has the file in its primary range, every client sends there first,
\* and only to it and its successors, for any replication factor and whatever dead entries
\* are still in the lists: findTargetNodes, GetPrimaryKeyRange and GetSuccessors agree.
\* With two hashes that are the same, which 8 bits allow, several nodes take themselves
\* for the primary.
THEOREM RingAgreesOnPrimary == Spec => []PrimaryAgreed
<1>1. AllOK => PrimaryAgreed
  BY PrimaryIsAgreed DEF AllOK, PrimaryAgreed
<1> QED
  BY <1>1, TypeInvariant, PTL

----------------------------------------------------------------------------
(* Listed and stored.                                                       *)

LEMMA AppendToFileIDs ==
  ASSUME NEW s \in Seq(AppendType), NEW a \in AppendType
  PROVE  IDs(AppendToFile(s, a)) = IDs(s) \cup {ID(a)}
<1> DEFINE r == AppendToFile(s, a)
<1>1. CASE ID(a) \in IDs(s)
  BY <1>1, AppendToFileOf
<1>2. CASE ID(a) \notin IDs(s)
  <2>1. r \in Seq(AppendType)
    BY AppendToFileOf
  <2>2. PICK p \in 1..(Len(s) + 1) : Inserted(s, a, p, r)
    BY <1>2, AppendToFileOf
  <2> HIDE DEF r
  <2>3. DOMAIN r = 1..(Len(s) + 1) /\ DOMAIN s = 1..Len(s) /\ Len(s) \in Nat
    BY <2>1, <2>2 DEF Inserted
  <2>4. \A i \in DOMAIN r : r[i] = IF i < p THEN s[i] ELSE IF i = p THEN a ELSE s[i - 1]
    BY <2>2, <2>3 DEF Inserted
  <2>5. ASSUME NEW i \in DOMAIN r PROVE r[i] = a \/ \E k \in DOMAIN s : r[i] = s[k]
    <3>1. i = p \/ i \in DOMAIN s \/ i - 1 \in DOMAIN s
      BY <2>3
    <3> QED
      BY <2>3, <2>4, <3>1
  <2>6. r[p] = a /\ p \in DOMAIN r
    BY <2>3, <2>4
  <2>7. ASSUME NEW k \in DOMAIN s PROVE \E i \in DOMAIN r : r[i] = s[k]
    <3>1. CASE k < p
      BY <2>3, <2>4, <3>1
    <3>2. CASE ~(k < p)
      <4>1. k + 1 \in DOMAIN r /\ ~(k + 1 < p) /\ k + 1 # p /\ (k + 1) - 1 = k
        BY <2>3, <3>2
      <4>2. r[k + 1] = s[k]
        BY <2>4, <4>1
      <4> QED
        BY <4>1, <4>2
    <3> QED
      BY <3>1, <3>2
  <2>8. IDs(r) = IDs(s) \cup {ID(a)}
    BY <2>5, <2>6, <2>7 DEF IDs
  <2> QED
    BY <2>8 DEF r
<1> QED
  BY <1>1, <1>2

\* What the pulls of a node are about to remove, and the chunks that have been written and not listed yet.
Dropped(n) == UNION {job[w].drop : w \in {w \in Workers : Home[w] = n}}
Written == {<<t.to, ID(t.item)>> : t \in {u \in transfers : u.phase = "written"}}

\* What a step does to the lists and the chunks.
ListsStay  == \A n \in Nodes : Listed(n)' = Listed(n)
ChunksStay == \A n \in Nodes : Stored(n)' = Stored(n)
NoMoreWritten == Written' \subseteq Written

ChunkWritten(n, d) ==
  /\ n \in Serving /\ ListsStay /\ Written' \subseteq Written \cup {<<n, d>>}
  /\ Stored(n)' = Stored(n) \cup {d}
  /\ \A m \in Nodes \ {n} : Stored(m)' = Stored(m)

AppendListed(n, d) ==
  /\ n \in Serving /\ <<n, d>> \in Written /\ ChunksStay /\ NoMoreWritten
  /\ Listed(n)' = Listed(n) \cup {d}
  /\ \A m \in Nodes \ {n} : Listed(m)' = Listed(m)

ChunksRemoved(n) ==
  /\ ListsStay /\ NoMoreWritten
  /\ Stored(n)' \subseteq Stored(n) /\ Stored(n) \ Dropped(n) \subseteq Stored(n)'
  /\ \A m \in Nodes \ {n} : Stored(m)' = Stored(m)

FolderCleared(n) ==
  /\ n \in up \ Serving /\ ListsStay /\ NoMoreWritten
  /\ Stored(n)' = {}
  /\ \A m \in Nodes \ {n} : Stored(m)' = Stored(m)

ListReplaced(w, m) ==
  /\ m \in Serving /\ job[w].merging /\ m = Head(job[w].succs) /\ ChunksStay /\ NoMoreWritten
  /\ Listed(m)' = IDs(job[w].apps)
  /\ \A k \in Nodes \ {m} : Listed(k)' = Listed(k)

StoreStep ==
  \/ ListsStay /\ ChunksStay /\ NoMoreWritten
  \/ \E n \in Nodes : \E d : ChunkWritten(n, d) \/ AppendListed(n, d)
  \/ \E n \in Nodes : ChunksRemoved(n) \/ FolderCleared(n)
  \/ \E w \in Workers, m \in Nodes : ListReplaced(w, m)

LEMMA DroppedBy ==
  ASSUME NEW w \in Workers
  PROVE  job[w].drop \subseteq Dropped(Home[w])
BY DEF Dropped

LEMMA NoneWritten ==
  ASSUME \A t \in transfers' : t.phase = "written" => t \in transfers
  PROVE  NoMoreWritten
BY DEF NoMoreWritten, Written

LEMMA StoresUnchanged ==
  ASSUME UNCHANGED <<meta, chunk>>
  PROVE  ListsStay /\ ChunksStay
BY DEF ListsStay, ChunksStay, Listed, Stored

\* A file that was not there had no appends.
LEMMA FileEntered ==
  ASSUME StoreOK, NEW n \in Nodes, ~Exists(n), NEW f, f.apps = <<>>,
         meta' = [meta EXCEPT ![n] = f], UNCHANGED chunk
  PROVE  ListsStay /\ ChunksStay
<1>1. meta[n].apps = <<>>
  BY DEF Exists, NoFile
<1>2. \A m \in Nodes : meta'[m].apps = meta[m].apps
  BY <1>1 DEF StoreOK
<1> QED
  BY <1>2 DEF ListsStay, ChunksStay, Listed, Stored

LEMMA CallsSent ==
  ASSUME NEW c, NEW T, NEW what, NEW item, NEW w, SendToTargets(c, T, what, item, w)
  PROVE  NoMoreWritten
<1>1. \A i : Transfer("client", c, T[i], i, what, item, <<w>>).phase # "written"
  BY DEF Transfer
<1>2. \A t \in transfers' : t.phase = "written" => t \in transfers
  BY <1>1 DEF SendToTargets
<1> QED
  BY <1>2, NoneWritten

LEMMA ClientStoreStep ==
  ASSUME NEW n \in Nodes, Client(n)
  PROVE  StoreStep
<1>1. ListsStay /\ ChunksStay
  <2>1. UNCHANGED <<meta, chunk>>
    BY DEF Client, handleCreate, handleAppend, AppendOrCreateFromBuffer, BeginWrite,
       ProbeFinds, ProbeFindsNothing, ProbeCreates, ProbeStep, handleMergeCommand, storeVars
  <2> QED
    BY <2>1, StoresUnchanged
<1>2. NoMoreWritten
  <2>1. CASE handleCreate(n) \/ handleAppend(n) \/ ProbeFinds(n) \/ ProbeCreates(n)
    BY <2>1, CallsSent DEF handleCreate, handleAppend, ProbeFinds, ProbeCreates, SendFile, SendAppend
  <2>2. CASE \/ AppendOrCreateFromBuffer(n) \/ ProbeFindsNothing(n)
             \/ \E w \in Workers : handleMergeCommand(n, w)
    <3>1. UNCHANGED transfers
      BY <2>2 DEF AppendOrCreateFromBuffer, ProbeFindsNothing, handleMergeCommand
    <3> QED
      BY <3>1, NoneWritten
  <2> QED
    BY <2>1, <2>2 DEF Client
<1> QED
  BY <1>1, <1>2 DEF StoreStep

LEMMA ClearStores ==
  ASSUME AllOK, NEW n \in Nodes, clearHydfsFolder(n)
  PROVE  FolderCleared(n)
<1>1. /\ n \in up /\ joining[n] = {n} /\ UNCHANGED <<meta, transfers>>
      /\ chunk' = [chunk EXCEPT ![n] = {}]
  BY DEF clearHydfsFolder, RingStep
<1>2. n \in up \ Serving
  BY <1>1 DEF Serving
<1>3. chunk \in [Nodes -> SUBSET [id : AppendIDs, data : 1..writes]]
  BY DEF AllOK, StoreOK
<1>4. Stored(n)' = {} /\ \A m \in Nodes \ {n} : Stored(m)' = Stored(m)
  BY <1>1, <1>3 DEF Stored
<1>5. ListsStay /\ NoMoreWritten
  BY <1>1, NoneWritten DEF ListsStay, Listed
<1> QED
  BY <1>2, <1>4, <1>5 DEF FolderCleared

LEMMA RingStoreStep ==
  ASSUME AllOK, NEW n \in Nodes, RingChange(n)
  PROVE  StoreStep
<1>1. CASE clearHydfsFolder(n)
  BY <1>1, ClearStores DEF StoreStep
<1>2. CASE ~clearHydfsFolder(n)
  <2>1. UNCHANGED <<meta, chunk, transfers>>
    BY <1>2 DEF RingChange, Crash, Join, MarkDead, HearOfDeath, EnterDeath, CleanUp, EnterMember,
       HearOfMember, RingStep
  <2> QED
    BY <2>1, StoresUnchanged, NoneWritten DEF StoreStep
<1> QED
  BY <1>1, <1>2

LEMMA WindowStoreStep ==
  ASSUME NEW w \in Workers, WindowChange(w)
  PROVE  StoreStep
<1>1. UNCHANGED <<meta, chunk, transfers>>
  BY DEF WindowChange, handleReplicationWindowChange, RingStep
<1> QED
  BY <1>1, StoresUnchanged, NoneWritten DEF StoreStep

LEMMA AddFileStoreStep ==
  ASSUME AllOK, NEW w \in Workers, AddFile(w), ~overwritten'
  PROVE  StoreStep
<1>1. PICK n \in Nodes : n = Home[w]
  BY HomeOf
<1>2. UNCHANGED <<chunk, transfers>> /\ ~Exists(n)
  BY <1>1 DEF AddFile
<1>3. PICK f : f.apps = <<>> /\ meta' = [meta EXCEPT ![n] = f]
  BY <1>1 DEF AddFile
<1> QED
  BY <1>2, <1>3, FileEntered, NoneWritten DEF AllOK, StoreStep

\* The two steps of an append at its receiver, and the end of a pull.
LEMMA WriteChunkStores ==
  ASSUME AllOK, NEW t \in transfers, WriteChunk(t)
  PROVE  ChunkWritten(t.to, ID(t.item))
<1>1. /\ t.to \in Nodes /\ (t.what = "append" => t.item \in AppendType)
      /\ meta \in [Nodes -> FileType]
      /\ chunk \in [Nodes -> SUBSET [id : AppendIDs, data : 1..writes]]
  BY CallFacts DEF AllOK, StoreOK
<1> DEFINE d == ID(t.item)
           u == [t EXCEPT !.phase = "written"]
<1>2. /\ t.to \in Serving /\ UNCHANGED meta /\ t.what = "append"
      /\ chunk' = [chunk EXCEPT ![t.to] = {k \in chunk[t.to] : k.id # d}
                                            \cup {[id |-> d, data |-> t.data[1]]}]
      /\ transfers' = (transfers \ {t}) \cup {u}
  BY DEF WriteChunk, HandleTransfer, Advance
<1>3. u.to = t.to /\ ID(u.item) = d
  <2>1. t \in AppendCall(writes)
    BY <1>2, CallFacts DEF AllOK
  <2> QED
    BY <2>1 DEF AppendCall
<1> HIDE DEF u
<1>4. Written' \subseteq Written \cup {<<t.to, d>>}
  <2>1. ASSUME NEW x \in Written' PROVE x \in Written \cup {<<t.to, d>>}
    <3>1. PICK v \in transfers' : v.phase = "written" /\ x = <<v.to, ID(v.item)>>
      BY DEF Written
    <3>2. CASE v = u
      BY <1>3, <3>1, <3>2
    <3>3. CASE v \in transfers
      BY <3>1, <3>3 DEF Written
    <3> QED
      BY <1>2, <3>2, <3>3
  <2> QED
    BY <2>1
<1>5. ListsStay
  BY <1>2 DEF ListsStay, Listed
<1> HIDE DEF d
<1> DEFINE new == [id |-> d, data |-> t.data[1]]
<1>6. Stored(t.to)' = {k.id : k \in {k \in chunk[t.to] : k.id # d} \cup {new}}
  BY <1>1, <1>2 DEF Stored
<1>7. new.id = d
  OBVIOUS
<1> HIDE DEF new
<1>8. Stored(t.to)' = Stored(t.to) \cup {d}
  BY <1>6, <1>7 DEF Stored
<1>9. \A m \in Nodes \ {t.to} : Stored(m)' = Stored(m)
  BY <1>1, <1>2 DEF Stored
<1> QED
  BY <1>2, <1>4, <1>5, <1>8, <1>9 DEF ChunkWritten, d

LEMMA ListAppendLists ==
  ASSUME AllOK, NEW t \in transfers, ListAppend(t)
  PROVE  AppendListed(t.to, ID(t.item))
<1>1. /\ t.to \in Nodes /\ (t.what = "append" => t.item \in AppendType)
      /\ meta \in [Nodes -> FileType]
      /\ chunk \in [Nodes -> SUBSET [id : AppendIDs, data : 1..writes]]
  BY CallFacts DEF AllOK, StoreOK
<1> DEFINE s == AppendToFile(meta[t.to].apps, t.item)
           d == ID(t.item)
<1>2. /\ t.to \in Serving /\ UNCHANGED chunk /\ t.what = "append" /\ t.phase = "written" /\ Answer(t)
      /\ meta' = [meta EXCEPT ![t.to] = [meta[t.to] EXCEPT !.apps = s]]
  BY DEF ListAppend, HandleTransfer
<1>3. meta[t.to].apps \in Seq(AppendType) /\ t.item \in AppendType
  BY <1>1, <1>2 DEF FileType
<1>4. IDs(s) = IDs(meta[t.to].apps) \cup {d}
  BY <1>3, AppendToFileIDs
<1> HIDE DEF s
<1>5. /\ meta'[t.to].apps = s
      /\ \A k \in Nodes \ {t.to} : meta'[k] = meta[k]
  BY <1>1, <1>2 DEF FileType
<1>6. <<t.to, d>> \in Written
  BY <1>2 DEF Written
<1>7. ChunksStay /\ NoMoreWritten
  BY <1>2, NoneWritten DEF Answer, ChunksStay, Stored
<1> HIDE DEF d
<1> QED
  BY <1>1, <1>2, <1>4, <1>5, <1>6, <1>7 DEF AppendListed, Listed, d

LEMMA PullAppendsRemoves ==
  ASSUME AllOK, NEW w \in Workers, PullAppends(w)
  PROVE  ChunksRemoved(Home[w])
<1>0. PICK n \in Nodes : n = Home[w]
  BY HomeOf
<1>1. UNCHANGED <<meta, transfers>>
  BY DEF PullAppends
<1>2. PICK gone \in {job[w].drop, {}} :
        chunk' = [chunk EXCEPT ![n] = {k \in chunk[n] : k.id \notin gone}]
  BY <1>0 DEF PullAppends
<1>3. ListsStay /\ NoMoreWritten
  BY <1>1, NoneWritten DEF ListsStay, Listed
<1>4. chunk \in [Nodes -> SUBSET [id : AppendIDs, data : 1..writes]]
  BY DEF AllOK, StoreOK
<1>5. Stored(n)' = {k.id : k \in {k \in chunk[n] : k.id \notin gone}}
  BY <1>2, <1>4 DEF Stored
<1>6. gone \subseteq Dropped(n)
  BY <1>0, <1>2, DroppedBy
<1>7. Stored(n)' \subseteq Stored(n) /\ Stored(n) \ Dropped(n) \subseteq Stored(n)'
  BY <1>5, <1>6 DEF Stored
<1>8. \A m \in Nodes \ {n} : Stored(m)' = Stored(m)
  BY <1>2, <1>4 DEF Stored
<1> QED
  BY <1>0, <1>3, <1>7, <1>8 DEF ChunksRemoved

LEMMA StabilisationStoreStep ==
  ASSUME AllOK, NEW w \in Workers, Stabilisation(w), ~overwritten'
  PROVE  StoreStep
<1>1. CASE \/ GetPrimaryKeyRange(w) \/ FindSuccessors(w) \/ PushFetch(w) \/ PushDone(w)
           \/ PullFetch(w) \/ ReceiveFileFromNode(w)
  <2>1. UNCHANGED <<meta, chunk, transfers>>
    BY <1>1 DEF GetPrimaryKeyRange, FindSuccessors, PushFetch, PushDone, Pushing, PullFetch,
       ReceiveFileFromNode, storeVars
  <2> QED
    BY <2>1, StoresUnchanged, NoneWritten DEF StoreStep
<1>2. CASE PushFile(w) \/ PushAppend(w)
  <2>1. UNCHANGED <<meta, chunk>>
    BY <1>2 DEF PushFile, PushAppend, Pushing, storeVars
  <2>2. ASSUME NEW t \in transfers', t.phase = "written" PROVE t \in transfers
    BY <1>2, <2>2 DEF PushFile, PushAppend, Push, Transfer
  <2> QED
    BY <2>1, <2>2, StoresUnchanged, NoneWritten DEF StoreStep
<1>3. CASE AddFile(w)
  BY <1>3, AddFileStoreStep
<1>4. CASE PullAppends(w)
  BY <1>4, PullAppendsRemoves, HomeOf DEF StoreStep
<1> QED
  BY <1>1, <1>2, <1>3, <1>4 DEF Stabilisation

LEMMA MergeStoreStep ==
  ASSUME AllOK, NEW w \in Workers, Merge(w)
  PROVE  StoreStep
<1>0. PICK m : m = Head(job[w].succs)
  OBVIOUS
<1>1. CASE \/ ensureRemoteFileInSync(w) \/ syncRemoteAppendOrder(w)
           \/ UpdateAppendOrder(w) /\ UNCHANGED meta
  <2>1. UNCHANGED <<meta, chunk, transfers>>
    BY <1>1 DEF ensureRemoteFileInSync, syncRemoteAppendOrder, UpdateAppendOrder, storeVars
  <2> QED
    BY <2>1, StoresUnchanged, NoneWritten DEF StoreStep
<1>2. CASE UpdateAppendOrder(w) /\ ~UNCHANGED meta
  <2>1. /\ JobStep(w, "update") /\ UNCHANGED <<chunk, transfers>>
        /\ m \in Serving /\ meta' = [meta EXCEPT ![m].apps = job[w].apps]
    BY <1>0, <1>2 DEF UpdateAppendOrder
  <2>2. m \in Nodes /\ meta \in [Nodes -> FileType] /\ job[w].merging
    BY <2>1 DEF AllOK, RingOK, StoreOK, JobsOK, GoodJob, JobStep, Serving
  <2>3. meta' = [meta EXCEPT ![m] = [meta[m] EXCEPT !.apps = job[w].apps]]
    BY <2>1
  <2>4. /\ meta'[m].apps = job[w].apps
        /\ \A k \in Nodes \ {m} : meta'[k] = meta[k]
    BY <2>2, <2>3 DEF FileType
  <2>5. ChunksStay /\ NoMoreWritten
    BY <2>1, NoneWritten DEF ChunksStay, Stored
  <2>6. Listed(m)' = IDs(job[w].apps) /\ \A k \in Nodes \ {m} : Listed(k)' = Listed(k)
    BY <2>4 DEF Listed
  <2>7. ListReplaced(w, m)
    BY <1>0, <2>1, <2>2, <2>5, <2>6 DEF ListReplaced
  <2> QED
    BY <2>2, <2>7 DEF StoreStep
<1> QED
  BY <1>1, <1>2 DEF Merge

LEMMA CallStoreStep ==
  ASSUME AllOK, NEW t \in transfers, Receive(t) \/ TransferFails(t), ~overwritten'
  PROVE  StoreStep
<1>1. /\ t.to \in Nodes /\ (t.what = "append" => t.item \in AppendType)
      /\ meta \in [Nodes -> FileType]
      /\ chunk \in [Nodes -> SUBSET [id : AppendIDs, data : 1..writes]]
  BY CallFacts DEF AllOK, StoreOK
<1>2. ASSUME Answer(t) PROVE NoMoreWritten
  BY <1>2, NoneWritten DEF Answer
<1>3. ASSUME UNCHANGED <<meta, chunk>>, NoMoreWritten PROVE StoreStep
  BY <1>3, StoresUnchanged DEF StoreStep
<1>4. CASE TransferFails(t) \/ AppendRefused(t) \/ AppendToBase(t)
  <2>1. UNCHANGED <<meta, chunk>> /\ Answer(t)
    BY <1>4 DEF TransferFails, AppendRefused, AppendToBase, storeVars
  <2> QED
    BY <1>2, <1>3, <2>1
<1>5. CASE FileTransfer(t)
  <2>1. UNCHANGED <<meta, chunk>> /\ (Answer(t) \/ Advance(t, "checked"))
    BY <1>5 DEF FileTransfer, storeVars
  <2>2. CASE Advance(t, "checked")
    <3> DEFINE u == [t EXCEPT !.phase = "checked"]
    <3>1. t.phase = "sent"
      BY <1>5 DEF FileTransfer
    <3>2. u.phase # "written"
      <4>1. CASE t \in FileCall(writes)
        BY <4>1 DEF FileCall
      <4>2. CASE t \in AppendCall(writes)
        BY <4>2 DEF AppendCall
      <4> QED
        BY <4>1, <4>2 DEF AllOK, CallsOK
    <3>3. transfers' = (transfers \ {t}) \cup {u}
      BY <2>2 DEF Advance
    <3> HIDE DEF u
    <3>4. NoMoreWritten
      BY <3>2, <3>3, NoneWritten
    <3> QED
      BY <1>3, <2>1, <3>4
  <2> QED
    BY <1>2, <1>3, <2>1, <2>2
<1>6. CASE saveFile(t)
  <2>1. PICK f : f.apps = <<>> /\ meta' = [meta EXCEPT ![t.to] = f]
    BY <1>6 DEF saveFile
  <2>2. UNCHANGED chunk /\ Answer(t) /\ ~Exists(t.to)
    BY <1>6 DEF saveFile
  <2> QED
    BY <1>1, <1>2, <2>1, <2>2, FileEntered DEF AllOK, StoreStep
<1>7. CASE WriteChunk(t)
  BY <1>1, <1>7, WriteChunkStores DEF StoreStep
<1>8. CASE ListAppend(t)
  BY <1>1, <1>8, ListAppendLists DEF StoreStep
<1> QED
  BY <1>4, <1>5, <1>6, <1>7, <1>8 DEF Receive

LEMMA StoreSteps ==
  ASSUME AllOK, [Next]_vars, ~overwritten'
  PROVE  StoreStep
<1>1. ASSUME UNCHANGED vars PROVE StoreStep
  BY <1>1, StoresUnchanged, NoneWritten DEF vars, StoreStep
<1> QED
  BY <1>1, ClientStoreStep, RingStoreStep, WindowStoreStep, StabilisationStoreStep,
     MergeStoreStep, CallStoreStep DEF Next, Terminating

PullFound(w, m) ==
  /\ PullFetch(w) /\ job[w] # Idle
  /\ Dropped(Home[w])' \subseteq Dropped(Home[w]) \cup (Listed(m) \ Listed(Home[w]))
  /\ \A n \in Nodes \ {Home[w]} : Dropped(n)' \subseteq Dropped(n)

\* Only a pull that reads a list adds to what is going to be removed.
LEMMA DropSteps ==
  ASSUME AllOK, [Next]_vars
  PROVE  \/ \A n \in Nodes : Dropped(n)' \subseteq Dropped(n)
         \/ \E w \in Workers, m \in up : PullFound(w, m)
<1>1. job \in [Workers -> JobType]
  BY DEF AllOK, JobsOK
<1>2. ASSUME \A w \in Workers : job'[w].drop \subseteq job[w].drop
      PROVE  \A n \in Nodes : Dropped(n)' \subseteq Dropped(n)
  BY <1>2 DEF Dropped
<1>3. CASE \A w \in Workers : job'[w] \in {job[w], Idle}
  <2>1. ASSUME NEW w \in Workers PROVE job'[w].drop \subseteq job[w].drop
    BY <1>3 DEF Idle
  <2> QED
    BY <1>2, <2>1
<1>4. CASE \E w \in Workers : \E k : job' = [job EXCEPT ![w] = k] /\ JobChanges(w, k)
  <2>1. PICK w \in Workers : \E k : job' = [job EXCEPT ![w] = k] /\ JobChanges(w, k)
    BY <1>4
  <2> PICK k : job' = [job EXCEPT ![w] = k] /\ JobChanges(w, k)
    BY <2>1
  <2>2. job'[w] = k /\ \A v \in Workers \ {w} : job'[v] = job[v]
    BY <1>1
  <2>3. CASE JobGoesOn(w, k) \/ MergeBegins(w, k)
    <3>1. k.drop \subseteq job[w].drop
      BY <2>3 DEF JobGoesOn, Continues, MergeBegins
    <3> QED
      BY <1>2, <2>2, <3>1
  <2>4. CASE PullReads(w, k)
    <3>1. PICK m \in up : k.drop = Listed(m) \ Listed(Home[w])
      BY <2>4 DEF PullReads
    <3>2. Dropped(Home[w])' \subseteq Dropped(Home[w]) \cup (Listed(m) \ Listed(Home[w]))
      <4>1. ASSUME NEW v \in Workers, Home[v] = Home[w]
            PROVE  job'[v].drop \subseteq Dropped(Home[w]) \cup (Listed(m) \ Listed(Home[w]))
        BY <2>2, <3>1, <4>1 DEF Dropped
      <4> QED
        BY <4>1 DEF Dropped
    <3>3. ASSUME NEW n \in Nodes \ {Home[w]} PROVE Dropped(n)' \subseteq Dropped(n)
      <4>1. \A v \in Workers : Home[v] = n => job'[v] = job[v]
        BY <2>2, <3>3
      <4> QED
        BY <4>1 DEF Dropped
    <3> QED
      BY <2>4, <3>1, <3>2, <3>3 DEF PullReads, PullFound
  <2> QED
    BY <2>3, <2>4 DEF JobChanges
<1> QED
  BY <1>3, <1>4, JobSteps DEF JobsGoOn

----------------------------------------------------------------------------
(* What only grows.                                                         *)

\* The counts of merges and crashes; and who runs and listens, as long as nobody crashes.
LEMMA Growing ==
  ASSUME AllOK, [Next]_vars
  PROVE  /\ merges' = 0 => merges = 0
         /\ crashes' = 0 => /\ crashes = 0 /\ Serving \subseteq Serving'
                            /\ up' = up \/ \E n \in Nodes : Join(n)
         /\ ~overwritten' => ~overwritten
<1> USE DEF AllOK
<1> DEFINE Stay == UNCHANGED <<up, joining, crashes>>
           Grow == /\ crashes' \in {crashes, crashes + 1}
                   /\ crashes' = crashes => /\ Serving \subseteq Serving'
                                            /\ up' = up \/ \E n \in Nodes : Join(n)
<1>0. merges \in Nat /\ crashes \in Nat
  BY DEF RingOK
<1>1. ASSUME Stay PROVE Grow
  BY <1>1 DEF Serving
<1>2. ASSUME NEW n \in Nodes, Client(n) PROVE Stay /\ merges' \in {merges, merges + 1} /\ UNCHANGED overwritten
  BY <1>2 DEF Client, handleCreate, handleAppend, AppendOrCreateFromBuffer, BeginWrite,
     ProbeFinds, ProbeFindsNothing, ProbeCreates, ProbeStep, handleMergeCommand, ringVars, storeVars
<1>3. ASSUME NEW w \in Workers, Stabilisation(w) PROVE Stay /\ UNCHANGED merges /\ (overwritten => overwritten')
  <2>1. Stay /\ UNCHANGED merges
    BY <1>3 DEF Stabilisation, GetPrimaryKeyRange, FindSuccessors, PushFetch, PushFile, PushAppend,
       PushDone, Pushing, PullFetch, ReceiveFileFromNode, AddFile, PullAppends, JobStep, ringVars
  <2>2. CASE AddFile(w)
    <3>1. overwritten' = (overwritten \/ Exists(Home[w]))
      BY <2>2 DEF AddFile
    <3> QED
      BY <2>1, <3>1
  <2>3. CASE ~AddFile(w)
    <3>1. UNCHANGED overwritten
      BY <1>3, <2>3 DEF Stabilisation, GetPrimaryKeyRange, FindSuccessors, PushFetch, PushFile,
         PushAppend, PushDone, Pushing, PullFetch, ReceiveFileFromNode, PullAppends, storeVars
    <3> QED
      BY <2>1, <3>1
  <2> QED
    BY <2>2, <2>3
<1>4. ASSUME NEW w \in Workers, Merge(w) PROVE Stay /\ UNCHANGED <<merges, overwritten>>
  BY <1>4 DEF Merge, ensureRemoteFileInSync, syncRemoteAppendOrder, UpdateAppendOrder, JobStep,
     ringVars, storeVars
<1>5. ASSUME NEW w \in Workers, WindowChange(w) PROVE Stay /\ UNCHANGED <<merges, overwritten>>
  BY <1>5 DEF WindowChange, handleReplicationWindowChange, RingStep
<1>6. ASSUME NEW t \in transfers, Receive(t) \/ TransferFails(t)
      PROVE  Stay /\ UNCHANGED merges /\ (overwritten => overwritten')
  <2>1. Stay /\ UNCHANGED merges
    BY <1>6 DEF Receive, FileTransfer, saveFile, AppendRefused, AppendToBase, WriteChunk,
       ListAppend, HandleTransfer, TransferFails, counters, ringVars
  <2>2. CASE saveFile(t)
    <3>1. overwritten' = (overwritten \/ Exists(t.to))
      BY <2>2 DEF saveFile
    <3> QED
      BY <2>1, <3>1
  <2>3. CASE ~saveFile(t)
    <3>1. UNCHANGED overwritten
      BY <1>6, <2>3 DEF Receive, FileTransfer, AppendRefused, AppendToBase, WriteChunk, ListAppend,
         TransferFails, storeVars
    <3> QED
      BY <2>1, <3>1
  <2> QED
    BY <2>2, <2>3
<1>7. ASSUME UNCHANGED vars PROVE Stay /\ UNCHANGED <<merges, overwritten>>
  BY <1>7 DEF vars
<1>8. ASSUME NEW n \in Nodes, RingChange(n) PROVE Grow /\ UNCHANGED <<merges, overwritten>>
  <2>1. UNCHANGED <<merges, overwritten>>
    BY <1>8 DEF RingChange, Crash, Join, clearHydfsFolder, MarkDead, HearOfDeath, EnterDeath,
       CleanUp, EnterMember, HearOfMember, RingStep
  <2>2. CASE Crash(n)
    <3>1. crashes' = crashes + 1 /\ crashes' # crashes
      BY <1>0, <2>2 DEF Crash
    <3> QED
      BY <2>1, <3>1
  <2>3. CASE Join(n)
    <3>1. n \notin up /\ up' = up \cup {n} /\ UNCHANGED crashes
      BY <2>3 DEF Join
    <3>2. \A m \in up : joining'[m] = joining[m]
      BY <2>3, <3>1 DEF Join, RingOK
    <3>3. Serving \subseteq Serving'
      BY <3>1, <3>2 DEF Serving
    <3> QED
      BY <2>1, <2>3, <3>1, <3>3
  <2>4. CASE clearHydfsFolder(n) \/ \E m \in Nodes : EnterMember(n, m)
    <3>1. UNCHANGED <<up, crashes>>
      BY <2>4 DEF clearHydfsFolder, EnterMember
    <3>2. \A m \in Nodes : joining'[m] \subseteq joining[m]
      BY <2>4 DEF clearHydfsFolder, EnterMember, RingOK
    <3>3. Serving \subseteq Serving'
      BY <3>1, <3>2 DEF Serving, RingOK
    <3> QED
      BY <2>1, <3>1, <3>3
  <2>5. CASE \E m \in Nodes : MarkDead(n, m) \/ HearOfDeath(n, m) \/ EnterDeath(n, m) \/ CleanUp(n, m)
                            \/ HearOfMember(n, m)
    <3>1. Stay
      BY <2>5 DEF MarkDead, HearOfDeath, EnterDeath, CleanUp, HearOfMember
    <3> QED
      BY <2>1, <1>1, <3>1
  <2> QED
    BY <2>1, <1>8, <2>1, <2>2, <2>3, <2>4, <2>5 DEF RingChange
<1>9. Grow /\ merges' \in {merges, merges + 1} /\ (overwritten => overwritten')
  <2> HIDE DEF Grow
  <2>1. Grow
    BY <1>1, <1>2, <1>3, <1>4, <1>5, <1>6, <1>7, <1>8 DEF Next, Terminating
  <2>2. merges' \in {merges, merges + 1}
    BY <1>2, <1>3, <1>4, <1>5, <1>6, <1>7, <1>8 DEF Next, Terminating
  <2>3. overwritten => overwritten'
    BY <1>2, <1>3, <1>4, <1>5, <1>6, <1>7, <1>8 DEF Next, Terminating
  <2> QED
    BY <2>1, <2>2, <2>3
<1>10. crashes' = 0 => crashes' = crashes
  BY <1>0, <1>9
<1>11. merges' = 0 => merges = 0
  BY <1>0, <1>9
<1> QED
  BY <1>9, <1>10, <1>11

----------------------------------------------------------------------------
(* Without merges.  Whoever lists an append first has written its chunk, and no   *)
(* pull of its own has read the append from another list, nor will: it keeps the  *)
(* chunk.                                                                          *)

NoMergeOK == merges = 0 => \A w \in Workers : ~job[w].merging

\* A node that does not listen yet has no appends.
AbsentOK ==
  crashes = 0 /\ ~overwritten => \A n \in Nodes \ Serving : Listed(n) = {} /\ Stored(n) = {}

AnyListed(d) == \E m \in Nodes : d \in Listed(m)
Keeps(n, d)  == d \in Listed(n) /\ d \in Stored(n) /\ d \notin Dropped(n)

\* Each listed append has a node that keeps it; what is going to be removed is listed;
\* and a chunk that has been written is there, or listed by somebody.
KeptOK ==
  /\ \A d : AnyListed(d) => \E n \in Nodes : Keeps(n, d)
  /\ \A n \in Nodes : \A d \in Dropped(n) : AnyListed(d)
  /\ \A n \in Nodes : \A d : <<n, d>> \in Written => d \in Stored(n) \/ AnyListed(d)

UnmergedOK == crashes = 0 /\ ~overwritten /\ merges = 0 => KeptOK

LEMMA EmptyAtFirst ==
  ASSUME Init
  PROVE  /\ \A n \in Nodes : Listed(n) = {} /\ Stored(n) = {} /\ Dropped(n) = {}
         /\ Written = {} /\ \A w \in Workers : job[w] = Idle
<1>1. ASSUME NEW n \in Nodes PROVE meta[n].apps = <<>>
  <2>1. CASE scenario.exists
    <3>1. meta[n] = [hash |-> 1, apps |-> <<>>] \/ meta[n] = NoFile
      BY <2>1 DEF Init
    <3> QED
      BY <3>1 DEF NoFile
  <2>2. CASE ~scenario.exists
    BY <2>2 DEF Init, NoFile
  <2> QED
    BY <2>1, <2>2
<1>2. /\ \A n \in Nodes : chunk[n] = {}
      /\ \A w \in Workers : job[w] = Idle /\ job[w].drop = {}
  BY DEF Init, Idle
<1>3. transfers = {}
  BY DEF Init
<1>4. \A n \in Nodes : Listed(n) = {}
  BY <1>1 DEF Listed, IDs
<1>5. \A n \in Nodes : Stored(n) = {} /\ Dropped(n) = {}
  BY <1>2 DEF Stored, Dropped
<1>6. Written = {}
  BY <1>3 DEF Written
<1> QED
  BY <1>2, <1>4, <1>5, <1>6

LEMMA KeptInit == Init => NoMergeOK /\ AbsentOK /\ UnmergedOK
<1> SUFFICES ASSUME Init PROVE NoMergeOK /\ AbsentOK /\ UnmergedOK
  OBVIOUS
<1>1. NoMergeOK
  BY EmptyAtFirst DEF NoMergeOK, Idle
<1>2. AbsentOK
  BY EmptyAtFirst DEF AbsentOK
<1>3. UnmergedOK
  BY EmptyAtFirst DEF UnmergedOK, KeptOK, AnyListed
<1> QED
  BY <1>1, <1>2, <1>3

LEMMA NoMergeNext == AllOK /\ NoMergeOK /\ [Next]_vars => NoMergeOK'
<1> SUFFICES ASSUME AllOK, NoMergeOK, [Next]_vars, merges' = 0, NEW v \in Workers
             PROVE  ~job'[v].merging
  BY DEF NoMergeOK
<1>1. \A w \in Workers : ~job[w].merging
  BY Growing DEF NoMergeOK
<1>2. job \in [Workers -> JobType]
  BY DEF AllOK, JobsOK
<1>3. CASE \A w \in Workers : job'[w] \in {job[w], Idle}
  BY <1>1, <1>3 DEF Idle
<1>4. CASE \E w \in Workers : \E k : job' = [job EXCEPT ![w] = k] /\ JobChanges(w, k)
  <2>1. PICK w \in Workers : \E k : job' = [job EXCEPT ![w] = k] /\ JobChanges(w, k)
    BY <1>4
  <2> PICK k : job' = [job EXCEPT ![w] = k] /\ JobChanges(w, k)
    BY <2>1
  <2>2. ~k.merging
    BY <1>1 DEF JobChanges, JobGoesOn, PullReads, MergeBegins, Continues, KeepsMerge
  <2> QED
    BY <1>1, <1>2, <2>2
<1> QED
  BY <1>3, <1>4, JobSteps DEF JobsGoOn

\* Only nodes that listen list and store; what another one clears away is the base.
LEMMA AbsentNext == AllOK /\ AbsentOK /\ [Next]_vars => AbsentOK'
<1> SUFFICES ASSUME AllOK, AbsentOK, [Next]_vars, crashes' = 0, ~overwritten', NEW n \in Nodes \ Serving'
             PROVE  Listed(n)' = {} /\ Stored(n)' = {}
  BY DEF AbsentOK
<1>1. n \notin Serving /\ crashes = 0 /\ ~overwritten
  BY Growing
<1>2. Listed(n) = {} /\ Stored(n) = {}
  BY <1>1 DEF AbsentOK
<1>3. Listed(n)' = Listed(n) /\ Stored(n)' \subseteq Stored(n)
  BY <1>1, StoreSteps DEF StoreStep, ListsStay, ChunksStay, ChunkWritten, AppendListed,
     ChunksRemoved, FolderCleared, ListReplaced
<1> QED
  BY <1>2, <1>3

LEMMA ClearedStays ==
  ASSUME AbsentOK, crashes = 0, ~overwritten, NEW n \in Nodes, FolderCleared(n)
  PROVE  ListsStay /\ ChunksStay /\ NoMoreWritten
<1>1. Stored(n) = {} /\ Stored(n)' = {}
  BY DEF AbsentOK, FolderCleared
<1> QED
  BY <1>1 DEF FolderCleared, ChunksStay

LEMMA KeptNext == AllOK /\ NoMergeOK /\ AbsentOK /\ UnmergedOK /\ [Next]_vars => UnmergedOK'
<1> SUFFICES ASSUME AllOK, NoMergeOK, AbsentOK, UnmergedOK, [Next]_vars,
                    crashes' = 0, ~overwritten', merges' = 0
             PROVE  KeptOK'
  BY DEF UnmergedOK
<1>1. KeptOK /\ crashes = 0 /\ ~overwritten
  BY Growing DEF UnmergedOK
<1>2. \A w \in Workers : ~job[w].merging
  BY Growing DEF NoMergeOK
<1>3. StoreStep
  BY StoreSteps
<1>4. ASSUME ListsStay, ChunksStay, NoMoreWritten, \A n \in Nodes : Dropped(n)' \subseteq Dropped(n)
      PROVE  KeptOK'
  <2>1. \A d : AnyListed(d)' <=> AnyListed(d)
    BY <1>4 DEF AnyListed, ListsStay
  <2>2. \A n \in Nodes : \A d : Keeps(n, d) => Keeps(n, d)'
    BY <1>4 DEF Keeps, ListsStay, ChunksStay
  <2> QED
    BY <1>1, <1>4, <2>1, <2>2 DEF KeptOK, ChunksStay, NoMoreWritten
<1>5. ASSUME NEW n \in Nodes, NEW e, ChunkWritten(n, e), \A m \in Nodes : Dropped(m)' \subseteq Dropped(m)
      PROVE  KeptOK'
  <2>1. \A d : AnyListed(d)' <=> AnyListed(d)
    BY <1>5 DEF AnyListed, ListsStay, ChunkWritten
  <2>2. \A m \in Nodes : Stored(m) \subseteq Stored(m)'
    BY <1>5 DEF ChunkWritten
  <2>3. \A m \in Nodes : \A d : Keeps(m, d) => Keeps(m, d)'
    BY <1>5, <2>2 DEF Keeps, ListsStay, ChunkWritten
  <2>4. ASSUME NEW m \in Nodes, NEW d, <<m, d>> \in Written' PROVE d \in Stored(m)' \/ AnyListed(d)'
    <3>1. <<m, d>> \in Written \/ (m = n /\ d = e)
      BY <1>5, <2>4 DEF ChunkWritten
    <3> QED
      BY <1>1, <1>5, <2>1, <2>2, <3>1 DEF KeptOK, ChunkWritten
  <2> QED
    BY <1>1, <1>5, <2>1, <2>3, <2>4 DEF KeptOK
<1>6. ASSUME NEW n \in Nodes, NEW e, AppendListed(n, e), \A m \in Nodes : Dropped(m)' \subseteq Dropped(m)
      PROVE  KeptOK'
  <2>1. /\ \A m \in Nodes : Listed(m) \subseteq Listed(m)' /\ Listed(m)' \subseteq Listed(m) \cup {e}
        /\ \A m \in Nodes : Stored(m)' = Stored(m)
    BY <1>6 DEF AppendListed, ChunksStay
  <2>2. \A d : AnyListed(d) => AnyListed(d)'
    BY <2>1 DEF AnyListed
  <2>3. \A m \in Nodes : \A d : Keeps(m, d) => Keeps(m, d)'
    BY <1>6, <2>1 DEF Keeps
  <2>4. ASSUME NEW d, AnyListed(d)' PROVE \E m \in Nodes : Keeps(m, d)'
    <3>1. CASE AnyListed(d)
      BY <1>1, <2>3, <3>1 DEF KeptOK
    <3>2. CASE ~AnyListed(d)
      <4>1. d = e
        BY <2>1, <2>4, <3>2 DEF AnyListed
      <4>2. d \in Stored(n) /\ d \notin Dropped(n)
        BY <1>1, <1>6, <3>2, <4>1 DEF KeptOK, AppendListed
      <4>3. Keeps(n, d)'
        BY <1>6, <2>1, <4>1, <4>2 DEF Keeps, AppendListed
      <4> QED
        BY <4>3
    <3> QED
      BY <3>1, <3>2
  <2>5. ASSUME NEW m \in Nodes, NEW d, <<m, d>> \in Written' PROVE d \in Stored(m)' \/ AnyListed(d)'
    BY <1>1, <1>6, <2>1, <2>2, <2>5 DEF KeptOK, AppendListed, NoMoreWritten
  <2> QED
    BY <1>1, <1>6, <2>2, <2>4, <2>5 DEF KeptOK
<1>7. ASSUME NEW n \in Nodes, ChunksRemoved(n), \A m \in Nodes : Dropped(m)' \subseteq Dropped(m)
      PROVE  KeptOK'
  <2>1. \A d : AnyListed(d)' <=> AnyListed(d)
    BY <1>7 DEF AnyListed, ListsStay, ChunksRemoved
  <2>2. \A m \in Nodes : Stored(m) \ Dropped(m) \subseteq Stored(m)'
    BY <1>7 DEF ChunksRemoved
  <2>3. \A m \in Nodes : \A d : Keeps(m, d) => Keeps(m, d)'
    BY <1>7, <2>2 DEF Keeps, ListsStay, ChunksRemoved
  <2>4. ASSUME NEW m \in Nodes, NEW d, <<m, d>> \in Written' PROVE d \in Stored(m)' \/ AnyListed(d)'
    BY <1>1, <1>7, <2>1, <2>2, <2>4 DEF KeptOK, ChunksRemoved, NoMoreWritten
  <2> QED
    BY <1>1, <1>7, <2>1, <2>3, <2>4 DEF KeptOK
<1>8. CASE \A n \in Nodes : Dropped(n)' \subseteq Dropped(n)
  <2>1. ASSUME NEW n \in Nodes, FolderCleared(n) PROVE KeptOK'
    BY <1>1, <1>4, <1>8, <2>1, ClearedStays
  <2>2. ~\E w \in Workers, m \in Nodes : ListReplaced(w, m)
    BY <1>2 DEF ListReplaced
  <2> QED
    BY <1>3, <1>4, <1>5, <1>6, <1>7, <1>8, <2>1, <2>2 DEF StoreStep
<1>9. CASE \E w \in Workers, m \in up : PullFound(w, m)
  <2>1. PICK w \in Workers, m \in up : PullFound(w, m)
    BY <1>9
  <2>0. PICK n \in Nodes : n = Home[w]
    BY HomeOf
  <2>2. ListsStay /\ ChunksStay /\ NoMoreWritten /\ m \in Nodes
    BY <2>1, StoresUnchanged, NoneWritten DEF PullFound, PullFetch, storeVars, AllOK, RingOK
  <2>3. \A d : AnyListed(d)' <=> AnyListed(d)
    BY <2>2 DEF AnyListed, ListsStay
  <2>6. \A k \in Nodes : \A d \in Dropped(k)' :
          d \in Dropped(k) \/ (d \in Listed(m) /\ d \notin Listed(k))
    BY <2>0, <2>1 DEF PullFound
  <2>4. \A k \in Nodes : \A d : Keeps(k, d) => Keeps(k, d)'
    BY <2>2, <2>6 DEF Keeps, ListsStay, ChunksStay
  <2>5. ASSUME NEW k \in Nodes, NEW d \in Dropped(k)' PROVE AnyListed(d)'
    BY <1>1, <2>2, <2>3, <2>5, <2>6 DEF KeptOK, AnyListed
  <2> QED
    BY <1>1, <2>2, <2>3, <2>4, <2>5 DEF KeptOK, ChunksStay, NoMoreWritten
<1> QED
  BY <1>8, <1>9, DropSteps

----------------------------------------------------------------------------
(* With merges and no ring change.  All jobs are the primary's, so that only the *)
(* primary removes chunks and only its list replaces another one.  It removes     *)
(* only what another node has, and the others list nothing that it does not list  *)
(* or they do not store.                                                           *)

StartView == [n \in Nodes |-> [m \in Nodes |-> IF {m, n} \subseteq Initial THEN "alive" ELSE "absent"]]
FirstPrimary == Primary(StartView[Introducer], FileHash)

\* No node has crashed or joined.
Standing == crashes = 0 /\ up = Initial
StandingOK ==
  Standing => /\ entering = {} /\ (\A n \in Nodes : pending[n] = {} /\ joining[n] = {})
              /\ view = StartView

PrimaryJobs(p) ==
  \A w \in Workers :
    /\ Home[w] # p => job[w] = Idle
    /\ job[w].merging => job[w].succs \in Seq(Nodes \ {p}) /\ IDs(job[w].apps) \subseteq Listed(p)

StoredBesides(p, d) == \E m \in Nodes \ {p} : d \in Stored(m)
ChunksOf(p) ==
  /\ \A n \in Nodes \ {p} : Listed(n) \subseteq Stored(n) \cup Listed(p)
  /\ \A d \in Listed(p) : d \in Stored(p) \/ StoredBesides(p, d)
  /\ \A d \in Dropped(p) : StoredBesides(p, d)
  /\ \A n \in Nodes : \A d : <<n, d>> \in Written => d \in Stored(n) \/ (n = p /\ StoredBesides(p, d))

PrimaryOK ==
  Standing /\ ~overwritten /\ HashesDiffer => PrimaryJobs(FirstPrimary) /\ ChunksOf(FirstPrimary)

LEMMA StandingInit == Init => StandingOK /\ PrimaryOK
<1> SUFFICES ASSUME Init PROVE StandingOK /\ PrimaryOK
  OBVIOUS
<1>1. StandingOK
  BY DEF StandingOK, Init, StartView
<1>2. PICK p : p = FirstPrimary
  OBVIOUS
<1>3. p \in Nodes
  <2>1. Introducer \in Alive(StartView[Introducer])
    BY NodesAssumption DEF Alive, StartView
  <2> QED
    BY <1>2, <2>1, PrimaryAlive DEF FirstPrimary, Members
<1>4. PrimaryJobs(p) /\ ChunksOf(p)
  BY <1>3, EmptyAtFirst DEF PrimaryJobs, ChunksOf, Idle
<1> QED
  BY <1>1, <1>2, <1>4 DEF PrimaryOK

\* What a step of a client leaves alone, and what it may take from the budget of failures.
LEMMA ClientLeaves ==
  ASSUME NEW n \in Nodes, Client(n)
  PROVE  /\ UNCHANGED <<scenario, crashes, ringVars>>
         /\ fails' = fails \/ fails' = fails + 1
<1>1. CASE BeginWrite(n)
  BY <1>1 DEF BeginWrite, ringVars
<1>2. CASE ProbeStep(n) /\ (UNCHANGED fails \/ CallFails(Head(probing[n].left)))
  BY <1>2 DEF ProbeStep, CallFails, ringVars
<1>3. CASE \E w \in Workers : handleMergeCommand(n, w)
  BY <1>3 DEF handleMergeCommand, ringVars
<1>4. ASSUME handleCreate(n) \/ handleAppend(n) \/ AppendOrCreateFromBuffer(n) PROVE BeginWrite(n)
  BY <1>4 DEF handleCreate, handleAppend, AppendOrCreateFromBuffer
<1>5. ASSUME ProbeFinds(n) \/ ProbeCreates(n) PROVE ProbeStep(n) /\ UNCHANGED fails
  BY <1>5 DEF ProbeFinds, ProbeCreates
<1>6. ASSUME ProbeFindsNothing(n)
      PROVE  ProbeStep(n) /\ (UNCHANGED fails \/ CallFails(Head(probing[n].left)))
  BY <1>6 DEF ProbeFindsNothing
<1>7. \/ BeginWrite(n) \/ ProbeFinds(n) \/ ProbeCreates(n) \/ ProbeFindsNothing(n)
      \/ \E w \in Workers : handleMergeCommand(n, w)
  BY <1>4 DEF Client
<1> QED
  BY <1>1, <1>2, <1>3, <1>5, <1>6, <1>7

LEMMA StandingBefore ==
  ASSUME AllOK, [Next]_vars, Standing'
  PROVE  Standing /\ up' = up
<1>1. crashes = 0 /\ (up' = up \/ \E n \in Nodes : Join(n))
  BY Growing DEF Standing
<1>2. ASSUME NEW n \in Nodes, Join(n) PROVE FALSE
  BY <1>2 DEF Join, Standing
<1> QED
  BY <1>1, <1>2 DEF Standing

LEMMA NoRingChange ==
  ASSUME AllOK, StandingOK, Standing, Standing', up' = up, NEW n \in Nodes, RingChange(n)
  PROVE  FALSE
<1>1. /\ up = Initial /\ crashes = 0 /\ crashes' = 0
      /\ entering = {} /\ (\A k \in Nodes : joining[k] = {}) /\ view = StartView
  BY DEF StandingOK, Standing
<1>2. \A k, m \in Nodes : k \in Initial =>
        /\ view[k][m] = "alive" <=> m \in Initial
        /\ view[k][m] # "dead"
  BY <1>1 DEF StartView
<1>3. ~Crash(n)
  BY <1>1 DEF Crash
<1>4. ~Join(n) /\ ~clearHydfsFolder(n)
  BY <1>1 DEF Join, clearHydfsFolder
<1>5. ASSUME NEW m \in Nodes PROVE ~MarkDead(n, m) /\ ~HearOfDeath(n, m) /\ ~CleanUp(n, m)
  BY <1>1, <1>2 DEF MarkDead, HearOfDeath, CleanUp, Serving
<1>6. ASSUME NEW m \in Nodes PROVE ~EnterDeath(n, m) /\ ~EnterMember(n, m)
  BY <1>1 DEF EnterDeath, EnterMember
<1>7. ASSUME NEW m \in Nodes PROVE ~HearOfMember(n, m)
  <2>1. n \in up /\ m \in up => view[n][m] # "absent"
    BY <1>1, <1>2
  <2> QED
    BY <2>1 DEF HearOfMember, Serving
<1> QED
  BY <1>3, <1>4, <1>5, <1>6, <1>7 DEF RingChange

LEMMA StandingNext == AllOK /\ StandingOK /\ [Next]_vars => StandingOK'
<1> SUFFICES ASSUME AllOK, StandingOK, [Next]_vars, Standing'
             PROVE  UNCHANGED <<entering, pending, joining, view>>
  BY StandingBefore DEF StandingOK
<1>1. Standing /\ up' = up
  BY StandingBefore
<1>2. ASSUME NEW n \in Nodes, Client(n) PROVE UNCHANGED ringVars
  BY <1>2, ClientLeaves
<1>3. ASSUME NEW w \in Workers, Stabilisation(w) \/ Merge(w) PROVE UNCHANGED ringVars
  BY <1>3 DEF Stabilisation, GetPrimaryKeyRange, FindSuccessors, PushFetch, PushFile, PushAppend,
     PushDone, Pushing, PullFetch, ReceiveFileFromNode, AddFile, PullAppends,
     Merge, ensureRemoteFileInSync, syncRemoteAppendOrder, UpdateAppendOrder, JobStep
<1>4. ASSUME NEW n \in Nodes, RingChange(n) PROVE FALSE
  BY <1>1, <1>4, NoRingChange
<1>7. ASSUME NEW w \in Workers, WindowChange(w) PROVE FALSE
  BY <1>1, <1>7, HomeOf DEF StandingOK, WindowChange, handleReplicationWindowChange
<1>5. ASSUME NEW t \in transfers, Receive(t) \/ TransferFails(t) PROVE UNCHANGED ringVars
  BY <1>5 DEF Receive, FileTransfer, saveFile, AppendRefused, AppendToBase, WriteChunk,
     ListAppend, HandleTransfer, TransferFails
<1>6. ASSUME UNCHANGED vars PROVE UNCHANGED ringVars
  BY <1>6 DEF vars, ringVars
<1> QED
  BY <1>2, <1>3, <1>4, <1>5, <1>6, <1>7 DEF Next, Terminating, ringVars

LEMMA FirstIsPrimary ==
  ASSUME AllOK, StandingOK, Standing, HashesDiffer, NEW p, p = FirstPrimary
  PROVE  /\ p \in up /\ p \in Nodes /\ p \in Members(view[p])
         /\ \A c \in up : p = IF IsPrimary(c) THEN c ELSE Head(Targets(c))
<1>1. up = Initial /\ view = StartView /\ RingSettled
  <2>1. \A n \in Initial : Alive(StartView[n]) = Initial
    BY NodesAssumption DEF Alive, StartView
  <2> QED
    BY <2>1 DEF StandingOK, Standing, RingSettled, AllOK, RingOK
<1>2. Introducer \in up /\ p = Primary(view[Introducer], FileHash)
  BY <1>1, NodesAssumption DEF FirstPrimary
<1>3. PrimaryAgreed
  BY <1>1, PrimaryIsAgreed DEF AllOK
<1>4. ASSUME NEW c \in up PROVE Primary(view[c], FileHash) = p
  BY <1>1, <1>2, SamePrimary DEF AllOK
<1>5. ASSUME NEW c \in up PROVE {n \in up : IsPrimary(n)} = {p} /\ Head(Targets(c)) = p
  BY <1>1, <1>3, <1>4 DEF PrimaryAgreed, Targets
<1>6. p \in up
  BY <1>2, <1>5
<1>7. p \in Nodes /\ p \in Members(view[p])
  <2>1. Alive(view[p]) = up
    BY <1>6, SamePrimary, <1>1 DEF AllOK
  <2> QED
    BY <1>6, <2>1 DEF Members, Alive
<1>8. ASSUME NEW c \in up PROVE p = IF IsPrimary(c) THEN c ELSE Head(Targets(c))
  BY <1>5
<1> QED
  BY <1>6, <1>7, <1>8

\* Only lists of other nodes are replaced.
LEMMA PrimaryListGrows ==
  ASSUME AllOK, [Next]_vars, NEW p \in Nodes, PrimaryJobs(p), ~overwritten'
  PROVE  Listed(p) \subseteq Listed(p)'
<1>1. ASSUME NEW w \in Workers, NEW m \in Nodes, ListReplaced(w, m) PROVE m # p
  <2>1. job[w].succs \in Seq(Nodes \ {p}) /\ job[w].succs # <<>>
    BY <1>1 DEF ListReplaced, PrimaryJobs, AllOK, JobsOK, GoodJob
  <2>2. Head(job[w].succs) \in Nodes \ {p}
    BY <2>1, HeadAndTail
  <2> QED
    BY <1>1, <2>2 DEF ListReplaced
<1> QED
  BY <1>1, StoreSteps DEF StoreStep, ListsStay, ChunkWritten, AppendListed, ChunksRemoved,
     FolderCleared, ListReplaced

\* Only the primary has a job, and a merge never goes to the primary itself.
LEMMA PrimaryJobsNext ==
  ASSUME AllOK, StandingOK, Standing, HashesDiffer, [Next]_vars, NEW p, p = FirstPrimary,
         PrimaryJobs(p), ~overwritten'
  PROVE  PrimaryJobs(p)'
<1>1. p \in Nodes /\ p \in Members(view[p]) /\ job \in [Workers -> JobType]
  BY FirstIsPrimary DEF AllOK, JobsOK
<1>2. Listed(p) \subseteq Listed(p)'
  BY <1>1, PrimaryListGrows
<1> DEFINE Good(k) == k.merging => k.succs \in Seq(Nodes \ {p}) /\ IDs(k.apps) \subseteq Listed(p)'
<1>3. ASSUME NEW w \in Workers PROVE Good(job[w])
  BY <1>2 DEF PrimaryJobs
<1>4. Good(Idle)
  BY DEF Idle
<1>5. CASE \A w \in Workers : job'[w] \in {job[w], Idle}
  <2>1. \A w \in Workers : Good(job'[w])
    <3> HIDE DEF Good
    <3> QED
      BY <1>3, <1>4, <1>5
  <2>2. \A w \in Workers : Home[w] # p => job'[w] = Idle
    BY <1>5 DEF PrimaryJobs
  <2> QED
    BY <2>1, <2>2 DEF PrimaryJobs
<1>6. CASE \E w \in Workers : \E k : job' = [job EXCEPT ![w] = k] /\ JobChanges(w, k)
  <2>1. PICK w \in Workers : \E k : job' = [job EXCEPT ![w] = k] /\ JobChanges(w, k)
    BY <1>6
  <2> PICK k : job' = [job EXCEPT ![w] = k] /\ JobChanges(w, k)
    BY <2>1
  <2>2. job'[w] = k /\ \A v \in Workers \ {w} : job'[v] = job[v]
    BY <1>1
  <2>3. Home[w] # p => k = Idle
    <3>1. MergeBegins(w, k) => Home[w] = p
      BY FirstIsPrimary DEF MergeBegins
    <3>2. Home[w] # p => job[w] = Idle /\ pending[Home[w]] = {}
      BY HomeOf DEF PrimaryJobs, StandingOK
    <3> QED
      BY <3>1, <3>2 DEF JobChanges, JobGoesOn, PullReads
  <2>4. Good(k)
    <3> SUFFICES ASSUME k.merging
                 PROVE  k.succs \in Seq(Nodes \ {p}) /\ IDs(k.apps) \subseteq Listed(p)'
      OBVIOUS
    <3>1. CASE JobGoesOn(w, k) \/ PullReads(w, k)
      <4>1. job[w].merging /\ k.apps = job[w].apps /\ k.succs \in {job[w].succs, Tail(job[w].succs)}
        BY <3>1 DEF JobGoesOn, PullReads, Continues, KeepsMerge
      <4>2. job[w].succs \in Seq(Nodes \ {p}) /\ job[w].succs # <<>>
        BY <4>1 DEF PrimaryJobs, AllOK, JobsOK, GoodJob
      <4>3. Tail(job[w].succs) \in Seq(Nodes \ {p})
        BY <4>2, HeadAndTail
      <4> QED
        BY <1>3, <4>1, <4>2, <4>3
    <3>2. CASE MergeBegins(w, k)
      <4>0. Home[w] = p
        BY <2>3, <3>2, FirstIsPrimary DEF MergeBegins
      <4>1. k.succs = GetSuccessors(view[p], p) /\ IDs(k.apps) = Listed(p)
        BY <3>2, <4>0 DEF MergeBegins, Successors, Listed
      <4>2. k.succs \in Seq(Members(view[p]) \ {p})
        BY <1>1, <4>1, NotItsOwnSuccessor
      <4>3. k.succs \in Seq(Nodes \ {p})
        <5>1. Members(view[p]) \ {p} \subseteq Nodes \ {p}
          BY DEF Members
        <5> QED
          BY <4>2, <5>1, SeqOfMore
      <4> QED
        BY <1>2, <4>1, <4>3
    <3> QED
      BY <3>1, <3>2 DEF JobChanges
  <2>5. \A v \in Workers : Home[v] # p => job'[v] = Idle
    BY <2>2, <2>3 DEF PrimaryJobs
  <2>6. \A v \in Workers : Good(job'[v])
    <3> HIDE DEF Good
    <3> QED
      BY <1>3, <2>2, <2>4
  <2> QED
    BY <2>5, <2>6 DEF PrimaryJobs
<1> QED
  BY <1>5, <1>6, JobSteps DEF JobsGoOn

LEMMA ChunksOfNext ==
  ASSUME AllOK, up \subseteq Serving, [Next]_vars, NEW p \in Nodes, PrimaryJobs(p), ChunksOf(p),
         ~overwritten'
  PROVE  ChunksOf(p)'
<1>1. \A n \in Nodes \ {p} : Dropped(n) = {}
  <2>1. \A w \in Workers : Home[w] # p => job[w].drop = {}
    BY DEF PrimaryJobs, Idle
  <2> QED
    BY <2>1 DEF Dropped
<1>2. ASSUME \A n \in Nodes : Listed(n)' = Listed(n), \A n \in Nodes \ {p} : Stored(n) \subseteq Stored(n)',
             Stored(p) \ Dropped(p) \subseteq Stored(p)', \A d \in Dropped(p)' : StoredBesides(p, d),
             \A n \in Nodes : \A d : <<n, d>> \in Written' => <<n, d>> \in Written \/ d \in Stored(n)'
      PROVE  ChunksOf(p)'
  <2>1. \A d : StoredBesides(p, d) => StoredBesides(p, d)'
    BY <1>2 DEF StoredBesides
  <2>2. \A d \in Stored(p) : d \in Stored(p)' \/ StoredBesides(p, d)'
    BY <1>2, <2>1 DEF ChunksOf
  <2>3. \A n \in Nodes \ {p} : Listed(n)' \subseteq Stored(n)' \cup Listed(p)'
    BY <1>2 DEF ChunksOf
  <2>4. \A d \in Listed(p)' : d \in Stored(p)' \/ StoredBesides(p, d)'
    BY <1>2, <2>1, <2>2 DEF ChunksOf
  <2>5. ASSUME NEW n \in Nodes, NEW d, <<n, d>> \in Written'
        PROVE  d \in Stored(n)' \/ (n = p /\ StoredBesides(p, d)')
    <3>1. CASE <<n, d>> \in Written
      BY <1>2, <2>1, <2>2, <3>1 DEF ChunksOf
    <3> QED
      BY <1>2, <2>5, <3>1
  <2> QED
    BY <1>2, <2>1, <2>3, <2>4, <2>5 DEF ChunksOf
<1>3. ASSUME \A n \in Nodes : Dropped(n)' \subseteq Dropped(n) PROVE ChunksOf(p)'
  <2>1. \A d \in Dropped(p)' : StoredBesides(p, d)
    BY <1>3 DEF ChunksOf
  <2>2. CASE ListsStay /\ ChunksStay /\ NoMoreWritten
    BY <1>2, <2>1, <2>2 DEF ListsStay, ChunksStay, NoMoreWritten
  <2>3. ASSUME NEW n \in Nodes, NEW e, ChunkWritten(n, e) PROVE ChunksOf(p)'
    <3>1. \A m \in Nodes : Stored(m) \subseteq Stored(m)' /\ Listed(m)' = Listed(m)
      BY <2>3 DEF ChunkWritten, ListsStay
    <3>2. \A m \in Nodes : \A d : <<m, d>> \in Written' => <<m, d>> \in Written \/ d \in Stored(m)'
      BY <2>3 DEF ChunkWritten
    <3> QED
      BY <1>2, <2>1, <3>1, <3>2
  <2>4. ASSUME NEW n \in Nodes, NEW e, AppendListed(n, e) PROVE ChunksOf(p)'
    <3>1. /\ \A m \in Nodes : Stored(m)' = Stored(m)
          /\ \A m \in Nodes \ {n} : Listed(m)' = Listed(m)
          /\ Listed(n)' = Listed(n) \cup {e}
          /\ Written' \subseteq Written
      BY <2>4 DEF AppendListed, ChunksStay, NoMoreWritten
    <3>2. e \in Stored(n) \/ (n = p /\ StoredBesides(p, e))
      BY <2>4 DEF AppendListed, ChunksOf
    <3>3. \A d : StoredBesides(p, d) <=> StoredBesides(p, d)'
      BY <3>1 DEF StoredBesides
    <3>4. Listed(p) \subseteq Listed(p)'
      BY <3>1
    <3>5. \A m \in Nodes \ {p} : Listed(m)' \subseteq Stored(m)' \cup Listed(p)'
      BY <3>1, <3>2, <3>4 DEF ChunksOf
    <3>6. \A d \in Listed(p)' : d \in Stored(p)' \/ StoredBesides(p, d)'
      BY <3>1, <3>2, <3>3 DEF ChunksOf
    <3> QED
      BY <2>1, <3>1, <3>3, <3>5, <3>6 DEF ChunksOf
  <2>5. ASSUME NEW n \in Nodes, ChunksRemoved(n) PROVE ChunksOf(p)'
    <3>1. \A m \in Nodes : Listed(m)' = Listed(m) /\ Stored(m) \ Dropped(m) \subseteq Stored(m)'
      BY <2>5 DEF ChunksRemoved, ListsStay
    <3>2. \A m \in Nodes \ {p} : Stored(m) \subseteq Stored(m)'
      BY <1>1, <3>1
    <3> QED
      BY <1>2, <2>1, <2>5, <3>1, <3>2 DEF ChunksRemoved, NoMoreWritten
  <2>6. ASSUME NEW w \in Workers, NEW m \in Nodes, ListReplaced(w, m) PROVE ChunksOf(p)'
    <3>1. job[w].merging
      BY <2>6 DEF ListReplaced
    <3>2. m # p
      <4>1. job[w].succs \in Seq(Nodes \ {p}) /\ job[w].succs # <<>>
        BY <3>1 DEF PrimaryJobs, AllOK, JobsOK, GoodJob
      <4>2. Head(job[w].succs) \in Nodes \ {p}
        BY <4>1, HeadAndTail
      <4> QED
        BY <2>6, <3>1, <4>2 DEF ListReplaced
    <3>3. /\ Listed(m)' \subseteq Listed(p)
          /\ \A k \in Nodes \ {m} : Listed(k)' = Listed(k)
          /\ \A k \in Nodes : Stored(k)' = Stored(k)
          /\ Written' \subseteq Written
      BY <2>6, <3>1 DEF ListReplaced, ChunksStay, NoMoreWritten, PrimaryJobs
    <3>4. \A d : StoredBesides(p, d) <=> StoredBesides(p, d)'
      BY <3>3 DEF StoredBesides
    <3>5. \A k \in Nodes \ {p} : Listed(k)' \subseteq Stored(k)' \cup Listed(p)'
      BY <3>2, <3>3 DEF ChunksOf
    <3> QED
      BY <2>1, <3>2, <3>3, <3>4, <3>5 DEF ChunksOf
  <2> QED
    BY <2>2, <2>3, <2>4, <2>5, <2>6, StoreSteps DEF StoreStep, FolderCleared
<1>4. ASSUME NEW w \in Workers, NEW m \in up, PullFound(w, m) PROVE ChunksOf(p)'
  <2>1. Home[w] = p /\ m \in Nodes
    BY <1>4 DEF PullFound, PrimaryJobs, AllOK, RingOK
  <2>2. ListsStay /\ ChunksStay /\ NoMoreWritten
    BY <1>4, StoresUnchanged, NoneWritten DEF PullFound, PullFetch, storeVars
  <2>3. ASSUME NEW d \in Dropped(p)' PROVE StoredBesides(p, d)
    <3>1. d \in Dropped(p) \/ (d \in Listed(m) /\ d \notin Listed(p) /\ m # p)
      BY <1>4, <2>1 DEF PullFound
    <3> QED
      BY <2>1, <3>1 DEF ChunksOf, StoredBesides
  <2> QED
    BY <1>2, <2>2, <2>3 DEF ListsStay, ChunksStay, NoMoreWritten
<1> QED
  BY <1>3, <1>4, DropSteps

LEMMA PrimaryNext == AllOK /\ StandingOK /\ PrimaryOK /\ [Next]_vars => PrimaryOK'
<1> SUFFICES ASSUME AllOK, StandingOK, PrimaryOK, [Next]_vars, Standing', ~overwritten', HashesDiffer
             PROVE  PrimaryJobs(FirstPrimary)' /\ ChunksOf(FirstPrimary)'
  BY DEF PrimaryOK
<1>1. Standing /\ ~overwritten
  BY StandingBefore, Growing
<1>2. PICK p : p = FirstPrimary
  OBVIOUS
<1>3. p \in Nodes /\ PrimaryJobs(p) /\ ChunksOf(p)
  BY <1>1, <1>2, FirstIsPrimary DEF PrimaryOK
<1>4. up \subseteq Serving
  BY <1>1 DEF StandingOK, Serving, AllOK, RingOK
<1>5. PrimaryJobs(p)'
  BY <1>1, <1>2, <1>3, PrimaryJobsNext
<1>6. ChunksOf(p)'
  BY <1>3, <1>4, ChunksOfNext
<1> QED
  BY <1>2, <1>5, <1>6

\* Until a node crashes, a copy is saved over another, or merges and joins are mixed, no
\* append that a node lists is without a chunk on some running node, for any number of
\* nodes, clients, writes and lost calls, and of joins or of merges: a chunk is written
\* before its append is listed, and a pull removes only what the other side has.
THEOREM ListedIsStored == Spec => []StoredSomewhere
<1> DEFINE Inv == AllOK /\ NoMergeOK /\ AbsentOK /\ UnmergedOK /\ StandingOK /\ PrimaryOK
<1>1. Init => Inv
  BY TypeInit, KeptInit, StandingInit
<1>2. Inv /\ [Next]_vars => Inv'
  BY TypeNext, NoMergeNext, AbsentNext, KeptNext, StandingNext, PrimaryNext
<1>3. Inv => StoredSomewhere
  <2> SUFFICES ASSUME Inv, crashes = 0, ~overwritten, merges = 0 \/ (up = Initial /\ HashesDiffer),
                      NEW n \in up, NEW d \in Listed(n)
               PROVE  \E m \in up : d \in Stored(m)
    BY DEF StoredSomewhere, Listed
  <2>1. n \in Nodes
    BY DEF AllOK, RingOK
  <2>2. \E m \in Nodes : d \in Stored(m)
    <3>1. CASE merges = 0
      BY <2>1, <3>1 DEF UnmergedOK, KeptOK, AnyListed, Keeps
    <3>2. CASE up = Initial /\ HashesDiffer
      <4>1. PICK p : p = FirstPrimary
        OBVIOUS
      <4>2. p \in Nodes /\ ChunksOf(p)
        BY <3>2, <4>1, FirstIsPrimary DEF PrimaryOK, Standing
      <4> QED
        BY <2>1, <4>2 DEF ChunksOf, StoredBesides
    <3> QED
      BY <3>1, <3>2
  <2>3. Serving \subseteq up
    BY DEF Serving
  <2> QED
    BY <2>2, <2>3 DEF AbsentOK
<1> QED
  BY <1>1, <1>2, <1>3, PTL DEF Spec

----------------------------------------------------------------------------
(* A merge with no ring change and no broken call, of a file that is there    *)
(* from the start.  All replicas keep it, so that no append is refused; what   *)
(* is sent to one of them is sent to all, and what is pushed is listed by the  *)
(* primary.  An append that reaches a successor after the merge has passed it  *)
(* is therefore listed by the primary or on its way there, and not in the list *)
(* that the merge began with.  Merges that do not overlap take their turns: at *)
(* most one job is under way.                                                  *)

FirstReplicas == ToSet(FindTargetNodes(StartView[Introducer], FileHash))

Undisturbed ==
  /\ Standing /\ HashesDiffer /\ fails = 0 /\ ~crossed
  /\ scenario.exists /\ scenario.kind = "regular"

OneJob == \A v, w \in Workers : job[v] # Idle /\ job[w] # Idle => v = w

\* The appends on their way to a node.
Coming(m) == {ID(t.item) : t \in {u \in transfers : u.to = m /\ u.what = "append"}}

\* What a job goes through are nodes of S, and what it pushes is in D; it has found no
\* successor without the file.
AllListed(j, S, D) ==
  /\ j.left \in Seq(S) /\ j.ring \in Seq(S) /\ j.succs \in Seq(S)
  /\ IDs(j.queue) \subseteq D
  /\ j.merging => ~j.skip

\* A job goes on with the successor that it was at, or with the next one.
SamePlace(j, k) ==
  /\ k.merging = j.merging
  /\ j.merging => k.apps = j.apps /\ k.succs = j.succs
NextPlace(j, k) ==
  /\ j.merging
  /\ IF Len(j.succs) <= 1 THEN k = Idle
     ELSE k.merging /\ k.apps = j.apps /\ k.succs = Tail(j.succs)

\* Calls go from nodes that run to replicas, and none is checked for a copy to save.
GoodCalls(R) == \A t \in transfers : t.to \in R /\ t.from \in up /\ t.phase # "checked"

ReplicasKeepFile(p, R) ==
  /\ ~overwritten /\ \A m \in R : meta[m].hash # 0
  /\ GoodCalls(R)
  /\ \A c \in Nodes : probing[c] = NoProbe
  /\ \A w \in Workers : AllListed(job[w], R \ {p}, Listed(p))
  /\ \A w \in Workers : job[w].pc \notin {"load", "add"}

ReplicasGetAll(p, R) ==
  /\ \A m \in R \ {p} : Stored(p) \cup Coming(p) \subseteq Stored(m) \cup Coming(m)
  /\ \A m \in R : Coming(m) \subseteq Listed(p) \cup Coming(p)

\* The successors that a merge has passed have the order that it began with, as long
\* as the primary gets nothing new.
PassedAgree(p) ==
  \A w \in Workers :
    job[w].merging /\ Listed(p) \cup Coming(p) \subseteq IDs(job[w].apps) =>
      \A m \in ToSet(Successors(p)) \ ToSet(job[w].succs) :
        Order(meta[m].apps) = Order(job[w].apps)

MergeOK ==
  Undisturbed => /\ OneJob
                 /\ ReplicasKeepFile(FirstPrimary, FirstReplicas)
                 /\ ReplicasGetAll(FirstPrimary, FirstReplicas)
                 /\ PassedAgree(FirstPrimary)

LEMMA IdleListed ==
  ASSUME NEW S, NEW D
  PROVE  AllListed(Idle, S, D)
BY ShortSeqs DEF AllListed, Idle, IDs

\* Who the replicas are, for every client and for the primary.
LEMMA FirstReplicasAre ==
  ASSUME AllOK, StandingOK, Standing, HashesDiffer, NEW p, p = FirstPrimary, NEW R, R = FirstReplicas
  PROVE  /\ p \in R /\ R \subseteq up /\ up \subseteq Nodes
         /\ \A c \in up : Targets(c) \in Seq(Nodes) /\ ToSet(Targets(c)) = R
         /\ Successors(p) \in Seq(R \ {p})
<1> DEFINE v == StartView[Introducer]
           T == FindTargetNodes(v, FileHash)
<1>1. up = Initial /\ view = StartView /\ up \subseteq Nodes /\ p \in up
  BY FirstIsPrimary DEF StandingOK, Standing, AllOK, RingOK
<1>2. Introducer \in Initial /\ Initial \subseteq Nodes
  BY NodesAssumption
<1>3. ASSUME NEW c \in Initial PROVE view[c] = v
  <2>1. \A m \in Nodes : StartView[c][m] = v[m]
    BY <1>2 DEF StartView
  <2> QED
    BY <1>1, <1>2, <2>1 DEF StartView
<1>4. Alive(v) = Initial /\ Members(v) = Initial
  BY <1>2 DEF Alive, Members, StartView
<1>5. p = Primary(v, FileHash)
  BY DEF FirstPrimary
<1>6. R = ToSet(T)
  BY DEF FirstReplicas
<1> HIDE DEF v
<1>7. /\ T \in Seq(Alive(v)) /\ T # <<>> /\ T[1] = p
  BY <1>2, <1>4, <1>5, TargetsOf
<1> HIDE DEF T
<1>8. T \in Seq(Nodes)
  BY <1>2, <1>4, <1>7, SeqOfMore
<1>9. p \in R /\ R \subseteq up
  <2>1. 1 \in DOMAIN T
    BY <1>7
  <2> QED
    BY <1>1, <1>4, <1>6, <1>7, <2>1 DEF ToSet
<1>10. \A c \in up : Targets(c) = T
  BY <1>1, <1>3 DEF Targets, T
<1>11. Successors(p) \in Seq(R \ {p})
  <2>1. Successors(p) = GetSuccessors(v, p)
    BY <1>1, <1>3 DEF Successors
  <2>2. Successors(p) \in Seq(Members(v) \ {p})
    BY <1>1, <1>4, <2>1, NotItsOwnSuccessor
  <2>3. ASSUME NEW j \in DOMAIN Successors(p) PROVE Successors(p)[j] \in R
    <3>1. \E i \in DOMAIN T : T[i] = Successors(p)[j]
      BY <1>2, <1>4, <1>5, <2>1, SuccessorsAreTargets DEF T
    <3> QED
      BY <1>6, <3>1 DEF ToSet
  <2> QED
    BY <2>2, <2>3
<1> QED
  BY <1>1, <1>6, <1>8, <1>9, <1>10, <1>11

LEMMA MergeInit == Init => MergeOK
<1> SUFFICES ASSUME Init, Undisturbed
             PROVE  /\ OneJob
                    /\ ReplicasKeepFile(FirstPrimary, FirstReplicas)
                    /\ ReplicasGetAll(FirstPrimary, FirstReplicas)
                    /\ PassedAgree(FirstPrimary)
  BY DEF MergeOK
<1>1. PICK p : p = FirstPrimary
  OBVIOUS
<1>2. PICK R : R = FirstReplicas
  OBVIOUS
<1>3. AllOK /\ StandingOK /\ Standing /\ HashesDiffer
  BY TypeInit, StandingInit DEF Undisturbed
<1>4. p \in R /\ R \subseteq up /\ up \subseteq Nodes /\ up = Initial
  BY <1>1, <1>2, <1>3, FirstReplicasAre DEF Standing
<1>5. p \in Nodes /\ \A w \in Workers : job[w] = Idle
  BY <1>4 DEF Init
<1>6. \A m \in R : meta[m].hash # 0
  <2>1. ToSet(Targets(Introducer)) = R
    BY <1>1, <1>2, <1>3, <1>4, FirstReplicasAre, NodesAssumption
  <2>2. \A m \in R : meta[m] = [hash |-> 1, apps |-> <<>>]
    BY <1>4, <2>1 DEF Init, Undisturbed
  <2> QED
    BY <2>2
<1>7. ReplicasKeepFile(p, R) /\ OneJob
  <2>1. Idle.pc = "idle"
    BY DEF Idle
  <2>2. /\ \A w \in Workers : AllListed(job[w], R \ {p}, Listed(p))
        /\ \A w \in Workers : job[w].pc \notin {"load", "add"}
    BY <1>5, <2>1, IdleListed
  <2>3. OneJob
    BY <1>5 DEF OneJob
  <2> QED
    BY <1>6, <2>2, <2>3 DEF ReplicasKeepFile, GoodCalls, Init
<1>8. transfers = {} /\ \A m \in Nodes : Stored(m) = {}
  BY DEF Init, Stored
<1>9. \A m : Coming(m) = {}
  BY <1>8 DEF Coming
<1>10. ReplicasGetAll(p, R)
  BY <1>4, <1>8, <1>9 DEF ReplicasGetAll
<1>11. PassedAgree(p)
  BY <1>5 DEF PassedAgree, Idle
<1> QED
  BY <1>1, <1>2, <1>7, <1>10, <1>11

LEMMA BudgetSteps ==
  ASSUME [Next]_vars
  PROVE  /\ scenario' = scenario /\ (fails' = fails \/ fails' = fails + 1)
         /\ crossed => crossed'
<1> DEFINE Step == scenario' = scenario /\ (fails' = fails \/ fails' = fails + 1)
           Cross == crossed => crossed'
<1>1. ASSUME NEW n \in Nodes, Client(n) PROVE Step /\ Cross
  <2>1. Step
    BY <1>1, ClientLeaves
  <2>2. CASE \E w \in Workers : handleMergeCommand(n, w)
    <3>1. crossed' = (crossed \/ ~JobsDone)
      BY <2>2 DEF handleMergeCommand
    <3> QED
      BY <2>1, <3>1
  <2>3. CASE ~\E w \in Workers : handleMergeCommand(n, w)
    <3>1. crossed' = crossed
      BY <1>1, <2>3 DEF Client, handleCreate, handleAppend, AppendOrCreateFromBuffer, BeginWrite,
         ProbeFinds, ProbeFindsNothing, ProbeCreates, ProbeStep
    <3> QED
      BY <2>1, <3>1
  <2> QED
    BY <2>2, <2>3
<1>2. ASSUME NEW w \in Workers, Stabilisation(w) PROVE Step /\ Cross
  <2>1. scenario' = scenario /\ crossed' = crossed
    BY <1>2 DEF Stabilisation, GetPrimaryKeyRange, FindSuccessors, PushFetch, PushFile, PushAppend,
     PushDone, Pushing, PullFetch, ReceiveFileFromNode, AddFile, PullAppends, JobStep, Fetched,
     CallFails
  <2>2. fails' = fails \/ fails' = fails + 1
    BY <1>2 DEF Stabilisation, GetPrimaryKeyRange, FindSuccessors, PushFetch, PushFile, PushAppend,
     PushDone, Pushing, PullFetch, ReceiveFileFromNode, AddFile, PullAppends, JobStep, Fetched,
     CallFails
  <2> QED
    BY <2>1, <2>2
<1>3. ASSUME NEW w \in Workers, Merge(w) PROVE Step /\ Cross
  BY <1>3 DEF Merge, ensureRemoteFileInSync, syncRemoteAppendOrder, UpdateAppendOrder,
     JobStep, CallFails
<1>4. ASSUME NEW n \in Nodes, RingChange(n) PROVE Step /\ Cross
  <2>1. scenario' = scenario /\ crossed' = crossed
    BY <1>4 DEF RingChange, Crash, Join, clearHydfsFolder, MarkDead, HearOfDeath, EnterDeath,
     CleanUp, EnterMember, HearOfMember, RingStep
  <2>2. fails' = fails \/ fails' = fails + 1
    BY <1>4 DEF RingChange, Crash, Join, clearHydfsFolder, MarkDead, HearOfDeath, EnterDeath,
     CleanUp, EnterMember, HearOfMember, RingStep
  <2> QED
    BY <2>1, <2>2
<1>5. ASSUME NEW w \in Workers, WindowChange(w) PROVE Step /\ Cross
  BY <1>5 DEF WindowChange, handleReplicationWindowChange, RingStep
<1>6. ASSUME NEW t \in transfers, Receive(t) \/ TransferFails(t) PROVE Step /\ Cross
  <2>1. scenario' = scenario /\ crossed' = crossed
    BY <1>6 DEF Receive, FileTransfer, saveFile, AppendRefused, AppendToBase, WriteChunk,
     ListAppend, HandleTransfer, counters, TransferFails, CallFails
  <2>2. fails' = fails \/ fails' = fails + 1
    BY <1>6 DEF Receive, FileTransfer, saveFile, AppendRefused, AppendToBase, WriteChunk,
     ListAppend, HandleTransfer, counters, TransferFails, CallFails
  <2> QED
    BY <2>1, <2>2
<1>7. ASSUME UNCHANGED vars PROVE Step /\ Cross
  BY <1>7 DEF vars
<1> HIDE DEF Step, Cross
<1>8. Step /\ Cross
  BY <1>1, <1>2, <1>3, <1>4, <1>5, <1>6, <1>7 DEF Next, Terminating
<1> QED
  BY <1>8 DEF Step, Cross

LEMMA UndisturbedBefore ==
  ASSUME AllOK, [Next]_vars, Undisturbed'
  PROVE  Undisturbed /\ fails' = 0 /\ up' = up /\ Standing' /\ ~crossed' /\ HashesDiffer
<1>1. /\ Standing /\ up' = up /\ Standing' /\ fails' = 0 /\ fails \in Nat /\ HashesDiffer
      /\ ~crossed'
  BY StandingBefore DEF Undisturbed, AllOK, RingOK, HashesDiffer
<1>2. /\ scenario' = scenario /\ (fails' = fails \/ fails' = fails + 1)
      /\ ~crossed
  BY <1>1, BudgetSteps
<1>3. fails = 0
  BY <1>1, <1>2
<1>4. scenario.exists /\ scenario.kind = "regular"
  BY <1>2 DEF Undisturbed
<1> QED
  BY <1>1, <1>2, <1>3, <1>4 DEF Undisturbed

\* What may still happen: no call is refused or fails, and no copy is saved.
Stabilises(w) ==
  \/ GetPrimaryKeyRange(w) \/ FindSuccessors(w)
  \/ PushFetch(w) \/ PushFile(w) \/ PushAppend(w) \/ PushDone(w)
  \/ PullFetch(w) \/ PullAppends(w)

UndisturbedStep(p) ==
  \/ \E c \in up : \/ handleCreate(c) \/ handleAppend(c)
                  \/ \E w \in Workers : handleMergeCommand(c, w)
  \/ \E t \in transfers : (FileTransfer(t) /\ Answer(t)) \/ WriteChunk(t) \/ ListAppend(t)
  \/ \E w \in Workers : Home[w] = p /\ (Stabilises(w) \/ Merge(w))
  \/ UNCHANGED vars

LEMMA NoneIdle ==
  ASSUME NEW w, NEW pc, JobStep(w, pc), pc # "idle"
  PROVE  job[w] # Idle
<1>1. job[w].pc # "idle" /\ Idle.pc = "idle"
  BY DEF JobStep, Idle
<1> QED
  BY <1>1

LEMMA UndisturbedSteps ==
  ASSUME AllOK, StandingOK, [Next]_vars, Undisturbed', NEW p \in Nodes, NEW R, R \subseteq up,
         PrimaryJobs(p), ReplicasKeepFile(p, R)
  PROVE  UndisturbedStep(p)
<1>1. /\ Undisturbed /\ fails' = 0 /\ fails = 0 /\ up' = up
      /\ Standing /\ Standing' /\ up = Initial /\ scenario.kind = "regular"
      /\ Serving = up
  BY UndisturbedBefore DEF Undisturbed, Standing, StandingOK, Serving, AllOK, RingOK
<1>2. ASSUME NEW n \in Nodes, Client(n) PROVE UndisturbedStep(p)
  <2>1. probing[n] = NoProbe
    BY DEF ReplicasKeepFile
  <2>2. handleCreate(n) \/ handleAppend(n) \/ \E w \in Workers : handleMergeCommand(n, w)
    BY <1>1, <1>2, <2>1 DEF Client, AppendOrCreateFromBuffer, ProbeFinds, ProbeFindsNothing,
       ProbeCreates, ProbeStep
  <2>3. n \in up
    BY <1>1, <2>2 DEF handleCreate, handleAppend, BeginWrite, handleMergeCommand
  <2> QED
    BY <2>2, <2>3 DEF UndisturbedStep
<1>3. ASSUME NEW w \in Workers, Stabilisation(w) \/ Merge(w) PROVE UndisturbedStep(p)
  <2>1. job[w] # Idle
    <3>1. \E pc \in {"range", "succs", "push", "pushing", "pull", "load", "add", "pulling",
                     "check", "sync", "update"} : JobStep(w, pc)
      BY <1>3 DEF Stabilisation, GetPrimaryKeyRange, FindSuccessors, PushFetch, PushFile,
         PushAppend, PushDone, Pushing, PullFetch, ReceiveFileFromNode, AddFile, PullAppends,
         Merge, ensureRemoteFileInSync, syncRemoteAppendOrder, UpdateAppendOrder
    <3> QED
      BY <3>1, NoneIdle
  <2>2. Home[w] = p
    BY <2>1 DEF PrimaryJobs
  <2>3. ~ReceiveFileFromNode(w) /\ ~AddFile(w)
    BY DEF ReceiveFileFromNode, AddFile, JobStep, ReplicasKeepFile
  <2>4. Stabilises(w) \/ Merge(w)
    BY <1>3, <2>3 DEF Stabilisation, Stabilises
  <2> QED
    BY <2>2, <2>4 DEF UndisturbedStep
<1>4. ASSUME NEW n \in Nodes, RingChange(n) PROVE FALSE
  BY <1>1, <1>4, NoRingChange
<1>6. ASSUME NEW w \in Workers, WindowChange(w) PROVE FALSE
  BY <1>1, <1>6, HomeOf DEF StandingOK, WindowChange, handleReplicationWindowChange
<1>5. ASSUME NEW t \in transfers, Receive(t) \/ TransferFails(t) PROVE UndisturbedStep(p)
  <2>1. t.to \in R /\ t.to \in up /\ t.from \in up /\ Exists(t.to) /\ t.phase # "checked"
    BY DEF ReplicasKeepFile, GoodCalls, Exists, NoFile
  <2>2. ~TransferFails(t)
    BY <1>1, <2>1 DEF TransferFails, CallFails
  <2>3. ~saveFile(t) /\ ~AppendRefused(t) /\ ~AppendToBase(t)
    BY <1>1, <2>1 DEF saveFile, AppendRefused, AppendToBase
  <2>4. FileTransfer(t) => Answer(t)
    BY <2>1 DEF FileTransfer
  <2> QED
    BY <1>5, <2>2, <2>3, <2>4 DEF Receive, UndisturbedStep
<1> QED
  BY <1>2, <1>3, <1>4, <1>5, <1>6 DEF Next, Terminating, UndisturbedStep

\* Nobody downloads: the primary has the file.
LEMMA NoDownload ==
  ASSUME AllOK, [Next]_vars, NEW p \in Nodes, meta[p].hash # 0, UndisturbedStep(p),
         \A w \in Workers : job[w].pc \notin {"load", "add"}, NEW v \in Workers
  PROVE  job'[v].pc \notin {"load", "add"}
<1>1. job \in [Workers -> JobType] /\ Exists(p)
  BY DEF AllOK, JobsOK, Exists, NoFile
<1>2. ASSUME NEW w \in Workers, NEW k, job' = [job EXCEPT ![w] = k], k.pc \notin {"load", "add"}
      PROVE  job'[v].pc \notin {"load", "add"}
  BY <1>1, <1>2
<1>3. ASSUME job' = job PROVE job'[v].pc \notin {"load", "add"}
  BY <1>3
<1>4. ASSUME NEW j \in JobType PROVE NextSuccessor(j).pc \in {"idle", "check"}
  BY DEF NextSuccessor, Idle, JobType
<1>5. ASSUME NEW j \in JobType PROVE Stabilised(j).pc \in {"idle", "check", "sync"}
  <2>1. Idle.pc = "idle" /\ [j EXCEPT !.pc = "sync", !.drop = {}].pc = "sync"
    BY DEF Idle, JobType
  <2> QED
    BY <1>4, <2>1 DEF Stabilised
<1>6. ASSUME NEW j \in JobType PROVE NextPush(j).pc \in {"push", "pull"}
  <2>1. /\ [j EXCEPT !.pc = "push", !.left = Tail(@)].pc = "push"
        /\ [j EXCEPT !.pc = "pull", !.left = j.ring].pc = "pull"
    BY DEF JobType
  <2> QED
    BY <2>1 DEF NextPush
<1>7. ASSUME NEW j \in JobType PROVE NextPull(j).pc \in {"pull", "idle", "check", "sync"}
  <2> DEFINE l == [j EXCEPT !.drop = {}]
  <2>1. l \in JobType /\ [j EXCEPT !.pc = "pull", !.left = Tail(@), !.drop = {}].pc = "pull"
    BY DEF JobType
  <2> HIDE DEF l
  <2>2. Stabilised(l).pc \in {"idle", "check", "sync"}
    BY <1>5, <2>1
  <2> QED
    BY <2>1, <2>2 DEF NextPull, l
<1>8. ASSUME NEW w \in Workers, Home[w] = p, Stabilises(w) \/ Merge(w)
      PROVE  job'[v].pc \notin {"load", "add"}
  <2>1. PICK j \in JobType : j = job[w]
    BY <1>1
  <2>2. CASE GetPrimaryKeyRange(w)
    <3> DEFINE k == [j EXCEPT !.pc = "succs", !.mine = Exists(p)]
    <3>1. job' = [job EXCEPT ![w] = k] \/ job' = [job EXCEPT ![w] = Stabilised(j)]
      BY <1>8, <2>1, <2>2 DEF GetPrimaryKeyRange
    <3>2. k.pc = "succs"
      BY DEF JobType
    <3> HIDE DEF k
    <3> QED
      BY <1>2, <1>5, <3>1, <3>2
  <2>3. CASE FindSuccessors(w)
    <3> DEFINE S == Successors(p)
               k == [j EXCEPT !.pc = "push", !.ring = S, !.left = S]
    <3>1. job' = [job EXCEPT ![w] = k] \/ job' = [job EXCEPT ![w] = Stabilised(j)]
      BY <1>8, <2>1, <2>3 DEF FindSuccessors
    <3>2. k.pc = "push"
      <4> HIDE DEF S
      <4> QED
        BY DEF JobType
    <3> HIDE DEF k
    <3> QED
      BY <1>2, <1>5, <3>1, <3>2
  <2>4. CASE PushFetch(w)
    <3> DEFINE go(got) == [j EXCEPT !.pc = "pushing", !.send = got.hash # meta[p].hash,
                                    !.queue = NotListed(meta[p].apps, got.apps)]
    <3>1. \/ job' = [job EXCEPT ![w] = NextPush(j)]
          \/ \E got : job' = [job EXCEPT ![w] = go(got)]
      BY <1>8, <2>1, <2>4 DEF PushFetch
    <3>2. \A got : go(got).pc = "pushing"
      BY DEF JobType
    <3> HIDE DEF go
    <3> QED
      BY <1>2, <1>6, <3>1, <3>2
  <2>5. CASE PushFile(w)
    <3>1. job' = [job EXCEPT ![w] = [j EXCEPT !.send = FALSE]] /\ j.pc = "pushing"
      BY <2>1, <2>5 DEF PushFile, Pushing, JobStep
    <3>2. [j EXCEPT !.send = FALSE].pc = "pushing"
      BY <3>1 DEF JobType
    <3> QED
      BY <1>2, <3>1, <3>2
  <2>6. CASE PushAppend(w)
    <3> DEFINE rest == Tail(j.queue)
    <3>1. job' = [job EXCEPT ![w] = [j EXCEPT !.queue = rest]] /\ j.pc = "pushing"
      BY <2>1, <2>6 DEF PushAppend, Pushing, JobStep
    <3> HIDE DEF rest
    <3>2. [j EXCEPT !.queue = rest].pc = "pushing"
      BY <3>1 DEF JobType
    <3> QED
      BY <1>2, <3>1, <3>2
  <2>7. CASE PushDone(w)
    <3>1. job' = [job EXCEPT ![w] = NextPush(j)]
      BY <2>1, <2>7 DEF PushDone
    <3> QED
      BY <1>2, <1>6, <3>1
  <2>8. CASE PullFetch(w)
    <3> DEFINE go(got) == [j EXCEPT !.pc = "pulling", !.got = got.hash,
                                    !.drop = IDs(got.apps) \ IDs(meta[p].apps)]
    <3>1. \/ job' = [job EXCEPT ![w] = NextPull(j)]
          \/ \E got : job' = [job EXCEPT ![w] = go(got)]
      BY <1>1, <1>8, <2>1, <2>8 DEF PullFetch
    <3>2. \A got : go(got).pc = "pulling"
      BY DEF JobType
    <3> HIDE DEF go
    <3> QED
      BY <1>2, <1>7, <3>1, <3>2
  <2>9. CASE PullAppends(w)
    <3>1. job' = [job EXCEPT ![w] = NextPull(j)]
      BY <2>1, <2>9 DEF PullAppends
    <3> QED
      BY <1>2, <1>7, <3>1
  <2>10. CASE Merge(w)
    <3>1. \/ job' = [job EXCEPT ![w] = NextSuccessor(j)]
          \/ job' = [job EXCEPT ![w] = [j EXCEPT !.pc = "range", !.skip = TRUE]]
          \/ job' = [job EXCEPT ![w] = [j EXCEPT !.pc = "range"]]
          \/ job' = [job EXCEPT ![w] = [j EXCEPT !.pc = "sync"]]
          \/ job' = [job EXCEPT ![w] = [j EXCEPT !.pc = "update"]]
      BY <2>1, <2>10 DEF Merge, ensureRemoteFileInSync, syncRemoteAppendOrder, UpdateAppendOrder
    <3>2. /\ [j EXCEPT !.pc = "range", !.skip = TRUE].pc = "range"
          /\ [j EXCEPT !.pc = "range"].pc = "range" /\ [j EXCEPT !.pc = "sync"].pc = "sync"
          /\ [j EXCEPT !.pc = "update"].pc = "update"
      BY DEF JobType
    <3> QED
      BY <1>2, <1>4, <3>1, <3>2
  <2> QED
    BY <1>8, <2>2, <2>3, <2>4, <2>5, <2>6, <2>7, <2>8, <2>9, <2>10 DEF Stabilises
<1>9. ASSUME NEW c, NEW w \in Workers, handleMergeCommand(c, w) PROVE job'[v].pc \notin {"load", "add"}
  <2> DEFINE h == meta[Home[w]].hash
             a == meta[Home[w]].apps
             S == Successors(Home[w])
             k == [Idle EXCEPT !.pc = "check", !.merging = TRUE, !.succs = S, !.hash = h, !.apps = a]
  <2>1. job' = [job EXCEPT ![w] = k]
    BY <1>9 DEF handleMergeCommand
  <2>2. k.pc = "check"
    <3> HIDE DEF h, a, S
    <3> QED
      BY DEF Idle
  <2> HIDE DEF k
  <2> QED
    BY <1>2, <2>1, <2>2
<1>10. ASSUME NEW c, handleCreate(c) \/ handleAppend(c) PROVE job' = job
  BY <1>10 DEF handleCreate, handleAppend, BeginWrite
<1>11. ASSUME NEW t, FileTransfer(t) \/ WriteChunk(t) \/ ListAppend(t) PROVE job' = job
  BY <1>11 DEF FileTransfer, WriteChunk, ListAppend, HandleTransfer
<1>12. UNCHANGED vars => job' = job
  BY DEF vars
<1> QED
  BY <1>3, <1>8, <1>9, <1>10, <1>11, <1>12 DEF UndisturbedStep

\* A merge that does not overlap begins when no job is under way.
LEMMA OneJobNext ==
  ASSUME AllOK, StandingOK, Standing, ~crossed', [Next]_vars, NEW p \in up, PrimaryJobs(p), OneJob
  PROVE  OneJob'
<1>1. job \in [Workers -> JobType]
  BY DEF AllOK, JobsOK
<1>2. CASE \A w \in Workers : job'[w] \in {job[w], Idle}
  BY <1>2 DEF OneJob
<1>3. CASE \E w \in Workers : \E k : job' = [job EXCEPT ![w] = k] /\ JobChanges(w, k)
  <2>1. PICK w \in Workers : \E k : job' = [job EXCEPT ![w] = k] /\ JobChanges(w, k)
    BY <1>3
  <2> PICK k : job' = [job EXCEPT ![w] = k] /\ JobChanges(w, k)
    BY <2>1
  <2>2. job'[w] = k /\ \A v \in Workers \ {w} : job'[v] = job[v]
    BY <1>1
  <2>3. CASE k = Idle \/ job[w] # Idle
    BY <2>2, <2>3 DEF OneJob
  <2>4. CASE MergeBegins(w, k)
    <3>1. JobsDone
      BY <2>4 DEF MergeBegins
    <3>2. \A v \in Workers : job[v] = Idle
      BY <3>1 DEF JobsDone, JobsOf, PrimaryJobs
    <3> QED
      BY <2>2, <3>2 DEF OneJob
  <2>5. JobGoesOn(w, k) \/ PullReads(w, k) => k = Idle \/ job[w] # Idle
    BY HomeOf DEF JobGoesOn, PullReads, StandingOK
  <2> QED
    BY <2>3, <2>4, <2>5 DEF JobChanges
<1> QED
  BY <1>2, <1>3, JobSteps DEF JobsGoOn

LEMMA NextSuccessorMoves ==
  ASSUME NEW S, NEW D, NEW j \in JobType, AllListed(j, S, D), j.merging, j.succs # <<>>
  PROVE  AllListed(NextSuccessor(j), S, D) /\ NextPlace(j, NextSuccessor(j))
<1> DEFINE rest == Tail(j.succs)
           k == [j EXCEPT !.pc = "check", !.succs = rest, !.skip = FALSE]
<1>1. NextSuccessor(j) = IF Len(j.succs) <= 1 THEN Idle ELSE k
  BY DEF NextSuccessor
<1>2. rest \in Seq(S)
  BY HeadAndTail DEF AllListed
<1>3. /\ k.apps = j.apps /\ k.merging = j.merging /\ k.succs = rest /\ ~k.skip
      /\ k.left = j.left /\ k.ring = j.ring /\ k.queue = j.queue
  <2> HIDE DEF rest
  <2> QED
    BY DEF JobType
<1> HIDE DEF k
<1>4. AllListed(k, S, D)
  BY <1>2, <1>3 DEF AllListed
<1> QED
  BY <1>1, <1>3, <1>4, IdleListed DEF NextPlace

LEMMA StabilisedStays ==
  ASSUME NEW S, NEW D, NEW j \in JobType, AllListed(j, S, D)
  PROVE  AllListed(Stabilised(j), S, D) /\ SamePlace(j, Stabilised(j))
<1> DEFINE k == [j EXCEPT !.pc = "sync", !.drop = {}]
<1>1. Stabilised(j) = IF ~j.merging THEN Idle ELSE k
  BY DEF Stabilised, AllListed
<1>2. /\ k.apps = j.apps /\ k.merging = j.merging /\ k.succs = j.succs /\ k.skip = j.skip
      /\ k.left = j.left /\ k.ring = j.ring /\ k.queue = j.queue
  BY DEF JobType
<1> HIDE DEF k
<1>3. AllListed(k, S, D) /\ SamePlace(j, k)
  BY <1>2 DEF AllListed, SamePlace
<1>4. ~j.merging => SamePlace(j, Idle)
  BY DEF SamePlace, Idle, JobType
<1> QED
  BY <1>1, <1>3, <1>4, IdleListed

LEMMA NextPushStays ==
  ASSUME NEW S, NEW D, NEW j \in JobType, AllListed(j, S, D), j.left # <<>>
  PROVE  AllListed(NextPush(j), S, D) /\ SamePlace(j, NextPush(j))
<1> DEFINE rest == Tail(j.left)
           k == [j EXCEPT !.pc = "push", !.left = rest]
           l == [j EXCEPT !.pc = "pull", !.left = j.ring]
<1>1. NextPush(j) = k \/ NextPush(j) = l
  BY DEF NextPush
<1>2. rest \in Seq(S)
  BY HeadAndTail DEF AllListed
<1>3. /\ k.apps = j.apps /\ k.merging = j.merging /\ k.succs = j.succs /\ k.skip = j.skip
      /\ k.left = rest /\ k.ring = j.ring /\ k.queue = j.queue
      /\ l.apps = j.apps /\ l.merging = j.merging /\ l.succs = j.succs /\ l.skip = j.skip
      /\ l.left = j.ring /\ l.ring = j.ring /\ l.queue = j.queue
  <2> HIDE DEF rest
  <2> QED
    BY DEF JobType
<1> HIDE DEF rest, k, l
<1>4. AllListed(k, S, D) /\ SamePlace(j, k)
  BY <1>2, <1>3 DEF AllListed, SamePlace
<1>5. AllListed(l, S, D) /\ SamePlace(j, l)
  BY <1>3 DEF AllListed, SamePlace
<1> QED
  BY <1>1, <1>4, <1>5

LEMMA NextPullStays ==
  ASSUME NEW S, NEW D, NEW j \in JobType, AllListed(j, S, D), j.left # <<>>
  PROVE  AllListed(NextPull(j), S, D) /\ SamePlace(j, NextPull(j))
<1> DEFINE rest == Tail(j.left)
           k == [j EXCEPT !.pc = "pull", !.left = rest, !.drop = {}]
           l == [j EXCEPT !.drop = {}]
<1>1. NextPull(j) = k \/ NextPull(j) = Stabilised(l)
  BY DEF NextPull
<1>2. rest \in Seq(S)
  BY HeadAndTail DEF AllListed
<1>3. /\ k.apps = j.apps /\ k.merging = j.merging /\ k.succs = j.succs /\ k.skip = j.skip
      /\ k.left = rest /\ k.ring = j.ring /\ k.queue = j.queue
      /\ l.apps = j.apps /\ l.merging = j.merging /\ l.succs = j.succs /\ l.skip = j.skip
      /\ l.left = j.left /\ l.ring = j.ring /\ l.queue = j.queue /\ l \in JobType
  <2> HIDE DEF rest
  <2> QED
    BY DEF JobType
<1> HIDE DEF rest, k, l
<1>4. AllListed(k, S, D) /\ SamePlace(j, k)
  BY <1>2, <1>3 DEF AllListed, SamePlace
<1>5. AllListed(l, S, D)
  BY <1>3 DEF AllListed
<1>6. AllListed(Stabilised(l), S, D) /\ SamePlace(l, Stabilised(l))
  BY <1>3, <1>5, StabilisedStays
<1>7. SamePlace(j, Stabilised(l))
  BY <1>3, <1>6 DEF SamePlace
<1> QED
  BY <1>1, <1>4, <1>6, <1>7

LEMMA NotListedIDs ==
  ASSUME NEW s \in Seq(AppendType), NEW r
  PROVE  IDs(NotListed(s, r)) \subseteq IDs(s)
<1> DEFINE I == {i \in DOMAIN s : ID(s[i]) \notin IDs(r)}
           q == NotListed(s, r)
<1>1. q = AtIndices(s, I) /\ I \in SUBSET DOMAIN s
  BY DEF NotListed
<1>2. /\ DOMAIN q = 1..Cardinality(I)
      /\ \A j \in 1..Cardinality(I) : q[j] = s[Nth(I, j)] /\ Nth(I, j) \in I
  <2> HIDE DEF I
  <2> QED
    BY <1>1, AtIndicesOf
<1>3. \A j \in DOMAIN q : \E i \in DOMAIN s : q[j] = s[i]
  BY <1>1, <1>2
<1> QED
  BY <1>3 DEF IDs

LEMMA TailIDs ==
  ASSUME NEW T, NEW s \in Seq(T), s # <<>>
  PROVE  IDs(Tail(s)) \subseteq IDs(s) /\ ID(Head(s)) \in IDs(s)
<1> DEFINE t == Tail(s)
<1>1. /\ Len(s) \in Nat \ {0} /\ t \in Seq(T) /\ Len(t) = Len(s) - 1 /\ s[1] = Head(s)
      /\ \A i \in 1..Len(t) : t[i] = s[i + 1]
  BY HeadAndTail, HeadTailProperties
<1>2. DOMAIN t = 1..Len(t) /\ DOMAIN s = 1..Len(s)
  BY <1>1
<1> HIDE DEF t
<1>3. \A i \in DOMAIN t : i + 1 \in DOMAIN s
  BY <1>1, <1>2
<1>4. IDs(t) \subseteq IDs(s)
  BY <1>1, <1>2, <1>3 DEF IDs
<1>5. ID(Head(s)) \in IDs(s)
  BY <1>1, <1>2 DEF IDs
<1> QED
  BY <1>4, <1>5 DEF t

\* What a stabilisation does to the job of its node.
LEMMA StabilisationStays ==
  ASSUME AllOK, NEW w \in Workers, NEW p \in Nodes, p = Home[w], NEW S, Successors(p) \in Seq(S),
         Exists(p), AllListed(job[w], S, Listed(p)), Stabilises(w)
  PROVE  AllListed(job'[w], S, Listed(p)) /\ SamePlace(job[w], job'[w])
<1>1. PICK j : j = job[w]
  OBVIOUS
<1>2. PICK D : D = Listed(p)
  OBVIOUS
<1>3. j \in JobType /\ AllListed(j, S, D) /\ job \in [Workers -> JobType]
  BY <1>1, <1>2 DEF AllOK, JobsOK
<1>13. AllListed(Stabilised(j), S, D) /\ SamePlace(j, Stabilised(j))
  BY <1>3, StabilisedStays
<1>5. j.left # <<>> =>
      /\ AllListed(NextPush(j), S, D) /\ SamePlace(j, NextPush(j))
      /\ AllListed(NextPull(j), S, D) /\ SamePlace(j, NextPull(j))
  BY <1>3, NextPushStays, NextPullStays
<1>6. ASSUME NEW k, job' = [job EXCEPT ![w] = k], AllListed(k, S, D), SamePlace(j, k)
      PROVE  AllListed(job'[w], S, Listed(p)) /\ SamePlace(job[w], job'[w])
  <2>1. job'[w] = k
    BY <1>3, <1>6
  <2> QED
    BY <1>1, <1>2, <1>6, <2>1
<1>14. CASE GetPrimaryKeyRange(w)
  <2> DEFINE b == Exists(p)
             k == [j EXCEPT !.pc = "succs", !.mine = b]
  <2>1. job' = [job EXCEPT ![w] = k] \/ job' = [job EXCEPT ![w] = Stabilised(j)]
    BY <1>1, <1>14 DEF GetPrimaryKeyRange
  <2>2. /\ k.apps = j.apps /\ k.merging = j.merging /\ k.succs = j.succs /\ k.skip = j.skip
        /\ k.left = j.left /\ k.ring = j.ring /\ k.queue = j.queue
    <3> HIDE DEF b
    <3> QED
      BY <1>3 DEF JobType
  <2> HIDE DEF k
  <2>3. AllListed(k, S, D) /\ SamePlace(j, k)
    BY <1>3, <2>2 DEF AllListed, SamePlace
  <2> QED
    BY <1>6, <1>13, <2>1, <2>3
<1>15. CASE FindSuccessors(w)
  <2> DEFINE s == Successors(p)
             k == [j EXCEPT !.pc = "push", !.ring = s, !.left = s]
  <2>1. job' = [job EXCEPT ![w] = k] \/ job' = [job EXCEPT ![w] = Stabilised(j)]
    BY <1>1, <1>15 DEF FindSuccessors
  <2>2. s \in Seq(S)
    OBVIOUS
  <2>3. /\ k.apps = j.apps /\ k.merging = j.merging /\ k.succs = j.succs /\ k.skip = j.skip
        /\ k.left = s /\ k.ring = s /\ k.queue = j.queue
    <3> HIDE DEF s
    <3> QED
      BY <1>3 DEF JobType
  <2> HIDE DEF s, k
  <2>4. AllListed(k, S, D) /\ SamePlace(j, k)
    BY <1>3, <2>2, <2>3 DEF AllListed, SamePlace
  <2> QED
    BY <1>6, <1>13, <2>1, <2>4
<1>7. CASE PushFetch(w)
  <2> DEFINE go(got) == [j EXCEPT !.pc = "pushing", !.send = got.hash # meta[p].hash,
                                  !.queue = NotListed(meta[p].apps, got.apps)]
  <2>1. \/ job' = [job EXCEPT ![w] = NextPush(j)]
        \/ \E got : job' = [job EXCEPT ![w] = go(got)]
    BY <1>1, <1>7 DEF PushFetch
  <2>2. ASSUME NEW got PROVE AllListed(go(got), S, D) /\ SamePlace(j, go(got))
    <3> DEFINE q == NotListed(meta[p].apps, got.apps)
               k == go(got)
    <3>1. IDs(q) \subseteq D
      <4>1. meta[p].apps \in Seq(AppendType)
        BY DEF AllOK, StoreOK, FileType
      <4> QED
        BY <1>2, <4>1, NotListedIDs DEF Listed
    <3> HIDE DEF q
    <3>2. /\ k.apps = j.apps /\ k.merging = j.merging /\ k.succs = j.succs /\ k.skip = j.skip
          /\ k.left = j.left /\ k.ring = j.ring
      BY <1>3 DEF JobType
    <3>3. k.queue = q
      BY <1>3 DEF JobType, q
    <3> HIDE DEF k
    <3>4. AllListed(k, S, D) /\ SamePlace(j, k)
      BY <1>3, <3>1, <3>2, <3>3 DEF AllListed, SamePlace
    <3> QED
      BY <3>4 DEF k
  <2>3. j.left # <<>>
    BY <1>1, <1>7 DEF AllOK, JobsOK, GoodJob, PushFetch, JobStep
  <2> HIDE DEF go
  <2> QED
    BY <1>5, <1>6, <2>1, <2>2, <2>3
<1>8. CASE PushFile(w)
  <2> DEFINE k == [j EXCEPT !.send = FALSE]
  <2>1. job' = [job EXCEPT ![w] = k]
    BY <1>1, <1>8 DEF PushFile
  <2>2. /\ k.apps = j.apps /\ k.merging = j.merging /\ k.succs = j.succs /\ k.skip = j.skip
        /\ k.left = j.left /\ k.ring = j.ring /\ k.queue = j.queue
    BY <1>3 DEF JobType
  <2> HIDE DEF k
  <2> QED
    BY <1>3, <1>6, <2>1, <2>2 DEF AllListed, SamePlace
<1>9. CASE PushAppend(w)
  <2> DEFINE q == Tail(j.queue)
             k == [j EXCEPT !.queue = q]
  <2>1. job' = [job EXCEPT ![w] = k] /\ j.queue # <<>>
    BY <1>1, <1>9 DEF PushAppend
  <2>2. IDs(q) \subseteq IDs(j.queue)
    <3>1. j.queue \in Seq(AppendType)
      BY <1>3 DEF JobType
    <3> QED
      BY <2>1, <3>1, TailIDs
  <2> HIDE DEF q
  <2>3. /\ k.apps = j.apps /\ k.merging = j.merging /\ k.succs = j.succs /\ k.skip = j.skip
        /\ k.left = j.left /\ k.ring = j.ring /\ k.queue = q
    BY <1>3 DEF JobType
  <2> HIDE DEF k
  <2> QED
    BY <1>3, <1>6, <2>1, <2>2, <2>3 DEF AllListed, SamePlace
<1>10. CASE PushDone(w)
  <2>1. j.left # <<>>
    BY <1>1, <1>10 DEF AllOK, JobsOK, GoodJob, PushDone, Pushing, JobStep
  <2> QED
    BY <1>1, <1>5, <1>6, <1>10, <2>1 DEF PushDone
<1>11. CASE PullFetch(w)
  <2> DEFINE go(got) == [j EXCEPT !.pc = "pulling", !.got = got.hash,
                                  !.drop = IDs(got.apps) \ IDs(meta[p].apps)]
  <2>1. \/ job' = [job EXCEPT ![w] = NextPull(j)]
        \/ \E got : job' = [job EXCEPT ![w] = go(got)]
    BY <1>1, <1>11 DEF PullFetch
  <2>2. ASSUME NEW got PROVE AllListed(go(got), S, D) /\ SamePlace(j, go(got))
    <3> DEFINE k == go(got)
    <3>1. /\ k.apps = j.apps /\ k.merging = j.merging /\ k.succs = j.succs /\ k.skip = j.skip
          /\ k.left = j.left /\ k.ring = j.ring /\ k.queue = j.queue
      BY <1>3 DEF JobType
    <3> HIDE DEF k
    <3>2. AllListed(k, S, D) /\ SamePlace(j, k)
      BY <1>3, <3>1 DEF AllListed, SamePlace
    <3> QED
      BY <3>2 DEF k
  <2>3. j.left # <<>>
    BY <1>1, <1>11 DEF AllOK, JobsOK, GoodJob, PullFetch, JobStep
  <2> HIDE DEF go
  <2> QED
    BY <1>5, <1>6, <2>1, <2>2, <2>3
<1>12. CASE PullAppends(w)
  <2>1. j.left # <<>>
    BY <1>1, <1>12 DEF AllOK, JobsOK, GoodJob, PullAppends, JobStep
  <2> QED
    BY <1>1, <1>5, <1>6, <1>12, <2>1 DEF PullAppends
<1> QED
  BY <1>7, <1>8, <1>9, <1>10, <1>11, <1>12, <1>14, <1>15 DEF Stabilises

\* A job stays where it is, goes on to the next successor once the present one has the
\* order that the merge began with, or a merge begins.
JobMoves(w) ==
  \/ SamePlace(job[w], job'[w])
  \/ /\ NextPlace(job[w], job'[w])
     /\ Order(meta'[Head(job[w].succs)].apps) = Order(job[w].apps)
  \/ ~job[w].merging /\ job'[w].merging /\ job'[w].succs = Successors(Home[w])

LEMMA MergeMoves ==
  ASSUME AllOK, fails' = 0, NEW w \in Workers, NEW p \in Nodes, NEW S, S \subseteq Serving,
         \A m \in S : meta[m].hash # 0, AllListed(job[w], S, Listed(p)), Merge(w)
  PROVE  AllListed(job'[w], S, Listed(p)) /\ JobMoves(w)
<1>1. PICK j : j = job[w]
  OBVIOUS
<1>2. PICK D : D = Listed(p)
  OBVIOUS
<1>3. PICK m : m = Head(j.succs)
  OBVIOUS
<1>4. j \in JobType /\ AllListed(j, S, D) /\ job \in [Workers -> JobType] /\ fails \in Nat
  BY <1>1, <1>2 DEF AllOK, JobsOK, RingOK
<1>5. j.merging /\ j.succs # <<>> /\ ~j.skip
  <2>1. j.pc \in {"check", "sync", "update"} /\ GoodJob(scenario.kind, j)
    BY <1>1 DEF AllOK, JobsOK, Merge, ensureRemoteFileInSync, syncRemoteAppendOrder,
       UpdateAppendOrder, JobStep
  <2> QED
    BY <1>4, <2>1 DEF GoodJob, AllListed
<1>6. m \in S /\ m \in Serving /\ Exists(m) /\ m \in Nodes /\ meta[m] \in FileType
  <2>1. m \in S
    BY <1>3, <1>4, <1>5, HeadAndTail DEF AllListed
  <2> QED
    BY <2>1 DEF Exists, NoFile, Serving, AllOK, RingOK, StoreOK
<1>7. ~CallFails(m)
  BY <1>4, <1>6 DEF CallFails
<1>8. ASSUME NEW k, job' = [job EXCEPT ![w] = k], AllListed(k, S, D), SamePlace(j, k)
      PROVE  AllListed(job'[w], S, Listed(p)) /\ JobMoves(w)
  <2>1. job'[w] = k
    BY <1>4, <1>8
  <2> QED
    BY <1>1, <1>2, <1>8, <2>1 DEF JobMoves
<1>9. ASSUME job' = [job EXCEPT ![w] = NextSuccessor(j)], Order(meta'[m].apps) = Order(j.apps)
      PROVE  AllListed(job'[w], S, Listed(p)) /\ JobMoves(w)
  <2>1. job'[w] = NextSuccessor(j)
    BY <1>4, <1>9
  <2>2. AllListed(NextSuccessor(j), S, D) /\ NextPlace(j, NextSuccessor(j))
    BY <1>4, <1>5, NextSuccessorMoves
  <2> QED
    BY <1>1, <1>2, <1>3, <1>9, <2>1, <2>2 DEF JobMoves
<1>10. ASSUME NEW pc, job' = [job EXCEPT ![w] = [j EXCEPT !.pc = pc]]
       PROVE  AllListed(job'[w], S, Listed(p)) /\ JobMoves(w)
  <2> DEFINE k == [j EXCEPT !.pc = pc]
  <2>1. /\ k.apps = j.apps /\ k.merging = j.merging /\ k.succs = j.succs /\ k.skip = j.skip
        /\ k.left = j.left /\ k.ring = j.ring /\ k.queue = j.queue
    BY <1>4 DEF JobType
  <2>2. job' = [job EXCEPT ![w] = k]
    BY <1>10
  <2> HIDE DEF k
  <2>3. AllListed(k, S, D) /\ SamePlace(j, k)
    BY <1>4, <2>1 DEF AllListed, SamePlace
  <2> QED
    BY <1>8, <2>2, <2>3
<1>11. CASE ensureRemoteFileInSync(w)
  <2>1. \/ job' = [job EXCEPT ![w] = [j EXCEPT !.pc = "range"]]
        \/ job' = [job EXCEPT ![w] = [j EXCEPT !.pc = "sync"]]
    BY <1>1, <1>3, <1>6, <1>7, <1>11 DEF ensureRemoteFileInSync
  <2> QED
    BY <1>10, <2>1
<1>12. CASE syncRemoteAppendOrder(w)
  <2>1. \/ job' = [job EXCEPT ![w] = NextSuccessor(j)] /\ Order(j.apps) = Order(meta[m].apps)
        \/ job' = [job EXCEPT ![w] = [j EXCEPT !.pc = "update"]]
    BY <1>1, <1>3, <1>6, <1>7, <1>12 DEF syncRemoteAppendOrder, ordersMatch
  <2>2. meta' = meta
    BY <1>12 DEF syncRemoteAppendOrder, storeVars
  <2> QED
    BY <1>9, <1>10, <2>1, <2>2
<1>13. CASE UpdateAppendOrder(w)
  <2>1. /\ job' = [job EXCEPT ![w] = NextSuccessor(j)]
        /\ meta' = [meta EXCEPT ![m] = [meta[m] EXCEPT !.apps = j.apps]]
    BY <1>1, <1>3, <1>7, <1>13 DEF UpdateAppendOrder
  <2>2. meta'[m].apps = j.apps
    BY <1>6, <2>1 DEF AllOK, StoreOK, FileType
  <2> QED
    BY <1>9, <2>1, <2>2
<1> QED
  BY <1>11, <1>12, <1>13 DEF Merge

LEMMA UndisturbedJob ==
  ASSUME AllOK, fails' = 0, NEW p \in Nodes, NEW S, S \subseteq Serving, Exists(p),
         \A m \in S : meta[m].hash # 0, Successors(p) \in Seq(S),
         \A c \in up : p = IF IsPrimary(c) THEN c ELSE Head(Targets(c)),
         NEW v \in Workers, AllListed(job[v], S, Listed(p)), UndisturbedStep(p)
  PROVE  AllListed(job'[v], S, Listed(p)) /\ JobMoves(v)
<1>0. job \in [Workers -> JobType]
  BY DEF AllOK, JobsOK
<1>1. ASSUME job'[v] = job[v] PROVE AllListed(job'[v], S, Listed(p)) /\ JobMoves(v)
  BY <1>1 DEF JobMoves, SamePlace
<1>2. ASSUME NEW c \in up, NEW w \in Workers, handleMergeCommand(c, w)
      PROVE  AllListed(job'[v], S, Listed(p)) /\ JobMoves(v)
  <2> DEFINE s == Successors(p)
             h == meta[p].hash
             a == meta[p].apps
             k == [Idle EXCEPT !.pc = "check", !.merging = TRUE, !.succs = s, !.hash = h, !.apps = a]
  <2>1. job' = [job EXCEPT ![w] = k] /\ job[w] = Idle /\ Home[w] = p
    BY <1>2 DEF handleMergeCommand
  <2>2. k.merging /\ k.succs = s /\ ~k.skip /\ k.left = <<>> /\ k.ring = <<>> /\ k.queue = <<>>
    <3> HIDE DEF s, h, a
    <3> QED
      BY DEF Idle
  <2> HIDE DEF k
  <2>3. AllListed(k, S, Listed(p))
    BY <2>2, ShortSeqs DEF AllListed, IDs
  <2>4. CASE w = v
    <3>1. job'[v] = k /\ ~job[v].merging
      BY <1>0, <2>1, <2>4 DEF Idle
    <3> QED
      BY <2>1, <2>2, <2>3, <2>4, <3>1 DEF JobMoves
  <2>5. CASE w # v
    BY <1>0, <1>1, <2>1, <2>5
  <2> QED
    BY <2>4, <2>5
<1>3. ASSUME NEW c, handleCreate(c) \/ handleAppend(c) PROVE job' = job
  BY <1>3 DEF handleCreate, handleAppend, BeginWrite
<1>4. ASSUME NEW t, FileTransfer(t) \/ WriteChunk(t) \/ ListAppend(t) PROVE job' = job
  BY <1>4 DEF FileTransfer, WriteChunk, ListAppend, HandleTransfer
<1>5. ASSUME NEW w \in Workers, Home[w] = p, Stabilises(w) \/ Merge(w)
      PROVE  AllListed(job'[v], S, Listed(p)) /\ JobMoves(v)
  <2>1. CASE w = v
    <3>1. Stabilises(v) => AllListed(job'[v], S, Listed(p)) /\ JobMoves(v)
      BY <1>5, <2>1, StabilisationStays DEF JobMoves
    <3>2. Merge(v) => AllListed(job'[v], S, Listed(p)) /\ JobMoves(v)
      BY MergeMoves
    <3> QED
      BY <1>5, <2>1, <3>1, <3>2
  <2>2. CASE w # v
    <3>1. \E k : job' = [job EXCEPT ![w] = k]
      BY <1>5 DEF Stabilises, GetPrimaryKeyRange, FindSuccessors, PushFetch, PushFile, PushAppend,
         PushDone, PullFetch, PullAppends, Merge, ensureRemoteFileInSync, syncRemoteAppendOrder,
         UpdateAppendOrder
    <3> QED
      BY <1>0, <1>1, <2>2, <3>1
  <2> QED
    BY <2>1, <2>2
<1>6. UNCHANGED vars => job' = job
  BY DEF vars
<1> QED
  BY <1>1, <1>2, <1>3, <1>4, <1>5, <1>6 DEF UndisturbedStep

----------------------------------------------------------------------------
(* What a step of an undisturbed merge does to the files and the calls.       *)

\* One list of a step: the same, the one that a merge carries, or with one more append
\* that was on its way.
ListGoesOn(m) ==
  \/ meta'[m] = meta[m]
  \/ /\ meta'[m].hash = meta[m].hash
     /\ \/ \E w \in Workers : job[w].merging /\ meta'[m].apps = job[w].apps
        \/ \E a \in AppendType :
             ID(a) \in Coming(m) /\ meta'[m].apps = AppendToFile(meta[m].apps, a)

LEMMA UndisturbedLists ==
  ASSUME AllOK, NEW p \in Nodes, meta[p].hash # 0, UndisturbedStep(p)
  PROVE  ~overwritten => ~overwritten' /\ UNCHANGED probing /\ \A m \in Nodes : ListGoesOn(m)
<1>1. meta \in [Nodes -> FileType] /\ Exists(p)
  BY DEF AllOK, StoreOK, Exists, NoFile
<1>2. ASSUME UNCHANGED <<storeVars, probing>>
      PROVE  ~overwritten => ~overwritten' /\ UNCHANGED probing /\ \A m \in Nodes : ListGoesOn(m)
  BY <1>2 DEF storeVars, ListGoesOn
<1>3. ASSUME NEW c \in up, handleCreate(c) \/ handleAppend(c) \/ \E w \in Workers : handleMergeCommand(c, w)
      PROVE  UNCHANGED <<storeVars, probing>>
  BY <1>3 DEF handleCreate, handleAppend, BeginWrite, handleMergeCommand
<1>4. ASSUME NEW t \in transfers, FileTransfer(t) PROVE UNCHANGED <<storeVars, probing>>
  BY <1>4 DEF FileTransfer, HandleTransfer
<1>5. ASSUME NEW t \in transfers, WriteChunk(t)
      PROVE  UNCHANGED <<meta, overwritten, probing>>
  BY <1>5 DEF WriteChunk, HandleTransfer
<1>6. ASSUME NEW t \in transfers, ListAppend(t)
      PROVE  UNCHANGED <<overwritten, probing>> /\ \A m \in Nodes : ListGoesOn(m)
  <2> DEFINE s == AppendToFile(meta[t.to].apps, t.item)
  <2>1. /\ UNCHANGED <<overwritten, probing>> /\ t.what = "append"
        /\ meta' = [meta EXCEPT ![t.to] = [meta[t.to] EXCEPT !.apps = s]]
    BY <1>6 DEF ListAppend, HandleTransfer
  <2>2. t.item \in AppendType /\ t.to \in Nodes /\ ID(t.item) \in Coming(t.to)
    BY <2>1, CallFacts DEF AllOK, Coming
  <2>3. s = AppendToFile(meta[t.to].apps, t.item)
    OBVIOUS
  <2> HIDE DEF s
  <2>4. /\ meta'[t.to].apps = s /\ meta'[t.to].hash = meta[t.to].hash
        /\ \A k \in Nodes \ {t.to} : meta'[k] = meta[k]
    <3> DEFINE g == [meta[t.to] EXCEPT !.apps = s]
    <3>1. meta \in [Nodes -> FileType] /\ meta[t.to] \in FileType
      BY <1>1, <2>2
    <3>2. g.apps = s /\ g.hash = meta[t.to].hash
      BY <3>1 DEF FileType
    <3>3. meta' = [meta EXCEPT ![t.to] = g]
      BY <2>1
    <3> HIDE DEF g
    <3> QED
      BY <2>2, <3>1, <3>2, <3>3
  <2> QED
    BY <2>1, <2>2, <2>3, <2>4 DEF ListGoesOn
<1>7. ASSUME NEW w \in Workers, Stabilises(w) PROVE UNCHANGED <<meta, overwritten, probing>>
  BY <1>7 DEF Stabilises, GetPrimaryKeyRange, FindSuccessors, PushFetch, PushFile, PushAppend,
     PushDone, Pushing, PullFetch, PullAppends, storeVars, JobStep
<1>8. ASSUME NEW w \in Workers, Merge(w)
      PROVE  UNCHANGED <<overwritten, probing>> /\ \A m \in Nodes : ListGoesOn(m)
  <2>1. UNCHANGED <<overwritten, probing>> /\ job[w].merging
    BY <1>8 DEF Merge, ensureRemoteFileInSync, syncRemoteAppendOrder, UpdateAppendOrder,
       storeVars, JobStep, AllOK, JobsOK, GoodJob
  <2>2. \/ UNCHANGED meta
        \/ \E m \in Serving : meta' = [meta EXCEPT ![m] = [meta[m] EXCEPT !.apps = job[w].apps]]
    BY <1>8 DEF Merge, ensureRemoteFileInSync, syncRemoteAppendOrder, UpdateAppendOrder, storeVars
  <2>3. ASSUME NEW m \in Serving, meta' = [meta EXCEPT ![m] = [meta[m] EXCEPT !.apps = job[w].apps]]
        PROVE  \A k \in Nodes : ListGoesOn(k)
    <3>1. /\ meta'[m].apps = job[w].apps /\ meta'[m].hash = meta[m].hash
          /\ \A k \in Nodes \ {m} : meta'[k] = meta[k]
      BY <1>1, <2>3 DEF FileType, Serving, AllOK, RingOK
    <3> QED
      BY <2>1, <3>1 DEF ListGoesOn
  <2> QED
    BY <2>1, <2>2, <2>3 DEF ListGoesOn
<1>9. UNCHANGED vars => UNCHANGED <<storeVars, probing>>
  BY DEF vars, storeVars
<1>10. ASSUME UNCHANGED <<meta, overwritten, probing>>
       PROVE  ~overwritten => ~overwritten' /\ UNCHANGED probing /\ \A m \in Nodes : ListGoesOn(m)
  BY <1>10 DEF ListGoesOn
<1> QED
  BY <1>2, <1>3, <1>4, <1>5, <1>6, <1>7, <1>8, <1>9, <1>10 DEF UndisturbedStep

LEMMA UndisturbedCalls ==
  ASSUME AllOK, NEW p \in up, p \in Nodes, NEW R, up' = up, \A c \in up : ToSet(Targets(c)) = R,
         GoodCalls(R), NEW D, \A w \in Workers : AllListed(job[w], R \ {p}, D),
         UndisturbedStep(p)
  PROVE  GoodCalls(R)'
<1>1. ASSUME transfers' \subseteq transfers PROVE GoodCalls(R)'
  BY <1>1 DEF GoodCalls
<1>2. ASSUME NEW c \in up, NEW what, NEW item, NEW w, SendToTargets(c, Targets(c), what, item, w)
      PROVE  GoodCalls(R)'
  <2>1. ASSUME NEW t \in transfers' \ transfers PROVE t.to \in R /\ t.from = c /\ t.phase = "sent"
    <3>1. PICK i \in DOMAIN Targets(c) :
            t = Transfer("client", c, Targets(c)[i], i, what, item, <<w>>)
      BY <1>2 DEF SendToTargets
    <3>2. t.to = Targets(c)[i] /\ t.from = c /\ t.phase = "sent"
      BY <3>1 DEF Transfer
    <3> QED
      BY <3>2 DEF ToSet
  <2> QED
    BY <2>1 DEF GoodCalls
<1>3. ASSUME NEW c \in up, handleCreate(c) \/ handleAppend(c) \/ \E w \in Workers : handleMergeCommand(c, w)
      PROVE  GoodCalls(R)'
  BY <1>1, <1>2, <1>3 DEF handleCreate, handleAppend, handleMergeCommand, SendFile, SendAppend
<1>4. ASSUME NEW t \in transfers, Answer(t) PROVE GoodCalls(R)'
  BY <1>1, <1>4 DEF Answer
<1>5. ASSUME NEW t \in transfers, WriteChunk(t) PROVE GoodCalls(R)'
  <2> DEFINE u == [t EXCEPT !.phase = "written"]
  <2>1. transfers' = (transfers \ {t}) \cup {u} /\ t.what = "append"
    BY <1>5 DEF WriteChunk, Advance
  <2>2. u.to = t.to /\ u.from = t.from /\ u.phase = "written"
    <3>1. t \in AppendCall(writes)
      BY <2>1, CallFacts DEF AllOK
    <3> QED
      BY <3>1 DEF AppendCall
  <2> HIDE DEF u
  <2> QED
    BY <2>1, <2>2 DEF GoodCalls
<1>6. ASSUME NEW w \in Workers, Home[w] = p, Stabilises(w) PROVE GoodCalls(R)'
  <2>1. CASE \/ GetPrimaryKeyRange(w) \/ FindSuccessors(w)
             \/ PushFetch(w) \/ PushDone(w) \/ PullFetch(w) \/ PullAppends(w)
    BY <1>1, <2>1 DEF GetPrimaryKeyRange, FindSuccessors, PushFetch, PushDone, PullFetch, PullAppends
  <2>2. CASE PushFile(w) \/ PushAppend(w)
    <3>1. Head(job[w].left) \in R
      <4>1. job[w].left # <<>>
        BY <2>2 DEF PushFile, PushAppend, Pushing, JobStep, AllOK, JobsOK, GoodJob
      <4>2. Head(job[w].left) \in R \ {p}
        BY <4>1, HeadAndTail DEF AllListed
      <4> QED
        BY <4>2
    <3>2. ASSUME NEW t \in transfers' \ transfers
          PROVE  t.to = Head(job[w].left) /\ t.from = p /\ t.phase = "sent"
      BY <1>6, <2>2 DEF PushFile, PushAppend, Push, Transfer
    <3> QED
      BY <3>1, <3>2 DEF GoodCalls
  <2> QED
    BY <1>6, <2>1, <2>2 DEF Stabilises
<1>7. ASSUME (\E w \in Workers : Merge(w)) \/ UNCHANGED vars PROVE GoodCalls(R)'
  BY <1>1, <1>7 DEF Merge, ensureRemoteFileInSync, syncRemoteAppendOrder, UpdateAppendOrder, vars
<1>8. ASSUME NEW t \in transfers, ListAppend(t) PROVE Answer(t)
  BY <1>8 DEF ListAppend
<1> QED
  BY <1>3, <1>4, <1>5, <1>6, <1>7, <1>8 DEF UndisturbedStep

\* The calls and the chunks of a step: what a client sends (new), it sends to all
\* replicas; the primary pushes what it lists; and a call that ends at another replica
\* leaves its chunk there, at the primary its append in the list.
CallsGoOn(p, R) ==
  \E new :
    /\ \A m \in R : new \subseteq Coming(m)' /\ Coming(m)' \subseteq Coming(m) \cup new \cup Listed(p)
    /\ \A m \in R \ {p} : Stored(m) \cup Coming(m) \subseteq Stored(m)' \cup Coming(m)'
    /\ Stored(p)' \cup Coming(p)' \subseteq Stored(p) \cup Coming(p) \cup new
    /\ Coming(p) \subseteq Listed(p)' \cup Coming(p)'

LEMMA QuietCalls ==
  ASSUME NEW p, NEW R, \A m : Coming(m)' = Coming(m), Stored(p)' \subseteq Stored(p),
         \A m \in R \ {p} : Stored(m)' = Stored(m)
  PROVE  CallsGoOn(p, R)
<1>1. PICK new : new = {}
  OBVIOUS
<1>2. /\ \A m \in R : new \subseteq Coming(m)' /\ Coming(m)' \subseteq Coming(m) \cup new \cup Listed(p)
      /\ \A m \in R \ {p} : Stored(m) \cup Coming(m) \subseteq Stored(m)' \cup Coming(m)'
      /\ Stored(p)' \cup Coming(p)' \subseteq Stored(p) \cup Coming(p) \cup new
      /\ Coming(p) \subseteq Listed(p)' \cup Coming(p)'
  BY <1>1
<1> QED
  BY <1>2 DEF CallsGoOn

LEMMA SameAppendCalls ==
  ASSUME \A u : u.what = "append" => (u \in transfers' <=> u \in transfers)
  PROVE  \A m : Coming(m)' = Coming(m)
BY DEF Coming

LEMMA ClientCalls ==
  ASSUME NEW c \in up, NEW p, NEW R, ToSet(Targets(c)) = R, p \in R,
         handleCreate(c) \/ handleAppend(c) \/ \E w \in Workers : handleMergeCommand(c, w)
  PROVE  CallsGoOn(p, R)
<1>1. \A m : Stored(m)' = Stored(m)
  BY DEF handleCreate, handleAppend, BeginWrite, handleMergeCommand, storeVars, Stored
<1>2. CASE handleCreate(c)
  <2>1. ASSUME NEW u, u.what = "append" PROVE u \in transfers' <=> u \in transfers
    BY <1>2, <2>1 DEF handleCreate, SendFile, SendToTargets, Transfer
  <2> QED
    BY <1>1, <2>1, SameAppendCalls, QuietCalls
<1>3. CASE handleAppend(c)
  <2> DEFINE a == AppendInfo(c, clock', writes')
             T == Targets(c)
             call(i) == Transfer("client", c, T[i], i, "append", a, <<writes'>>)
  <2>1. transfers' = transfers \cup {call(i) : i \in DOMAIN T}
    BY <1>3 DEF handleAppend, SendAppend, SendToTargets
  <2>2. \A i : call(i).to = T[i] /\ call(i).what = "append" /\ call(i).item = a
    BY DEF Transfer
  <2>3. R = {T[i] : i \in DOMAIN T}
    BY DEF ToSet
  <2> HIDE DEF a, T, call
  <2>4. ASSUME NEW m \in R PROVE Coming(m)' = Coming(m) \cup {ID(a)}
    <3>1. PICK i \in DOMAIN T : T[i] = m
      BY <2>3
    <3>2. call(i) \in transfers' /\ call(i).to = m /\ call(i).what = "append" /\ call(i).item = a
      BY <2>1, <2>2, <3>1
    <3>3. ID(a) \in Coming(m)'
      BY <3>2 DEF Coming
    <3>4. Coming(m) \subseteq Coming(m)'
      BY <2>1 DEF Coming
    <3>5. Coming(m)' \subseteq Coming(m) \cup {ID(a)}
      BY <2>1, <2>2 DEF Coming
    <3> QED
      BY <3>3, <3>4, <3>5
  <2>5. PICK new : new = {ID(a)}
    OBVIOUS
  <2>6. /\ \A m \in R : new \subseteq Coming(m)' /\ Coming(m)' \subseteq Coming(m) \cup new \cup Listed(p)
        /\ \A m \in R \ {p} : Stored(m) \cup Coming(m) \subseteq Stored(m)' \cup Coming(m)'
        /\ Stored(p)' \cup Coming(p)' \subseteq Stored(p) \cup Coming(p) \cup new
        /\ Coming(p) \subseteq Listed(p)' \cup Coming(p)'
    BY <1>1, <2>4, <2>5
  <2> QED
    BY <2>6 DEF CallsGoOn
<1>4. CASE \E w \in Workers : handleMergeCommand(c, w)
  <2>1. transfers' = transfers
    BY <1>4 DEF handleMergeCommand
  <2> QED
    BY <1>1, <2>1, SameAppendCalls, QuietCalls
<1> QED
  BY <1>2, <1>3, <1>4

LEMMA ReceivedCalls ==
  ASSUME AllOK, NEW p \in Nodes, NEW R, R \subseteq Nodes, ChunksOf(p), NEW t \in transfers,
         (FileTransfer(t) /\ Answer(t)) \/ WriteChunk(t) \/ ListAppend(t)
  PROVE  CallsGoOn(p, R)
<1> DEFINE m == t.to
           d == ID(t.item)
<1>1. CASE FileTransfer(t) /\ Answer(t)
  <2>1. ASSUME NEW u, u.what = "append" PROVE u \in transfers' <=> u \in transfers
    BY <1>1, <2>1 DEF FileTransfer, Answer
  <2>2. \A k : Stored(k)' = Stored(k)
    BY <1>1 DEF FileTransfer, storeVars, Stored
  <2> QED
    BY <2>1, <2>2, SameAppendCalls, QuietCalls
<1>2. CASE WriteChunk(t)
  <2> DEFINE u == [t EXCEPT !.phase = "written"]
  <2>1. transfers' = (transfers \ {t}) \cup {u} /\ t.what = "append"
    BY <1>2 DEF WriteChunk, Advance
  <2>2. u.to = t.to /\ u.item = t.item /\ u.what = t.what
    <3>1. t \in AppendCall(writes)
      BY <2>1, CallFacts DEF AllOK
    <3> QED
      BY <3>1 DEF AppendCall
  <2> HIDE DEF u
  <2>3. \A k : Coming(k)' = Coming(k)
    BY <2>1, <2>2 DEF Coming
  <2>4. d \in Coming(m)
    BY <2>1 DEF Coming
  <2>5. Stored(m)' = Stored(m) \cup {d} /\ \A k \in Nodes \ {m} : Stored(k)' = Stored(k)
    BY <1>2, WriteChunkStores DEF ChunkWritten
  <2> HIDE DEF d, m
  <2>6. PICK new : new = {}
    OBVIOUS
  <2>7. Stored(p)' \subseteq Stored(p) \cup Coming(p) /\ \A k \in Nodes : Stored(k) \subseteq Stored(k)'
    BY <2>4, <2>5
  <2>8. /\ \A k \in R : new \subseteq Coming(k)' /\ Coming(k)' \subseteq Coming(k) \cup new \cup Listed(p)
        /\ \A k \in R \ {p} : Stored(k) \cup Coming(k) \subseteq Stored(k)' \cup Coming(k)'
        /\ Stored(p)' \cup Coming(p)' \subseteq Stored(p) \cup Coming(p) \cup new
        /\ Coming(p) \subseteq Listed(p)' \cup Coming(p)'
    BY <2>3, <2>6, <2>7
  <2> QED
    BY <2>8 DEF CallsGoOn
<1>3. CASE ListAppend(t)
  <2>1. AppendListed(m, d)
    BY <1>3, ListAppendLists
  <2>2. \A k \in Nodes : Stored(k)' = Stored(k)
    BY <2>1 DEF AppendListed, ChunksStay
  <2>3. m # p => d \in Stored(m)
    BY <2>1 DEF AppendListed, ChunksOf, Serving, AllOK, RingOK
  <2>4. m = p => d \in Listed(p)'
    BY <2>1 DEF AppendListed
  <2>5. transfers' = transfers \ {t}
    BY <1>3 DEF ListAppend, Answer
  <2>6. \A k : Coming(k)' \subseteq Coming(k)
    BY <2>5 DEF Coming
  <2>7. ASSUME NEW k PROVE Coming(k) \subseteq Coming(k)' \cup (IF k = m THEN {d} ELSE {})
    BY <2>5 DEF Coming
  <2> HIDE DEF d, m
  <2>8. PICK new : new = {}
    OBVIOUS
  <2>9. \A k \in R \ {p} : Coming(k) \subseteq Stored(k)' \cup Coming(k)'
    BY <2>2, <2>3, <2>7
  <2>10. Coming(p) \subseteq Listed(p)' \cup Coming(p)'
    BY <2>4, <2>7
  <2>11. /\ \A k \in R : new \subseteq Coming(k)' /\ Coming(k)' \subseteq Coming(k) \cup new \cup Listed(p)
         /\ \A k \in R \ {p} : Stored(k) \cup Coming(k) \subseteq Stored(k)' \cup Coming(k)'
         /\ Stored(p)' \cup Coming(p)' \subseteq Stored(p) \cup Coming(p) \cup new
    BY <2>2, <2>6, <2>8, <2>9
  <2> QED
    BY <2>10, <2>11 DEF CallsGoOn
<1> QED
  BY <1>1, <1>2, <1>3

LEMMA PrimaryCalls ==
  ASSUME AllOK, NEW w \in Workers, NEW p \in Nodes, p = Home[w], NEW R, R \subseteq Nodes,
         AllListed(job[w], R \ {p}, Listed(p)), Stabilises(w) \/ Merge(w)
  PROVE  CallsGoOn(p, R)
<1>1. CASE PushAppend(w)
  <2> DEFINE a == Head(job[w].queue)
             m == Head(job[w].left)
             K == {k \in chunk[p] : k.id = ID(a)}
             call(k) == Transfer(w, p, m, 1, "append", a, <<k.data>>)
  <2>1. /\ transfers' = transfers \cup {call(k) : k \in K}
        /\ job[w].queue # <<>> /\ job[w].pc = "pushing" /\ UNCHANGED <<chunk, meta>>
    BY <1>1 DEF PushAppend, Pushing, Push, JobStep, storeVars
  <2>2. \A k : call(k).to = m /\ call(k).item = a
    BY DEF Transfer
  <2>3. m # p
    <3>1. job[w].left # <<>>
      BY <2>1 DEF AllOK, JobsOK, GoodJob
    <3>2. Head(job[w].left) \in R \ {p}
      BY <3>1, HeadAndTail DEF AllListed
    <3> QED
      BY <3>2
  <2>4. ID(a) \in Listed(p)
    <3>1. job[w].queue \in Seq(AppendType)
      BY DEF AllOK, JobsOK, JobType
    <3> QED
      BY <2>1, <3>1, TailIDs DEF AllListed
  <2> HIDE DEF a, m, K, call
  <2>5. \A k : Coming(k) \subseteq Coming(k)' /\ Coming(k)' \subseteq Coming(k) \cup {ID(a)}
    BY <2>1, <2>2 DEF Coming
  <2>6. Coming(p)' \subseteq Coming(p)
    BY <2>1, <2>2, <2>3 DEF Coming
  <2>7. \A k : Stored(k)' = Stored(k)
    BY <2>1 DEF Stored
  <2>8. PICK new : new = {}
    OBVIOUS
  <2>9. /\ \A k \in R : new \subseteq Coming(k)' /\ Coming(k)' \subseteq Coming(k) \cup new \cup Listed(p)
        /\ \A k \in R \ {p} : Stored(k) \cup Coming(k) \subseteq Stored(k)' \cup Coming(k)'
        /\ Stored(p)' \cup Coming(p)' \subseteq Stored(p) \cup Coming(p) \cup new
        /\ Coming(p) \subseteq Listed(p)' \cup Coming(p)'
    BY <2>4, <2>5, <2>6, <2>7, <2>8
  <2> QED
    BY <2>9 DEF CallsGoOn
<1>2. CASE PullAppends(w)
  <2>1. Stored(p)' \subseteq Stored(p) /\ \A m \in Nodes \ {p} : Stored(m)' = Stored(m)
    BY <1>2, PullAppendsRemoves DEF ChunksRemoved
  <2>2. transfers' = transfers
    BY <1>2 DEF PullAppends
  <2> QED
    BY <2>1, <2>2, SameAppendCalls, QuietCalls
<1>3. CASE PushFile(w)
  <2>1. ASSUME NEW u, u.what = "append" PROVE u \in transfers' <=> u \in transfers
    BY <1>3, <2>1 DEF PushFile, Push, Transfer
  <2>2. \A k : Stored(k)' = Stored(k)
    BY <1>3 DEF PushFile, Pushing, storeVars, Stored
  <2> QED
    BY <2>1, <2>2, SameAppendCalls, QuietCalls
<1>4. CASE \/ GetPrimaryKeyRange(w) \/ FindSuccessors(w) \/ PushFetch(w) \/ PushDone(w)
           \/ PullFetch(w) \/ Merge(w)
  <2>1. UNCHANGED <<transfers, chunk>>
    BY <1>4 DEF GetPrimaryKeyRange, FindSuccessors, PushFetch, PushDone, Pushing, PullFetch,
       Merge, ensureRemoteFileInSync, syncRemoteAppendOrder, UpdateAppendOrder, storeVars
  <2>2. \A k : Stored(k)' = Stored(k)
    BY <2>1 DEF Stored
  <2>3. \A m : Coming(m)' = Coming(m)
    BY <2>1 DEF Coming
  <2> QED
    BY <2>2, <2>3, QuietCalls
<1> QED
  BY <1>1, <1>2, <1>3, <1>4 DEF Stabilises

LEMMA QuietStep ==
  ASSUME NEW p, NEW R, UNCHANGED vars
  PROVE  CallsGoOn(p, R)
<1>1. (\A m : Coming(m)' = Coming(m)) /\ \A m : Stored(m)' = Stored(m)
  BY DEF vars, Coming, Stored
<1> QED
  BY <1>1, QuietCalls

\* Lists in the same order have the same AppendIDs.
LEMMA OrderIDs ==
  ASSUME NEW s \in Seq(AppendType), NEW r \in Seq(AppendType), Order(s) = Order(r)
  PROVE  IDs(s) = IDs(r)
<1>1. DOMAIN Order(s) = DOMAIN s /\ DOMAIN Order(r) = DOMAIN r
  BY DEF Order
<1>2. DOMAIN s = DOMAIN r
  BY <1>1
<1>3. \A i \in DOMAIN s : ID(s[i]) = ID(r[i])
  <2>1. \A i \in DOMAIN s : Order(s)[i] = ID(s[i])
    BY DEF Order
  <2>2. \A i \in DOMAIN r : Order(r)[i] = ID(r[i])
    BY DEF Order
  <2> QED
    BY <1>2, <2>1, <2>2
<1> QED
  BY <1>2, <1>3 DEF IDs

\* The facts of a step of an undisturbed merge.
UndisturbedFacts(p, R) ==
  /\ UndisturbedStep(p) /\ p \in R /\ R \subseteq up /\ up \subseteq Nodes /\ up' = up
  /\ up \subseteq Serving
  /\ view' = view /\ fails' = 0 /\ Successors(p) \in Seq(R \ {p})
  /\ \A c \in up : ToSet(Targets(c)) = R
  /\ \A c \in up : p = IF IsPrimary(c) THEN c ELSE Head(Targets(c))
  /\ PrimaryJobs(p) /\ ChunksOf(p) /\ Undisturbed /\ OneJob
  /\ ReplicasKeepFile(p, R) /\ ReplicasGetAll(p, R) /\ PassedAgree(p)

LEMMA UndisturbedFactsHold ==
  ASSUME AllOK, StandingOK, PrimaryOK, MergeOK, [Next]_vars, Undisturbed',
         NEW p, p = FirstPrimary, NEW R, R = FirstReplicas
  PROVE  UndisturbedFacts(p, R)
<1>1. Undisturbed /\ Standing /\ Standing' /\ fails' = 0 /\ up' = up /\ HashesDiffer
  BY UndisturbedBefore DEF Undisturbed
<1>2. /\ p \in R /\ R \subseteq up /\ up \subseteq Nodes
      /\ \A c \in up : ToSet(Targets(c)) = R
      /\ Successors(p) \in Seq(R \ {p})
  BY <1>1, FirstReplicasAre
<1>3. \A c \in up : p = IF IsPrimary(c) THEN c ELSE Head(Targets(c))
  BY <1>1, FirstIsPrimary
<1>4. OneJob /\ ReplicasKeepFile(p, R) /\ ReplicasGetAll(p, R) /\ PassedAgree(p)
  BY <1>1 DEF MergeOK
<1>5. PrimaryJobs(p) /\ ChunksOf(p)
  BY <1>1, <1>4 DEF PrimaryOK, ReplicasKeepFile
<1>6. UndisturbedStep(p)
  BY <1>2, <1>4, <1>5, UndisturbedSteps
<1>7. view' = view /\ up \subseteq Serving
  BY <1>1, StandingNext DEF StandingOK, Serving, AllOK, RingOK
<1> QED
  BY <1>1, <1>2, <1>3, <1>4, <1>5, <1>6, <1>7 DEF UndisturbedFacts

LEMMA UndisturbedKeeps ==
  ASSUME AllOK, [Next]_vars, NEW p, NEW R, UndisturbedFacts(p, R)
  PROVE  /\ ReplicasKeepFile(p, R)' /\ Listed(p) \subseteq Listed(p)'
         /\ \A w \in Workers : JobMoves(w)
<1>1. /\ p \in Nodes /\ p \in up /\ R \subseteq up /\ up \subseteq Nodes /\ R \ {p} \subseteq Serving
      /\ \A m \in R : meta[m].hash # 0
      /\ ~overwritten /\ GoodCalls(R) /\ \A w \in Workers : AllListed(job[w], R \ {p}, Listed(p))
  BY DEF UndisturbedFacts, ReplicasKeepFile
<1>9. meta[p].hash # 0 /\ Exists(p)
  BY <1>1 DEF UndisturbedFacts, Exists, NoFile
<1>2. ~overwritten' /\ UNCHANGED probing /\ \A m \in Nodes : ListGoesOn(m)
  BY <1>1, <1>9, UndisturbedLists DEF UndisturbedFacts
<1>3. \A m \in R : meta'[m].hash # 0
  BY <1>1, <1>2 DEF ListGoesOn
<1>4. GoodCalls(R)'
  BY <1>1, UndisturbedCalls DEF UndisturbedFacts
<1>5. Listed(p) \subseteq Listed(p)'
  BY <1>1, <1>2, PrimaryListGrows DEF UndisturbedFacts
<1>6. ASSUME NEW w \in Workers PROVE AllListed(job'[w], R \ {p}, Listed(p)) /\ JobMoves(w)
  <2>1. AllListed(job[w], R \ {p}, Listed(p)) /\ \A m \in R \ {p} : meta[m].hash # 0
    BY <1>1
  <2> QED
    BY <1>1, <1>9, <2>1, UndisturbedJob DEF UndisturbedFacts
<1>7. ASSUME NEW w \in Workers PROVE AllListed(job'[w], R \ {p}, Listed(p)')
  BY <1>5, <1>6 DEF AllListed
<1>8. \A c \in Nodes : probing'[c] = NoProbe
  BY <1>2 DEF UndisturbedFacts, ReplicasKeepFile
<1>10. ASSUME NEW w \in Workers PROVE job'[w].pc \notin {"load", "add"}
  <2>1. UndisturbedStep(p) /\ \A v \in Workers : job[v].pc \notin {"load", "add"}
    BY DEF UndisturbedFacts, ReplicasKeepFile
  <2> QED
    BY <1>1, <1>9, <2>1, NoDownload
<1> QED
  BY <1>2, <1>3, <1>4, <1>5, <1>6, <1>7, <1>8, <1>10 DEF ReplicasKeepFile

LEMMA UndisturbedGetAll ==
  ASSUME AllOK, [Next]_vars, NEW p, NEW R, UndisturbedFacts(p, R)
  PROVE  /\ ReplicasGetAll(p, R)'
         /\ Listed(p) \cup Coming(p) \subseteq Listed(p)' \cup Coming(p)'
<1>1. p \in Nodes /\ p \in R /\ R \subseteq Nodes
  BY DEF UndisturbedFacts
<1>2. CallsGoOn(p, R)
  <2>1. ASSUME NEW c \in up,
               \/ handleCreate(c) \/ handleAppend(c)
               \/ \E w \in Workers : handleMergeCommand(c, w)
        PROVE  CallsGoOn(p, R)
    BY <1>1, <2>1, ClientCalls DEF UndisturbedFacts
  <2>2. ASSUME NEW t \in transfers, (FileTransfer(t) /\ Answer(t)) \/ WriteChunk(t) \/ ListAppend(t)
        PROVE  CallsGoOn(p, R)
    BY <1>1, <2>2, ReceivedCalls DEF UndisturbedFacts
  <2>3. ASSUME NEW w \in Workers, Home[w] = p, Stabilises(w) \/ Merge(w)
        PROVE  CallsGoOn(p, R)
    <3>1. AllListed(job[w], R \ {p}, Listed(p))
      BY DEF UndisturbedFacts, ReplicasKeepFile
    <3> QED
      BY <1>1, <2>3, <3>1, PrimaryCalls
  <2> QED
    BY <2>1, <2>2, <2>3, QuietStep DEF UndisturbedFacts, UndisturbedStep
<1>3. Listed(p) \subseteq Listed(p)'
  BY UndisturbedKeeps
<1>4. PICK new :
        /\ \A m \in R : new \subseteq Coming(m)' /\ Coming(m)' \subseteq Coming(m) \cup new \cup Listed(p)
        /\ \A m \in R \ {p} : Stored(m) \cup Coming(m) \subseteq Stored(m)' \cup Coming(m)'
        /\ Stored(p)' \cup Coming(p)' \subseteq Stored(p) \cup Coming(p) \cup new
        /\ Coming(p) \subseteq Listed(p)' \cup Coming(p)'
  BY <1>2 DEF CallsGoOn
<1>5. /\ \A m \in R \ {p} : Stored(p) \cup Coming(p) \subseteq Stored(m) \cup Coming(m)
      /\ \A m \in R : Coming(m) \subseteq Listed(p) \cup Coming(p)
  BY DEF UndisturbedFacts, ReplicasGetAll
<1>6. \A m \in R \ {p} : Stored(p)' \cup Coming(p)' \subseteq Stored(m)' \cup Coming(m)'
  BY <1>4, <1>5
<1>7. Listed(p) \cup Coming(p) \subseteq Listed(p)' \cup Coming(p)'
  BY <1>3, <1>4
<1>8. \A m \in R : Coming(m)' \subseteq Listed(p)' \cup Coming(p)'
  BY <1>1, <1>4, <1>5, <1>7
<1> QED
  BY <1>6, <1>7, <1>8 DEF ReplicasGetAll

\* A successor that the merge has passed keeps the order, as long as the primary has
\* nothing new.
LEMMA PassedKeepOrder ==
  ASSUME AllOK, [Next]_vars, NEW p, NEW R, UndisturbedFacts(p, R), NEW w \in Workers, job[w].merging,
         Listed(p)' \cup Coming(p)' \subseteq IDs(job[w].apps),
         NEW m \in ToSet(Successors(p)) \ ToSet(job[w].succs)
  PROVE  Order(meta'[m].apps) = Order(job[w].apps)
<1>1. PICK A : A = job[w].apps
  OBVIOUS
<1>2. p \in Nodes /\ p \in R /\ R \subseteq Nodes /\ m \in R
  BY ToSetOf DEF UndisturbedFacts
<1>3. A \in Seq(AppendType) /\ meta[m].apps \in Seq(AppendType)
  BY <1>1, <1>2 DEF AllOK, JobsOK, StoreOK, FileType, JobType
<1>4. Listed(p) \cup Coming(p) \subseteq IDs(A)
  BY <1>1, UndisturbedGetAll
<1>5. Order(meta[m].apps) = Order(A)
  BY <1>1, <1>4 DEF UndisturbedFacts, PassedAgree
<1>6. IDs(meta[m].apps) = IDs(A)
  BY <1>3, <1>5, OrderIDs
<1>7. ListGoesOn(m)
  BY <1>2, UndisturbedLists DEF UndisturbedFacts, ReplicasKeepFile
<1>8. ASSUME NEW a \in AppendType, ID(a) \in Coming(m) PROVE AppendToFile(meta[m].apps, a) = meta[m].apps
  <2>1. Coming(m) \subseteq Listed(p) \cup Coming(p)
    BY <1>2 DEF UndisturbedFacts, ReplicasGetAll
  <2>2. ID(a) \in IDs(meta[m].apps)
    BY <1>4, <1>6, <1>8, <2>1
  <2> QED
    BY <1>3, <2>2, AppendToFileOf
<1>9. ASSUME NEW v \in Workers, job[v].merging PROVE job[v].apps = A
  <2>1. ~Idle.merging
    BY DEF Idle
  <2>2. v = w
    BY <1>9, <2>1 DEF UndisturbedFacts, OneJob
  <2> QED
    BY <1>1, <2>2
<1> QED
  BY <1>1, <1>5, <1>7, <1>8, <1>9 DEF ListGoesOn

LEMMA HeadOrRest ==
  ASSUME NEW S, NEW s \in Seq(S), s # <<>>, NEW m \in ToSet(s)
  PROVE  m = Head(s) \/ (Len(s) > 1 /\ m \in ToSet(Tail(s)))
<1> DEFINE t == Tail(s)
<1>1. PICK i \in DOMAIN s : m = s[i]
  BY DEF ToSet
<1>2. /\ Len(s) \in Nat \ {0} /\ t \in Seq(S) /\ Len(t) = Len(s) - 1 /\ s[1] = Head(s)
      /\ \A k \in 1..Len(t) : t[k] = s[k + 1]
  BY HeadAndTail, HeadTailProperties
<1>3. DOMAIN s = 1..Len(s) /\ DOMAIN t = 1..Len(t)
  BY <1>2
<1> HIDE DEF t
<1>4. CASE i = 1
  BY <1>1, <1>2, <1>4
<1>5. CASE i # 1
  <2>1. i - 1 \in 1..Len(t) /\ (i - 1) + 1 = i /\ Len(s) > 1
    BY <1>2, <1>3, <1>5
  <2>2. t[i - 1] = m /\ i - 1 \in DOMAIN t
    BY <1>1, <1>2, <1>3, <2>1
  <2>3. m \in ToSet(t)
    BY <2>2 DEF ToSet
  <2> QED
    BY <2>1, <2>3 DEF t
<1> QED
  BY <1>4, <1>5

LEMMA PassedNext ==
  ASSUME AllOK, [Next]_vars, NEW p, NEW R, UndisturbedFacts(p, R), PrimaryJobs(p)'
  PROVE  PassedAgree(p)'
<1> SUFFICES ASSUME NEW w \in Workers, job'[w].merging, Listed(p)' \cup Coming(p)' \subseteq IDs(job'[w].apps),
                    NEW m \in ToSet(Successors(p)') \ ToSet(job'[w].succs)
             PROVE  Order(meta'[m].apps) = Order(job'[w].apps)
  BY DEF PassedAgree
<1>1. m \in ToSet(Successors(p))
  BY DEF Successors, UndisturbedFacts
<1>2. p \in Nodes /\ JobMoves(w)
  BY UndisturbedKeeps DEF UndisturbedFacts
<1>3. CASE SamePlace(job[w], job'[w])
  <2>1. job[w].merging /\ job'[w].apps = job[w].apps /\ job'[w].succs = job[w].succs
    BY <1>3 DEF SamePlace
  <2> QED
    BY <1>1, <2>1, PassedKeepOrder
<1>4. CASE /\ NextPlace(job[w], job'[w])
           /\ Order(meta'[Head(job[w].succs)].apps) = Order(job[w].apps)
  <2>1. ~Idle.merging
    BY DEF Idle
  <2>2. /\ job[w].merging /\ job'[w].apps = job[w].apps /\ job'[w].succs = Tail(job[w].succs)
        /\ Len(job[w].succs) > 1
    <3>1. Len(job[w].succs) \in Nat
      BY <1>2 DEF AllOK, JobsOK, JobType
    <3> QED
      BY <1>4, <2>1, <3>1 DEF NextPlace
  <2>3. CASE m \in ToSet(job[w].succs)
    <3>1. job[w].succs \in Seq(Nodes) /\ job[w].succs # <<>>
      BY <1>2, <2>2 DEF AllOK, JobsOK, JobType, GoodJob
    <3>2. m = Head(job[w].succs)
      BY <2>2, <2>3, <3>1, HeadOrRest
    <3> QED
      BY <1>4, <2>2, <3>2
  <2>4. CASE m \notin ToSet(job[w].succs)
    BY <1>1, <2>2, <2>4, PassedKeepOrder
  <2> QED
    BY <2>3, <2>4
<1>5. CASE ~job[w].merging /\ job'[w].merging /\ job'[w].succs = Successors(Home[w])
  <2>1. Home[w] = p
    BY <1>5 DEF PrimaryJobs, Idle
  <2> QED
    BY <1>1, <1>5, <2>1
<1> QED
  BY <1>2, <1>3, <1>4, <1>5 DEF JobMoves

LEMMA MergeNext == AllOK /\ StandingOK /\ PrimaryOK /\ MergeOK /\ [Next]_vars => MergeOK'
<1> SUFFICES ASSUME AllOK, StandingOK, PrimaryOK, MergeOK, [Next]_vars, Undisturbed'
             PROVE  /\ OneJob'
                    /\ ReplicasKeepFile(FirstPrimary, FirstReplicas)'
                    /\ ReplicasGetAll(FirstPrimary, FirstReplicas)'
                    /\ PassedAgree(FirstPrimary)'
  BY DEF MergeOK
<1>1. PICK p : p = FirstPrimary
  OBVIOUS
<1>2. PICK R : R = FirstReplicas
  OBVIOUS
<1>3. UndisturbedFacts(p, R)
  BY <1>1, <1>2, UndisturbedFactsHold
<1>5. Undisturbed /\ Standing /\ HashesDiffer /\ ~crossed'
  BY UndisturbedBefore DEF Undisturbed
<1>6. PrimaryJobs(p) /\ p \in up /\ OneJob /\ ReplicasKeepFile(p, R)'
  BY <1>3, UndisturbedKeeps DEF UndisturbedFacts
<1>7. PrimaryJobs(p)'
  BY <1>1, <1>5, <1>6, PrimaryJobsNext DEF ReplicasKeepFile
<1>8. OneJob'
  BY <1>5, <1>6, OneJobNext
<1>4. ReplicasGetAll(p, R)' /\ PassedAgree(p)'
  BY <1>3, <1>7, UndisturbedGetAll, PassedNext
<1> QED
  BY <1>1, <1>2, <1>4, <1>6, <1>8

\* The merge of an undisturbed primary ends.
LEMMA EndsAgreeing ==
  ASSUME AllOK, [Next]_vars, NEW p, NEW R, UndisturbedFacts(p, R), NEW w \in Workers,
         p = Home[w], MergeEnds(w)
  PROVE  SuccessorsAgree(p)'
<1> SUFFICES ASSUME NEW m \in ToSet(Successors(p)')
             PROVE  /\ Order(meta'[m].apps) = Order(meta'[p].apps)
                    /\ IDs(meta'[m].apps) \cap Stored(p)' \subseteq Stored(m)'
  BY DEF SuccessorsAgree
<1>1. /\ job[w].merging /\ job'[w] = Idle /\ transfers' = {}
      /\ meta'[p].apps = job[w].apps
  BY DEF MergeEnds
<1>2. m \in ToSet(Successors(p)) /\ m \in R \ {p} /\ p \in Nodes
  <2>1. m \in ToSet(Successors(p)) /\ Successors(p) \in Seq(R \ {p}) /\ p \in Nodes
    BY DEF Successors, UndisturbedFacts
  <2>2. ToSet(Successors(p)) \subseteq R \ {p}
    BY <2>1, ToSetOf
  <2> QED
    BY <2>1, <2>2
<1>3. \A k : Coming(k)' = {}
  BY <1>1 DEF Coming
<1>4. Stored(p)' \subseteq Stored(m)'
  BY <1>2, <1>3, UndisturbedGetAll DEF ReplicasGetAll
<1>5. Order(meta'[m].apps) = Order(job[w].apps)
  <2>1. JobMoves(w) /\ ~Idle.merging
    BY UndisturbedKeeps DEF Idle
  <2>2. /\ NextPlace(job[w], job'[w])
        /\ Order(meta'[Head(job[w].succs)].apps) = Order(job[w].apps)
    BY <1>1, <2>1 DEF JobMoves, SamePlace
  <2>3. job[w].succs \in Seq(Nodes) /\ job[w].succs # <<>> /\ ~(Len(job[w].succs) > 1)
    <3>1. job[w].succs \in Seq(Nodes) /\ job[w].succs # <<>> /\ Len(job[w].succs) \in Nat
      BY <1>1, <1>2 DEF AllOK, JobsOK, JobType, GoodJob
    <3> QED
      BY <1>1, <2>1, <2>2, <3>1 DEF NextPlace
  <2>4. CASE m \in ToSet(job[w].succs)
    BY <2>2, <2>3, <2>4, HeadOrRest
  <2>5. CASE m \notin ToSet(job[w].succs)
    <3>1. Listed(p)' \cup Coming(p)' \subseteq IDs(job[w].apps)
      BY <1>1, <1>3 DEF Listed
    <3> QED
      BY <1>1, <1>2, <2>5, <3>1, PassedKeepOrder
  <2> QED
    BY <2>4, <2>5
<1> QED
  BY <1>1, <1>4, <1>5

\* A member that has crashed does not come back.
CrashesShow == crashes # 0 => ~(Initial \subseteq up)

LEMMA CrashesShowNext == CrashesShow /\ [Next]_vars => CrashesShow'
<1> SUFFICES ASSUME CrashesShow, [Next]_vars PROVE CrashesShow'
  OBVIOUS
<1>1. ASSUME NEW n \in Nodes, Client(n) PROVE UNCHANGED <<up, crashes>>
  BY <1>1, ClientLeaves DEF ringVars
<1>2. ASSUME NEW w \in Workers, Stabilisation(w) \/ Merge(w) \/ WindowChange(w)
      PROVE  UNCHANGED <<up, crashes>>
  BY <1>2 DEF Stabilisation, GetPrimaryKeyRange, FindSuccessors, PushFetch, PushFile, PushAppend,
     PushDone, Pushing, PullFetch, ReceiveFileFromNode, AddFile, PullAppends,
     Merge, ensureRemoteFileInSync, syncRemoteAppendOrder, UpdateAppendOrder, JobStep, ringVars,
     WindowChange, handleReplicationWindowChange
<1>3. ASSUME NEW n \in Nodes, RingChange(n)
      PROVE  \/ UNCHANGED <<up, crashes>>
             \/ n \in Initial /\ up' = up \ {n}
             \/ n \notin Initial /\ up' = up \cup {n} /\ crashes' = crashes
  BY <1>3 DEF RingChange, Crash, Join, clearHydfsFolder, MarkDead, HearOfDeath, EnterDeath,
     CleanUp, EnterMember, HearOfMember
<1>4. ASSUME NEW t \in transfers, Receive(t) \/ TransferFails(t) PROVE UNCHANGED <<up, crashes>>
  BY <1>4 DEF Receive, FileTransfer, saveFile, AppendRefused, AppendToBase, WriteChunk,
     ListAppend, HandleTransfer, TransferFails, ringVars, counters
<1>5. UNCHANGED vars => UNCHANGED <<up, crashes>>
  BY DEF vars
<1> QED
  BY <1>1, <1>2, <1>3, <1>4, <1>5 DEF Next, Terminating, CrashesShow

\* A stream lists no appends.
StreamsAgree == scenario.kind = "stream" => \A n \in Nodes : SuccessorsAgree(n)

LEMMA StreamsDoAgree == AllOK => StreamsAgree
<1> SUFFICES ASSUME AllOK, scenario.kind = "stream", NEW n \in Nodes PROVE SuccessorsAgree(n)
  BY DEF StreamsAgree
<1>1. ASSUME NEW m \in Nodes PROVE meta[m].apps = <<>> /\ IDs(meta[m].apps) = {}
  <2>1. meta[m].apps = <<>>
    BY DEF AllOK, StoreOK
  <2> QED
    BY <2>1 DEF IDs
<1>2. ToSet(Successors(n)) \subseteq Nodes
  BY SuccessorsOf, ToSetOf DEF Successors
<1> QED
  BY <1>1, <1>2 DEF SuccessorsAgree

\* However many nodes and clients there are, whatever appends, creations and merges are
\* under way and however the stabilisations that a merge asks for push and pull, a merge
\* of a file that is there from the start leaves every successor with the primary's
\* appends in the primary's order, and with their chunks, once nothing is on its way,
\* nothing was added at the primary meanwhile, no call has broken and no node has come
\* or gone: if the members' hashes differ and no two merges have overlapped, for which
\* executeMerge takes no lock.
THEOREM MergesReconcile == Spec => MergeAgrees
<1> DEFINE Inv == AllOK /\ StandingOK /\ PrimaryOK /\ MergeOK /\ CrashesShow
           Step == HashesDiffer /\ scenario.exists =>
                     \A w \in Workers : MergeEnds(w) => SuccessorsAgree(Home[w])'
<1>1. Init => Inv
  <2>1. Init => CrashesShow
    BY DEF Init, CrashesShow
  <2> QED
    BY <2>1, TypeInit, StandingInit, MergeInit
<1>2. Inv /\ [Next]_vars => Inv'
  BY TypeNext, StandingNext, PrimaryNext, MergeNext, CrashesShowNext
<1>3. AllOK' => StreamsAgree'
  BY StreamsDoAgree, PTL
<1>4. Inv /\ Inv' /\ [Next]_vars => Step
  <2> SUFFICES ASSUME Inv, Inv', [Next]_vars, HashesDiffer, scenario.exists, NEW w \in Workers,
                      MergeEnds(w)
               PROVE  SuccessorsAgree(Home[w])'
    OBVIOUS
  <2>1. /\ Home[w] \in Nodes /\ scenario' = scenario
        /\ scenario.kind \in {"regular", "stream"}
    BY BudgetSteps, HomeOf, ScenarioAssumption DEF AllOK, RingOK
  <2>2. CASE scenario.kind = "stream"
    BY <1>3, <2>1, <2>2 DEF StreamsAgree
  <2>3. CASE scenario.kind = "regular"
    <3>1. up' = Initial /\ fails' = 0 /\ ~crossed'
      BY DEF MergeEnds
    <3>2. crashes' = 0
      BY <3>1 DEF CrashesShow
    <3>3. Undisturbed'
      BY <2>1, <2>3, <3>1, <3>2 DEF Undisturbed, Standing, HashesDiffer
    <3>4. PICK p : p = FirstPrimary
      OBVIOUS
    <3>5. PICK R : R = FirstReplicas
      OBVIOUS
    <3>6. UndisturbedFacts(p, R)
      BY <3>3, <3>4, <3>5, UndisturbedFactsHold
    <3>7. Home[w] = p
      BY <2>1, <3>6 DEF UndisturbedFacts, PrimaryJobs, MergeEnds, Idle
    <3>8. SuccessorsAgree(p)'
      BY <3>6, <3>7, EndsAgreeing
    <3> QED
      BY <3>7, <3>8
  <2> QED
    BY <2>1, <2>2, <2>3
<1>5. Inv /\ [Next]_vars => [Step]_vars
  BY <1>2, <1>4
<1> HIDE DEF Inv, Step
<1>6. Init /\ [][Next]_vars => [][Step]_vars
  BY <1>1, <1>2, <1>5, PTL
<1> QED
  BY <1>6 DEF Spec, MergeAgrees, Step
=============================================================================
