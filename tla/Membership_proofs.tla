------------------------- MODULE Membership_proofs -------------------------
(***************************************************************************)
(* Proofs about the membership lists, for any number of nodes, any timeouts *)
(* and any bounds.                                                          *)
(***************************************************************************)
EXTENDS Membership, FiniteSetTheorems, TLAPS

\* The bound on the detection time is a number.
LEMMA BoundIsNat == DetectionBound \in Nat
<1>1. IsFiniteSet(Observers)
  BY NodesAssumption, FS_Subset DEF Observers
<1>2. Cardinality(Observers) \in Nat
  BY <1>1, FS_CardinalityType
<1> QED
  BY <1>2, TimeoutsAssumption DEF DetectionBound

\* An entry that is written or sent with another time is an entry.
LEMMA EntryFacts ==
  /\ NoEntry \in EntryType
  /\ \A st \in Statuses, h \in 0..MaxHeartbeat, k \in 0..MaxIncarnation, a \in 0..Expired :
       /\ Entry(st, h, k, a) \in EntryType
       /\ Entry(st, h, k, a).status = st /\ Entry(st, h, k, a).hb = h
       /\ Entry(st, h, k, a).inc = k
  /\ \A e \in EntryType, a \in 0..Expired :
       /\ Sent(e, a) \in EntryType
       /\ Sent(e, a).status = e.status /\ Sent(e, a).hb = e.hb /\ Sent(e, a).inc = e.inc
  /\ \A e \in EntryType :
       /\ Now(e) \in EntryType
       /\ Now(e).status = e.status /\ Now(e).hb = e.hb /\ Now(e).inc = e.inc
  /\ 0 \in 0..Expired /\ Expired \in 0..Expired
<1>1. Expired \in Nat
  BY TimeoutsAssumption DEF Expired
<1> QED
  BY <1>1, BoundsAssumption DEF EntryType, Statuses, Entry, NoEntry, Sent, Now

\* A merge keeps the local entry or takes the received one, perhaps with a new time.
LEMMA MergedOneOf ==
  ASSUME NEW l \in EntryType, NEW r \in EntryType, NEW q
  PROVE  /\ Merged(l, r, q) \in {l, r, Now(r)}
         /\ Merged(l, r, q) \in EntryType
<1>1. Merged(l, r, q) \in {l, r, Now(r)}
  BY DEF Merged, handleSuspicionMerge, handleNoSuspicionMerge
<1> QED
  BY <1>1, EntryFacts

\* The initial state has the types.
LEMMA TypeInit == Init => TypeOK
<1> SUFFICES ASSUME Init PROVE TypeOK
  OBVIOUS
<1>1. protocol \in {"gossip", "ping"} /\ suspicion \in {"suspect", "nosuspect"}
  BY ModesAssumption DEF Init
<1>2. view \in [Nodes -> EntryType]
  BY EntryFacts DEF Init
<1>3. heartbeat \in 0..MaxHeartbeat /\ incarnation \in 1..MaxIncarnation
  BY BoundsAssumption DEF Init
<1>4. sends \in 0..MaxSends /\ downFor \in 0..(DetectionBound + 1)
  BY BoundIsNat, BoundsAssumption DEF Init
<1> QED
  BY <1>1, <1>2, <1>3, <1>4 DEF Init, TypeOK

\* The end of a merge leaves at most the answer to a ping behind.
LEMMA FinishTypes ==
  ASSUME TypeOK, NEW g \in merges, FinishMerge(g)
  PROVE  /\ merges' \subseteq merges
         /\ net' \subseteq MessageType
         /\ \A m \in net' : m \in net \/ (m.type = "reply" /\ m.entry = NoEntry)
         /\ UNCHANGED <<protocol, suspicion, proc, left, heartbeat, sends, downFor>>
<1>1. g.node \in Nodes /\ g.sender \in Nodes /\ NoEntry \in EntryType
  BY EntryFacts DEF TypeOK, MergeType
<1>2. /\ Message("reply", g.node, g.sender, NoEntry) \in MessageType
      /\ Message("reply", g.node, g.sender, NoEntry).type = "reply"
      /\ Message("reply", g.node, g.sender, NoEntry).entry = NoEntry
  BY <1>1 DEF Message, MessageType
<1>3. net' = net \/ net' = net \cup {Message("reply", g.node, g.sender, NoEntry)}
  BY DEF FinishMerge
<1>4. merges' \subseteq merges
      /\ UNCHANGED <<protocol, suspicion, proc, left, heartbeat, sends, downFor>>
  BY DEF FinishMerge, config
<1>5. net \subseteq MessageType
  BY DEF TypeOK
<1> QED
  BY <1>2, <1>3, <1>4, <1>5

\* What the four ends of a merge do to the list, the failed members and the
\* incarnation number.
LEMMA MergeEffect ==
  ASSUME TypeOK, NEW g \in merges, Merge(g)
  PROVE  /\ FinishMerge(g)
         /\ \/ UNCHANGED <<view, failed, incarnation>>
            \/ /\ g.recv.status # "dead"
               /\ view' = [view EXCEPT ![g.node] = Now(g.recv)]
               /\ UNCHANGED <<failed, incarnation>>
            \/ /\ g.node = Subject /\ incarnation < MaxIncarnation
               /\ incarnation' = incarnation + 1
               /\ view' = [view EXCEPT ![Subject] = Entry("alive", g.snap.hb, incarnation + 1, 0)]
               /\ UNCHANGED failed
            \/ /\ view' = view \/ view' = [view EXCEPT ![g.node] = Merged(g.snap, g.recv, g.sender)]
               /\ failed' = IF SeenFailing(g) THEN failed \cup {g.node} ELSE failed
               /\ UNCHANGED incarnation
<1>1. CASE MergeIgnore(g)
  BY <1>1 DEF MergeIgnore
<1>2. CASE MergeJoin(g)
  BY <1>2 DEF MergeJoin, AddOrUpdate, Ignored
<1>3. CASE MergeRefute(g)
  BY <1>3 DEF MergeRefute, AddOrUpdate, Refutes
<1>4. CASE MergeUpdate(g)
  BY <1>4 DEF MergeUpdate, AddOrUpdate
<1> QED
  BY <1>1, <1>2, <1>3, <1>4 DEF Merge

\* A timeout changes the status and the time of an entry, or removes it, and hands
\* a death on.
LEMMA MarkEffect ==
  ASSUME TypeOK, NEW n \in Nodes, MarkSuspectIfNeeded(n)
  PROVE  \E e \in EntryType :
           /\ view' = [view EXCEPT ![n] = e]
           /\ e.status \in {"absent", "suspect", "dead"}
           /\ e.hb <= view[n].hb /\ e.inc <= view[n].inc
           /\ failed \subseteq failed' /\ failed' \subseteq Nodes
           /\ e.status = "dead" => n \in failed'
           /\ e.status = "suspect" => suspicion = "suspect"
<1>1. /\ view[n].hb \in 0..MaxHeartbeat /\ view[n].inc \in 0..MaxIncarnation
      /\ "suspect" \in Statuses /\ "dead" \in Statuses
  BY DEF TypeOK, EntryType, Statuses
<1>2. /\ failed' = IF TurnsDead(n) THEN failed \cup {n} ELSE failed
      /\ failed \subseteq failed' /\ failed' \subseteq Nodes
  BY DEF MarkSuspectIfNeeded, TypeOK
<1>3. CASE TurnsSuspect(n) /\ view' = [view EXCEPT ![n] = Entry("suspect", view[n].hb, view[n].inc, 0)]
  <2> DEFINE e == Entry("suspect", view[n].hb, view[n].inc, 0)
  <2>1. e \in EntryType /\ e.status = "suspect" /\ e.hb = view[n].hb /\ e.inc = view[n].inc
    BY <1>1, EntryFacts
  <2> HIDE DEF e
  <2>2. e.hb <= view[n].hb /\ e.inc <= view[n].inc
    BY <1>1, <2>1
  <2> QED
    BY <1>2, <1>3, <2>1, <2>2 DEF e, TurnsSuspect
<1>4. CASE TurnsDead(n) /\ view' = [view EXCEPT ![n] = Entry("dead", view[n].hb, view[n].inc, 0)]
  <2> DEFINE e == Entry("dead", view[n].hb, view[n].inc, 0)
  <2>1. e \in EntryType /\ e.status = "dead" /\ e.hb = view[n].hb /\ e.inc = view[n].inc
    BY <1>1, EntryFacts
  <2> HIDE DEF e
  <2>2. e.hb <= view[n].hb /\ e.inc <= view[n].inc
    BY <1>1, <2>1
  <2> QED
    BY <1>2, <1>4, <2>1, <2>2 DEF e
<1>5. CASE view' = [view EXCEPT ![n] = NoEntry]
  <2>1. NoEntry.status = "absent" /\ NoEntry.hb <= view[n].hb /\ NoEntry.inc <= view[n].inc
    BY <1>1 DEF NoEntry, Entry
  <2> QED
    BY <1>2, <1>5, <2>1, EntryFacts
<1> QED
  BY <1>3, <1>4, <1>5 DEF MarkSuspectIfNeeded, AddOrUpdate

\* Every step of every action keeps the types.
LEMMA TypeNext == TypeOK /\ [Next]_vars => TypeOK'
<1> SUFFICES ASSUME TypeOK, [Next]_vars PROVE TypeOK'
  OBVIOUS
<1>a. /\ view \in [Nodes -> EntryType] /\ net \subseteq MessageType /\ merges \subseteq MergeType
      /\ failed \subseteq Nodes /\ Subject \in Nodes /\ Introducer \in Nodes
      /\ \A m \in net : m.from \in Nodes /\ m.to \in Nodes /\ m.entry \in EntryType
      /\ \A g \in merges : /\ g.node \in Nodes /\ g.sender \in Nodes
                           /\ g.snap \in EntryType /\ g.recv \in EntryType
  BY NodesAssumption DEF TypeOK, MessageType, MergeType
<1>b. Entry("alive", heartbeat, incarnation, 0) \in EntryType
  BY EntryFacts DEF TypeOK, Statuses
<1>1. CASE NotifyIntroducer
  <2>1. Message("join", Subject, Introducer, Entry("alive", heartbeat, incarnation, 0)) \in MessageType
    BY <1>a, <1>b DEF Message, MessageType
  <2>2. view' \in [Nodes -> EntryType] /\ net' \subseteq MessageType /\ proc' = "joining"
    BY <1>1, <1>a, <1>b, <2>1 DEF NotifyIntroducer, AddOrUpdate
  <2>3. \A g \in merges : (Running(g.node))'
    BY <1>1 DEF NotifyIntroducer, Running, TypeOK
  <2> QED
    BY <1>1, <2>2, <2>3 DEF NotifyIntroducer, TypeOK, config
<1>2. CASE JoinFails
  <2>1. view' \in [Nodes -> EntryType] /\ proc' = "crashed"
    BY <1>2, <1>a, EntryFacts DEF JoinFails, AddOrUpdate
  <2>2. \A g \in merges : (Running(g.node))'
    BY <1>2 DEF JoinFails, Running, TypeOK
  <2> QED
    BY <1>2, <2>1, <2>2 DEF JoinFails, TypeOK, config
<1>3. CASE increaseHeartbeat
  <2>1. heartbeat' \in 0..MaxHeartbeat /\ heartbeat' = heartbeat + 1
    BY <1>3, BoundsAssumption DEF increaseHeartbeat, TypeOK
  <2>2. Entry("alive", heartbeat + 1, incarnation, 0) \in EntryType
    BY <2>1, EntryFacts DEF TypeOK, Statuses
  <2>3. view' \in [Nodes -> EntryType]
    BY <1>3, <1>a, <2>2 DEF increaseHeartbeat, AddOrUpdate
  <2>4. UNCHANGED <<proc, merges>> /\ \A g \in merges : (Running(g.node))'
    BY <1>3 DEF increaseHeartbeat, Running, TypeOK
  <2> QED
    BY <1>3, <2>1, <2>3, <2>4 DEF increaseHeartbeat, TypeOK, config
<1>4. CASE leaveGroup
  <2>1. Entry("voluntary_leave", view[Subject].hb, incarnation, 0) \in EntryType
    <3>1. view[Subject].hb \in 0..MaxHeartbeat /\ incarnation \in 0..MaxIncarnation
      BY <1>a DEF EntryType, TypeOK
    <3> QED
      BY <3>1, EntryFacts DEF Statuses
  <2>2. view' \in [Nodes -> EntryType]
    BY <1>4, <1>a, <2>1 DEF leaveGroup, AddOrUpdate
  <2>3. UNCHANGED <<proc, merges>> /\ \A g \in merges : (Running(g.node))'
    BY <1>4 DEF leaveGroup, Running, TypeOK
  <2> QED
    BY <1>4, <2>2, <2>3 DEF leaveGroup, TypeOK, config
<1>5. CASE Crash
  <2>1. view' \in [Nodes -> EntryType]
    BY <1>5, <1>a, EntryFacts DEF Crash, AddOrUpdate
  <2>2. net' \subseteq net /\ merges' \subseteq merges /\ \A g \in merges' : (Running(g.node))'
    BY <1>5 DEF Crash, Running
  <2> QED
    BY <1>5, <2>1, <2>2 DEF Crash, TypeOK, config
<1>6. CASE Tick
  <2>1. \A n \in Nodes : Older(n) \in EntryType
    <3> SUFFICES ASSUME NEW n \in Nodes PROVE Older(n) \in EntryType
      OBVIOUS
    <3>1. view[n] \in EntryType /\ Expired \in Nat
      BY <1>a, TimeoutsAssumption DEF Expired
    <3>2. view[n].age < Expired => [view[n] EXCEPT !.age = @ + 1] \in EntryType
      BY <3>1 DEF EntryType
    <3> QED
      BY <3>1, <3>2 DEF Older
  <2>2. view' \in [Nodes -> EntryType]
    BY <1>6, <2>1 DEF Tick
  <2>3. sends' \in 0..MaxSends /\ downFor' \in 0..(DetectionBound + 1)
    BY <1>6, BoundIsNat, BoundsAssumption DEF Tick, TypeOK
  <2>4. merges' = {}
    BY <1>6 DEF Tick
  <2> QED
    BY <1>6, <2>2, <2>3, <2>4 DEF Tick, TypeOK, config, subjectVars
<1>7. ASSUME NEW n \in Nodes, NEW to \in Nodes, gossipSend(n, to) \/ pingSend(n, to) PROVE TypeOK'
  <2>1. Sent(view[n], Expired) \in EntryType
    BY <1>a, EntryFacts
  <2>2. PICK ty \in {"gossip", "ping"} : net' = net \cup {Message(ty, n, to, Sent(view[n], Expired))}
    BY <1>7 DEF gossipSend, pingSend
  <2>3. Message(ty, n, to, Sent(view[n], Expired)) \in MessageType
    BY <2>1 DEF Message, MessageType
  <2>4. sends' \in 0..MaxSends
    BY <1>7, BoundsAssumption DEF gossipSend, pingSend, MaySend, TypeOK
  <2>5. UNCHANGED <<config, subjectVars, view, failed, merges, downFor>>
    BY <1>7 DEF gossipSend, pingSend
  <2>6. \A g \in merges : (Running(g.node))'
    BY <2>5 DEF subjectVars, Running, TypeOK
  <2> QED
    BY <2>2, <2>3, <2>4, <2>5, <2>6 DEF TypeOK, config, subjectVars
<1>8. ASSUME NEW n \in Nodes, MarkSuspectIfNeeded(n) PROVE TypeOK'
  <2>1. view' \in [Nodes -> EntryType] /\ failed' \subseteq Nodes
    BY <1>8, <1>a, MarkEffect
  <2>2. UNCHANGED <<config, subjectVars, net, merges, sends, downFor>>
    BY <1>8 DEF MarkSuspectIfNeeded
  <2>3. \A g \in merges : (Running(g.node))'
    BY <2>2 DEF subjectVars, Running, TypeOK
  <2> QED
    BY <2>1, <2>2, <2>3 DEF TypeOK, config, subjectVars
<1>9. ASSUME NEW m \in net, Join(m) PROVE TypeOK'
  <2>1. Now(m.entry) \in EntryType
    BY <1>a, EntryFacts
  <2>2. view' \in [Nodes -> EntryType]
    BY <1>9, <1>a, <2>1 DEF Join, AddOrUpdate
  <2>3. Message("joined", m.to, m.from, view'[m.to]) \in MessageType
    BY <1>a, <2>2 DEF Message, MessageType
  <2>4. net' \subseteq MessageType /\ UNCHANGED <<config, subjectVars, failed, merges, sends, downFor>>
    BY <1>9, <1>a, <2>3 DEF Join
  <2>5. \A g \in merges : (Running(g.node))'
    BY <2>4 DEF subjectVars, Running, TypeOK
  <2> QED
    BY <2>2, <2>4, <2>5 DEF TypeOK, config, subjectVars
<1>10. ASSUME NEW m \in net, Joined(m) PROVE TypeOK'
  <2>1. Merged(view[Subject], m.entry, m.from) \in EntryType
    BY <1>a, MergedOneOf, EntryFacts
  <2>2. view' \in [Nodes -> EntryType]
    BY <1>10, <1>a, <2>1 DEF Joined, AddOrUpdate
  <2>3. \A g \in merges : (Running(g.node))'
    BY <1>10 DEF Joined, Running, TypeOK
  <2> QED
    BY <1>10, <2>2, <2>3 DEF Joined, TypeOK, config
<1>11. ASSUME NEW m \in net, Receive(m) PROVE TypeOK'
  <2>1. [node |-> m.to, sender |-> m.from, snap |-> view[m.to], recv |-> m.entry,
         reply |-> m.type = "ping"] \in MergeType
    BY <1>a DEF MergeType
  <2>2. merges' \subseteq MergeType /\ net' \subseteq net
        /\ UNCHANGED <<config, subjectVars, view, failed, sends, downFor>>
    BY <1>11, <1>a, <2>1 DEF Receive
  <2>3. \A g \in merges' : Running(g.node)
    BY <1>11 DEF Receive, TypeOK
  <2>4. \A g \in merges' : (Running(g.node))'
    BY <2>2, <2>3 DEF subjectVars, Running
  <2> QED
    BY <2>2, <2>4 DEF TypeOK, config, subjectVars
<1>12. ASSUME NEW m \in net, PingReply(m) PROVE TypeOK'
  <2>1. view[m.from].age \in 0..Expired
    BY <1>a DEF EntryType
  <2>2. Message("ack", m.from, m.to, Sent(view[m.from], view[m.from].age)) \in MessageType
    <3>1. Sent(view[m.from], view[m.from].age) \in EntryType
      BY <1>a, <2>1, EntryFacts
    <3> QED
      BY <1>a, <3>1 DEF Message, MessageType
  <2>3. net' \subseteq MessageType /\ UNCHANGED <<config, subjectVars, view, failed, merges, sends, downFor>>
    BY <1>12, <1>a, <2>2 DEF PingReply
  <2>4. \A g \in merges : (Running(g.node))'
    BY <2>3 DEF subjectVars, Running, TypeOK
  <2> QED
    BY <2>3, <2>4 DEF TypeOK, config, subjectVars
<1>13. ASSUME NEW m \in net, Drop(m) PROVE TypeOK'
  <2>1. net' \subseteq net /\ UNCHANGED <<config, subjectVars, view, failed, merges, sends, downFor>>
    BY <1>13 DEF Drop
  <2>2. \A g \in merges : (Running(g.node))'
    BY <2>1 DEF subjectVars, Running, TypeOK
  <2> QED
    BY <2>1, <2>2 DEF TypeOK, config, subjectVars
<1>14. ASSUME NEW g \in merges, Merge(g) PROVE TypeOK'
  <2>1. /\ merges' \subseteq merges /\ net' \subseteq MessageType
        /\ UNCHANGED <<protocol, suspicion, proc, left, heartbeat, sends, downFor>>
    BY <1>14, MergeEffect, FinishTypes
  <2>2. /\ Now(g.recv) \in EntryType
        /\ Merged(g.snap, g.recv, g.sender) \in EntryType
    BY <1>a, MergedOneOf, EntryFacts
  <2>3. incarnation < MaxIncarnation =>
          /\ incarnation + 1 \in 1..MaxIncarnation
          /\ Entry("alive", g.snap.hb, incarnation + 1, 0) \in EntryType
    <3>1. g.snap.hb \in 0..MaxHeartbeat
      BY <1>a DEF EntryType
    <3>2. incarnation < MaxIncarnation =>
            incarnation + 1 \in 1..MaxIncarnation /\ incarnation + 1 \in 0..MaxIncarnation
      BY BoundsAssumption DEF TypeOK
    <3> QED
      BY <3>1, <3>2, EntryFacts DEF Statuses
  <2>4. view' \in [Nodes -> EntryType] /\ failed' \subseteq Nodes /\ incarnation' \in 1..MaxIncarnation
    BY <1>14, <1>a, <2>2, <2>3, MergeEffect DEF TypeOK
  <2>5. \A h \in merges' : (Running(h.node))'
    BY <2>1 DEF Running, TypeOK
  <2> QED
    BY <2>1, <2>4, <2>5 DEF TypeOK
<1>15. CASE UNCHANGED vars
  <2>1. \A g \in merges : (Running(g.node))'
    BY <1>15 DEF vars, Running, TypeOK
  <2> QED
    BY <1>15, <2>1 DEF vars, TypeOK
<1> QED
  BY <1>1, <1>2, <1>3, <1>4, <1>5, <1>6, <1>7, <1>8, <1>9, <1>10, <1>11, <1>12, <1>13,
     <1>14, <1>15 DEF Next, Handle

\* Every variable of every node's view of the Subject keeps its shape, whatever is
\* lost, delayed or merged at the same time, and the Subject merges only while up.
THEOREM MembershipTypeCorrect == Spec => []TypeOK
BY TypeInit, TypeNext, PTL DEF Spec

----------------------------------------------------------------------------
(* Nobody is ahead of the Subject.                                          *)

\* A copy e is not ahead of the heartbeat h, the incarnation k and the leave lf, and
\* suspects nobody unless suspicion is on.
Honest(e, h, k, lf) == /\ e.hb <= h /\ e.inc <= k
                       /\ e.status = "voluntary_leave" => lf
                       /\ e.status = "suspect" => suspicion = "suspect"

\* The configuration of the group stays.
LEMMA ConfigStays == [Next]_vars => protocol' = protocol /\ suspicion' = suspicion
<1> SUFFICES ASSUME [Next]_vars PROVE protocol' = protocol /\ suspicion' = suspicion
  OBVIOUS
<1>1. CASE UNCHANGED vars
  BY <1>1 DEF vars
<1>2. CASE NotifyIntroducer \/ JoinFails \/ increaseHeartbeat \/ leaveGroup \/ Crash \/ Tick
  BY <1>2 DEF NotifyIntroducer, JoinFails, increaseHeartbeat, leaveGroup, Crash, Tick, config
<1>3. CASE \/ \E n, to \in Nodes : gossipSend(n, to) \/ pingSend(n, to)
           \/ \E n \in Nodes : MarkSuspectIfNeeded(n)
           \/ \E m \in net : Handle(m) \/ Drop(m)
  BY <1>3 DEF gossipSend, pingSend, MarkSuspectIfNeeded, Handle, Join, Joined, Receive, PingReply,
              Drop, config
<1>4. ASSUME NEW g \in merges, Merge(g) PROVE protocol' = protocol /\ suspicion' = suspicion
  BY <1>4 DEF Merge, MergeIgnore, MergeJoin, MergeRefute, MergeUpdate, FinishMerge, config
<1> QED
  BY <1>1, <1>2, <1>3, <1>4 DEF Next

\* Neither is any copy in a list, a message or a merge.
HonestCopies ==
  /\ \A n \in Nodes : Honest(view[n], heartbeat, incarnation, left)
  /\ \A m \in net : Honest(m.entry, heartbeat, incarnation, left)
  /\ \A g \in merges : /\ Honest(g.snap, heartbeat, incarnation, left)
                       /\ Honest(g.recv, heartbeat, incarnation, left)

\* Since the Subject's own counters only grow, it is enough to look at new copies.
LEMMA HonestStep ==
  ASSUME TypeOK, TypeOK', HonestCopies,
         heartbeat <= heartbeat', incarnation <= incarnation', left => left', suspicion' = suspicion,
         \A n \in Nodes : \/ view'[n] = view[n]
                          \/ Honest(view'[n], heartbeat', incarnation', left'),
         \A m \in net' : m \in net \/ Honest(m.entry, heartbeat', incarnation', left'),
         \A g \in merges' : \/ g \in merges
                            \/ /\ Honest(g.snap, heartbeat', incarnation', left')
                               /\ Honest(g.recv, heartbeat', incarnation', left')
  PROVE  HonestCopies'
<1>1. ASSUME NEW e \in EntryType, Honest(e, heartbeat, incarnation, left)
      PROVE  Honest(e, heartbeat', incarnation', left')
  <2>1. /\ e.hb \in Int /\ e.inc \in Int /\ heartbeat \in Int /\ incarnation \in Int
        /\ heartbeat' \in Int /\ incarnation' \in Int
    BY DEF EntryType, TypeOK
  <2> QED
    BY <1>1, <2>1 DEF Honest
<1>2. /\ \A n \in Nodes : view[n] \in EntryType
      /\ \A m \in net : m.entry \in EntryType
      /\ \A g \in merges : g.snap \in EntryType /\ g.recv \in EntryType
  BY DEF TypeOK, MessageType, MergeType
<1>3. \A n \in Nodes : Honest(view'[n], heartbeat', incarnation', left')
  BY <1>1, <1>2 DEF HonestCopies
<1>4. \A m \in net' : Honest(m.entry, heartbeat', incarnation', left')
  BY <1>1, <1>2 DEF HonestCopies
<1>5. \A g \in merges' : /\ Honest(g.snap, heartbeat', incarnation', left')
                         /\ Honest(g.recv, heartbeat', incarnation', left')
  BY <1>1, <1>2 DEF HonestCopies
<1> QED
  BY <1>3, <1>4, <1>5 DEF HonestCopies, Honest

\* A copy with the counters of an honest one is honest, and so is no entry at all.
LEMMA HonestCopy ==
  ASSUME TypeOK
  PROVE  /\ Honest(NoEntry, heartbeat, incarnation, left)
         /\ \A e \in EntryType, a \in 0..Expired :
              Honest(e, heartbeat, incarnation, left) =>
                /\ Honest(Sent(e, a), heartbeat, incarnation, left)
                /\ Honest(Now(e), heartbeat, incarnation, left)
<1>1. NoEntry.status = "absent" /\ NoEntry.hb = 0 /\ NoEntry.inc = 0
  BY DEF NoEntry, Entry
<1>2. Honest(NoEntry, heartbeat, incarnation, left)
  BY <1>1, BoundsAssumption DEF Honest, TypeOK
<1> QED
  BY <1>2, EntryFacts DEF Honest

\* Every step keeps all copies honest.
LEMMA HonestNext == TypeOK /\ HonestCopies /\ [Next]_vars => HonestCopies'
<1> SUFFICES ASSUME TypeOK, HonestCopies, [Next]_vars PROVE HonestCopies'
  OBVIOUS
<1>t. TypeOK'
  BY TypeNext
<1>a. /\ heartbeat \in Int /\ incarnation \in Int /\ Subject \in Nodes
      /\ view \in [Nodes -> EntryType]
      /\ \A m \in net : m.from \in Nodes /\ m.to \in Nodes /\ m.entry \in EntryType
      /\ \A g \in merges : g.node \in Nodes /\ g.snap \in EntryType /\ g.recv \in EntryType
  BY NodesAssumption DEF TypeOK, MessageType, MergeType
<1>b. heartbeat <= heartbeat /\ incarnation <= incarnation /\ suspicion' = suspicion
  BY <1>a, ConfigStays
<1>c. /\ \A n \in Nodes : Honest(view[n], heartbeat, incarnation, left)
      /\ \A m \in net : Honest(m.entry, heartbeat, incarnation, left)
      /\ \A g \in merges : /\ Honest(g.snap, heartbeat, incarnation, left)
                           /\ Honest(g.recv, heartbeat, incarnation, left)
  BY DEF HonestCopies
<1>d. ASSUME NEW st \in Statuses, st \notin {"voluntary_leave", "suspect"}
      PROVE  Honest(Entry(st, heartbeat, incarnation, 0), heartbeat, incarnation, left)
  BY <1>d, <1>b DEF Honest, Entry
<1>1. CASE NotifyIntroducer
  <2>1. Honest(Entry("alive", heartbeat, incarnation, 0), heartbeat, incarnation, left)
    BY <1>d DEF Statuses
  <2>2. /\ view' = [view EXCEPT ![Subject] = Entry("alive", heartbeat, incarnation, 0)]
        /\ net' = net \cup {Message("join", Subject, Introducer, Entry("alive", heartbeat, incarnation, 0))}
        /\ UNCHANGED <<heartbeat, incarnation, left, merges>>
    BY <1>1 DEF NotifyIntroducer, AddOrUpdate
  <2>3. Message("join", Subject, Introducer, Entry("alive", heartbeat, incarnation, 0)).entry
          = Entry("alive", heartbeat, incarnation, 0)
    BY DEF Message
  <2> QED
    BY <1>t, <1>a, <1>b, <2>1, <2>2, <2>3, HonestStep
<1>2. CASE JoinFails
  <2>1. view' = [view EXCEPT ![Subject] = NoEntry] /\ UNCHANGED <<heartbeat, incarnation, left, merges, net>>
    BY <1>2 DEF JoinFails, AddOrUpdate
  <2> QED
    BY <1>t, <1>a, <1>b, <2>1, HonestCopy, HonestStep
<1>3. CASE increaseHeartbeat
  <2>1. /\ view' = [view EXCEPT ![Subject] = Entry("alive", heartbeat + 1, incarnation, 0)]
        /\ heartbeat' = heartbeat + 1 /\ UNCHANGED <<incarnation, left, net, merges>>
    BY <1>3 DEF increaseHeartbeat, AddOrUpdate
  <2>2. Honest(Entry("alive", heartbeat + 1, incarnation, 0), heartbeat', incarnation', left')
    BY <1>a, <2>1 DEF Honest, Entry
  <2>3. heartbeat <= heartbeat'
    BY <1>a, <2>1
  <2> QED
    BY <1>t, <1>a, <1>b, <2>1, <2>2, <2>3, HonestStep
<1>4. CASE leaveGroup
  <2>1. /\ view' = [view EXCEPT ![Subject] = Entry("voluntary_leave", view[Subject].hb, incarnation, 0)]
        /\ left' = TRUE /\ UNCHANGED <<heartbeat, incarnation, net, merges>>
    BY <1>4 DEF leaveGroup, AddOrUpdate
  <2>2. Honest(Entry("voluntary_leave", view[Subject].hb, incarnation, 0), heartbeat', incarnation', left')
    BY <1>a, <1>b, <1>c, <2>1 DEF Honest, Entry
  <2> QED
    BY <1>t, <1>a, <1>b, <2>1, <2>2, HonestStep
<1>5. CASE Crash
  <2>1. /\ view' = [view EXCEPT ![Subject] = NoEntry] /\ net' \subseteq net /\ merges' \subseteq merges
        /\ UNCHANGED <<heartbeat, incarnation, left>>
    BY <1>5 DEF Crash, AddOrUpdate
  <2> QED
    BY <1>t, <1>a, <1>b, <2>1, HonestCopy, HonestStep
<1>6. CASE Tick
  <2>1. \A n \in Nodes : Honest(Older(n), heartbeat, incarnation, left)
    <3> SUFFICES ASSUME NEW n \in Nodes PROVE Honest(Older(n), heartbeat, incarnation, left)
      OBVIOUS
    <3>1. /\ [view[n] EXCEPT !.age = @ + 1].hb = view[n].hb
          /\ [view[n] EXCEPT !.age = @ + 1].inc = view[n].inc
          /\ [view[n] EXCEPT !.age = @ + 1].status = view[n].status
      BY <1>a DEF EntryType
    <3> QED
      BY <1>c, <3>1 DEF Older, Honest
  <2>2. view' = [n \in Nodes |-> Older(n)] /\ UNCHANGED <<heartbeat, incarnation, left, net, merges>>
    BY <1>6 DEF Tick, subjectVars
  <2> QED
    BY <1>t, <1>b, <2>1, <2>2, HonestStep
<1>7. ASSUME NEW n \in Nodes, NEW to \in Nodes, gossipSend(n, to) \/ pingSend(n, to)
      PROVE  HonestCopies'
  <2>1. Honest(Sent(view[n], Expired), heartbeat, incarnation, left)
    BY <1>a, <1>c, HonestCopy, EntryFacts
  <2>2. PICK ty \in {"gossip", "ping"} : net' = net \cup {Message(ty, n, to, Sent(view[n], Expired))}
    BY <1>7 DEF gossipSend, pingSend
  <2>3. Message(ty, n, to, Sent(view[n], Expired)).entry = Sent(view[n], Expired)
    BY DEF Message
  <2>4. UNCHANGED <<heartbeat, incarnation, left, view, merges>>
    BY <1>7 DEF gossipSend, pingSend, subjectVars
  <2> QED
    BY <1>t, <1>b, <2>1, <2>2, <2>3, <2>4, HonestStep
<1>8. ASSUME NEW n \in Nodes, MarkSuspectIfNeeded(n) PROVE HonestCopies'
  <2>1. PICK e \in EntryType : /\ view' = [view EXCEPT ![n] = e]
                               /\ e.status \in {"absent", "suspect", "dead"}
                               /\ e.hb <= view[n].hb /\ e.inc <= view[n].inc
                               /\ e.status = "suspect" => suspicion = "suspect"
    BY <1>8, MarkEffect
  <2>2. UNCHANGED <<heartbeat, incarnation, left, net, merges>>
    BY <1>8 DEF MarkSuspectIfNeeded, subjectVars
  <2>3. Honest(e, heartbeat, incarnation, left)
    <3>1. /\ e.hb \in Int /\ e.inc \in Int /\ view[n].hb \in Int /\ view[n].inc \in Int
          /\ view[n].hb <= heartbeat /\ view[n].inc <= incarnation
      BY <1>a, <1>c DEF EntryType, Honest
    <3> QED
      BY <1>a, <2>1, <3>1 DEF Honest
  <2> QED
    BY <1>t, <1>a, <1>b, <2>1, <2>2, <2>3, HonestStep
<1>9. ASSUME NEW m \in net, Join(m) PROVE HonestCopies'
  <2>1. Honest(Now(m.entry), heartbeat, incarnation, left)
    BY <1>a, <1>c, HonestCopy, EntryFacts
  <2>2. /\ view' = [view EXCEPT ![m.to] = Now(m.entry)]
        /\ net' = (net \ {m}) \cup {Message("joined", m.to, m.from, view'[m.to])}
        /\ UNCHANGED <<heartbeat, incarnation, left, merges>>
    BY <1>9 DEF Join, AddOrUpdate, subjectVars
  <2>3. view'[m.to] = Now(m.entry) /\ Message("joined", m.to, m.from, view'[m.to]).entry = view'[m.to]
    BY <1>a, <2>2 DEF Message
  <2> QED
    BY <1>t, <1>a, <1>b, <2>1, <2>2, <2>3, HonestStep
<1>10. ASSUME NEW m \in net, Joined(m) PROVE HonestCopies'
  <2>1. Merged(view[Subject], m.entry, m.from) \in {view[Subject], m.entry, Now(m.entry)}
    BY <1>a, MergedOneOf
  <2>2. Honest(Merged(view[Subject], m.entry, m.from), heartbeat, incarnation, left)
    BY <1>a, <1>c, <2>1, HonestCopy, EntryFacts
  <2>3. /\ view' = [view EXCEPT ![Subject] = Merged(view[Subject], m.entry, m.from)]
        /\ net' \subseteq net /\ UNCHANGED <<heartbeat, incarnation, left, merges>>
    BY <1>10 DEF Joined, AddOrUpdate
  <2> QED
    BY <1>t, <1>a, <1>b, <2>2, <2>3, HonestStep
<1>11. ASSUME NEW m \in net, Receive(m) PROVE HonestCopies'
  <2>1. /\ merges' = merges \cup {[node |-> m.to, sender |-> m.from, snap |-> view[m.to],
                                   recv |-> m.entry, reply |-> m.type = "ping"]}
        /\ net' \subseteq net /\ UNCHANGED <<heartbeat, incarnation, left, view>>
    BY <1>11 DEF Receive, subjectVars
  <2>2. \A g \in merges' : g \in merges \/ (g.snap = view[m.to] /\ g.recv = m.entry)
    BY <2>1
  <2> QED
    BY <1>t, <1>a, <1>b, <1>c, <2>1, <2>2, HonestStep
<1>12. ASSUME NEW m \in net, PingReply(m) PROVE HonestCopies'
  <2>1. view[m.from].age \in 0..Expired
    BY <1>a DEF EntryType
  <2>2. Honest(Sent(view[m.from], view[m.from].age), heartbeat, incarnation, left)
    BY <1>a, <1>c, <2>1, HonestCopy
  <2>3. /\ net' = (net \ {m}) \cup {Message("ack", m.from, m.to, Sent(view[m.from], view[m.from].age))}
        /\ UNCHANGED <<heartbeat, incarnation, left, view, merges>>
    BY <1>12 DEF PingReply, subjectVars
  <2>4. Message("ack", m.from, m.to, Sent(view[m.from], view[m.from].age)).entry
          = Sent(view[m.from], view[m.from].age)
    BY DEF Message
  <2> QED
    BY <1>t, <1>b, <2>2, <2>3, <2>4, HonestStep
<1>13. ASSUME NEW m \in net, Drop(m) PROVE HonestCopies'
  <2>1. net' \subseteq net /\ UNCHANGED <<heartbeat, incarnation, left, view, merges>>
    BY <1>13 DEF Drop, subjectVars
  <2> QED
    BY <1>t, <1>b, <2>1, HonestStep
<1>14. ASSUME NEW g \in merges, Merge(g) PROVE HonestCopies'
  <2>1. /\ merges' \subseteq merges /\ UNCHANGED <<left, heartbeat>>
        /\ \A m \in net' : m \in net \/ m.entry = NoEntry
    BY <1>14, MergeEffect, FinishTypes
  <2>2. Merged(g.snap, g.recv, g.sender) \in {g.snap, g.recv, Now(g.recv)}
    BY <1>a, MergedOneOf
  <2>3. /\ Honest(Now(g.recv), heartbeat, incarnation, left)
        /\ Honest(Merged(g.snap, g.recv, g.sender), heartbeat, incarnation, left)
    BY <1>a, <1>c, <2>2, HonestCopy, EntryFacts
  <2>4. CASE incarnation' = incarnation
    <3>1. \A n \in Nodes : \/ view'[n] = view[n]
                           \/ Honest(view'[n], heartbeat, incarnation, left)
      BY <1>14, <1>a, <2>3, <2>4, MergeEffect
    <3> QED
      BY <1>t, <1>b, <2>1, <2>4, <3>1, HonestCopy, HonestStep
  <2>5. CASE /\ incarnation' = incarnation + 1
             /\ view' = [view EXCEPT ![Subject] = Entry("alive", g.snap.hb, incarnation + 1, 0)]
    <3>1. Honest(Entry("alive", g.snap.hb, incarnation + 1, 0), heartbeat', incarnation', left')
      BY <1>a, <1>c, <2>1, <2>5 DEF Honest, Entry
    <3>2. incarnation <= incarnation'
      BY <1>a, <2>5
    <3>3. Honest(NoEntry, heartbeat', incarnation', left')
      <4>1. NoEntry.status = "absent" /\ NoEntry.hb = 0 /\ NoEntry.inc = 0
        BY DEF NoEntry, Entry
      <4> QED
        BY <4>1, <1>t, BoundsAssumption DEF Honest, TypeOK
    <3> QED
      BY <1>t, <1>a, <1>b, <2>1, <2>5, <3>1, <3>2, <3>3, HonestStep
  <2> QED
    BY <1>14, <2>4, <2>5, MergeEffect
<1>15. CASE UNCHANGED vars
  BY <1>t, <1>b, <1>15, HonestStep DEF vars
<1> QED
  BY <1>1, <1>2, <1>3, <1>4, <1>5, <1>6, <1>7, <1>8, <1>9, <1>10, <1>11, <1>12, <1>13,
     <1>14, <1>15 DEF Next, Handle

\* Initially there are no copies.
LEMMA HonestInit == Init => HonestCopies
<1> SUFFICES ASSUME Init PROVE HonestCopies
  OBVIOUS
<1>1. TypeOK
  BY TypeInit
<1> QED
  BY <1>1, HonestCopy DEF Init, HonestCopies

\* No list, message or pending merge has a heartbeat or an incarnation number of
\* the Subject that the Subject has not reached: the merge rules, which prefer the
\* higher number, never prefer something that was made up on the way.
THEOREM NobodyAhead == Spec => []NeverAhead
<1>1. HonestCopies => NeverAhead
  BY DEF HonestCopies, NeverAhead, Copies, Honest
<1> QED
  BY <1>1, TypeInit, TypeNext, HonestInit, HonestNext, PTL DEF Spec

----------------------------------------------------------------------------
(* Every death reaches the stabilisation of the ring.                       *)

\* At node n a death is known to the stabilisation, or the Subject had left.
Seen(n) == left \/ n \in failed

\* The strengthening: it also holds of the snapshots that merges may write back,
\* and a join never brings in a dead entry.
DeathsSeen ==
  /\ \A n \in Observers : view[n].status = "dead" => Seen(n)
  /\ \A g \in merges : g.node \in Observers /\ g.snap.status = "dead" => Seen(g.node)
  /\ \A m \in net : m.type = "join" => m.entry.status = "alive"

\* What is handed on stays so, hence only new entries, merges and messages matter.
LEMMA SeenStep ==
  ASSUME DeathsSeen, left => left', failed \subseteq failed',
         \A n \in Observers : view'[n].status = "dead" => view[n].status = "dead" \/ Seen(n)',
         \A g \in merges' : \/ g \in merges
                            \/ g.node \in Observers /\ g.snap.status = "dead" => Seen(g.node)',
         \A m \in net' : m \in net \/ m.type # "join" \/ m.entry.status = "alive"
  PROVE  DeathsSeen'
<1>1. \A n \in Observers : Seen(n) => Seen(n)'
  BY DEF Seen
<1> QED
  BY <1>1 DEF DeathsSeen

\* Every step keeps it.
LEMMA SeenNext == TypeOK /\ HonestCopies /\ DeathsSeen /\ [Next]_vars => DeathsSeen'
<1> SUFFICES ASSUME TypeOK, HonestCopies, DeathsSeen, [Next]_vars PROVE DeathsSeen'
  OBVIOUS
<1>a. /\ view \in [Nodes -> EntryType] /\ Subject \in Nodes /\ Subject \notin Observers
      /\ Observers \subseteq Nodes
      /\ \A m \in net : m.from \in Nodes /\ m.to \in Nodes /\ m.entry \in EntryType
      /\ \A g \in merges : g.node \in Nodes /\ g.snap \in EntryType /\ g.recv \in EntryType
  BY NodesAssumption DEF TypeOK, MessageType, MergeType, Observers
<1>1. CASE NotifyIntroducer
  <2>1. /\ \A n \in Observers : view'[n] = view[n]
        /\ UNCHANGED <<left, failed, merges>>
    BY <1>1, <1>a DEF NotifyIntroducer, AddOrUpdate
  <2>2. Message("join", Subject, Introducer, Entry("alive", heartbeat, incarnation, 0)).entry.status = "alive"
    BY DEF Message, Entry
  <2>3. \A m \in net' : m \in net \/ m.entry.status = "alive"
    BY <1>1, <2>2 DEF NotifyIntroducer
  <2> QED
    BY <2>1, <2>3, SeenStep
<1>2. CASE JoinFails \/ increaseHeartbeat \/ leaveGroup \/ Crash
  <2>1. /\ \A n \in Observers : view'[n] = view[n]
        /\ net' \subseteq net /\ merges' \subseteq merges
        /\ left => left'
        /\ failed \subseteq failed'
    BY <1>2, <1>a DEF JoinFails, increaseHeartbeat, leaveGroup, Crash, AddOrUpdate
  <2> QED
    BY <2>1, SeenStep
<1>3. CASE Tick
  <2>1. ASSUME NEW n \in Observers PROVE view'[n].status = view[n].status
    <3>1. [view[n] EXCEPT !.age = @ + 1].status = view[n].status
      BY <1>a DEF EntryType
    <3>2. view'[n] = Older(n)
      BY <1>3, <1>a DEF Tick
    <3> QED
      BY <3>1, <3>2 DEF Older
  <2>2. UNCHANGED <<left, failed, net, merges>>
    BY <1>3 DEF Tick, subjectVars
  <2> QED
    BY <2>1, <2>2, SeenStep
<1>4. ASSUME NEW n \in Nodes, NEW to \in Nodes, gossipSend(n, to) \/ pingSend(n, to)
      PROVE  DeathsSeen'
  <2>1. PICK ty \in {"gossip", "ping"} : net' = net \cup {Message(ty, n, to, Sent(view[n], Expired))}
    BY <1>4 DEF gossipSend, pingSend
  <2>2. Message(ty, n, to, Sent(view[n], Expired)).type = ty
    BY DEF Message
  <2>3. UNCHANGED <<left, failed, view, merges>>
    BY <1>4 DEF gossipSend, pingSend, subjectVars
  <2> QED
    BY <2>1, <2>2, <2>3, SeenStep
<1>5. ASSUME NEW n \in Nodes, MarkSuspectIfNeeded(n) PROVE DeathsSeen'
  <2>1. PICK e \in EntryType : /\ view' = [view EXCEPT ![n] = e]
                               /\ failed \subseteq failed'
                               /\ e.status = "dead" => n \in failed'
    BY <1>5, MarkEffect
  <2>2. \A k \in Observers : view'[k].status = "dead" => view[k].status = "dead" \/ Seen(k)'
    BY <1>a, <2>1 DEF Seen
  <2>3. UNCHANGED <<left, net, merges>>
    BY <1>5 DEF MarkSuspectIfNeeded, subjectVars
  <2> QED
    BY <2>1, <2>2, <2>3, SeenStep
<1>6. ASSUME NEW m \in net, Join(m) PROVE DeathsSeen'
  <2>1. Now(m.entry).status = "alive"
    BY <1>6, <1>a, EntryFacts DEF Join, DeathsSeen
  <2>2. \A k \in Observers : view'[k].status = "dead" => view[k].status = "dead"
    BY <1>6, <1>a, <2>1 DEF Join, AddOrUpdate
  <2>3. Message("joined", m.to, m.from, view'[m.to]).type = "joined"
    BY DEF Message
  <2>4. \A k \in net' : k \in net \/ k.type # "join"
    BY <1>6, <2>3 DEF Join
  <2>5. UNCHANGED <<left, failed, merges>>
    BY <1>6 DEF Join, subjectVars
  <2> QED
    BY <2>2, <2>4, <2>5, SeenStep
<1>7. ASSUME NEW m \in net, Joined(m) PROVE DeathsSeen'
  <2>1. /\ \A n \in Observers : view'[n] = view[n]
        /\ net' \subseteq net /\ UNCHANGED <<left, failed, merges>>
    BY <1>7, <1>a DEF Joined, AddOrUpdate
  <2> QED
    BY <2>1, SeenStep
<1>8. ASSUME NEW m \in net, Receive(m) PROVE DeathsSeen'
  <2>1. /\ merges' = merges \cup {[node |-> m.to, sender |-> m.from, snap |-> view[m.to],
                                   recv |-> m.entry, reply |-> m.type = "ping"]}
        /\ net' \subseteq net /\ UNCHANGED <<left, failed, view>>
    BY <1>8 DEF Receive, subjectVars
  <2>2. \A g \in merges' : g \in merges \/ (g.snap = view[m.to] /\ g.node = m.to)
    BY <2>1
  <2>3. \A k \in Observers : view[k].status = "dead" => Seen(k)'
    BY <2>1 DEF DeathsSeen, Seen
  <2> QED
    BY <2>1, <2>2, <2>3, SeenStep
<1>9. ASSUME NEW m \in net, PingReply(m) \/ Drop(m) PROVE DeathsSeen'
  <2>1. Message("ack", m.from, m.to, Sent(view[m.from], view[m.from].age)).type = "ack"
    BY DEF Message
  <2>2. /\ \A k \in net' : k \in net \/ k.type # "join"
        /\ UNCHANGED <<left, failed, view, merges>>
    BY <1>9, <2>1 DEF PingReply, Drop, subjectVars
  <2> QED
    BY <2>2, SeenStep
<1>10. ASSUME NEW g \in merges, Merge(g) PROVE DeathsSeen'
  <2>1. /\ merges' \subseteq merges /\ UNCHANGED left
        /\ \A m \in net' : m \in net \/ m.type # "join"
    BY <1>10, MergeEffect, FinishTypes
  <2>2. failed \subseteq failed'
    BY <1>10, MergeEffect
  <2>3. ASSUME NEW k \in Observers, view'[k].status = "dead" PROVE view[k].status = "dead" \/ Seen(k)'
    <3>1. CASE k # g.node
      BY <1>10, <1>a, <2>3, <3>1, MergeEffect
    <3>2. CASE k = g.node
      <4>1. Now(g.recv).status = g.recv.status
        BY <1>a, EntryFacts
      <4>2. Merged(g.snap, g.recv, g.sender) \in {g.snap, g.recv, Now(g.recv)}
        BY <1>a, MergedOneOf
      <4>3. \/ view'[k] = view[k]
            \/ /\ g.recv.status = "dead" \/ g.snap.status = "dead"
               /\ SeenFailing(g) => k \in failed'
        BY <1>10, <1>a, <2>3, <3>2, <4>1, <4>2, MergeEffect
      <4>4. g.snap.status = "dead" => Seen(k)'
        BY <2>1, <2>2, <3>2 DEF DeathsSeen, Seen
      <4>5. g.snap.status = "voluntary_leave" => Seen(k)'
        BY <2>1 DEF HonestCopies, Honest, Seen
      <4>6. g.recv.status = "dead" /\ g.snap.status \notin Final => SeenFailing(g)
        BY DEF SeenFailing, Final
      <4> QED
        BY <2>3, <4>3, <4>4, <4>5, <4>6 DEF Final, Seen
    <3> QED
      BY <3>1, <3>2
  <2> QED
    BY <2>1, <2>2, <2>3, SeenStep
<1>11. CASE UNCHANGED vars
  BY <1>11, SeenStep DEF vars
<1> QED
  BY <1>1, <1>2, <1>3, <1>4, <1>5, <1>6, <1>7, <1>8, <1>9, <1>10, <1>11 DEF Next, Handle

\* Initially nobody has an entry.
LEMMA SeenInit == Init => DeathsSeen
<1>1. NoEntry.status = "absent"
  BY DEF NoEntry, Entry
<1> QED
  BY <1>1 DEF Init, DeathsSeen, Observers

\* Whoever takes the Subject for dead has entered it in FailedPendingStabilization,
\* by its own timeout or on hearing of it, unless the Subject had left: no overlap
\* of merges and timeouts writes a death that handleDeadNode was not told of.
THEOREM DeathsReachRing == Spec => []DeadIsStabilised
<1>1. DeathsSeen => DeadIsStabilised
  BY DEF DeathsSeen, DeadIsStabilised, Seen
<1> QED
  BY <1>1, TypeInit, TypeNext, HonestInit, HonestNext, SeenInit, SeenNext, PTL DEF Spec

----------------------------------------------------------------------------
(* A final status is undone only by a merge that was under way.             *)

\* The Subject has not reached the introducer yet.
Unjoined == proc = "off" \/ \E m \in net : m.type = "join"

\* A message tells nothing of the Subject, and will not be filled in by it.
Blank(m) == m.entry.status = "absent" /\ (m.type = "reply" => m.from # Subject)

\* The strengthening: there is at most one join on its way, without an answer, and
\* until it arrives nobody else knows of the Subject, so the entry that Join writes
\* without looking replaces none.
JoinFresh ==
  /\ \A m \in net : m.type \in {"join", "joined"} => proc # "off"
  /\ \A m \in net : m.type = "join" =>
       proc = "joining" /\ \A k \in net : k.type \in {"join", "joined"} => k = m
  /\ Unjoined =>
       /\ \A n \in Observers : view[n].status = "absent"
       /\ \A m \in net : m.type # "join" => Blank(m)
       /\ \A g \in merges : g.snap.status = "absent" /\ g.recv.status = "absent"

\* A step that sends no join and no answer to one need only keep others ignorant.
LEMMA FreshStep ==
  ASSUME JoinFresh, proc' = "off" => proc = "off",
         (\E m \in net : m.type = "join") => proc' = proc,
         \A m \in net' : m \in net \/ m.type \notin {"join", "joined"},
         Unjoined /\ Unjoined' =>
           /\ \A n \in Observers : view'[n].status = "absent"
           /\ \A m \in net' : m \in net \/ Blank(m)
           /\ \A g \in merges' : g \in merges \/ (g.snap.status = "absent" /\ g.recv.status = "absent")
  PROVE  JoinFresh'
<1>1. Unjoined' => Unjoined
  BY DEF Unjoined
<1>2. \A m \in net' : m.type \in {"join", "joined"} => m \in net
  OBVIOUS
<1>3. \A m \in net' : m.type \in {"join", "joined"} => proc' # "off"
  BY <1>2 DEF JoinFresh
<1>4. \A m \in net' : m.type = "join" =>
        proc' = "joining" /\ \A k \in net' : k.type \in {"join", "joined"} => k = m
  BY <1>2 DEF JoinFresh
<1>5. Unjoined' => \A m \in net' : m.type # "join" => Blank(m)
  BY <1>1 DEF JoinFresh
<1>6. Unjoined' => \A g \in merges' : g.snap.status = "absent" /\ g.recv.status = "absent"
  BY <1>1 DEF JoinFresh
<1> QED
  BY <1>1, <1>3, <1>4, <1>5, <1>6 DEF JoinFresh, Blank

\* Every step keeps it.
LEMMA FreshNext == TypeOK /\ JoinFresh /\ [Next]_vars => JoinFresh'
<1> SUFFICES ASSUME TypeOK, JoinFresh, [Next]_vars PROVE JoinFresh'
  OBVIOUS
<1>a. /\ view \in [Nodes -> EntryType] /\ Subject \in Nodes /\ Subject \notin Observers
      /\ Observers = Nodes \ {Subject}
      /\ \A m \in net : m.from \in Nodes /\ m.to \in Nodes /\ m.entry \in EntryType
      /\ \A g \in merges : g.node \in Nodes /\ g.snap \in EntryType /\ g.recv \in EntryType
  BY NodesAssumption DEF TypeOK, MessageType, MergeType, Observers
<1>b. Unjoined => proc \in {"off", "joining"}
  BY DEF Unjoined, JoinFresh
<1>c. Unjoined => /\ \A n \in Observers : view[n].status = "absent"
                  /\ \A m \in net : m.type # "join" => Blank(m)
                  /\ \A g \in merges : g.snap.status = "absent" /\ g.recv.status = "absent"
                  /\ \A g \in merges : g.node # Subject
  BY <1>b DEF JoinFresh, TypeOK, Running
<1>1. CASE NotifyIntroducer
  <2> DEFINE j == Message("join", Subject, Introducer, Entry("alive", heartbeat, incarnation, 0))
  <2>1. j.type = "join"
    BY DEF Message
  <2>2. /\ \A n \in Observers : view'[n] = view[n]
        /\ net' = net \cup {j} /\ merges' = merges /\ proc = "off" /\ proc' = "joining"
    BY <1>1, <1>a DEF NotifyIntroducer, AddOrUpdate
  <2>3. Unjoined /\ \A m \in net : m.type \notin {"join", "joined"}
    BY <2>2 DEF Unjoined, JoinFresh
  <2> HIDE DEF j
  <2> QED
    BY <1>c, <2>1, <2>2, <2>3 DEF JoinFresh, Blank
<1>2. CASE JoinFails \/ increaseHeartbeat \/ leaveGroup \/ Crash
  <2>1. /\ proc \in {"joining", "up"} /\ proc' # "off"
        /\ net' \subseteq net
        /\ \A m \in net : m.type # "join"
    BY <1>2 DEF JoinFails, increaseHeartbeat, leaveGroup, Crash, JoinFresh
  <2> QED
    BY <2>1, FreshStep DEF Unjoined
<1>3. CASE Tick
  <2>1. ASSUME NEW n \in Observers PROVE view'[n].status = view[n].status
    <3>1. [view[n] EXCEPT !.age = @ + 1].status = view[n].status
      BY <1>a DEF EntryType
    <3>2. view'[n] = Older(n)
      BY <1>3, <1>a DEF Tick
    <3> QED
      BY <3>1, <3>2 DEF Older
  <2>2. UNCHANGED <<proc, net, merges>>
    BY <1>3 DEF Tick, subjectVars
  <2> QED
    BY <1>c, <2>1, <2>2, FreshStep
<1>4. ASSUME NEW n \in Nodes, NEW to \in Nodes, gossipSend(n, to) \/ pingSend(n, to)
      PROVE  JoinFresh'
  <2>1. PICK ty \in {"gossip", "ping"} : net' = net \cup {Message(ty, n, to, Sent(view[n], Expired))}
    BY <1>4 DEF gossipSend, pingSend
  <2>2. /\ Message(ty, n, to, Sent(view[n], Expired)).type = ty
        /\ Message(ty, n, to, Sent(view[n], Expired)).entry.status = view[n].status
    BY <1>a, EntryFacts DEF Message
  <2>3. UNCHANGED <<proc, view, merges>> /\ Running(n)
    BY <1>4 DEF gossipSend, pingSend, subjectVars, MaySend
  <2>4. Unjoined => view[n].status = "absent"
    BY <1>a, <1>b, <1>c, <2>3 DEF Running
  <2> QED
    BY <1>c, <2>1, <2>2, <2>3, <2>4, FreshStep DEF Blank
<1>5. ASSUME NEW n \in Nodes, MarkSuspectIfNeeded(n) PROVE JoinFresh'
  <2>1. Running(n) /\ view[n].status # "absent" /\ UNCHANGED <<proc, net, merges>>
    BY <1>5 DEF MarkSuspectIfNeeded, Due, TurnsSuspect, TurnsDead, CleanedUp, subjectVars
  <2>2. ~Unjoined
    BY <1>a, <1>b, <1>c, <2>1 DEF Running
  <2> QED
    BY <2>1, <2>2, FreshStep
<1>6. ASSUME NEW m \in net, Join(m) PROVE JoinFresh'
  <2>1. /\ m.type = "join" /\ proc' = proc
        /\ net' = (net \ {m}) \cup {Message("joined", m.to, m.from, view'[m.to])}
    BY <1>6 DEF Join, subjectVars
  <2>2. Message("joined", m.to, m.from, view'[m.to]).type = "joined"
    BY DEF Message
  <2>3. proc = "joining" /\ \A k \in net \ {m} : k.type \notin {"join", "joined"}
    BY <2>1 DEF JoinFresh
  <2>4. \A k \in net' : k.type # "join"
    BY <2>1, <2>2, <2>3
  <2> QED
    BY <2>1, <2>3, <2>4 DEF JoinFresh, Unjoined
<1>7. ASSUME NEW m \in net, Joined(m) PROVE JoinFresh'
  <2>1. m.type = "joined" /\ proc' = "up" /\ net' \subseteq net
    BY <1>7 DEF Joined
  <2>2. \A k \in net : k.type # "join"
    BY <2>1 DEF JoinFresh
  <2> QED
    BY <2>1, <2>2, FreshStep DEF Unjoined
<1>8. ASSUME NEW m \in net, Receive(m) PROVE JoinFresh'
  <2>1. /\ merges' = merges \cup {[node |-> m.to, sender |-> m.from, snap |-> view[m.to],
                                   recv |-> m.entry, reply |-> m.type = "ping"]}
        /\ net' \subseteq net /\ UNCHANGED <<proc, view>>
        /\ m.type # "join" /\ Running(m.to)
    BY <1>8 DEF Receive, subjectVars
  <2>2. \A g \in merges' : g \in merges \/ (g.snap = view[m.to] /\ g.recv = m.entry)
    BY <2>1
  <2>3. Unjoined => view[m.to].status = "absent" /\ m.entry.status = "absent"
    BY <1>a, <1>b, <1>c, <2>1 DEF Running, Blank
  <2> QED
    BY <1>c, <2>1, <2>2, <2>3, FreshStep
<1>9. ASSUME NEW m \in net, PingReply(m) PROVE JoinFresh'
  <2>1. view[m.from].age \in 0..Expired
    BY <1>a DEF EntryType
  <2>2. /\ Message("ack", m.from, m.to, Sent(view[m.from], view[m.from].age)).type = "ack"
        /\ Message("ack", m.from, m.to, Sent(view[m.from], view[m.from].age)).entry.status
             = view[m.from].status
    BY <1>a, <2>1, EntryFacts DEF Message
  <2>3. /\ net' = (net \ {m}) \cup {Message("ack", m.from, m.to, Sent(view[m.from], view[m.from].age))}
        /\ m.type = "reply" /\ UNCHANGED <<proc, view, merges>>
    BY <1>9 DEF PingReply, subjectVars
  <2>4. Unjoined => view[m.from].status = "absent"
    BY <1>a, <1>c, <2>3 DEF Blank
  <2> QED
    BY <1>c, <2>2, <2>3, <2>4, FreshStep DEF Blank
<1>10. ASSUME NEW m \in net, Drop(m) PROVE JoinFresh'
  <2>1. net' \subseteq net /\ UNCHANGED <<proc, view, merges>>
    BY <1>10 DEF Drop, subjectVars
  <2> QED
    BY <1>c, <2>1, FreshStep
<1>11. ASSUME NEW g \in merges, Merge(g) PROVE JoinFresh'
  <2>1. FinishMerge(g)
    BY <1>11, MergeEffect
  <2>2. /\ merges' \subseteq merges /\ UNCHANGED proc
        /\ \A m \in net' : m \in net \/ (m.type = "reply" /\ m.entry = NoEntry)
    BY <2>1, FinishTypes
  <2>3. \A m \in net' : m \in net \/ m.type # "reply" \/ m.from = g.node
    BY <2>1 DEF FinishMerge, Message
  <2>4. NoEntry.status = "absent"
    BY DEF NoEntry, Entry
  <2>5. Unjoined => view' = view
    BY <1>11, <1>c DEF Merge, MergeIgnore, MergeJoin, MergeRefute, MergeUpdate, Ignored, Refutes
  <2> QED
    BY <1>c, <2>2, <2>3, <2>4, <2>5, FreshStep DEF Blank
<1>12. CASE UNCHANGED vars
  BY <1>12, <1>c, FreshStep DEF vars
<1> QED
  BY <1>1, <1>2, <1>3, <1>4, <1>5, <1>6, <1>7, <1>8, <1>9, <1>10, <1>11, <1>12 DEF Next, Handle

\* Initially nobody knows of the Subject and nothing is on its way.
LEMMA FreshInit == Init => JoinFresh
<1>1. NoEntry.status = "absent"
  BY DEF NoEntry, Entry
<1> QED
  BY <1>1 DEF Init, JoinFresh, Observers

\* The merge of a final status is final.
LEMMA FinalWins ==
  ASSUME NEW l \in EntryType, NEW r \in EntryType, NEW q, l.status \in Final
  PROVE  Merged(l, r, q).status \in Final
BY EntryFacts DEF Merged, handleSuspicionMerge, handleNoSuspicionMerge

\* A step that undoes a final status ends a merge whose snapshot is older.
LEMMA FinalStep ==
  ASSUME TypeOK, JoinFresh, [Next]_vars, NEW n \in Observers,
         view[n].status \in Final, view'[n].status \in {"alive", "suspect"}
  PROVE  \E g \in merges : g.node = n /\ g.snap.status \notin Final
<1>a. /\ view \in [Nodes -> EntryType] /\ Subject \in Nodes /\ n \in Nodes /\ n # Subject
      /\ \A m \in net : m.from \in Nodes /\ m.to \in Nodes /\ m.entry \in EntryType
      /\ \A g \in merges : g.node \in Nodes /\ g.snap \in EntryType /\ g.recv \in EntryType
  BY NodesAssumption DEF TypeOK, MessageType, MergeType, Observers
<1>b. view'[n].status # view[n].status
  BY DEF Final
<1>c. ~Unjoined
  BY DEF JoinFresh, Final
<1>1. CASE \/ NotifyIntroducer \/ JoinFails \/ increaseHeartbeat \/ leaveGroup \/ Crash
           \/ \E m \in net : Joined(m)
  <2>1. view'[n] = view[n]
    BY <1>1, <1>a DEF NotifyIntroducer, JoinFails, increaseHeartbeat, leaveGroup, Crash, Joined,
                      AddOrUpdate
  <2> QED
    BY <1>b, <2>1
<1>2. CASE Tick
  <2>1. [view[n] EXCEPT !.age = @ + 1].status = view[n].status
    BY <1>a DEF EntryType
  <2>2. view'[n] = Older(n)
    BY <1>2, <1>a DEF Tick
  <2> QED
    BY <1>b, <2>1, <2>2 DEF Older
<1>3. CASE \/ \E k, to \in Nodes : gossipSend(k, to) \/ pingSend(k, to)
           \/ \E m \in net : Receive(m) \/ PingReply(m) \/ Drop(m)
           \/ UNCHANGED vars
  <2>1. view' = view
    BY <1>3 DEF gossipSend, pingSend, Receive, PingReply, Drop, vars
  <2> QED
    BY <1>b, <2>1
<1>4. ASSUME NEW k \in Nodes, MarkSuspectIfNeeded(k)
      PROVE  \E g \in merges : g.node = n /\ g.snap.status \notin Final
  <2>1. view'[n] = view[n] \/ (k = n /\ view'[n] = NoEntry)
    BY <1>4, <1>a DEF MarkSuspectIfNeeded, AddOrUpdate, TurnsSuspect, TurnsDead, CleanedUp, Final
  <2> QED
    BY <1>b, <2>1 DEF NoEntry, Entry
<1>5. ASSUME NEW m \in net, Join(m)
      PROVE  \E g \in merges : g.node = n /\ g.snap.status \notin Final
  BY <1>5, <1>c DEF Join, Unjoined
<1>6. ASSUME NEW g \in merges, Merge(g)
      PROVE  \E h \in merges : h.node = n /\ h.snap.status \notin Final
  <2>1. g.node = n
    <3> SUFFICES ASSUME g.node # n PROVE view'[n] = view[n]
      BY <1>b
    <3> QED
      BY <1>6, <1>a, MergeEffect
  <2>2. CASE g.snap.status \in Final
    <3>1. \/ view' = view
          \/ view' = [view EXCEPT ![g.node] = Merged(g.snap, g.recv, g.sender)]
      BY <1>6, <1>a, <2>1, <2>2 DEF Merge, MergeIgnore, MergeJoin, MergeRefute, MergeUpdate,
                                    Refutes, AddOrUpdate, Final
    <3>2. Merged(g.snap, g.recv, g.sender).status \in Final
      BY <1>a, <2>2, FinalWins
    <3>3. view'[n].status \in Final
      BY <1>a, <2>1, <3>1, <3>2
    <3> QED
      BY <3>3 DEF Final
  <2> QED
    BY <2>1, <2>2
<1> QED
  BY <1>1, <1>2, <1>3, <1>4, <1>5, <1>6 DEF Next, Handle

\* Once a node has the Subject as dead or left, only a merge of that node whose
\* snapshot is older than that can make it alive or suspect again: neither the rules
\* of the merge, nor a timeout, nor a late join of the Subject revive it.
THEOREM FinalStaysFinal == Spec => FinalUnlessRaced
<1>1. TypeOK /\ JoinFresh /\ [Next]_vars =>
        [\A n \in Observers :
           view[n].status \in Final /\ view'[n].status \in {"alive", "suspect"} =>
             \E g \in merges : g.node = n /\ g.snap.status \notin Final]_vars
  BY FinalStep
<1> QED
  BY <1>1, TypeInit, TypeNext, FreshInit, FreshNext, PTL DEF Spec, FinalUnlessRaced

----------------------------------------------------------------------------
(* A crashed member is forgotten.                                           *)

Present(e) == e.status \in {"alive", "suspect"}

\* The entry x is at least as new as e: the order in which merges prefer entries that
\* are present, with the suspicion mode md.
AtLeast(md, x, e) ==
  LET higher == \/ x.status = "suspect" /\ e.status = "alive"
                \/ x.status = e.status /\ x.hb >= e.hb
  IN IF md = "suspect" THEN x.inc > e.inc \/ (x.inc = e.inc /\ higher) ELSE higher

Overdue(e) == e.status = "dead" /\ e.age > CleanUpTimeout

\* What a node's entry o of the last tick may have become since.
Grown(md, o, e) ==
  \/ e = o
  \/ e.status = "voluntary_leave"
  \/ Present(o) /\ e.status = "dead" /\ e.age = 0
  \/ Present(o) /\ Present(e) /\ e.age = 0 /\ ~AtLeast(md, o, e)
  \/ (o.status = "absent" \/ Overdue(o)) /\ (e.status = "absent" \/ (Present(e) /\ e.age = 0))

\* What is present in e comes from a list of the last tick, w.
Known(w, e) ==
  Present(e) =>
    \/ \E k \in Observers : /\ w[k].status = e.status
                            /\ w[k].hb = e.hb /\ w[k].inc = e.inc
    \/ e.status = "suspect" /\ \E k \in Observers : w[k].status = "alive"

\* The ticks an entry lives on with the status st.
Patience(md, st) ==
  IF st = "suspect" \/ (md = "nosuspect" /\ SuspicionTimeout < DeadTimeout)
  THEN DeadTimeout ELSE SuspicionTimeout

\* The nodes that have had e in the last c ticks or are done with the Subject, and do
\* not take e again.
Kept(md, w, e, c) ==
  {m \in Observers : \/ Present(w[m]) /\ AtLeast(md, w[m], e)
                     \/ w[m].status = "voluntary_leave"
                     \/ w[m].status = "dead" /\ w[m].age <= c}

\* What has been passed on with the status st for c ticks has been at so many nodes
\* other than those of X.
Chain(md, w, st, c, X) ==
  \A k \in Observers : w[k].status = st =>
    c <= w[k].age + (Patience(md, st) + 1) * (Cardinality(Kept(md, w, w[k], c) \ X) - 1)

\* The same since c ticks ago, and since a node has entered the death.
Chains(md, w, st, c) ==
  /\ Chain(md, w, st, c, {})
  /\ \A n \in Observers :
       w[n].status = "dead" /\ w[n].age <= c => Chain(md, w, st, w[n].age, {n})

\* When the last entry with status alive has been given up, in ticks since the crash.
AliveEnd(md) == Cardinality(Observers) * (Patience(md, "alive") + 1)

\* The lists w at the last tick, d ticks after the crash.
LastTick(md, w, d) ==
  /\ w \in [Observers -> EntryType]
  /\ \A n \in Observers : Present(w[n]) => w[n].age \in 1..(Patience(md, w[n].status) + 1)
  /\ md = "nosuspect" => \A n \in Observers : w[n].status # "suspect"
  /\ Chains(md, w, "alive", d)
  /\ d > AliveEnd(md) => Chains(md, w, "suspect", d - AliveEnd(md))

\* What has happened since.
SinceTick(w) ==
  /\ \A n \in Observers : Grown(suspicion, w[n], view[n]) /\ Known(w, view[n])
  /\ \A m \in net : m.type = "gossip" /\ Known(w, m.entry)
  /\ \A g \in merges : /\ ~g.reply /\ Grown(suspicion, w[g.node], g.snap)
                       /\ Known(w, g.snap) /\ Known(w, g.recv)

\* Among entries that are present the order is total and transitive.
LEMMA NewsOrder ==
  ASSUME NEW md, NEW x \in EntryType, NEW e \in EntryType, NEW f \in EntryType,
         Present(x), Present(e), Present(f)
  PROVE  /\ AtLeast(md, x, x)
         /\ AtLeast(md, x, e) \/ AtLeast(md, e, x)
         /\ AtLeast(md, x, e) /\ AtLeast(md, e, f) => AtLeast(md, x, f)
<1>1. \A y \in {x, e, f} : y.hb \in Int /\ y.inc \in Int /\ y.status \in {"alive", "suspect"}
  BY DEF EntryType, Present
<1> QED
  BY <1>1 DEF AtLeast

\* The members of a chain are counted by a number up to the number of observers.
LEMMA KeptCount ==
  ASSUME NEW S \in SUBSET Observers
  PROVE  /\ IsFiniteSet(S) /\ Cardinality(S) \in Nat
         /\ Cardinality(S) <= Cardinality(Observers)
         /\ Cardinality(Observers) \in Nat
         /\ \A n \in Observers : n \notin S => Cardinality(S) <= Cardinality(Observers) - 1
         /\ \A n \in Observers : n \notin S => Cardinality(S \cup {n}) = Cardinality(S) + 1
         /\ \A R \in SUBSET Observers : S \subseteq R => Cardinality(S) <= Cardinality(R)
<1>1. IsFiniteSet(Observers)
  BY NodesAssumption, FS_Subset DEF Observers
<1>2. \A R \in SUBSET Observers : IsFiniteSet(R) /\ Cardinality(R) \in Nat
  BY <1>1, FS_Subset, FS_CardinalityType
<1>3. \A R \in SUBSET Observers : S \subseteq R => Cardinality(S) <= Cardinality(R)
  BY <1>2, FS_Subset
<1>4. \A n \in Observers : n \notin S => Cardinality(S \cup {n}) = Cardinality(S) + 1
  BY <1>2, FS_AddElement
<1>5. ASSUME NEW n \in Observers, n \notin S PROVE Cardinality(S) <= Cardinality(Observers) - 1
  <2>1. S \cup {n} \in SUBSET Observers
    BY <1>5
  <2>2. Cardinality(S \cup {n}) <= Cardinality(Observers)
    BY <1>1, <2>1, FS_Subset
  <2>3. Cardinality(S \cup {n}) = Cardinality(S) + 1 /\ Cardinality(S) \in Nat /\ Cardinality(Observers) \in Nat
    BY <1>1, <1>2, <1>4, <1>5, FS_CardinalityType
  <2> QED
    BY <2>2, <2>3
<1> QED
  BY <1>1, <1>2, <1>3, <1>4, <1>5, FS_Subset

\* Products.
LEMMA Products ==
  ASSUME NEW q \in Nat, NEW x \in Int, NEW y \in Int
  PROVE  /\ q * x \in Int
         /\ x <= y => q * x <= q * y
         /\ q * (x + 1) = q * x + q
         /\ q * (x - 1) = q * x - q
<1>1. q * x \in Int
  OBVIOUS
<1>2. x <= y => q * x <= q * y
  OBVIOUS
<1>3. q * (x + 1) = q * x + q
  OBVIOUS
<1>4. q * (x - 1) = q * x - q
  OBVIOUS
<1> QED
  BY <1>1, <1>2, <1>3, <1>4

\* Patience is a number.
LEMMA PatienceIsNat ==
  ASSUME NEW md, NEW st
  PROVE  Patience(md, st) \in {SuspicionTimeout, DeadTimeout} /\ Patience(md, st) \in Nat
BY TimeoutsAssumption DEF Patience

\* While an entry lives on, it has been with one node after the other; with all of them
\* when the time is up.
LEMMA ChainEnds ==
  ASSUME NEW md, NEW w \in [Observers -> EntryType], NEW st, NEW c \in Int,
         NEW X \in SUBSET Observers, Chain(md, w, st, c, X),
         NEW k \in Observers, w[k].status = st, w[k].age \in 1..(Patience(md, st) + 1)
  PROVE  /\ c <= (Patience(md, st) + 1) * Cardinality(Observers)
         /\ X # {} => c <= (Patience(md, st) + 1) * (Cardinality(Observers) - 1)
<1> DEFINE K == Kept(md, w, w[k], c) \ X
           q == Patience(md, st) + 1
<1>1. K \in SUBSET Observers
  BY DEF Kept
<1>2. q \in Nat
  BY PatienceIsNat
<1>3. Cardinality(K) \in Nat /\ Cardinality(Observers) \in Nat /\ Cardinality(K) <= Cardinality(Observers)
      /\ (X # {} => Cardinality(K) <= Cardinality(Observers) - 1)
  BY <1>1, KeptCount
<1>4. c <= w[k].age + q * (Cardinality(K) - 1)
  BY DEF Chain
<1> HIDE DEF K, q
<1>5. w[k].age \in Int /\ w[k].age <= q
  BY <1>2 DEF q
<1>6. q * (Cardinality(K) - 1) = q * Cardinality(K) - q /\ q * Cardinality(K) \in Int
  BY <1>2, <1>3, Products
<1>7. c <= q * Cardinality(K)
  BY <1>2, <1>4, <1>5, <1>6
<1>8. q * Cardinality(K) <= q * Cardinality(Observers) /\ q * Cardinality(Observers) \in Int
  BY <1>2, <1>3, Products
<1>9. X # {} => q * Cardinality(K) <= q * (Cardinality(Observers) - 1) /\ q * (Cardinality(Observers) - 1) \in Int
  <2>1. Cardinality(Observers) - 1 \in Int /\ Cardinality(K) \in Int
    BY <1>3
  <2> QED
    BY <1>2, <1>3, <2>1, Products
<1> QED
  BY <1>6, <1>7, <1>8, <1>9 DEF q

\* While the status st is passed on, a death entered meanwhile is not cleaned up.
LEMMA NoneOverdue ==
  ASSUME CleanUpIsLong, NEW md, NEW w \in [Observers -> EntryType], NEW st, NEW c \in Int,
         Chains(md, w, st, c),
         NEW k \in Observers, w[k].status = st, w[k].age \in 1..(Patience(md, st) + 1),
         NEW n \in Observers, w[n].status = "dead", w[n].age <= c
  PROVE  w[n].age <= CleanUpTimeout
<1>1. Chain(md, w, st, w[n].age, {n}) /\ w[n].age \in Int
  BY DEF Chains, EntryType
<1>2. w[n].age <= (Patience(md, st) + 1) * (Cardinality(Observers) - 1)
  <2>1. {n} \in SUBSET Observers /\ {n} # {}
    OBVIOUS
  <2> DEFINE a == w[n].age
  <2>2. a \in Int /\ Chain(md, w, st, a, {n})
    BY <1>1
  <2> HIDE DEF a
  <2>3. a <= (Patience(md, st) + 1) * (Cardinality(Observers) - 1)
    BY <2>1, <2>2, ChainEnds
  <2> QED
    BY <2>3 DEF a
<1>3. Patience(md, st) \in {SuspicionTimeout, DeadTimeout} /\ Patience(md, st) \in Nat
  BY PatienceIsNat
<1>4. (Cardinality(Observers) - 1) * (Patience(md, st) + 1) <= CleanUpTimeout
  BY <1>3 DEF CleanUpIsLong
<1>5. Cardinality(Observers) \in Nat
  BY KeptCount
<1>6. (Cardinality(Observers) - 1) * (Patience(md, st) + 1)
        = (Patience(md, st) + 1) * (Cardinality(Observers) - 1)
  BY <1>3, <1>5
<1>7. (Patience(md, st) + 1) * (Cardinality(Observers) - 1) \in Int /\ CleanUpTimeout \in Int
  BY <1>3, <1>5, TimeoutsAssumption, Products
<1> QED
  BY <1>1, <1>2, <1>4, <1>6, <1>7

\* The entry e after a tick.
Ticked(e, f) ==
  /\ f.status = e.status /\ f.hb = e.hb /\ f.inc = e.inc
  /\ Present(e) \/ e.status = "dead" => f.age = e.age + 1

\* Whoever has been with a chain at the last tick is with it at the next.
LEMMA KeptStays ==
  ASSUME NEW md, NEW w \in [Observers -> EntryType], NEW v \in [Observers -> EntryType],
         NEW u \in [Observers -> EntryType],
         \A n \in Observers : Grown(md, w[n], v[n]) /\ Ticked(v[n], u[n]),
         NEW c \in Nat, NEW e \in EntryType, NEW f \in EntryType,
         Present(e), f.status = e.status, f.hb = e.hb, f.inc = e.inc,
         NEW m \in Kept(md, w, e, c), w[m].status = "dead" => ~Overdue(w[m])
  PROVE  m \in Kept(md, u, f, c + 1)
<1>1. /\ m \in Observers /\ w[m] \in EntryType /\ v[m] \in EntryType /\ u[m] \in EntryType
      /\ Grown(md, w[m], v[m]) /\ Ticked(v[m], u[m])
      /\ u[m].age \in Int /\ v[m].age \in Int /\ w[m].age \in Int
  BY DEF Kept, EntryType
<1>2. \A x \in EntryType : /\ AtLeast(md, x, e) <=> AtLeast(md, x, f)
                           /\ \A y \in EntryType : x.status = y.status /\ x.hb = y.hb /\ x.inc = y.inc
                                => (AtLeast(md, x, f) <=> AtLeast(md, y, f))
  BY DEF AtLeast
<1>3. CASE Present(w[m]) /\ AtLeast(md, w[m], e)
  <2>1. CASE v[m] = w[m]
    <3>1. Present(u[m])
      BY <1>1, <1>3, <2>1 DEF Ticked, Present
    <3>2. AtLeast(md, u[m], f)
      BY <1>1, <1>2, <1>3, <2>1 DEF Ticked
    <3> QED
      BY <1>1, <3>1, <3>2 DEF Kept
  <2>2. CASE v[m].status = "voluntary_leave"
    BY <1>1, <2>2 DEF Ticked, Kept
  <2>3. CASE v[m].status = "dead" /\ v[m].age = 0
    <3>1. u[m].status = "dead" /\ u[m].age <= c + 1
      BY <1>1, <2>3 DEF Ticked
    <3> QED
      BY <1>1, <3>1 DEF Kept
  <2>4. CASE Present(v[m]) /\ ~AtLeast(md, w[m], v[m])
    <3>1. AtLeast(md, v[m], w[m])
      BY <1>1, <1>3, <2>4, NewsOrder
    <3>2. AtLeast(md, v[m], e)
      BY <1>1, <1>3, <2>4, <3>1, NewsOrder
    <3>3. AtLeast(md, u[m], f) /\ Present(u[m])
      BY <1>1, <1>2, <2>4, <3>2 DEF Ticked, Present
    <3> QED
      BY <1>1, <3>3 DEF Kept
  <2>5. w[m].status # "absent" /\ ~Overdue(w[m])
    BY <1>3 DEF Present, Overdue
  <2> QED
    BY <1>1, <2>1, <2>2, <2>3, <2>4, <2>5 DEF Grown
<1>4. CASE w[m].status = "voluntary_leave"
  <2>1. v[m].status = "voluntary_leave"
    BY <1>1, <1>4 DEF Grown, Present, Overdue
  <2> QED
    BY <1>1, <2>1 DEF Ticked, Kept
<1>5. CASE w[m].status = "dead" /\ w[m].age <= c
  <2>1. v[m] = w[m] \/ v[m].status = "voluntary_leave"
    BY <1>1, <1>5 DEF Grown, Present
  <2>2. CASE v[m] = w[m]
    <3>1. u[m].status = "dead" /\ u[m].age <= c + 1
      BY <1>1, <1>5, <2>2 DEF Ticked
    <3> QED
      BY <1>1, <3>1 DEF Kept
  <2>3. CASE v[m].status = "voluntary_leave"
    BY <1>1, <2>3 DEF Ticked, Kept
  <2> QED
    BY <2>1, <2>2, <2>3
<1> QED
  BY <1>3, <1>4, <1>5 DEF Kept

\* A chain goes on over a tick: who has taken an entry since then makes it longer.
LEMMA ChainStep ==
  ASSUME NEW md, NEW st, st \in {"alive", "suspect"}, NEW c \in Nat, NEW X \in SUBSET Observers,
         NEW w \in [Observers -> EntryType], NEW v \in [Observers -> EntryType],
         NEW u \in [Observers -> EntryType],
         \A n \in Observers : Grown(md, w[n], v[n]) /\ Ticked(v[n], u[n]),
         \A n \in Observers : w[n].status = st => w[n].age \in 1..(Patience(md, st) + 1),
         \A k \in Observers : v[k].status = st =>
           \E j \in Observers : w[j].status = st /\ w[j].hb = v[k].hb /\ w[j].inc = v[k].inc,
         (\E k \in Observers : w[k].status = st) =>
           \A n \in Observers : w[n].status = "dead" /\ w[n].age <= c => ~Overdue(w[n]),
         \A n \in X : w[n].status = "dead" /\ w[n].age <= c,
         Chain(md, w, st, c, X)
  PROVE  Chain(md, u, st, c + 1, X)
<1> SUFFICES ASSUME NEW k \in Observers, u[k].status = st
             PROVE  c + 1 <= u[k].age + (Patience(md, st) + 1) * (Cardinality(Kept(md, u, u[k], c + 1) \ X) - 1)
  BY DEF Chain
<1> DEFINE q == Patience(md, st) + 1
           L == Kept(md, u, u[k], c + 1) \ X
           M(j) == Kept(md, w, w[j], c) \ X
<1>1. /\ w[k] \in EntryType /\ v[k] \in EntryType /\ u[k] \in EntryType
      /\ v[k].status = st /\ v[k].hb = u[k].hb /\ v[k].inc = u[k].inc
      /\ u[k].age = v[k].age + 1 /\ v[k].age \in Int /\ w[k].age \in Int
      /\ Present(v[k]) /\ Present(u[k]) /\ Grown(md, w[k], v[k])
  BY DEF Ticked, Present, EntryType
<1>2. q \in Nat /\ L \in SUBSET Observers /\ \A j \in Observers : M(j) \in SUBSET Observers
  BY PatienceIsNat DEF Kept
<1>3. \A j \in Observers : w[j].status = st =>
        c <= w[j].age + q * (Cardinality(M(j)) - 1)
  BY DEF Chain
<1>4. ASSUME NEW j \in Observers, w[j].status = st, w[j].hb = v[k].hb, w[j].inc = v[k].inc
      PROVE  M(j) \subseteq L
  <2> SUFFICES ASSUME NEW m \in M(j) PROVE m \in Kept(md, u, u[k], c + 1)
    OBVIOUS
  <2>1. m \in Kept(md, w, w[j], c) /\ m \in Observers /\ w[j] \in EntryType /\ Present(w[j])
    BY <1>4 DEF Kept, Present
  <2>2. w[m].status = "dead" => ~Overdue(w[m])
    BY <1>4, <2>1 DEF Kept, Present
  <2> QED
    BY <1>1, <1>4, <2>1, <2>2, KeptStays
<1> HIDE DEF q, L, M
<1>5. CASE v[k] = w[k]
  <2>1. Cardinality(M(k)) <= Cardinality(L) /\ Cardinality(M(k)) \in Nat /\ Cardinality(L) \in Nat
    BY <1>1, <1>2, <1>4, <1>5, KeptCount
  <2>2. q * (Cardinality(M(k)) - 1) <= q * (Cardinality(L) - 1)
    <3>1. Cardinality(M(k)) - 1 \in Int /\ Cardinality(L) - 1 \in Int
          /\ Cardinality(M(k)) - 1 <= Cardinality(L) - 1
      BY <2>1
    <3> QED
      BY <1>2, <3>1, Products
  <2>3. q * (Cardinality(M(k)) - 1) \in Int /\ q * (Cardinality(L) - 1) \in Int
    BY <1>2, <2>1, Products
  <2>4. c <= w[k].age + q * (Cardinality(M(k)) - 1) /\ u[k].age = w[k].age + 1
    BY <1>1, <1>3, <1>5
  <2>5. c + 1 <= u[k].age + q * (Cardinality(L) - 1)
    BY <1>1, <2>2, <2>3, <2>4
  <2> QED
    BY <2>5 DEF q, L
<1>6. CASE v[k] # w[k]
  <2>1. PICK j \in Observers : w[j].status = st /\ w[j].hb = v[k].hb /\ w[j].inc = v[k].inc
    BY <1>1
  <2>2. /\ v[k].age = 0
        /\ \/ Present(w[k]) /\ ~AtLeast(md, w[k], v[k])
           \/ w[k].status = "absent" \/ Overdue(w[k])
    BY <1>1, <1>6 DEF Grown, Present
  <2>3. k \notin M(j)
    <3>1. ~AtLeast(md, w[k], v[k]) => ~AtLeast(md, w[k], w[j])
      BY <1>1, <2>1 DEF AtLeast
    <3>2. Overdue(w[k]) => ~(w[k].status = "dead" /\ w[k].age <= c)
      BY <2>1
    <3> QED
      BY <2>2, <3>1, <3>2 DEF M, Kept, Present, Overdue
  <2>4. k \in L
    <3>1. k \notin X
      BY <2>2, <2>1 DEF Present, Overdue
    <3>2. AtLeast(md, u[k], u[k])
      BY <1>1, NewsOrder
    <3> QED
      BY <1>1, <3>1, <3>2 DEF L, Kept
  <2>5. Cardinality(M(j)) + 1 <= Cardinality(L) /\ Cardinality(M(j)) \in Nat /\ Cardinality(L) \in Nat
    <3>1. M(j) \cup {k} \subseteq L
      BY <1>4, <2>1, <2>4
    <3>2. Cardinality(M(j) \cup {k}) = Cardinality(M(j)) + 1 /\ Cardinality(M(j)) \in Nat
      BY <1>2, <2>3, KeptCount
    <3>3. Cardinality(M(j) \cup {k}) <= Cardinality(L) /\ Cardinality(L) \in Nat
      BY <1>2, <3>1, KeptCount
    <3> QED
      BY <3>2, <3>3
  <2>6. c <= w[j].age + q * (Cardinality(M(j)) - 1) /\ w[j].age \in Int /\ w[j].age <= q
    BY <1>2, <1>3, <2>1 DEF q
  <2>7. q * (Cardinality(M(j)) - 1) = q * Cardinality(M(j)) - q /\ q * Cardinality(M(j)) \in Int
    BY <1>2, <2>5, Products
  <2>8. q * Cardinality(M(j)) <= q * (Cardinality(L) - 1) /\ q * (Cardinality(L) - 1) \in Int
    <3>1. Cardinality(M(j)) \in Int /\ Cardinality(L) - 1 \in Int /\ Cardinality(M(j)) <= Cardinality(L) - 1
      BY <2>5
    <3> QED
      BY <1>2, <3>1, Products
  <2>9. c <= q * (Cardinality(L) - 1) /\ u[k].age = 1
    BY <1>1, <1>2, <2>2, <2>6, <2>7, <2>8
  <2>10. c + 1 <= u[k].age + q * (Cardinality(L) - 1)
    BY <2>8, <2>9
  <2> QED
    BY <2>10 DEF q, L
<1> QED
  BY <1>5, <1>6

\* One tick after the crash, or after a death, there is nothing to count yet.
LEMMA ChainsBase ==
  ASSUME NEW md, NEW st, st \in {"alive", "suspect"}, NEW u \in [Observers -> EntryType],
         \A k \in Observers : u[k].status = st => u[k].age >= 1
  PROVE  \A c \in Int : c <= 1 => Chains(md, u, st, c)
<1>1. ASSUME NEW c \in Int, c <= 1, NEW X \in SUBSET Observers, \A n \in X : u[n].status = "dead"
      PROVE  Chain(md, u, st, c, X)
  <2> SUFFICES ASSUME NEW k \in Observers, u[k].status = st
               PROVE  c <= u[k].age + (Patience(md, st) + 1) * (Cardinality(Kept(md, u, u[k], c) \ X) - 1)
    BY DEF Chain
  <2> DEFINE K == Kept(md, u, u[k], c) \ X
             q == Patience(md, st) + 1
  <2>1. u[k] \in EntryType /\ Present(u[k]) /\ u[k].age \in Int /\ u[k].age >= 1 /\ k \notin X
    BY <1>1 DEF EntryType, Present
  <2>2. k \in K
    BY <2>1, NewsOrder DEF Kept
  <2>3. K \in SUBSET Observers /\ {k} \in SUBSET Observers /\ {k} \subseteq K
    BY <2>2 DEF Kept
  <2>4. Cardinality(K) \in Nat /\ Cardinality(K) >= 1
    <3>1. Cardinality({k}) = 1
      BY FS_Singleton
    <3>2. Cardinality({k}) <= Cardinality(K) /\ Cardinality(K) \in Nat
      BY <2>3, KeptCount
    <3> QED
      BY <3>1, <3>2
  <2>5. q \in Nat
    BY PatienceIsNat
  <2> HIDE DEF K, q
  <2>6. q * 0 <= q * (Cardinality(K) - 1) /\ q * 0 = 0 /\ q * (Cardinality(K) - 1) \in Int
    <3>1. 0 \in Int /\ Cardinality(K) - 1 \in Int /\ 0 <= Cardinality(K) - 1
      BY <2>4
    <3> QED
      BY <2>5, <3>1, Products
  <2>7. c <= u[k].age + q * (Cardinality(K) - 1)
    BY <1>1, <2>1, <2>6
  <2> QED
    BY <2>7 DEF K, q
<1>2. ASSUME NEW n \in Observers, u[n].status = "dead", u[n].age \in Int, u[n].age <= 1
      PROVE  Chain(md, u, st, u[n].age, {n})
  <2> DEFINE a == u[n].age
  <2>1. a \in Int /\ a <= 1 /\ {n} \in SUBSET Observers /\ \A m \in {n} : u[m].status = "dead"
    BY <1>2
  <2> HIDE DEF a
  <2>2. Chain(md, u, st, a, {n})
    BY <1>1, <2>1
  <2> QED
    BY <2>2 DEF a
<1>3. \A n \in Observers : u[n].age \in Int
  BY DEF EntryType
<1>4. ASSUME NEW c \in Int, c <= 1 PROVE Chains(md, u, st, c)
  <2>1. Chain(md, u, st, c, {})
    BY <1>1, <1>4
  <2>2. \A n \in Observers : u[n].status = "dead" /\ u[n].age <= c => Chain(md, u, st, u[n].age, {n})
    BY <1>2, <1>3, <1>4
  <2> QED
    BY <2>1, <2>2 DEF Chains
<1> QED
  BY <1>4

\* The chains of a status go on over a tick.
LEMMA ChainsStep ==
  ASSUME CleanUpIsLong, NEW md, NEW st, st \in {"alive", "suspect"}, NEW c \in Nat,
         NEW w \in [Observers -> EntryType], NEW v \in [Observers -> EntryType],
         NEW u \in [Observers -> EntryType],
         \A n \in Observers : Grown(md, w[n], v[n]) /\ Ticked(v[n], u[n]),
         \A n \in Observers : w[n].status = st => w[n].age \in 1..(Patience(md, st) + 1),
         \A k \in Observers : v[k].status = st =>
           \E j \in Observers : w[j].status = st /\ w[j].hb = v[k].hb /\ w[j].inc = v[k].inc,
         Chains(md, w, st, c)
  PROVE  Chains(md, u, st, c + 1)
<1>1. \A n \in Observers : w[n].age \in Nat /\ v[n].age \in Nat /\ u[n].age \in Nat
  BY TimeoutsAssumption DEF EntryType, Expired
<1>2. (\E k \in Observers : w[k].status = st) =>
        \A n \in Observers : w[n].status = "dead" /\ w[n].age <= c => ~Overdue(w[n])
  <2> SUFFICES ASSUME NEW k \in Observers, w[k].status = st,
                      NEW n \in Observers, w[n].status = "dead", w[n].age <= c
               PROVE  ~Overdue(w[n])
    OBVIOUS
  <2>1. w[k].age \in 1..(Patience(md, st) + 1) /\ c \in Int
    OBVIOUS
  <2>2. w[n].age <= CleanUpTimeout
    BY <2>1, NoneOverdue
  <2> QED
    BY <1>1, <2>2, TimeoutsAssumption DEF Overdue
<1>3. Chain(md, u, st, c + 1, {})
  <2>1. Chain(md, w, st, c, {})
    BY DEF Chains
  <2> QED
    BY <1>2, <2>1, ChainStep
<1>4. ASSUME NEW n \in Observers, u[n].status = "dead", u[n].age <= c + 1
      PROVE  Chain(md, u, st, u[n].age, {n})
  <2>1. v[n].status = "dead" /\ u[n].age = v[n].age + 1 /\ Grown(md, w[n], v[n])
    BY <1>4 DEF Ticked
  <2>2. v[n] = w[n] \/ (Present(w[n]) /\ v[n].age = 0)
    BY <2>1 DEF Grown, Present
  <2>3. CASE v[n] = w[n]
    <3> DEFINE a == w[n].age
    <3>1. a \in Nat /\ a <= c /\ w[n].status = "dead" /\ u[n].age = a + 1
      BY <1>1, <1>4, <2>1, <2>3
    <3>2. Chain(md, w, st, a, {n})
      BY <3>1 DEF Chains
    <3>3. (\E k \in Observers : w[k].status = st) =>
            \A m \in Observers : w[m].status = "dead" /\ w[m].age <= a => ~Overdue(w[m])
      BY <1>1, <1>2, <3>1
    <3>4. {n} \in SUBSET Observers /\ \A m \in {n} : w[m].status = "dead" /\ w[m].age <= a
      BY <3>1
    <3> HIDE DEF a
    <3>5. Chain(md, u, st, a + 1, {n})
      BY <3>1, <3>2, <3>3, <3>4, ChainStep, SMTT(60)
    <3> QED
      BY <3>1, <3>5
  <2>4. CASE v[n].age = 0
    <3>1. u[n].age <= 1
      BY <2>1, <2>4
    <3>2. \A k \in Observers : u[k].status = st => u[k].age >= 1
      BY <1>1 DEF Ticked, Present
    <3>3. Chains(md, u, st, 1)
      BY <3>2, ChainsBase
    <3> QED
      BY <1>4, <3>1, <3>3 DEF Chains
  <2> QED
    BY <2>2, <2>3, <2>4
<1> QED
  BY <1>3, <1>4 DEF Chains

\* When the time of the status alive is up, no entry has it.
LEMMA NoneAlive ==
  ASSUME NEW md, NEW w, NEW d \in Nat, LastTick(md, w, d)
  PROVE  /\ AliveEnd(md) \in Nat
         /\ d > AliveEnd(md) => \A n \in Observers : w[n].status # "alive"
<1>1. /\ Patience(md, "alive") \in Nat /\ Cardinality(Observers) \in Nat
  BY PatienceIsNat, KeptCount
<1>2. AliveEnd(md) \in Nat /\ AliveEnd(md) = (Patience(md, "alive") + 1) * Cardinality(Observers)
  BY <1>1 DEF AliveEnd
<1>3. ASSUME NEW k \in Observers, w[k].status = "alive" PROVE d <= AliveEnd(md)
  <2>1. w[k].age \in 1..(Patience(md, "alive") + 1)
    BY <1>3 DEF LastTick, Present
  <2>2. Chain(md, w, "alive", d, {}) /\ w \in [Observers -> EntryType]
    BY DEF LastTick, Chains
  <2> QED
    BY <1>2, <1>3, <2>1, <2>2, ChainEnds
<1> QED
  BY <1>2, <1>3

\* When the whole time is up, nobody has the member as present.
LEMMA NonePresent ==
  ASSUME NEW md, NEW w, NEW d \in Nat, LastTick(md, w, d), d > DetectionBound
  PROVE  \A n \in Observers : ~Present(w[n])
<1>1. /\ SuspicionTimeout \in Nat /\ DeadTimeout \in Nat /\ Cardinality(Observers) \in Nat
      /\ Patience(md, "alive") \in {SuspicionTimeout, DeadTimeout}
  BY TimeoutsAssumption, PatienceIsNat, KeptCount
<1>2. DetectionBound = Cardinality(Observers) * (SuspicionTimeout + 1)
                         + (DeadTimeout + 1) * Cardinality(Observers)
  BY <1>1 DEF DetectionBound
<1>3. /\ Cardinality(Observers) * (SuspicionTimeout + 1) \in Nat
      /\ (DeadTimeout + 1) * Cardinality(Observers) \in Nat
      /\ Cardinality(Observers) * (DeadTimeout + 1) = (DeadTimeout + 1) * Cardinality(Observers)
  BY <1>1
<1>4. AliveEnd(md) <= DetectionBound
  BY <1>1, <1>2, <1>3 DEF AliveEnd
<1>5. AliveEnd(md) \in Nat /\ \A n \in Observers : w[n].status # "alive"
  <2>1. DetectionBound \in Nat
    BY <1>2, <1>3
  <2> QED
    BY <1>4, <2>1, NoneAlive
<1>6. ASSUME NEW k \in Observers, w[k].status = "suspect" PROVE FALSE
  <2>1. md # "nosuspect" /\ w[k].age \in 1..(Patience(md, "suspect") + 1)
        /\ w \in [Observers -> EntryType]
    BY <1>6 DEF LastTick, Present
  <2>2. AliveEnd(md) = Cardinality(Observers) * (SuspicionTimeout + 1)
    BY <2>1 DEF AliveEnd, Patience
  <2>3. Chain(md, w, "suspect", d - AliveEnd(md), {})
    <3>1. d > AliveEnd(md)
      BY <1>2, <1>3, <1>4, <1>5
    <3> QED
      BY <3>1 DEF LastTick, Chains
  <2>4. d - AliveEnd(md) <= (Patience(md, "suspect") + 1) * Cardinality(Observers)
    <3> DEFINE c == d - AliveEnd(md)
    <3>1. c \in Int /\ Chain(md, w, "suspect", c, {})
      BY <1>5, <2>3
    <3> HIDE DEF c
    <3>2. c <= (Patience(md, "suspect") + 1) * Cardinality(Observers)
      BY <1>6, <2>1, <3>1, ChainEnds
    <3> QED
      BY <3>2 DEF c
  <2>5. Patience(md, "suspect") = DeadTimeout
    BY DEF Patience
  <2> QED
    BY <1>2, <1>3, <2>2, <2>4, <2>5
<1> QED
  BY <1>5, <1>6 DEF Present

\* After a tick the lists count on from what they were after the last one.
LEMMA TickKeeps ==
  ASSUME CleanUpIsLong, NEW md, NEW d \in Nat, d >= 1,
         NEW w \in [Observers -> EntryType], NEW v \in [Observers -> EntryType],
         NEW u \in [Observers -> EntryType], LastTick(md, w, d),
         \A n \in Observers : Grown(md, w[n], v[n]) /\ Ticked(v[n], u[n]) /\ Known(w, v[n]),
         \A n \in Observers : Present(v[n]) => v[n].age \in 0..Patience(md, v[n].status),
         md = "nosuspect" => \A n \in Observers : v[n].status # "suspect"
  PROVE  LastTick(md, u, d + 1)
<1>1. \A n \in Observers : Present(u[n]) => u[n].age \in 1..(Patience(md, u[n].status) + 1)
  <2> SUFFICES ASSUME NEW n \in Observers, Present(u[n])
               PROVE  u[n].age \in 1..(Patience(md, u[n].status) + 1)
    OBVIOUS
  <2>1. Present(v[n]) /\ u[n].age = v[n].age + 1 /\ u[n].status = v[n].status
    BY DEF Ticked, Present
  <2>2. v[n].age \in 0..Patience(md, v[n].status) /\ Patience(md, v[n].status) \in Nat
    BY <2>1, PatienceIsNat
  <2> QED
    BY <2>1, <2>2
<1>2. md = "nosuspect" => \A n \in Observers : u[n].status # "suspect"
  BY DEF Ticked
<1>3. \A st \in {"alive", "suspect"} :
        \A n \in Observers : w[n].status = st => w[n].age \in 1..(Patience(md, st) + 1)
  BY DEF LastTick, Present
<1>4. Chains(md, u, "alive", d + 1)
  <2>1. \A k \in Observers : v[k].status = "alive" =>
          \E j \in Observers : w[j].status = "alive" /\ w[j].hb = v[k].hb /\ w[j].inc = v[k].inc
    BY DEF Known, Present
  <2>2. Chains(md, w, "alive", d)
    BY DEF LastTick
  <2> QED
    BY <1>3, <2>1, <2>2, ChainsStep
<1>5. ASSUME d + 1 > AliveEnd(md) PROVE Chains(md, u, "suspect", (d + 1) - AliveEnd(md))
  <2>1. AliveEnd(md) \in Nat /\ (d > AliveEnd(md) => \A n \in Observers : w[n].status # "alive")
    BY NoneAlive
  <2>2. CASE d > AliveEnd(md)
    <3> DEFINE c == d - AliveEnd(md)
    <3>1. c \in Nat /\ Chains(md, w, "suspect", c) /\ (d + 1) - AliveEnd(md) = c + 1
      BY <2>1, <2>2 DEF LastTick
    <3>2. \A k \in Observers : v[k].status = "suspect" =>
            \E j \in Observers : w[j].status = "suspect" /\ w[j].hb = v[k].hb /\ w[j].inc = v[k].inc
      BY <2>1, <2>2 DEF Known, Present
    <3>3. \A n \in Observers : w[n].status = "suspect" => w[n].age \in 1..(Patience(md, "suspect") + 1)
      BY <1>3
    <3> HIDE DEF c
    <3>4. Chains(md, u, "suspect", c + 1)
      BY <3>1, <3>2, <3>3, ChainsStep
    <3> QED
      BY <3>1, <3>4
  <2>3. CASE ~(d > AliveEnd(md))
    <3> DEFINE c == (d + 1) - AliveEnd(md)
    <3>1. c \in Int /\ c <= 1
      BY <2>1, <2>3
    <3>2. \A k \in Observers : u[k].status = "suspect" => u[k].age >= 1
      <4> SUFFICES ASSUME NEW k \in Observers, u[k].status = "suspect" PROVE u[k].age >= 1
        OBVIOUS
      <4>1. u[k].age \in 1..(Patience(md, "suspect") + 1) /\ Patience(md, "suspect") \in Nat
        BY <1>1, PatienceIsNat DEF Present
      <4> QED
        BY <4>1
    <3> HIDE DEF c
    <3>3. Chains(md, u, "suspect", c)
      BY <3>1, <3>2, ChainsBase
    <3> QED
      BY <3>3 DEF c
  <2> QED
    BY <2>2, <2>3
<1> QED
  BY <1>1, <1>2, <1>4, <1>5 DEF LastTick

\* The first tick after the crash.
LEMMA TickFirst ==
  ASSUME NEW md, NEW v \in [Observers -> EntryType], NEW u \in [Observers -> EntryType],
         \A n \in Observers : Ticked(v[n], u[n]),
         \A n \in Observers : Present(v[n]) => v[n].age \in 0..Patience(md, v[n].status),
         md = "nosuspect" => \A n \in Observers : v[n].status # "suspect"
  PROVE  LastTick(md, u, 1)
<1>1. ASSUME NEW n \in Observers, Present(u[n])
      PROVE  u[n].age \in 1..(Patience(md, u[n].status) + 1) /\ u[n].age >= 1
  <2>1. Present(v[n]) /\ u[n].age = v[n].age + 1 /\ u[n].status = v[n].status
    BY <1>1 DEF Ticked, Present
  <2>2. v[n].age \in 0..Patience(md, v[n].status) /\ Patience(md, v[n].status) \in Nat
    BY <2>1, PatienceIsNat
  <2> QED
    BY <2>1, <2>2
<1>2. \A st \in {"alive", "suspect"} : \A k \in Observers : u[k].status = st => u[k].age >= 1
  BY <1>1 DEF Present
<1>3. Chains(md, u, "alive", 1)
  BY <1>2, ChainsBase
<1>4. 1 > AliveEnd(md) => Chains(md, u, "suspect", 1 - AliveEnd(md))
  <2> DEFINE c == 1 - AliveEnd(md)
  <2>1. AliveEnd(md) \in Nat
    BY PatienceIsNat, KeptCount DEF AliveEnd
  <2>2. c \in Int /\ c <= 1
    BY <2>1
  <2> HIDE DEF c
  <2>3. Chains(md, u, "suspect", c)
    BY <1>2, <2>2, ChainsBase
  <2> QED
    BY <2>3 DEF c
<1>5. md = "nosuspect" => \A n \in Observers : u[n].status # "suspect"
  BY DEF Ticked
<1> QED
  BY <1>1, <1>3, <1>4, <1>5 DEF LastTick

\* Where nobody has the member as present, time does not matter any more.
LEMMA TickGone ==
  ASSUME NEW md, NEW d \in Nat, NEW u \in [Observers -> EntryType],
         \A n \in Observers : ~Present(u[n])
  PROVE  LastTick(md, u, d)
<1>1. \A st \in {"alive", "suspect"} : \A n \in Observers : u[n].status # st
  BY DEF Present
<1>2. \A st \in {"alive", "suspect"} : \A c, X : Chain(md, u, st, c, X)
  BY <1>1 DEF Chain
<1> QED
  BY <1>1, <1>2 DEF LastTick, Chains

\* In gossip a merge keeps the local entry, takes news, or enters that the member has
\* left.
LEMMA MergedIsNews ==
  ASSUME protocol = "gossip", NEW l \in EntryType, NEW r \in EntryType, NEW q,
         l.status # "absent", r.status \notin {"absent", "dead"}
  PROVE  \/ Merged(l, r, q) = l
         \/ Merged(l, r, q).status = "voluntary_leave"
         \/ /\ Merged(l, r, q) = Now(r) /\ Present(r) /\ Present(l)
            /\ ~AtLeast(suspicion, l, r)
<1>1. /\ l.hb \in Int /\ l.inc \in Int /\ r.hb \in Int /\ r.inc \in Int
      /\ l.status \in {"alive", "suspect", "dead", "voluntary_leave"}
      /\ r.status \in {"alive", "suspect", "voluntary_leave"}
  BY DEF EntryType, Statuses
<1>2. CASE r.status \in Final \/ l.status \in Final
  <2>1. Merged(l, r, q) = IF r.status \in Final THEN r ELSE l
    BY <1>2 DEF Merged, handleSuspicionMerge, handleNoSuspicionMerge
  <2> QED
    BY <1>1, <2>1 DEF Final
<1>3. CASE r.status \notin Final /\ l.status \notin Final
  <2>1. Present(l) /\ Present(r)
    BY <1>1, <1>3 DEF Present, Final
  <2>2. /\ getStatusPriority("alive") = 1 /\ getStatusPriority("suspect") = 2
    BY DEF getStatusPriority, Final
  <2>3. compareStatus(r.status, l.status) <=> r.status = "suspect" /\ l.status = "alive"
    BY <2>1, <2>2 DEF compareStatus, Present
  <2>4. Newer(l, r, q) <=> r.hb > l.hb
    BY DEF Newer
  <2>5. CASE suspicion = "suspect"
    <3>1. Merged(l, r, q) = IF r.inc > l.inc THEN Now(r)
                            ELSE IF l.inc > r.inc THEN l
                            ELSE IF r.status = l.status THEN IF Newer(l, r, q) THEN Now(r) ELSE l
                            ELSE IF compareStatus(r.status, l.status) THEN Now(r) ELSE l
      BY <1>3, <2>5 DEF Merged, handleSuspicionMerge
    <3>2. Merged(l, r, q) = l \/ (Merged(l, r, q) = Now(r)
             /\ (r.inc > l.inc \/ (r.inc = l.inc /\ (\/ r.status = l.status /\ r.hb > l.hb
                                                     \/ r.status = "suspect" /\ l.status = "alive"))))
      BY <1>1, <2>3, <2>4, <3>1
    <3> QED
      BY <1>1, <2>1, <2>5, <3>2 DEF AtLeast
  <2>6. CASE suspicion # "suspect"
    <3>1. Merged(l, r, q) = IF r.status = l.status THEN IF Newer(l, r, q) THEN Now(r) ELSE l
                            ELSE IF compareStatus(r.status, l.status) THEN Now(r) ELSE l
      BY <1>3, <2>6 DEF Merged, handleNoSuspicionMerge
    <3>2. Merged(l, r, q) = l \/ (Merged(l, r, q) = Now(r)
             /\ (\/ r.status = l.status /\ r.hb > l.hb
                 \/ r.status = "suspect" /\ l.status = "alive"))
      BY <2>3, <2>4, <3>1
    <3> QED
      BY <1>1, <2>1, <2>6, <3>2 DEF AtLeast
  <2> QED
    BY <2>5, <2>6
<1> QED
  BY <1>2, <1>3

\* What the end of a merge enters has become of the entry of the last tick, if its
\* snapshot had.
LEMMA MergeGrows ==
  ASSUME protocol = "gossip", NEW o \in EntryType, NEW l \in EntryType, NEW r \in EntryType, NEW q,
         Grown(suspicion, o, l), r.status \notin {"absent", "dead"}
  PROVE  /\ l.status = "absent" => Grown(suspicion, o, Now(r))
         /\ l.status # "absent" => Grown(suspicion, o, Merged(l, r, q))
<1>1. /\ Now(r) \in EntryType /\ Now(r).status = r.status /\ Now(r).hb = r.hb /\ Now(r).inc = r.inc
      /\ Now(r).age = 0
  BY EntryFacts DEF Now, EntryType
<1>2. Present(r) \/ r.status = "voluntary_leave"
  BY DEF EntryType, Statuses, Present
<1>3. CASE l.status = "absent"
  BY <1>1, <1>2, <1>3 DEF Grown, Present, Overdue
<1>4. CASE l.status # "absent"
  <2>1. \/ Merged(l, r, q) = l \/ Merged(l, r, q).status = "voluntary_leave"
        \/ Merged(l, r, q) = Now(r) /\ Present(r) /\ Present(l) /\ ~AtLeast(suspicion, l, r)
    BY <1>4, MergedIsNews
  <2>2. ASSUME Merged(l, r, q) = Now(r), Present(r), Present(l), ~AtLeast(suspicion, l, r)
        PROVE  Grown(suspicion, o, Merged(l, r, q))
    <3>1. Present(Now(r)) /\ \A x \in EntryType : AtLeast(suspicion, x, Now(r)) <=> AtLeast(suspicion, x, r)
      BY <1>1, <2>2 DEF Present, AtLeast
    <3>2. CASE Present(o)
      <4>1. l = o \/ ~AtLeast(suspicion, o, l)
        BY <2>2, <3>2 DEF Grown, Present, Overdue
      <4>2. AtLeast(suspicion, r, l) /\ (AtLeast(suspicion, o, r) => AtLeast(suspicion, o, l))
        BY <2>2, <3>2, NewsOrder
      <4>3. ~AtLeast(suspicion, o, r)
        BY <2>2, <4>1, <4>2
      <4> QED
        BY <1>1, <2>2, <3>1, <3>2, <4>3 DEF Grown
    <3>3. CASE ~Present(o)
      <4>1. o.status = "absent" \/ Overdue(o)
        BY <2>2, <3>3 DEF Grown, Present
      <4> QED
        BY <1>1, <2>2, <3>1, <4>1 DEF Grown
    <3> QED
      BY <3>2, <3>3
  <2>3. Merged(l, r, q).status = "voluntary_leave" => Grown(suspicion, o, Merged(l, r, q))
    BY DEF Grown
  <2> QED
    BY <1>4, <2>1, <2>2, <2>3
<1> QED
  BY <1>3, <1>4

\* After the crash there are lists of the last tick from which everything that is
\* listed, sent or merged has come.
AfterCrash ==
  CleanUpIsLong /\ downFor > 0 =>
    /\ proc = "crashed" /\ protocol = "gossip"
    /\ \E w \in [Observers -> EntryType] : LastTick(suspicion, w, downFor) /\ SinceTick(w)

\* Between ticks it is enough to look at new copies.
LEMMA SinceStep ==
  ASSUME TypeOK, [Next]_vars, proc = "crashed", proc' = proc, protocol = "gossip",
         downFor' = downFor, NEW w \in [Observers -> EntryType],
         LastTick(suspicion, w, downFor), SinceTick(w),
         \A n \in Observers : \/ view'[n] = view[n]
                              \/ Grown(suspicion, w[n], view'[n]) /\ Known(w, view'[n]),
         \A m \in net' : m \in net \/ (m.type = "gossip" /\ Known(w, m.entry)),
         \A g \in merges' : \/ g \in merges
                            \/ /\ ~g.reply /\ Grown(suspicion, w[g.node], g.snap)
                               /\ Known(w, g.snap) /\ Known(w, g.recv)
  PROVE  AfterCrash'
<1>1. suspicion' = suspicion /\ protocol' = protocol
  BY ConfigStays
<1>2. \A n \in Observers : Grown(suspicion, w[n], view'[n]) /\ Known(w, view'[n])
  BY DEF SinceTick
<1>3. \A m \in net' : m.type = "gossip" /\ Known(w, m.entry)
  BY DEF SinceTick
<1>4. \A g \in merges' : /\ ~g.reply /\ Grown(suspicion, w[g.node], g.snap)
                         /\ Known(w, g.snap) /\ Known(w, g.recv)
  BY DEF SinceTick
<1>5. SinceTick(w)'
  BY <1>1, <1>2, <1>3, <1>4 DEF SinceTick
<1>6. LastTick(suspicion', w, downFor')
  BY <1>1
<1> QED
  BY <1>1, <1>5, <1>6 DEF AfterCrash

\* When nothing is due, the entries of the observers are within their timeouts, and a
\* tick makes them older.
LEMMA TickAges ==
  ASSUME TypeOK, HonestCopies, Tick
  PROVE  /\ \A n \in Observers : Present(view[n]) =>
              view[n].age \in 0..Patience(suspicion, view[n].status)
         /\ \A n \in Observers : Ticked(view[n], view'[n])
         /\ suspicion = "nosuspect" => \A n \in Observers : view[n].status # "suspect"
<1>1. ASSUME NEW n \in Observers, view[n].status = "alive"
      PROVE  view[n].age \in 0..Patience(suspicion, view[n].status)
  <2>1. view[n].age \in Nat /\ SuspicionTimeout \in Nat /\ DeadTimeout \in Nat
        /\ suspicion \in {"suspect", "nosuspect"}
    BY TimeoutsAssumption DEF TypeOK, EntryType, Expired, Observers
  <2>2. ~TurnsSuspect(n) /\ ~TurnsDead(n)
    BY DEF Tick, Due, Running, Skipped, Observers
  <2> QED
    BY <1>1, <2>1, <2>2 DEF TurnsSuspect, TurnsDead, Patience
<1>2. ASSUME NEW n \in Observers, view[n].status = "suspect"
      PROVE  view[n].age \in 0..Patience(suspicion, view[n].status)
  <2>1. view[n].age \in Nat /\ DeadTimeout \in Nat
    BY TimeoutsAssumption DEF TypeOK, EntryType, Expired, Observers
  <2>2. ~TurnsDead(n)
    BY DEF Tick, Due, Running, Skipped, Observers
  <2> QED
    BY <1>2, <2>1, <2>2 DEF TurnsDead, Patience
<1>3. ASSUME NEW n \in Observers PROVE Ticked(view[n], view'[n])
  <2>1. view[n] \in EntryType /\ view'[n] = Older(n) /\ ~Skipped(n) /\ ~CleanedUp(n)
    BY DEF TypeOK, Tick, Due, Running, Skipped, Observers
  <2>2. view[n].age \in Nat /\ CleanUpTimeout \in Nat
    BY <2>1, TimeoutsAssumption DEF EntryType, Expired
  <2>3. Present(view[n]) \/ view[n].status = "dead" => view[n].age <= CleanUpTimeout
    <3>1. Present(view[n]) => view[n].age <= Patience(suspicion, view[n].status)
      BY <1>1, <1>2, <2>2, PatienceIsNat DEF Present
    <3>2. SuspicionTimeout <= CleanUpTimeout /\ DeadTimeout <= CleanUpTimeout
          /\ SuspicionTimeout \in Nat /\ DeadTimeout \in Nat
      BY TimeoutsAssumption
    <3>3. Patience(suspicion, view[n].status) <= CleanUpTimeout
          /\ Patience(suspicion, view[n].status) \in Nat
      BY <3>2, PatienceIsNat
    <3> QED
      BY <2>1, <2>2, <3>1, <3>3 DEF CleanedUp
  <2>4. Present(view[n]) \/ view[n].status = "dead" => Ageing(n) /\ view[n].age < Expired
    BY <2>1, <2>2, <2>3 DEF Ageing, Present, Expired
  <2>5. /\ [view[n] EXCEPT !.age = @ + 1].hb = view[n].hb
        /\ [view[n] EXCEPT !.age = @ + 1].inc = view[n].inc
        /\ [view[n] EXCEPT !.age = @ + 1].status = view[n].status
        /\ [view[n] EXCEPT !.age = @ + 1].age = view[n].age + 1
    BY <2>1 DEF EntryType
  <2> QED
    BY <2>1, <2>4, <2>5 DEF Older, Ticked
<1>4. ASSUME suspicion = "nosuspect", NEW n \in Observers PROVE view[n].status # "suspect"
  BY <1>4 DEF HonestCopies, Honest, Observers
<1> QED
  BY <1>1, <1>2, <1>3, <1>4 DEF Present

\* Whatever is known of nothing that is present is not present.
LEMMA KnownGone ==
  ASSUME NEW w, \A k \in Observers : ~Present(w[k]), NEW e, Known(w, e)
  PROVE  ~Present(e)
BY DEF Known, Present

\* A tick makes the lists those of the last tick.
LEMMA TickCounts ==
  ASSUME TypeOK, TypeOK', HonestCopies, AfterCrash, CleanUpIsLong, Tick, downFor' > 0
  PROVE  AfterCrash'
<1>a. /\ \E x \in [Observers -> EntryType] : \A n \in Observers : x[n] = view[n]
      /\ \E x \in [Observers -> EntryType] : \A n \in Observers : x[n] = view'[n]
  <2>1. /\ [n \in Observers |-> view[n]] \in [Observers -> EntryType]
        /\ [n \in Observers |-> view'[n]] \in [Observers -> EntryType]
    BY DEF TypeOK, Observers
  <2> QED
    BY <2>1
<1>b. PICK v \in [Observers -> EntryType] : \A n \in Observers : v[n] = view[n]
  BY <1>a
<1>c. PICK u \in [Observers -> EntryType] : \A n \in Observers : u[n] = view'[n]
  BY <1>a
<1>1. /\ v \in [Observers -> EntryType] /\ u \in [Observers -> EntryType]
      /\ \A n \in Observers : v[n] = view[n] /\ u[n] = view'[n]
  BY <1>b, <1>c
<1>2. /\ \A n \in Observers : Present(v[n]) => v[n].age \in 0..Patience(suspicion, v[n].status)
      /\ \A n \in Observers : Ticked(v[n], u[n])
      /\ suspicion = "nosuspect" => \A n \in Observers : v[n].status # "suspect"
  BY <1>1, TickAges
<1>3. downFor \in Nat /\ DetectionBound \in Nat /\ downFor <= DetectionBound + 1
  BY BoundIsNat DEF TypeOK
<1>4. /\ suspicion' = suspicion /\ protocol' = protocol /\ proc' = proc
      /\ net' = {} /\ merges' = {}
      /\ downFor' = IF proc = "crashed" /\ protocol = "gossip" /\ downFor <= DetectionBound
                    THEN downFor + 1 ELSE downFor
  BY DEF Tick, config, subjectVars
<1>5. proc = "crashed" /\ protocol = "gossip"
  BY <1>3, <1>4 DEF AfterCrash
<1>6. LastTick(suspicion, u, downFor')
  <2>1. CASE downFor = 0
    <3>1. LastTick(suspicion, u, 1)
      BY <1>1, <1>2, TickFirst
    <3> QED
      BY <1>3, <1>4, <1>5, <2>1, <3>1
  <2>2. CASE downFor >= 1
    <3>1. PICK w \in [Observers -> EntryType] : LastTick(suspicion, w, downFor) /\ SinceTick(w)
      BY <2>2, <1>3 DEF AfterCrash
    <3>2. \A n \in Observers : Grown(suspicion, w[n], v[n]) /\ Known(w, v[n])
      BY <1>1, <3>1 DEF SinceTick
    <3>3. CASE downFor <= DetectionBound
      <4>1. LastTick(suspicion, u, downFor + 1)
        BY <1>1, <1>2, <1>3, <2>2, <3>1, <3>2, TickKeeps, SMTT(60)
      <4> QED
        BY <1>4, <1>5, <3>3, <4>1
    <3>4. CASE downFor > DetectionBound
      <4>1. \A n \in Observers : ~Present(w[n])
        BY <1>3, <3>1, <3>4, NonePresent
      <4>2. \A n \in Observers : ~Present(v[n])
        BY <3>2, <4>1, KnownGone
      <4>3. \A n \in Observers : ~Present(u[n])
        BY <1>2, <4>2 DEF Ticked, Present
      <4>4. downFor' = downFor
        BY <1>3, <1>4, <3>4
      <4> QED
        BY <1>1, <1>3, <4>3, <4>4, TickGone
    <3> QED
      BY <1>3, <3>3, <3>4
  <2> QED
    BY <1>3, <2>1, <2>2
<1>7. SinceTick(u)'
  <2>1. \A n \in Observers : Grown(suspicion', view'[n], view'[n])
    BY DEF Grown
  <2>2. \A n \in Observers : Known(u, view'[n])
    BY <1>1 DEF Known
  <2> QED
    BY <1>1, <1>4, <2>1, <2>2 DEF SinceTick
<1> QED
  BY <1>1, <1>4, <1>5, <1>6, <1>7 DEF AfterCrash

\* A copy with the status and the counters of another is known as well.
LEMMA KnownCopy ==
  ASSUME NEW w, NEW e, NEW f, Known(w, e), f.status = e.status, f.hb = e.hb, f.inc = e.inc
  PROVE  Known(w, f)
BY DEF Known, Present

\* A timeout between two ticks is one of the entry of the last tick.
LEMMA MarkGrows ==
  ASSUME TypeOK, protocol = "gossip", proc = "crashed", NEW n \in Nodes, MarkSuspectIfNeeded(n),
         NEW w \in [Observers -> EntryType], SinceTick(w)
  PROVE  /\ n \in Observers
         /\ Grown(suspicion, w[n], view'[n]) /\ Known(w, view'[n])
<1>1. /\ n \in Observers /\ view[n] \in EntryType /\ w[n] \in EntryType
      /\ Grown(suspicion, w[n], view[n])
  BY DEF MarkSuspectIfNeeded, Due, Running, Observers, TypeOK, SinceTick
<1>2. /\ view[n].hb \in 0..MaxHeartbeat /\ view[n].inc \in 0..MaxIncarnation
      /\ "suspect" \in Statuses /\ "dead" \in Statuses
      /\ view[n].age \in Int /\ view[n].hb \in Int /\ view[n].inc \in Int
      /\ SuspicionTimeout \in Nat /\ DeadTimeout \in Nat /\ CleanUpTimeout \in Nat
  BY <1>1, TimeoutsAssumption DEF EntryType, Statuses
<1>3. /\ 0 \in 0..Expired /\ view[n].age > 0 /\ view[n].status \in {"alive", "suspect", "dead"}
  BY <1>2, EntryFacts DEF MarkSuspectIfNeeded, Due, TurnsSuspect, TurnsDead, CleanedUp
<1>4. view[n] = w[n]
  BY <1>1, <1>3 DEF Grown
<1>5. CASE TurnsSuspect(n) /\ view' = [view EXCEPT ![n] = Entry("suspect", view[n].hb, view[n].inc, 0)]
  <2> DEFINE e == Entry("suspect", view[n].hb, view[n].inc, 0)
  <2>1. e.status = "suspect" /\ e.hb = view[n].hb /\ e.inc = view[n].inc /\ e.age = 0
    BY DEF Entry
  <2>2. view'[n] = e
    BY <1>5 DEF TypeOK
  <2> HIDE DEF e
  <2>3. suspicion = "suspect" /\ w[n].status = "alive"
    BY <1>4, <1>5 DEF TurnsSuspect
  <2>4. ~AtLeast(suspicion, w[n], e)
    BY <1>2, <1>4, <2>1, <2>3 DEF AtLeast
  <2>5. Known(w, e)
    BY <1>1, <2>1, <2>3 DEF Known
  <2> QED
    BY <1>1, <2>1, <2>2, <2>3, <2>4, <2>5 DEF Grown, Present
<1>6. CASE TurnsDead(n) /\ view' = [view EXCEPT ![n] = Entry("dead", view[n].hb, view[n].inc, 0)]
  <2>1. view'[n].status = "dead" /\ view'[n].age = 0
    BY <1>6 DEF TypeOK, Entry
  <2>2. Present(w[n])
    BY <1>4, <1>6 DEF TurnsDead, Present
  <2> QED
    BY <1>1, <2>1, <2>2 DEF Grown, Known, Present
<1>7. CASE CleanedUp(n) /\ view' = [view EXCEPT ![n] = NoEntry]
  <2>1. view'[n].status = "absent"
    BY <1>7 DEF TypeOK, NoEntry, Entry
  <2>2. Overdue(w[n])
    BY <1>4, <1>7 DEF CleanedUp, Overdue
  <2> QED
    BY <1>1, <2>1, <2>2 DEF Grown, Known, Present
<1> QED
  BY <1>1, <1>5, <1>6, <1>7 DEF MarkSuspectIfNeeded, AddOrUpdate

\* So is the end of a merge one of the entry of the last tick.
LEMMA MergeLists ==
  ASSUME TypeOK, protocol = "gossip", proc = "crashed", NEW g \in merges, Merge(g),
         NEW w \in [Observers -> EntryType], SinceTick(w)
  PROVE  /\ net' = net /\ merges' \subseteq merges /\ downFor' = downFor /\ proc' = proc
         /\ \A n \in Observers : \/ view'[n] = view[n]
                                 \/ Grown(suspicion, w[n], view'[n]) /\ Known(w, view'[n])
<1>1. /\ g.node \in Observers /\ g.node \in Nodes /\ w[g.node] \in EntryType
      /\ g.snap \in EntryType /\ g.recv \in EntryType
      /\ ~g.reply /\ Grown(suspicion, w[g.node], g.snap) /\ Known(w, g.snap) /\ Known(w, g.recv)
      /\ view \in [Nodes -> EntryType]
  BY DEF TypeOK, MergeType, Running, Observers, SinceTick
<1>2. FinishMerge(g)
  BY MergeEffect
<1>3. net' = net /\ merges' \subseteq merges /\ downFor' = downFor /\ proc' = proc
  BY <1>1, <1>2 DEF FinishMerge
<1>4. ASSUME NEW e, view' = [view EXCEPT ![g.node] = e],
             Grown(suspicion, w[g.node], e), Known(w, e), NEW n \in Observers
      PROVE  \/ view'[n] = view[n]
             \/ Grown(suspicion, w[n], view'[n]) /\ Known(w, view'[n])
  BY <1>1, <1>4 DEF Observers
<1>5. CASE MergeIgnore(g)
  BY <1>3, <1>5 DEF MergeIgnore
<1>6. CASE MergeJoin(g)
  <2>1. /\ view' = [view EXCEPT ![g.node] = Now(g.recv)]
        /\ g.snap.status = "absent" /\ g.recv.status \notin {"absent", "dead"}
    BY <1>6 DEF MergeJoin, AddOrUpdate, Ignored
  <2>2. Grown(suspicion, w[g.node], Now(g.recv))
    BY <1>1, <2>1, MergeGrows
  <2>3. Known(w, Now(g.recv))
    BY <1>1, EntryFacts, KnownCopy
  <2> QED
    BY <1>3, <1>4, <2>1, <2>2, <2>3
<1>7. CASE MergeRefute(g)
  BY <1>1, <1>7 DEF MergeRefute, Refutes, Observers
<1>8. CASE MergeUpdate(g)
  <2>1. /\ view' = [view EXCEPT ![g.node] = Merged(g.snap, g.recv, g.sender)]
        /\ g.snap.status # "absent" /\ g.recv.status \notin {"absent", "dead"}
    BY <1>1, <1>8 DEF MergeUpdate, AddOrUpdate, Ignored, SelfDead, Observers
  <2>2. Grown(suspicion, w[g.node], Merged(g.snap, g.recv, g.sender))
    BY <1>1, <2>1, MergeGrows
  <2>3. Merged(g.snap, g.recv, g.sender) \in {g.snap, g.recv, Now(g.recv)}
    BY <1>1, MergedOneOf
  <2>4. Known(w, Merged(g.snap, g.recv, g.sender))
    BY <1>1, <2>3, EntryFacts, KnownCopy
  <2> QED
    BY <1>3, <1>4, <2>1, <2>2, <2>4
<1> QED
  BY <1>3, <1>5, <1>6, <1>7, <1>8 DEF Merge

\* Every step keeps what is listed, sent or merged after the crash within the lists of
\* the last tick.
LEMMA CrashNext ==
  CleanUpIsLong /\ TypeOK /\ HonestCopies /\ AfterCrash /\ [Next]_vars => AfterCrash'
<1> SUFFICES ASSUME CleanUpIsLong, TypeOK, HonestCopies, AfterCrash, [Next]_vars,
                    downFor' > 0
             PROVE  AfterCrash'
  BY DEF AfterCrash
<1>1. TypeOK'
  BY TypeNext
<1>2. CASE Tick
  BY <1>1, <1>2, TickCounts
<1>3. CASE ~Tick
  <2>1. downFor' = downFor
    <3>1. CASE UNCHANGED vars
      BY <3>1 DEF vars
    <3>2. CASE NotifyIntroducer \/ JoinFails \/ increaseHeartbeat \/ leaveGroup \/ Crash
      BY <3>2 DEF NotifyIntroducer, JoinFails, increaseHeartbeat, leaveGroup, Crash
    <3>3. CASE \/ \E n, to \in Nodes : gossipSend(n, to) \/ pingSend(n, to)
               \/ \E n \in Nodes : MarkSuspectIfNeeded(n)
               \/ \E m \in net : Handle(m) \/ Drop(m)
      BY <3>3 DEF gossipSend, pingSend, MarkSuspectIfNeeded, Handle, Join, Joined, Receive,
                  PingReply, Drop
    <3>4. ASSUME NEW g \in merges, Merge(g) PROVE downFor' = downFor
      BY <3>4 DEF Merge, MergeIgnore, MergeJoin, MergeRefute, MergeUpdate, FinishMerge
    <3> QED
      BY <1>3, <3>1, <3>2, <3>3, <3>4 DEF Next
  <2>2. proc = "crashed" /\ protocol = "gossip"
    BY <2>1 DEF AfterCrash
  <2>3. PICK w \in [Observers -> EntryType] : LastTick(suspicion, w, downFor) /\ SinceTick(w)
    BY <2>1 DEF AfterCrash
  <2>4. \A m \in net : m.type = "gossip"
    BY <2>3 DEF SinceTick
  <2>5. CASE UNCHANGED vars
    <3>1. UNCHANGED <<proc, view, net, merges>>
      BY <2>5 DEF vars
    <3> QED
      BY <2>1, <2>2, <2>3, <3>1, SinceStep
  <2>6. CASE NotifyIntroducer \/ JoinFails \/ increaseHeartbeat \/ leaveGroup \/ Crash
    BY <2>2, <2>6 DEF NotifyIntroducer, JoinFails, increaseHeartbeat, leaveGroup, Crash
  <2>7. ASSUME NEW n \in Nodes, NEW to \in Nodes, gossipSend(n, to) \/ pingSend(n, to)
        PROVE  AfterCrash'
    <3>1. /\ net' = net \cup {Message("gossip", n, to, Sent(view[n], Expired))}
          /\ UNCHANGED <<proc, view, merges>> /\ n \in Observers
      BY <2>2, <2>7 DEF gossipSend, pingSend, MaySend, Running, Observers, subjectVars
    <3>2. view[n] \in EntryType /\ Known(w, view[n])
      BY <2>3, <3>1 DEF TypeOK, SinceTick
    <3>3. Known(w, Sent(view[n], Expired))
      BY <3>2, EntryFacts, KnownCopy
    <3>4. /\ Message("gossip", n, to, Sent(view[n], Expired)).type = "gossip"
          /\ Message("gossip", n, to, Sent(view[n], Expired)).entry = Sent(view[n], Expired)
      BY DEF Message
    <3> QED
      BY <2>1, <2>2, <2>3, <3>1, <3>3, <3>4, SinceStep
  <2>8. ASSUME NEW n \in Nodes, MarkSuspectIfNeeded(n) PROVE AfterCrash'
    <3>1. /\ n \in Observers /\ Grown(suspicion, w[n], view'[n]) /\ Known(w, view'[n])
      BY <2>2, <2>3, <2>8, MarkGrows
    <3>2. /\ \A k \in Observers : k # n => view'[k] = view[k]
          /\ UNCHANGED <<proc, net, merges>>
      BY <2>8 DEF MarkSuspectIfNeeded, AddOrUpdate, TypeOK, Observers, subjectVars
    <3> QED
      BY <2>1, <2>2, <2>3, <3>1, <3>2, SinceStep
  <2>9. ASSUME NEW m \in net, Handle(m) \/ Drop(m) PROVE AfterCrash'
    <3>1. m.type = "gossip" /\ m.to \in Nodes /\ Known(w, m.entry)
      BY <2>3 DEF SinceTick, TypeOK, MessageType
    <3>2. CASE Drop(m)
      <4>1. net' \subseteq net /\ UNCHANGED <<proc, view, merges>>
        BY <3>2 DEF Drop, subjectVars
      <4> QED
        BY <2>1, <2>2, <2>3, <4>1, SinceStep
    <3>3. CASE Receive(m)
      <4> DEFINE g == [node |-> m.to, sender |-> m.from, snap |-> view[m.to],
                       recv |-> m.entry, reply |-> m.type = "ping"]
      <4>1. /\ g.node = m.to /\ g.snap = view[m.to] /\ g.recv = m.entry /\ ~g.reply
        BY <3>1
      <4>2. net' \subseteq net /\ merges' = merges \cup {g} /\ UNCHANGED <<proc, view>>
        BY <3>3 DEF Receive, subjectVars
      <4> HIDE DEF g
      <4>3. m.to \in Observers
        BY <2>2, <3>1, <3>3 DEF Receive, Running, Observers
      <4>4. Grown(suspicion, w[g.node], g.snap) /\ Known(w, g.snap) /\ Known(w, g.recv)
        BY <2>3, <3>1, <4>1, <4>3 DEF SinceTick
      <4> QED
        BY <2>1, <2>2, <2>3, <4>1, <4>2, <4>4, SinceStep
    <3> QED
      BY <2>9, <3>1, <3>2, <3>3 DEF Handle, Join, Joined, PingReply
  <2>10. ASSUME NEW g \in merges, Merge(g) PROVE AfterCrash'
    <3>1. /\ net' = net /\ merges' \subseteq merges /\ proc' = proc
          /\ \A n \in Observers : \/ view'[n] = view[n]
                                  \/ Grown(suspicion, w[n], view'[n]) /\ Known(w, view'[n])
      BY <2>2, <2>3, <2>10, MergeLists
    <3> QED
      BY <2>1, <2>2, <2>3, <3>1, SinceStep
  <2> QED
    BY <1>3, <2>5, <2>6, <2>7, <2>8, <2>9, <2>10 DEF Next
<1> QED
  BY <1>2, <1>3

\* Before the crash there is nothing to show.
LEMMA CrashInit == Init => AfterCrash
BY DEF Init, AfterCrash

\* A crashed member is present in no list of another node when the time for finding out
\* has passed (increaseHeartbeat has stopped, MarkSuspectIfNeeded times its entry out),
\* and gossip (mergeMembership) does not bring it back: for any number of nodes and any
\* timeouts for which the clean-up is long.
THEOREM CrashIsDetected == Spec => []CrashDetected
<1>1. CASE CleanUpIsLong
  <2>1. Init => TypeOK /\ HonestCopies /\ AfterCrash
    BY TypeInit, HonestInit, CrashInit
  <2>2. TypeOK /\ HonestCopies /\ AfterCrash /\ [Next]_vars => (TypeOK /\ HonestCopies /\ AfterCrash)'
    BY <1>1, TypeNext, HonestNext, CrashNext
  <2>3. TypeOK /\ AfterCrash => CrashDetected
    <3> SUFFICES ASSUME TypeOK, AfterCrash, downFor > DetectionBound, NEW n \in Observers
                 PROVE  ~Present(view[n])
      BY DEF CrashDetected, Present
    <3>1. downFor \in Nat /\ DetectionBound \in Nat
      BY BoundIsNat DEF TypeOK
    <3>2. PICK w \in [Observers -> EntryType] : LastTick(suspicion, w, downFor) /\ SinceTick(w)
      BY <1>1, <3>1 DEF AfterCrash
    <3>3. \A k \in Observers : ~Present(w[k])
      BY <3>1, <3>2, NonePresent
    <3> QED
      BY <3>2, <3>3, KnownGone DEF SinceTick
  <2> QED
    BY <2>1, <2>2, <2>3, PTL DEF Spec
<1>2. CASE ~CleanUpIsLong
  <2>1. CrashDetected
    BY <1>2 DEF CrashDetected
  <2> QED
    BY <2>1, PTL
<1> QED
  BY <1>1, <1>2
=============================================================================
