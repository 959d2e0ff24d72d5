----------------------------- MODULE Membership -----------------------------
(***************************************************************************)
(* Group membership and failure detection: what the nodes' membership lists *)
(* say about ONE member, the Subject, from the moment it joins through the  *)
(* introducer until it has crashed and been cleaned up.  mergeMembership    *)
(* and MarkSuspectIfNeeded treat every member of a list by itself, so the   *)
(* lists of a group are such entries side by side.  A process that starts   *)
(* again has a new timestamp and hence is another member.                   *)
(*                                                                          *)
(* mergeMembership reads a snapshot of the list, decides, and writes each   *)
(* entry back under a lock of its own, while other merges and the timeout   *)
(* check run: a merge in progress keeps the entry of its snapshot.          *)
(*                                                                          *)
(* Time passes in ticks of one check interval.  Within a tick every running *)
(* node takes its heartbeat and does the timeouts that are due, and every   *)
(* message is handled or lost.                                              *)
(***************************************************************************)
EXTENDS Integers, FiniteSets

CONSTANTS
  Nodes, Subject, Introducer,
  Modes,            \* the pairs of Config.Protocol and Config.Suspicion
  SuspicionTimeout, DeadTimeout, CleanUpTimeout,  \* in ticks
  MaxHeartbeat,     \* bound on the heartbeats of the Subject
  MaxIncarnation,   \* bound on its incarnation number
  MaxInFlight,      \* bound on messages and merges at a time
  MaxSends          \* bound on gossip and ping rounds in a tick, of all nodes

ASSUME NodesAssumption ==
  IsFiniteSet(Nodes) /\ Subject \in Nodes /\ Introducer \in Nodes /\ Subject # Introducer
ASSUME ModesAssumption == Modes \subseteq {"gossip", "ping"} \X {"suspect", "nosuspect"}
ASSUME TimeoutsAssumption ==
  /\ SuspicionTimeout \in Nat /\ DeadTimeout \in Nat /\ CleanUpTimeout \in Nat
  /\ SuspicionTimeout <= CleanUpTimeout /\ DeadTimeout <= CleanUpTimeout
ASSUME BoundsAssumption ==
  /\ MaxHeartbeat \in Nat \ {0} /\ MaxIncarnation \in Nat \ {0}
  /\ MaxInFlight \in Nat /\ MaxSends \in Nat

Observers == Nodes \ {Subject}

VARIABLES
  protocol, suspicion, \* Config.Protocol and Config.Suspicion of the group
  proc,         \* the Subject's process: off, joining, up or crashed
  left,         \* the Subject was told to leave
  heartbeat,    \* HeartbeatCounter (0 in ping-ack, which never compares it) and
  incarnation,  \* IncarnationNumber of the Subject
  view,         \* the Subject's entry in each node's list
  failed,       \* the nodes that have it in FailedPendingStabilization
  net,          \* messages on their way
  merges,       \* merges between their snapshot and the write of the entry
  sends,        \* gossip and ping rounds in this tick
  downFor       \* in gossip: ticks since the Subject crashed, up to DetectionBound + 1

vars == <<protocol, suspicion, proc, left, heartbeat, incarnation, view, failed,
          net, merges, sends, downFor>>
config == <<protocol, suspicion>>
subjectVars == <<proc, left, heartbeat, incarnation>>

\* Ages stop counting when every timeout has passed; a LastUpdated that was not
\* sent is the zero time, which is that old.
Expired == CleanUpTimeout + 1

Entry(st, h, k, a) == [status |-> st, hb |-> h, inc |-> k, age |-> a]
Now(e) == [e EXCEPT !.age = 0]
NoEntry == Entry("absent", 0, 0, 0)

\* The time an entry may live on without a new heartbeat, once at every observer
\* in turn: until it is suspected, and until it is dead.
DetectionBound == Cardinality(Observers) * (SuspicionTimeout + DeadTimeout + 2)

Final == {"dead", "voluntary_leave"}
Running(n) == n # Subject \/ proc = "up"

Message(ty, from, to, e) == [type |-> ty, from |-> from, to |-> to, entry |-> e]

----------------------------------------------------------------------------
Init ==
  /\ \E mode \in Modes : protocol = mode[1] /\ suspicion = mode[2]
  /\ proc = "off" /\ left = FALSE
  /\ heartbeat = IF protocol = "gossip" THEN 1 ELSE 0
  /\ incarnation = 1
  /\ view = [n \in Nodes |-> NoEntry]
  /\ failed = {} /\ net = {} /\ merges = {} /\ sends = 0 /\ downFor = 0

----------------------------------------------------------------------------
(* Joining: NewServer and notifyIntroducer on the Subject's side, Join on   *)
(* the introducer's.                                                        *)

\* AddOrUpdate of the entry e at node n.
AddOrUpdate(n, e) == view' = [view EXCEPT ![n] = e]

NotifyIntroducer ==
  /\ proc = "off"
  /\ proc' = "joining"
  /\ AddOrUpdate(Subject, Entry("alive", heartbeat, incarnation, 0))
  /\ net' = net \cup {Message("join", Subject, Introducer,
                              Entry("alive", heartbeat, incarnation, 0))}
  /\ UNCHANGED <<config, left, heartbeat, incarnation, failed, merges, sends, downFor>>

Join(m) ==
  /\ m \in net /\ m.type = "join"
  /\ AddOrUpdate(m.to, Now(m.entry))
  /\ net' = (net \ {m}) \cup {Message("joined", m.to, m.from, view'[m.to])}
  /\ UNCHANGED <<config, subjectVars, failed, merges, sends, downFor>>

----------------------------------------------------------------------------
(* The loops of a running node.                                             *)

\* The Subject's own entry is written anew, whatever it was.
increaseHeartbeat ==
  /\ proc = "up" /\ protocol = "gossip" /\ heartbeat < MaxHeartbeat
  /\ heartbeat' = heartbeat + 1
  /\ AddOrUpdate(Subject, Entry("alive", heartbeat + 1, incarnation, 0))
  /\ UNCHANGED <<config, proc, left, incarnation, failed, net, merges, sends, downFor>>

\* An entry as it is sent.  The time in it is used only if the status is final.
Sent(e, age) == [e EXCEPT !.age = IF e.status \in Final THEN age ELSE 0]

\* Gossip and pings are sent without LastUpdated.  selectNextKNodes: any other node
\* may be next, since nodeOrder is rebuilt only when the number of members changes.
MaySend(n, to) ==
  /\ Running(n) /\ n # to /\ sends < MaxSends
  /\ Cardinality(net) + Cardinality(merges) < MaxInFlight

gossipSend(n, to) ==
  /\ protocol = "gossip" /\ MaySend(n, to)
  /\ view[n] # NoEntry
  /\ net' = net \cup {Message("gossip", n, to, Sent(view[n], Expired))}
  /\ sends' = sends + 1
  /\ UNCHANGED <<config, subjectVars, view, failed, merges, downFor>>

pingSend(n, to) ==
  /\ protocol = "ping" /\ MaySend(n, to)
  /\ net' = net \cup {Message("ping", n, to, Sent(view[n], Expired))}
  /\ sends' = sends + 1
  /\ UNCHANGED <<config, subjectVars, view, failed, merges, downFor>>

\* MarkSuspectIfNeeded: what is due, and what becomes of the entry.
Skipped(n) == protocol = "ping" /\ n = Subject

TurnsSuspect(n) ==
  /\ suspicion = "suspect" /\ view[n].status = "alive" /\ view[n].age > SuspicionTimeout
\* Fault: a suspect is left alone.
TurnsDeadNotSuspects(n) ==
  /\ suspicion = "nosuspect" /\ view[n].status = "alive"
  /\ view[n].age > SuspicionTimeout /\ view[n].age > DeadTimeout

TurnsDead(n) ==
  \/ /\ suspicion = "nosuspect" /\ view[n].status = "alive"
     /\ view[n].age > SuspicionTimeout /\ view[n].age > DeadTimeout
  \/ view[n].status = "suspect" /\ view[n].age > DeadTimeout
CleanedUp(n) == view[n].status = "dead" /\ view[n].age > CleanUpTimeout

Due(n) == Running(n) /\ ~Skipped(n) /\ (TurnsSuspect(n) \/ TurnsDead(n) \/ CleanedUp(n))

MarkSuspectIfNeeded(n) ==
  /\ Due(n)
  /\ \/ TurnsSuspect(n) /\ AddOrUpdate(n, Entry("suspect", view[n].hb, view[n].inc, 0))
     \/ TurnsDead(n) /\ AddOrUpdate(n, Entry("dead", view[n].hb, view[n].inc, 0))
     \/ CleanedUp(n) /\ AddOrUpdate(n, NoEntry)
  /\ failed' = IF TurnsDead(n) THEN failed \cup {n} ELSE failed
  /\ UNCHANGED <<config, subjectVars, net, merges, sends, downFor>>

----------------------------------------------------------------------------
(* mergeMembership.                                                         *)

getStatusPriority(st) ==
  CASE st \in Final -> 3 [] st = "suspect" -> 2 [] st = "alive" -> 1 [] OTHER -> 0

compareStatus(r, l) == getStatusPriority(r) > getStatusPriority(l)

\* With the same status: the higher heartbeat in gossip, in ping-ack only what the
\* member says of itself.
Newer(l, r, sender) ==
  IF protocol = "gossip" THEN r.hb > l.hb ELSE sender = Subject

handleNoSuspicionMerge(l, r, sender) ==
  IF r.status \in Final THEN r
  ELSE IF l.status \in Final THEN l
  ELSE IF r.status = l.status THEN IF Newer(l, r, sender) THEN Now(r) ELSE l
  ELSE IF compareStatus(r.status, l.status) THEN Now(r) ELSE l

\* Fault: a higher incarnation wins over a final local status.
handleSuspicionMergeRevives(l, r, sender) ==
  IF r.status \in Final THEN r
  ELSE IF r.inc > l.inc THEN Now(r)
  ELSE IF l.inc > r.inc THEN l
  ELSE IF r.status = l.status THEN IF Newer(l, r, sender) THEN Now(r) ELSE l
  ELSE IF compareStatus(r.status, l.status) THEN Now(r) ELSE l

handleSuspicionMerge(l, r, sender) ==
  IF r.status \in Final THEN r
  ELSE IF l.status \in Final THEN l
  ELSE IF r.inc > l.inc THEN Now(r)
  ELSE IF l.inc > r.inc THEN l
  ELSE IF r.status = l.status THEN IF Newer(l, r, sender) THEN Now(r) ELSE l
  ELSE IF compareStatus(r.status, l.status) THEN Now(r) ELSE l

Merged(l, r, sender) ==
  IF suspicion = "suspect" THEN handleSuspicionMerge(l, r, sender)
                           ELSE handleNoSuspicionMerge(l, r, sender)

\* The answer of the introducer is merged, and then the loops of the Subject start.
Joined(m) ==
  /\ m \in net /\ m.type = "joined" /\ proc = "joining"
  /\ proc' = "up"
  /\ AddOrUpdate(Subject, Merged(view[Subject], m.entry, m.from))
  /\ net' = net \ {m}
  /\ UNCHANGED <<config, left, heartbeat, incarnation, failed, merges, sends, downFor>>

\* The request or the answer was lost: the process gives up.
JoinFails ==
  /\ proc = "joining" /\ \A m \in net : m.type \notin {"join", "joined"}
  /\ proc' = "crashed"
  /\ AddOrUpdate(Subject, NoEntry)
  /\ UNCHANGED <<config, left, heartbeat, incarnation, failed, net, merges, sends, downFor>>

\* Fault: the listener starts before the introducer has answered.
ReceiveAnywhere(m) ==
  /\ m \in net /\ m.type \in {"gossip", "ping", "ack"}
  /\ net' = net \ {m}
  /\ merges' = merges \cup {[node |-> m.to, sender |-> m.from, snap |-> view[m.to],
                             recv |-> m.entry, reply |-> m.type = "ping"]}
  /\ UNCHANGED <<config, subjectVars, view, failed, sends, downFor>>

\* A message is taken from the network and the snapshot read.
Receive(m) ==
  /\ m \in net /\ m.type \in {"gossip", "ping", "ack"} /\ Running(m.to)
  /\ net' = net \ {m}
  /\ merges' = merges \cup {[node |-> m.to, sender |-> m.from, snap |-> view[m.to],
                             recv |-> m.entry, reply |-> m.type = "ping"]}
  /\ UNCHANGED <<config, subjectVars, view, failed, sends, downFor>>

\* What the end of a merge leaves to do: a ping is answered with the list.
FinishMerge(g) ==
  /\ merges' = merges \ {g}
  /\ net' = IF g.reply THEN net \cup {Message("reply", g.node, g.sender, NoEntry)} ELSE net
  /\ UNCHANGED <<config, proc, left, heartbeat, sends, downFor>>

Ignored(g) ==
  \/ g.recv.status = "absent"
  \/ g.recv.status = "dead" /\ (protocol = "gossip" \/ g.snap.status = "absent")

MergeIgnore(g) ==
  /\ g \in merges /\ Ignored(g)
  /\ FinishMerge(g)
  /\ UNCHANGED <<view, failed, incarnation>>

MergeJoin(g) ==
  /\ g \in merges /\ ~Ignored(g) /\ g.snap.status = "absent"
  /\ AddOrUpdate(g.node, Now(g.recv))
  /\ FinishMerge(g)
  /\ UNCHANGED <<failed, incarnation>>

\* The Subject hears that it is suspected, or that it is dead.
Refutes(g) == /\ g.node = Subject /\ g.recv.status = "suspect"
              /\ g.snap.status = "alive" /\ g.recv.inc >= g.snap.inc
SelfDead(g) == g.node = Subject /\ g.recv.status = "dead"

\* handleDeadNode is called for a member that was present, and by handleSuspicionMerge.
SeenFailing(g) ==
  /\ g.recv.status \in Final
  /\ g.snap.status \notin Final \/ (suspicion = "suspect" /\ ~SelfDead(g))

\* Fault: only the entry gets the new incarnation number.
MergeRefuteEntryOnly(g) ==
  /\ g \in merges /\ Refutes(g) /\ incarnation < MaxIncarnation
  /\ AddOrUpdate(Subject, Entry("alive", g.snap.hb, incarnation + 1, 0))
  /\ FinishMerge(g)
  /\ UNCHANGED <<failed, incarnation>>

MergeRefute(g) ==
  /\ g \in merges /\ Refutes(g) /\ incarnation < MaxIncarnation
  /\ incarnation' = incarnation + 1
  /\ AddOrUpdate(Subject, Entry("alive", g.snap.hb, incarnation + 1, 0))
  /\ FinishMerge(g)
  /\ UNCHANGED failed

\* Fault: a death that others report is not handed on.
MergeUpdateUnflagged(g) ==
  /\ g \in merges /\ ~Ignored(g) /\ g.snap.status # "absent" /\ ~Refutes(g)
  /\ IF SelfDead(g) THEN UNCHANGED view
                    ELSE AddOrUpdate(g.node, Merged(g.snap, g.recv, g.sender))
  /\ FinishMerge(g)
  /\ UNCHANGED <<failed, incarnation>>

MergeUpdate(g) ==
  /\ g \in merges /\ ~Ignored(g) /\ g.snap.status # "absent" /\ ~Refutes(g)
  /\ IF SelfDead(g) THEN UNCHANGED view
                    ELSE AddOrUpdate(g.node, Merged(g.snap, g.recv, g.sender))
  /\ failed' = IF SeenFailing(g) THEN failed \cup {g.node} ELSE failed
  /\ FinishMerge(g)
  /\ UNCHANGED incarnation

Merge(g) == MergeIgnore(g) \/ MergeJoin(g) \/ MergeRefute(g) \/ MergeUpdate(g)

\* The list that answers a ping is read after the merge, with its times.
PingReply(m) ==
  /\ m \in net /\ m.type = "reply"
  /\ net' = (net \ {m}) \cup {Message("ack", m.from, m.to, Sent(view[m.from], view[m.from].age))}
  /\ UNCHANGED <<config, subjectVars, view, failed, merges, sends, downFor>>

----------------------------------------------------------------------------
\* The command leave: the entry is marked with the current incarnation.
leaveGroup ==
  /\ proc = "up" /\ ~left /\ view[Subject] # NoEntry
  /\ left' = TRUE
  /\ AddOrUpdate(Subject, Entry("voluntary_leave", view[Subject].hb, incarnation, 0))
  /\ UNCHANGED <<config, proc, heartbeat, incarnation, failed, net, merges, sends, downFor>>

\* The process ends; its list and its goroutines go with it.
Crash ==
  /\ proc = "up"
  /\ proc' = "crashed"
  /\ AddOrUpdate(Subject, NoEntry)
  /\ merges' = {g \in merges : g.node # Subject}
  /\ net' = {m \in net : ~(m.type = "reply" /\ m.from = Subject)}
  /\ UNCHANGED <<config, left, heartbeat, incarnation, failed, sends, downFor>>

\* UDP loses a message, the drop command discards it, or nobody listens any more.
Drop(m) ==
  /\ m \in net /\ m.type # "reply"
  /\ net' = net \ {m}
  /\ UNCHANGED <<config, subjectVars, view, failed, merges, sends, downFor>>

\* Entries that no timeout looks at do not age.
Ageing(n) == ~Skipped(n) /\ view[n].status \in {"alive", "suspect", "dead"}
Older(n)  == IF Ageing(n) /\ view[n].age < Expired THEN [view[n] EXCEPT !.age = @ + 1]
                                                   ELSE view[n]

Tick ==
  /\ net = {} /\ merges = {} /\ proc # "joining"
  /\ \A n \in Nodes : ~Due(n)
  /\ proc = "up" /\ protocol = "gossip" => view[Subject].age = 0
  /\ view' = [n \in Nodes |-> Older(n)]
  /\ sends' = 0
  /\ downFor' = IF proc = "crashed" /\ protocol = "gossip" /\ downFor <= DetectionBound
                THEN downFor + 1 ELSE downFor
  /\ UNCHANGED <<config, subjectVars, failed, net, merges>>

----------------------------------------------------------------------------
Handle(m) == Join(m) \/ Joined(m) \/ Receive(m) \/ PingReply(m)

Next ==
  \/ NotifyIntroducer \/ JoinFails \/ increaseHeartbeat \/ leaveGroup \/ Crash \/ Tick
  \/ \E n, to \in Nodes : gossipSend(n, to) \/ pingSend(n, to)
  \/ \E n \in Nodes : MarkSuspectIfNeeded(n)
  \/ \E m \in net : Handle(m) \/ Drop(m)
  \/ \E g \in merges : Merge(g)

Spec == Init /\ [][Next]_vars

----------------------------------------------------------------------------
(* Properties.                                                              *)

Statuses  == {"absent", "alive", "suspect", "dead", "voluntary_leave"}
EntryType == [status : Statuses, hb : 0..MaxHeartbeat, inc : 0..MaxIncarnation, age : 0..Expired]

MessageType == [type : {"join", "joined", "gossip", "ping", "reply", "ack"},
                from : Nodes, to : Nodes, entry : EntryType]
MergeType == [node : Nodes, sender : Nodes, snap : EntryType, recv : EntryType, reply : BOOLEAN]

\* Every variable keeps its shape, and the Subject merges only while it is up.
TypeOK ==
  /\ protocol \in {"gossip", "ping"} /\ suspicion \in {"suspect", "nosuspect"}
  /\ proc \in {"off", "joining", "up", "crashed"} /\ left \in BOOLEAN
  /\ heartbeat \in 0..MaxHeartbeat /\ incarnation \in 1..MaxIncarnation
  /\ view \in [Nodes -> EntryType]
  /\ failed \subseteq Nodes
  /\ net \subseteq MessageType
  /\ merges \subseteq MergeType
  /\ \A g \in merges : Running(g.node)
  /\ sends \in 0..MaxSends /\ downFor \in 0..(DetectionBound + 1)

\* Every copy of the Subject's entry, in lists, messages and merges.
Copies == {view[n] : n \in Nodes} \cup {m.entry : m \in net}
            \cup {g.snap : g \in merges} \cup {g.recv : g \in merges}

\* No copy is ahead of the Subject: only it counts its heartbeats and raises its
\* incarnation number, so an entry the others prefer comes from it.
NeverAhead == \A e \in Copies : e.hb <= heartbeat /\ e.inc <= incarnation

\* Whoever takes the Subject for dead has handed it to the stabilisation of the
\* ring, by its own timeout or because it heard so, unless the Subject had left.
DeadIsStabilised ==
  \A n \in Observers : view[n].status = "dead" => left \/ n \in failed

\* A final status is undone only by a merge that read its snapshot before: by the
\* rules of the merge dead and left win.
FinalUnlessRaced ==
  [][\A n \in Observers :
       view[n].status \in Final /\ view'[n].status \in {"alive", "suspect"} =>
         \E g \in merges : g.node = n /\ g.snap.status \notin Final]_vars

\* A dead entry is kept for as long as a rumour can live that goes through all other
\* observers, each of which passes it on just before its own timeout.
CleanUpIsLong ==
  \A t \in {SuspicionTimeout, DeadTimeout} :
    (Cardinality(Observers) - 1) * (t + 1) <= CleanUpTimeout

\* A crashed member is present in nobody's list once DetectionBound has passed, and
\* does not come back, although the others go on exchanging what they know of it
\* and drop it from their lists at different times (gossip only).  With a shorter
\* clean-up it may come back for ever: a node that has dropped it enters it again
\* as suspect, on the word of one that is about to give it up.
CrashDetected ==
  protocol = "gossip" /\ CleanUpIsLong /\ downFor > DetectionBound =>
    \A n \in Observers : view[n].status \notin {"alive", "suspect"}
=============================================================================
