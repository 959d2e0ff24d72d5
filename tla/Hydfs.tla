------------------------------- MODULE Hydfs -------------------------------
(***************************************************************************)
(* One HyDFS file: its copies on the nodes, the clients that create it and  *)
(* append to it, the merge command, and the stabilisation of the ring after *)
(* a crash or a join.  The copies of different files do not touch each      *)
(* other.                                                                   *)
(*                                                                          *)
(* An append to a "regular" file is stored as a chunk of its own and listed *)
(* in the file's metadata; an append to a "stream" (a wal- or out- file) is *)
(* added to the base file.  Data are write numbers: the hash of a content   *)
(* is the number of the write that brought it.                              *)
(*                                                                          *)
(* The nodes' membership lists are those of module Membership, reduced to   *)
(* what the ring functions read: see Ring.                                  *)
(***************************************************************************)
EXTENDS Ring, SequencesExt

CONSTANTS
  Workers,      \* the goroutines that stabilise and merge
  Home,         \* the node of each: how many of its can run at once
  Introducer,
  Initial,      \* the members at the start, in a settled ring
  FileHash,     \* FileNameHash of the file
  Scenarios,    \* what may happen in a behaviour: kind of file, who
                \* writes, joins and works, and budgets
  MaxTime       \* bound on the clock

ASSUME WorkersAssumption == Home \in [Workers -> Nodes] /\ "client" \notin Workers
ASSUME NodesAssumption == Introducer \in Initial /\ Initial \subseteq Nodes
ASSUME FileAssumption  == FileHash \in Nat /\ MaxTime \in Nat
ASSUME ScenarioAssumption ==
  Scenarios \subseteq [kind : {"regular", "stream"}, exists : BOOLEAN, clients : SUBSET Nodes,
                       joiners : SUBSET Nodes, workers : SUBSET Workers, writes : Nat,
                       merges : Nat, crashes : Nat, fails : Nat, seconds : 0..MaxTime]

VARIABLES
  scenario,
  up,          \* the processes that run
  view,        \* each node's membership list
  joining,     \* of a node that starts: what it has still to enter, and itself;
               \* empty once its servers listen
  entering,    \* <<n, m>>: n was told that m is dead, and has not entered it yet
  pending,     \* window changes whose goroutine has been started, per node
  meta,        \* Metadata.Files of the file on each node, or NoFile
  base,        \* content of the base file on each node
  chunk,       \* append files on each node: [id, data]
  overwritten, \* a copy of the file has been saved over one that was there
  probing,     \* AppendOrCreateFromBuffer: what each client asks, and whom
  transfers,   \* FileTransfer and AppendTransfer calls
  job,         \* the stabilisation or merge a worker is in
  clock,       \* time.Now().Unix()
  writes, merges, crashes, fails,  \* so far, against their budgets
  acked,       \* writes that some node has accepted
  raced,       \* a write, merge or ring change began while another was going on
  crossed      \* a merge began while another, or a stabilisation, was going on

ringVars  == <<up, view, joining, entering, pending>>
storeVars == <<meta, base, chunk, overwritten>>
counters  == <<writes, merges, crashes, fails>>
vars == <<scenario, up, view, joining, entering, pending, meta, base, chunk, overwritten,
          probing, transfers, job, clock, writes, merges, crashes, fails, acked, raced,
          crossed>>

----------------------------------------------------------------------------
(* Metadata of a file and its appends.                                      *)

NoFile == [hash |-> 0, apps |-> <<>>]
Exists(n) == meta[n] # NoFile

\* AppendInfo.  The AppendID is made of the file, the second and the client's name.
AppendInfo(c, s, w) == [client |-> c, ts |-> s, hash |-> w]
ID(a)    == <<a.client, a.ts>>
IDs(s)   == {ID(s[i]) : i \in DOMAIN s}
Order(s) == [i \in DOMAIN s |-> ID(s[i])]
Stored(n) == {k.id : k \in chunk[n]}

\* Fault: an append that arrives late goes to the end.
InsertAtEnd(s, a) == IF ID(a) \in IDs(s) THEN s ELSE Append(s, a)

\* AppendToFile: a known AppendID is not listed again; insertAppend puts the new
\* one before the first of the same client with a later timestamp.
AppendToFile(s, a) ==
  LET later == {i \in DOMAIN s : s[i].client = a.client /\ s[i].ts > a.ts}
      at    == IF later = {} THEN Len(s) + 1
               ELSE CHOOSE i \in later : \A k \in later : i <= k
  IN IF ID(a) \in IDs(s) THEN s ELSE InsertAt(s, at, a)

\* What GetFile sends: the base and the chunks of the listed appends; a chunk that
\* is missing is skipped.
GetFile(n) ==
  LET s     == meta[n].apps
      found == AtIndices(s, {i \in DOMAIN s : ID(s[i]) \in Stored(n)})
  IN base[n] \o [i \in DOMAIN found |->
                   (CHOOSE k \in chunk[n] : k.id = ID(found[i])).data]

----------------------------------------------------------------------------
Idle == [pc |-> "idle", ring |-> <<>>, left |-> <<>>, mine |-> FALSE, send |-> FALSE,
         queue |-> <<>>, drop |-> {}, merging |-> FALSE, skip |-> FALSE,
         succs |-> <<>>, hash |-> 0, apps |-> <<>>, got |-> 0]

NoProbe == [left |-> <<>>, targets |-> <<>>, data |-> 0]

----------------------------------------------------------------------------
\* The nodes whose servers listen.
Serving == {n \in up : joining[n] = {}}

Targets(n)    == FindTargetNodes(view[n], FileHash)
Successors(n) == GetSuccessors(view[n], n)
IsPrimary(n)  == InPrimaryRange(view[n], n, FileHash)

\* The file exists on its targets, or nowhere.
Init ==
  /\ scenario \in Scenarios
  /\ up = Initial
  /\ view = [n \in Nodes |-> [m \in Nodes |->
               IF {m, n} \subseteq Initial THEN "alive" ELSE "absent"]]
  /\ joining = [n \in Nodes |-> {}]
  /\ entering = {}
  /\ pending = [n \in Nodes |-> {}]
  /\ chunk   = [n \in Nodes |-> {}]
  /\ probing = [n \in Nodes |-> NoProbe]
  /\ transfers = {}
  /\ job = [w \in Workers |-> Idle]
  /\ clock = 0
  /\ merges = 0 /\ crashes = 0 /\ fails = 0
  /\ overwritten = FALSE /\ raced = FALSE /\ crossed = FALSE
  /\ IF scenario.exists
     THEN LET has(n) == n \in ToSet(Targets(Introducer)) IN
          /\ writes = 1 /\ acked = {1}
          /\ meta = [n \in Nodes |-> IF has(n) THEN [hash |-> 1, apps |-> <<>>] ELSE NoFile]
          /\ base = [n \in Nodes |-> IF has(n) THEN <<1>> ELSE <<>>]
     ELSE /\ writes = 0 /\ acked = {}
          /\ meta = [n \in Nodes |-> NoFile]
          /\ base = [n \in Nodes |-> <<>>]

----------------------------------------------------------------------------
Transfer(by, n, m, i, what, item, d) ==
  [by |-> by, from |-> n, to |-> m, nr |-> i, what |-> what, item |-> item,
   data |-> d, phase |-> "sent"]

SentBy(w)  == {t \in transfers : t.by = w}
Writing(n) == probing[n] # NoProbe \/ \E t \in SentBy("client") : t.from = n

\* Every running node has the right list, and has acted upon it.
RingSettled ==
  /\ entering = {}
  /\ \A n \in up : joining[n] = {} /\ pending[n] = {} /\ Alive(view[n]) = up
Lingering  == \E n \in up : Members(view[n]) # Alive(view[n])
JobsOf(n)  == {w \in Workers : Home[w] = n /\ job[w] # Idle}
JobsDone   == \A n \in up : JobsOf(n) = {}
WritesDone == \A n \in up : ~Writing(n)
Creating   == \/ \E n \in up : probing[n] # NoProbe
              \/ \E t \in transfers : t.what = "file"
Quiet == RingSettled /\ WritesDone /\ JobsDone /\ transfers = {}

Race(overlap) == raced' = (raced \/ overlap)

\* An RPC fails because the other node does not listen, or within the budget.
CallFails(m) ==
  \/ m \notin Serving /\ UNCHANGED fails
  \/ m \in Serving /\ fails < scenario.fails /\ fails' = fails + 1

----------------------------------------------------------------------------
(* Clients.  A write is sent to all its targets at once; time passes between *)
(* writes.  Commands and MultiAppend requests of one client may overlap.    *)

BeginWrite(c) ==
  /\ c \in Serving \cap scenario.clients
  /\ writes < scenario.writes /\ writes' = writes + 1
  /\ clock' \in clock..scenario.seconds
  /\ UNCHANGED <<scenario, ringVars, storeVars, job, merges, crashes, fails, acked, crossed>>

SendToTargets(c, targets, what, item, w) ==
  transfers' = transfers \cup
    {Transfer("client", c, targets[i], i, what, item, <<w>>) : i \in DOMAIN targets}

SendFile(c, targets, w) ==
  SendToTargets(c, targets, "file", [hash |-> w, apps |-> <<>>], w)
SendAppend(c, targets, s, w) == SendToTargets(c, targets, "append", AppendInfo(c, s, w), w)

\* The AppendID of an append by c at second s is taken by another one.
Collides(c, s) ==
  \/ \E n \in Nodes : <<c, s>> \in Stored(n)
  \/ \E t \in transfers : t.what = "append" /\ ID(t.item) = <<c, s>>

handleCreate(c) ==
  /\ scenario.kind = "regular"
  /\ BeginWrite(c)
  /\ SendFile(c, Targets(c), writes')
  /\ Race(~Quiet \/ Lingering)
  /\ UNCHANGED probing

handleAppend(c) ==
  /\ BeginWrite(c)
  /\ SendAppend(c, Targets(c), clock', writes')
  /\ Race(~RingSettled \/ Lingering \/ ~JobsDone \/ Creating \/ Collides(c, clock'))
  /\ UNCHANGED probing

\* AppendOrCreateFromBuffer asks the targets one by one whether they have the file.
AppendOrCreateFromBuffer(c) ==
  /\ scenario.kind = "stream" /\ probing[c] = NoProbe
  /\ BeginWrite(c)
  /\ probing' = [probing EXCEPT ![c] =
                   [left |-> Targets(c), targets |-> Targets(c), data |-> writes']]
  /\ Race(~RingSettled \/ Lingering \/ ~JobsDone \/ Creating \/ (acked = {} /\ ~WritesDone))
  /\ UNCHANGED transfers

ProbeStep(c) ==
  /\ c \in up /\ probing[c] # NoProbe
  /\ UNCHANGED <<scenario, ringVars, storeVars, job, clock, writes, merges, crashes,
                 acked, raced, crossed>>

ProbeFinds(c) ==
  LET q == probing[c] IN
  /\ ProbeStep(c)
  /\ q.left # <<>> /\ Head(q.left) \in Serving /\ Exists(Head(q.left))
  /\ SendAppend(c, q.targets, clock, q.data)
  /\ probing' = [probing EXCEPT ![c] = NoProbe]
  /\ UNCHANGED fails

ProbeFindsNothing(c) ==
  LET q == probing[c] IN
  /\ ProbeStep(c)
  /\ q.left # <<>>
  /\ \/ Head(q.left) \in Serving /\ ~Exists(Head(q.left)) /\ UNCHANGED fails
     \/ CallFails(Head(q.left))
  /\ probing' = [probing EXCEPT ![c].left = Tail(@)]
  /\ UNCHANGED transfers

\* Nobody has it: the write creates the file.
ProbeCreates(c) ==
  LET q == probing[c] IN
  /\ ProbeStep(c)
  /\ q.left = <<>>
  /\ SendFile(c, q.targets, q.data)
  /\ probing' = [probing EXCEPT ![c] = NoProbe]
  /\ UNCHANGED fails

----------------------------------------------------------------------------
(* The receiving side of the transfers (grpc_server.go).                    *)

HandleTransfer(t) ==
  /\ t \in transfers /\ t.to \in Serving
  /\ UNCHANGED <<scenario, ringVars, probing, job, clock, counters, raced, crossed>>

Answer(t)    == transfers' = transfers \ {t}
Advance(t, ph) == transfers' = (transfers \ {t}) \cup {[t EXCEPT !.phase = ph]}
Accept(t)    == acked' = acked \cup ToSet(t.data)

\* FileTransfer looks for the file when the stream has ended, and saves it after.
FileTransfer(t) ==
  /\ HandleTransfer(t) /\ t.what = "file" /\ t.phase = "sent"
  /\ IF Exists(t.to) THEN Answer(t) ELSE Advance(t, "checked")
  /\ UNCHANGED <<storeVars, acked>>

saveFile(t) ==
  /\ HandleTransfer(t) /\ t.what = "file" /\ t.phase = "checked"
  /\ base' = [base EXCEPT ![t.to] = t.data]
  /\ meta' = [meta EXCEPT ![t.to] = [hash |-> t.item.hash, apps |-> <<>>]]
  /\ overwritten' = (overwritten \/ Exists(t.to))
  /\ Accept(t) /\ Answer(t)
  /\ UNCHANGED chunk

AppendRefused(t) ==
  /\ HandleTransfer(t) /\ t.what = "append" /\ t.phase = "sent"
  /\ ~Exists(t.to)
  /\ Answer(t)
  /\ UNCHANGED <<storeVars, acked>>

\* A stream keeps no metadata of its appends.
AppendToBase(t) ==
  /\ HandleTransfer(t) /\ t.what = "append" /\ t.phase = "sent"
  /\ Exists(t.to) /\ scenario.kind = "stream"
  /\ base' = [base EXCEPT ![t.to] = @ \o t.data]
  /\ Accept(t) /\ Answer(t)
  /\ UNCHANGED <<meta, chunk, overwritten>>

\* Fault: the append is going to be listed although its chunk was not written.
WriteChunkIgnoringErrors(t) ==
  /\ HandleTransfer(t) /\ t.what = "append" /\ t.phase = "sent"
  /\ Exists(t.to) /\ scenario.kind = "regular"
  /\ Advance(t, "written")
  /\ UNCHANGED <<storeVars, acked>>

\* The chunk is written, over one with the same AppendID, and listed after.
WriteChunk(t) ==
  /\ HandleTransfer(t) /\ t.what = "append" /\ t.phase = "sent"
  /\ Exists(t.to) /\ scenario.kind = "regular"
  /\ chunk' = [chunk EXCEPT ![t.to] = {k \in @ : k.id # ID(t.item)}
                                        \cup {[id |-> ID(t.item), data |-> t.data[1]]}]
  /\ Advance(t, "written")
  /\ UNCHANGED <<meta, base, overwritten, acked>>

ListAppend(t) ==
  /\ HandleTransfer(t) /\ t.what = "append" /\ t.phase = "written"
  /\ meta' = [meta EXCEPT ![t.to].apps = AppendToFile(@, t.item)]
  /\ Accept(t) /\ Answer(t)
  /\ UNCHANGED <<base, chunk, overwritten>>

\* A call breaks before it is handled; the sender takes that for an answer.
TransferFails(t) ==
  /\ t \in transfers
  /\ \/ CallFails(t.to) /\ (t.to \in Serving => t.phase = "sent")
     \/ t.from \notin up /\ t.phase = "sent" /\ t.to \in Serving /\ UNCHANGED fails
  /\ Answer(t)
  /\ UNCHANGED <<scenario, ringVars, storeVars, probing, job, clock, writes, merges,
                 crashes, acked, raced, crossed>>

----------------------------------------------------------------------------
(* stabilizeRing: push the file to the successors, then pull it from them.  *)
(* A node may be in several at once: no lock is taken.                      *)

\* Fault: the last successor is not noticed.
NextSuccessorOffByOne(j) ==
  IF j.succs = <<>> THEN Idle
  ELSE [j EXCEPT !.pc = "check", !.succs = Tail(@), !.skip = FALSE]

\* The job after its current successor of a merge.
NextSuccessor(j) ==
  IF Len(j.succs) <= 1 THEN Idle
  ELSE [j EXCEPT !.pc = "check", !.succs = Tail(@), !.skip = FALSE]

\* The job after a stabilisation, which a merge may have asked for.
Stabilised(j) ==
  IF ~j.merging THEN Idle
  ELSE IF j.skip THEN NextSuccessor(j)
  ELSE [j EXCEPT !.pc = "sync", !.drop = {}]

NextPush(j) ==
  IF Len(j.left) > 1 THEN [j EXCEPT !.pc = "push", !.left = Tail(@)]
                     ELSE [j EXCEPT !.pc = "pull", !.left = j.ring]

NextPull(j) ==
  IF Len(j.left) > 1 THEN [j EXCEPT !.pc = "pull", !.left = Tail(@), !.drop = {}]
                     ELSE Stabilised([j EXCEPT !.drop = {}])

JobStep(w, pc) ==
  /\ Home[w] \in up /\ job[w].pc = pc
  /\ UNCHANGED <<scenario, ringVars, probing, clock, writes, merges, crashes, acked,
                 raced, crossed>>

\* The list is read for the range, and once more for the successors.  A node outside
\* whose primary range the file is has nothing to push or pull.
GetPrimaryKeyRange(w) ==
  LET n == Home[w] IN
  /\ JobStep(w, "range")
  /\ job' = [job EXCEPT ![w] =
       IF IsPrimary(n) THEN [@ EXCEPT !.pc = "succs", !.mine = Exists(n)] ELSE Stabilised(@)]
  /\ UNCHANGED <<storeVars, transfers, fails>>

FindSuccessors(w) ==
  LET s == Successors(Home[w]) IN
  /\ JobStep(w, "succs")
  /\ job' = [job EXCEPT ![w] =
       IF s # <<>> THEN [@ EXCEPT !.pc = "push", !.ring = s, !.left = s] ELSE Stabilised(@)]
  /\ UNCHANGED <<storeVars, transfers, fails>>

\* Metadata of the file as node m gives it; a call that fails gives none.
Fetched(m, got) ==
  \/ m \in Serving /\ got = meta[m] /\ UNCHANGED fails
  \/ got = NoFile /\ CallFails(m)

Answers(m) == {meta[m], NoFile}

\* The appends of s whose IDs are not in r.
NotListed(s, r) == AtIndices(s, {i \in DOMAIN s : ID(s[i]) \notin IDs(r)})

PushFetch(w) ==
  LET j == job[w]
      n == Home[w]
  IN
  /\ JobStep(w, "push")
  /\ \E got \in Answers(Head(j.left)) :
       /\ Fetched(Head(j.left), got)
       /\ job' = [job EXCEPT ![w] =
            IF ~j.mine THEN NextPush(j)
            ELSE [j EXCEPT !.pc = "pushing", !.send = got.hash # meta[n].hash,
                    !.queue = NotListed(meta[n].apps, got.apps)]]
  /\ UNCHANGED <<storeVars, transfers>>

\* The file goes first, then one append after the other; one whose chunk is not
\* here is left out.
Pushing(w) == JobStep(w, "pushing") /\ SentBy(w) = {} /\ UNCHANGED <<storeVars, fails>>

Push(w, what, item, d) == Transfer(w, Home[w], Head(job[w].left), 1, what, item, d)

PushFile(w) ==
  LET n == Home[w] IN
  /\ Pushing(w) /\ job[w].send
  /\ transfers' = transfers \cup
       {Push(w, "file", [hash |-> meta[n].hash, apps |-> <<>>], base[n])}
  /\ job' = [job EXCEPT ![w].send = FALSE]

PushAppend(w) ==
  LET a == Head(job[w].queue) IN
  /\ Pushing(w) /\ ~job[w].send /\ job[w].queue # <<>>
  /\ transfers' = transfers \cup
       {Push(w, "append", a, <<k.data>>) : k \in {k \in chunk[Home[w]] : k.id = ID(a)}}
  /\ job' = [job EXCEPT ![w].queue = Tail(@)]

PushDone(w) ==
  /\ Pushing(w) /\ ~job[w].send /\ job[w].queue = <<>>
  /\ job' = [job EXCEPT ![w] = NextPush(@)]
  /\ UNCHANGED transfers

\* The other side's list is compared with the own one, if the file is here.
PullFetch(w) ==
  LET j == job[w]
      n == Home[w]
      m == Head(j.left)
  IN
  /\ JobStep(w, "pull")
  /\ \E got \in Answers(m) :
       /\ Fetched(m, got)
       /\ job' = [job EXCEPT ![w] =
            IF got = NoFile THEN NextPull(j)
            ELSE [j EXCEPT !.pc = IF Exists(n) THEN "pulling" ELSE "load",
                    !.got = got.hash, !.drop = IDs(got.apps) \ IDs(meta[n].apps)]]
  /\ UNCHANGED <<storeVars, transfers>>

\* A file that was not here is downloaded as GetFile gives it, appends included; a
\* download that breaks leaves no file.
ReceiveFileFromNode(w) ==
  LET j == job[w]
      m == Head(j.left)
  IN
  /\ JobStep(w, "load")
  /\ \/ /\ m \in Serving /\ UNCHANGED fails
        /\ base' = [base EXCEPT ![Home[w]] = GetFile(m)]
        /\ job' = [job EXCEPT ![w].pc = "add"]
     \/ /\ CallFails(m)
        /\ base' = [base EXCEPT ![Home[w]] = <<>>]
        /\ job' = [job EXCEPT ![w] = NextPull(j)]
  /\ UNCHANGED <<meta, chunk, overwritten, transfers>>

\* Then it is entered without appends, over what may have been entered meanwhile.
AddFile(w) ==
  LET n == Home[w] IN
  /\ JobStep(w, "add")
  /\ meta' = [meta EXCEPT ![n] = [hash |-> job[w].got, apps |-> <<>>]]
  /\ overwritten' = (overwritten \/ Exists(n))
  /\ job' = [job EXCEPT ![w].pc = "pulling"]
  /\ UNCHANGED <<base, chunk, transfers, fails>>

\* An append that was not here when the list was read is asked for by its ID.
\* GetFile knows no such file; ReceiveFileFromNode has created the local file
\* by then, over what may have arrived since, and removes it.
PullAppends(w) ==
  LET j == job[w]
      n == Home[w]
  IN
  /\ JobStep(w, "pulling")
  /\ \E gone \in IF Head(j.left) \in Serving THEN {j.drop} ELSE {j.drop, {}} :
       chunk' = [chunk EXCEPT ![n] = {k \in @ : k.id \notin gone}]
  /\ job' = [job EXCEPT ![w] = NextPull(j)]
  /\ UNCHANGED <<meta, base, overwritten, transfers, fails>>

----------------------------------------------------------------------------
(* The merge command: executed by the node that has the file in its primary *)
(* range, for one successor after the other.  Merges may overlap.           *)

handleMergeCommand(c, w) ==
  LET p == IF IsPrimary(c) THEN c ELSE Head(Targets(c)) IN
  /\ c \in Serving /\ merges < scenario.merges /\ merges' = merges + 1
  /\ p \in Serving /\ p = Home[w] /\ w \in scenario.workers /\ job[w] = Idle
  /\ Successors(p) # <<>> /\ Exists(p)
  /\ job' = [job EXCEPT ![w] = [Idle EXCEPT !.pc = "check", !.merging = TRUE,
               !.succs = Successors(p), !.hash = meta[p].hash, !.apps = meta[p].apps]]
  /\ Race(~Quiet)
  /\ crossed' = (crossed \/ ~JobsDone)
  /\ UNCHANGED <<scenario, ringVars, storeVars, probing, transfers, clock, writes,
                 crashes, fails, acked>>

filesAndAppendsMatch(j, got) ==
  /\ j.hash = got.hash
  /\ Len(j.apps) = Len(got.apps)
  /\ IDs(got.apps) \subseteq IDs(j.apps)

\* Fault: the same AppendIDs, in whatever order.
sameIDs(s, r) == IDs(s) = IDs(r)

\* The same AppendIDs in the same order.
ordersMatch(s, r) == Order(s) = Order(r)

ensureRemoteFileInSync(w) ==
  LET j == job[w]
      m == Head(j.succs)
  IN
  /\ JobStep(w, "check")
  /\ \/ CallFails(m) /\ job' = [job EXCEPT ![w] = NextSuccessor(j)]
     \/ /\ m \in Serving /\ UNCHANGED fails
        /\ job' = [job EXCEPT ![w] =
             IF ~Exists(m) THEN [j EXCEPT !.pc = "range", !.skip = TRUE]
             ELSE IF ~filesAndAppendsMatch(j, meta[m]) THEN [j EXCEPT !.pc = "range"]
             ELSE [j EXCEPT !.pc = "sync"]]
  /\ UNCHANGED <<storeVars, transfers>>

syncRemoteAppendOrder(w) ==
  LET j == job[w]
      m == Head(j.succs)
  IN
  /\ JobStep(w, "sync")
  /\ \/ CallFails(m) /\ job' = [job EXCEPT ![w] = NextSuccessor(j)]
     \/ /\ m \in Serving /\ UNCHANGED fails
        /\ job' = [job EXCEPT ![w] =
             IF ~Exists(m) \/ ordersMatch(j.apps, meta[m].apps) THEN NextSuccessor(j)
             ELSE [j EXCEPT !.pc = "update"]]
  /\ UNCHANGED <<storeVars, transfers>>

\* The successor's list is replaced by the primary's as it was when the merge began.
UpdateAppendOrder(w) ==
  LET j == job[w]
      m == Head(j.succs)
  IN
  /\ JobStep(w, "update")
  /\ \/ CallFails(m) /\ UNCHANGED meta
     \/ m \in Serving /\ UNCHANGED fails /\ meta' = [meta EXCEPT ![m].apps = j.apps]
  /\ job' = [job EXCEPT ![w] = NextSuccessor(j)]
  /\ UNCHANGED <<base, chunk, overwritten, transfers>>

----------------------------------------------------------------------------
(* The ring changes.  A node that learns of a death or of a new member      *)
(* starts a goroutine with handleReplicationWindowChange.                   *)

RingStep ==
  UNCHANGED <<scenario, meta, overwritten, probing, transfers, clock, writes, merges, fails,
              acked, crossed>>

Crash(n) ==
  /\ n \in up \cap Initial /\ up # {n}
  /\ crashes < scenario.crashes /\ crashes' = crashes + 1
  /\ up' = up \ {n}
  /\ job' = [w \in Workers |-> IF Home[w] = n THEN Idle ELSE job[w]]
  /\ entering' = {e \in entering : e[1] # n}
  /\ Race(~Quiet)
  /\ RingStep
  /\ UNCHANGED <<view, joining, pending, base, chunk>>

\* A member's own timeout: the goroutine waits for the list's lock, so that it
\* finds the member dead.
MarkDead(n, m) ==
  /\ n \in Serving /\ m \notin up /\ view[n][m] = "alive" /\ <<n, m>> \notin entering
  /\ view'    = [view EXCEPT ![n][m] = "dead"]
  /\ pending' = [pending EXCEPT ![n] = @ \cup {m}]
  /\ RingStep
  /\ UNCHANGED <<up, joining, entering, job, base, chunk, crashes, raced>>

\* The same heard from another member: mergeMembership starts the goroutine
\* first and enters the death after.
HearOfDeath(n, m) ==
  /\ n \in Serving /\ m \notin up /\ view[n][m] = "alive" /\ <<n, m>> \notin entering
  /\ \E k \in Serving : view[k][m] = "dead"
  /\ entering' = entering \cup {<<n, m>>}
  /\ pending'  = [pending EXCEPT ![n] = @ \cup {m}]
  /\ RingStep
  /\ UNCHANGED <<up, view, joining, job, base, chunk, crashes, raced>>

EnterDeath(n, m) ==
  /\ <<n, m>> \in entering
  /\ entering' = entering \ {<<n, m>>}
  /\ view' = [view EXCEPT ![n][m] = "dead"]
  /\ RingStep
  /\ UNCHANGED <<up, joining, pending, job, base, chunk, crashes, raced>>

\* The clean-up timeout is long enough for the goroutine to have run.
CleanUp(n, m) ==
  /\ n \in Serving /\ view[n][m] = "dead" /\ m \notin pending[n] /\ JobsOf(n) = {}
  /\ view' = [view EXCEPT ![n][m] = "absent"]
  /\ RingStep
  /\ UNCHANGED <<up, joining, entering, pending, job, base, chunk, crashes, raced>>

\* The introducer enters the new member without acting upon it, and answers with its
\* list, whose dead entries the new member ignores.
Join(j) ==
  /\ j \in scenario.joiners \ (Initial \cup up)
  /\ Introducer \in up
  /\ up' = up \cup {j}
  /\ view' = [view EXCEPT ![Introducer][j] = "alive",
                 ![j] = [m \in Nodes |-> IF m = j THEN "alive" ELSE "absent"]]
  /\ joining' = [joining EXCEPT ![j] = Alive(view[Introducer]) \cup {j}]
  /\ Race(~Quiet)
  /\ RingStep
  /\ UNCHANGED <<entering, pending, job, base, chunk, crashes>>

\* The new member enters one member after the other and starts a goroutine for each.
EnterMember(j, m) ==
  /\ j \in up /\ joining[j] \ {j} # {} /\ m = FirstOf(joining[j] \ {j})
  /\ joining' = [joining EXCEPT ![j] = @ \ {m}]
  /\ view'    = [view EXCEPT ![j][m] = "alive"]
  /\ pending' = [pending EXCEPT ![j] = @ \cup {m}]
  /\ RingStep
  /\ UNCHANGED <<up, entering, job, base, chunk, crashes, raced>>

\* Then it empties its folder, whatever these have put there, and starts its servers.
clearHydfsFolder(j) ==
  /\ j \in up /\ joining[j] = {j}
  /\ joining' = [joining EXCEPT ![j] = {}]
  /\ base'  = [base EXCEPT ![j] = <<>>]
  /\ chunk' = [chunk EXCEPT ![j] = {}]
  /\ RingStep
  /\ UNCHANGED <<up, view, entering, pending, job, crashes, raced>>

HearOfMember(n, m) ==
  /\ n \in Serving /\ view[n][m] = "absent" /\ \E k \in Serving : view[k][m] = "alive"
  /\ m \in up
  /\ view'    = [view EXCEPT ![n][m] = "alive"]
  /\ pending' = [pending EXCEPT ![n] = @ \cup {m}]
  /\ RingStep
  /\ UNCHANGED <<up, joining, entering, job, base, chunk, crashes, raced>>

\* The goroutine reads the list for the window, and stabilizeRing reads it again.
handleReplicationWindowChange(w, m) ==
  LET n == Home[w] IN
  /\ n \in up /\ m \in pending[n] /\ w \in scenario.workers /\ job[w] = Idle
  /\ pending' = [pending EXCEPT ![n] = @ \ {m}]
  /\ job' = IF InReplicationWindow(view[n], n, m)
            THEN [job EXCEPT ![w] = [Idle EXCEPT !.pc = "range"]] ELSE job
  /\ Race(<<n, m>> \in entering \/ joining[n] # {} \/ joining[m] # {})
  /\ RingStep
  /\ UNCHANGED <<up, view, joining, entering, base, chunk, crashes>>

----------------------------------------------------------------------------
Client(c) ==
  \/ handleCreate(c) \/ handleAppend(c) \/ AppendOrCreateFromBuffer(c)
  \/ ProbeFinds(c) \/ ProbeFindsNothing(c) \/ ProbeCreates(c)
  \/ \E w \in Workers : handleMergeCommand(c, w)

Receive(t) ==
  \/ FileTransfer(t) \/ saveFile(t)
  \/ AppendRefused(t) \/ AppendToBase(t) \/ WriteChunk(t) \/ ListAppend(t)

Stabilisation(w) ==
  \/ GetPrimaryKeyRange(w) \/ FindSuccessors(w)
  \/ PushFetch(w) \/ PushFile(w) \/ PushAppend(w) \/ PushDone(w)
  \/ PullFetch(w) \/ ReceiveFileFromNode(w) \/ AddFile(w) \/ PullAppends(w)

Merge(w) == ensureRemoteFileInSync(w) \/ syncRemoteAppendOrder(w) \/ UpdateAppendOrder(w)

RingChange(n) ==
  \/ Crash(n) \/ Join(n) \/ clearHydfsFolder(n)
  \/ \E m \in Nodes : \/ MarkDead(n, m) \/ HearOfDeath(n, m) \/ EnterDeath(n, m)
                      \/ CleanUp(n, m) \/ EnterMember(n, m) \/ HearOfMember(n, m)

WindowChange(w) == \E m \in Nodes : handleReplicationWindowChange(w, m)

\* Behaviours are finite.  One may end only when every write, merge and stabilisation
\* has ended: TLC's deadlock check finds nodes that wait for each other for ever.
Terminating == Quiet /\ UNCHANGED vars

Next ==
  \/ \E n \in Nodes : Client(n) \/ RingChange(n)
  \/ \E w \in Workers : WindowChange(w) \/ Stabilisation(w) \/ Merge(w)
  \/ \E t \in transfers : Receive(t) \/ TransferFails(t)
  \/ Terminating

Spec == Init /\ [][Next]_vars

----------------------------------------------------------------------------
(* Properties.                                                              *)

AppendType   == [client : Nodes, ts : 0..MaxTime, hash : Nat]
FileType     == [hash : Nat, apps : Seq(AppendType)]
ChunkType    == [id : Nodes \X (0..MaxTime), data : Nat]
TransferType == [by : {"client"} \cup Workers, from : Nodes, to : Nodes, nr : Nat,
                 what : {"file", "append"}, item : FileType \cup AppendType,
                 data : Seq(Nat), phase : {"sent", "checked", "written"}]
JobType == [pc : {"idle", "range", "succs", "push", "pushing", "pull", "load", "add", "pulling",
                 "check", "sync", "update"},
            ring : Seq(Nodes), left : Seq(Nodes), mine : BOOLEAN, send : BOOLEAN,
            queue : Seq(AppendType), drop : SUBSET (Nodes \X (0..MaxTime)),
            merging : BOOLEAN, skip : BOOLEAN, succs : Seq(Nodes), hash : Nat,
            apps : Seq(AppendType), got : Nat]

\* Every variable keeps its shape; a stream lists no appends and stores no chunks; and
\* a merge that goes on has a successor to work on.
TypeOK ==
  /\ scenario \in Scenarios
  /\ up \subseteq Nodes /\ view \in [Nodes -> [Nodes -> Statuses]]
  /\ joining \in [Nodes -> SUBSET Nodes]
  /\ entering \subseteq Nodes \X Nodes /\ pending \in [Nodes -> SUBSET Nodes]
  /\ meta \in [Nodes -> FileType] /\ base \in [Nodes -> Seq(Nat)]
  /\ \A n \in Nodes : chunk[n] \subseteq ChunkType
  /\ probing \in [Nodes -> [left : Seq(Nodes), targets : Seq(Nodes), data : Nat]]
  /\ transfers \subseteq TransferType
  /\ job \in [Workers -> JobType]
  /\ clock \in 0..MaxTime /\ writes \in Nat /\ merges \in Nat /\ crashes \in Nat
  /\ fails \in Nat /\ acked \subseteq 1..writes /\ {overwritten, raced, crossed} \subseteq BOOLEAN
  /\ scenario.kind = "stream" => \A n \in Nodes : meta[n].apps = <<>> /\ chunk[n] = {}
  /\ \A w \in Workers : job[w].pc # "idle" /\ job[w].merging => job[w].succs # <<>>

\* In every list of appends those of one client are in the order of their
\* timestamps, and none is listed twice, whatever the order of arrival, the pushes
\* of a stabilisation and the order updates of a merge.
ClientOrder ==
  \A n \in Nodes : LET s == meta[n].apps IN
    \A i, k \in DOMAIN s : i < k /\ s[i].client = s[k].client => s[i].ts < s[k].ts

\* An append that a node lists has its chunk on some running node, whatever writes,
\* lost calls and stabilisations overlap, and joins or merges: the chunk is written
\* before it is listed, and a pull removes only chunks that the other side has.  Three
\* things take that away: a crash; a copy saved over one that was there, whose list it
\* empties; and merges by two primaries, before and after a join or with one hash.
StoredSomewhere ==
  crashes = 0 /\ ~overwritten /\ (merges = 0 \/ (up = Initial /\ HashesDiffer)) =>
    \A n \in up : IDs(meta[n].apps) \subseteq UNION {Stored(m) : m \in up}

\* Every successor has the AppendIDs of n in the order of n, and their chunks unless
\* n misses them itself.
SuccessorsAgree(n) ==
  \A m \in ToSet(Successors(n)) :
    /\ Order(meta[m].apps) = Order(meta[n].apps)
    /\ IDs(meta[m].apps) \cap Stored(n) \subseteq Stored(m)

\* The merge of w ends with nothing else going on, no ring change so far, no merges
\* that overlapped, no call broken and no append added at its node since it began.
MergeEnds(w) ==
  /\ job[w].merging /\ job'[w] = Idle
  /\ up = Initial /\ up' = up /\ fails' = 0 /\ ~crossed'
  /\ transfers' = {} /\ meta'[Home[w]].apps = job[w].apps

\* A merge of a file that is there from the start reconciles: when it has ended its
\* successors agree with the primary, with any appends under way while it ran.  One
\* that overlaps the creation may find the file missing at a successor, pushes it
\* there and does not look at that successor's list again.  Of two that overlap, one
\* may give a successor the list as it was before an append: that append is gone there.
MergeAgrees ==
  [][HashesDiffer /\ scenario.exists =>
       \A w \in Workers : MergeEnds(w) => SuccessorsAgree(Home[w])']_vars

\* The nodes that should have the file once the ring is settled.
ReplicasIn(v) ==
  LET p == Primary(v, FileHash) IN {p} \cup ToSet(GetSuccessors(v, p))
Replicas(n) == ReplicasIn(view[n])

\* With one list in all nodes, and hashes that differ, exactly one node has the file
\* in its primary range; it is where every client sends first, and where it sends are
\* it and its successors: merges and stabilisations start from the node that has the
\* writes.
PrimaryAgreed ==
  HashesDiffer /\ RingSettled =>
    LET primaries == {n \in up : IsPrimary(n)} IN
    \A v \in {view[c] : c \in up} :
      LET targets == FindTargetNodes(v, FileHash) IN
      /\ primaries = {Head(targets)} /\ Head(targets) = Primary(v, FileHash)
      /\ ToSet(targets) \subseteq ReplicasIn(v)
      /\ Size(v) >= ReplicationFactor => Cardinality(ToSet(targets)) = Len(targets)

\* The exceptions: the introducer does not push to a member that joins, and a merge
\* after a join sends the new primary's empty list to the others.
Overlooked(n) == Primary(view[n], FileHash) = Introducer /\ up \ Initial # {}
JoinedAndMerged == merges > 0 /\ up \ Initial # {}

\* Every ring so far had a member for each copy, and it has changed once at most.
Replicable ==
  LET changes == crashes + Cardinality(up \ Initial) IN
  /\ Cardinality(up \cap Initial) >= ReplicationFactor
  /\ changes <= 1 /\ changes < ReplicationFactor

\* Once everything has come to rest, the primary and each of its successors serve
\* every write that was accepted, and serve it once.  Not if writes, merges and ring
\* changes overlapped, or a stabilisation ran for a member that had not all of its
\* list or did not listen yet: a new member that takes itself for the primary
\* downloads the file with its appends, and is pushed the appends once more.
ReplicasServe ==
  HashesDiffer /\ Replicable /\ Quiet /\ ~raced /\ fails = 0 /\ acked # {} =>
    \A n \in up : ~Overlooked(n) => \A r \in Replicas(n) :
      acked = ToSet(GetFile(r)) /\ Cardinality(acked) = Len(GetFile(r))

ReplicasServeUnlessMerged == JoinedAndMerged \/ ReplicasServe
=============================================================================
