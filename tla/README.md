# A TLA+ verification of RainStorm

RainStorm is a stream-processing framework in Go: a leader reads a file from HyDFS, sends its
lines through stages of tasks on worker nodes, and the last stage appends what comes out to a
file in HyDFS. It runs on a replicated file system (HyDFS) and a membership service that were
written for it. This directory holds TLA+ models of its parts (exactly-once delivery, autoscaling, job
submission, membership, the ring and the files of HyDFS), TLC configurations that check them on small
instances, and TLAPS proofs of the main properties of each of them for all instances. Line
numbers refer to the files under `src/`.

## Inventory

| Component | State | Operations | Works with |
|---|---|---|---|
| Exactly-once manager (`exactly_once.go`) | receivedTuples, sentTuples, writeBuffer, pendingAcks | add/remove tuples, REC/SENT/ACK records, retry loop, ACK-flush loop, replay of the WAL | transport, node manager, HyDFS |
| Tuple transport (`rainstorm_server.go`, `rainstorm_client.go`) | open TCP calls | TUPLE and ACK calls and handlers | managers of all tasks of a node |
| Node manager (`nodemanager.go`) | TaskInfos, TaskStatus, outputBuffer, pipes | start, kill, restart; reader goroutine; output flush; metrics | leader, executables |
| Executables (`task_executable/`) | none kept between tuples that matters here | one answer line, an empty answer, or none | node manager by pipes |
| Leader (`leader.go`) | job, topology, assignments, a manager of its own | source loop, health monitor, job submission | node managers by RPC |
| Autoscaling (`resource_manager.go`) | rates, topology versions | scale up and down, WAL merge | leader, node managers |
| Membership (`membership_*.go`, `server.go`, `protocols.go`) | list of members with status, heartbeat, incarnation, time; members waiting for stabilisation | join, heartbeat, gossip or ping-ack, merge, timeouts, clean-up, leave | ring |
| HyDFS files (`hydfs_operations.go`, `grpc_*.go`, `metadata.go`) | blocks and append order per replica | create, append, get, merge | ring, membership |
| Ring (`ring.go`) | replica ranges | push and pull of files when members come and go | membership, HyDFS |
| RPC, CLI, configuration, logging | | encoding, commands, constants | all |

Hard behaviours: every manager has three goroutines besides the handlers, and `Stop` waits for none
of them, so a restarted task shares its WAL with loops of the killed one; the WAL and the output
file are flushed by independent loops; a tuple is retried while its first copy is still being
processed; ACKs carry no task; every call may be lost and HyDFS operations may fail without the
caller noticing; an RPC that timed out is executed all the same; a scale-down, a restart and a new job
use state that others change meanwhile; HyDFS copies a file by many calls while clients write to it
and the ring changes; membership merges decide on a snapshot and write later. `hazards` in
`PROJECT.json` lists them at their lines, each with the properties that would catch it.

What makes a component correct: no tuple is forgotten, ACKs mean what they promise, nothing is
output twice (manager, transport, node manager); replay gives the maps back (WAL); a crashed member
is given up by everybody and handed to the ring, nobody invents news about a member, and a member
that is gone does not come back (membership); nothing is lost or repeated when a stage grows or
shrinks, and the nodes follow the leader's topology (autoscaling); a job's lines end up in its own
output (leader); replicas serve the same writes, in each client's order (HyDFS); all nodes agree on a
file's primary, and every file has its replicas after a stabilisation (ring).

## Modules

| Module | Models |
|---|---|
| `EomLog` | the records of a manager as three sets (REC; last of SENT/ACK is SENT; is ACK) and their replay |
| `WalRecords` | the log record by record and the replay loop; justifies `EomLog` |
| `ExactlyOnce` | leader, tasks, managers, transport, WAL and output file as one pipeline |
| `MCExactlyOnce` | placements, filters and kills for TLC |
| `ExactlyOnce_proofs` | type correctness; flushed ACKs are durable; one output per incarnation; an acknowledged tuple was accepted; nothing is forgotten, in memory and in the WAL |
| `Delivery` | the abstract specification: what a job promises to the reader of its output |
| `DeliveryRefinement` | the mapping under which `ExactlyOnce` implements `Delivery` |
| `DeliveryRefinement_proofs` | that it does |
| `Autoscale`, `MCAutoscale` | scaling of a running job: topology, RPCs, WAL merge, several tasks per stage |
| `Autoscale_proofs` | type correctness, the nodes get the leader's topology, sent tuples are logged, none is lost, none is output twice |
| `Jobs`, `MCJobs` | submission of jobs one after the other or over each other |
| `Jobs_proofs` | type correctness, sources start after their tasks, ACKs find their task, a job's lines are in its own output and none is lost |
| `Membership` | all nodes' entries for one member, and its process |
| `MCMembership` | nodes and modes for TLC |
| `Membership_proofs` | type correctness, nobody is ahead of the member, deaths reach the ring, a final status stays, a crashed member is forgotten |
| `Ring` | the functions that place a file on the ring |
| `Ring_proofs` | what those functions return: ranks, remainders, targets, successors, the one primary |
| `Hydfs`, `MCHydfs` | one file: its copies, clients, merge command and stabilisation |
| `Hydfs_proofs` | type correctness, clients' order, one primary, listed appends are stored, merges reconcile |

`Autoscale` uses the logs of `EomLog`, `Hydfs` the functions of `Ring`, and `MCExactlyOnce` checks
`ExactlyOnce` through `DeliveryRefinement`.

**ExactlyOnce.** An *instance* is a stage with an incarnation number; its manager, pipes, reader,
retry and flush loops are functions of instances, so goroutines of a killed task live on beside its
successor. Actions are the code's: `EmitTuple` (source loop), `TupleRejected/Accepted/Duplicate`
(`handleTupleMessage`), `DeliverAck`, `DeliverDuplicateAck` (`handleACKMessage`), `RunTask`,
`ReadDropped`, `ReadFinalOutput`, `ReadAndForward`, `ForwardReturn` (`readTaskOutput`),
`RetryPendingSends`, `RetrySend`, `FlushSnapshot`, `FlushAppend(Fails)`, `OutputFlush(Fails)`,
`KillTask`, `RestartTask(NoWal)`, `CrashProcess`, `LoseCall`, `LoseAck`. Steps are cut where the code
unlocks or blocks. Without autoscaling the key fixes a tuple's path, so there is one task per stage;
tuple IDs stay the same from stage to stage, as in the executables. HyDFS is external to this
module: an append or fetch works or fails.

**Delivery** (abstract). Lines are read; each run of the last task produces a line that passes every
stage at most once; batches of output are written whole and once, or lost; a new run skips only what
an earlier one has produced. Under the mapping, `produced` is what each incarnation's receivedTuples
has as processed. A duplicate that slips through, a filtered tuple in the output or a REC record that
is written too early would be a step that `Delivery` does not have.

**Autoscale.** The leader's topology and task statuses, the nodes' InputTasks and OutputTargets, the
managers, WALs and flushes of all tasks, and the operation the leader is in: `scaleUpStage` and
`scaleDownStage` change the topology under the lock, then `AddTask`, or `KillTask`, `MergeWal`,
`MergeWalAppend`, then one `UpdateNode` per node. Every RPC may time out; then the operation goes on or
gives up as in the code, and the request is executed late, by `LateRequest`, or never. The health monitor and
`kill_task` run beside it. When and which stage is scaled is left open (`scenario.stages`), since the throughput it
depends on is arbitrary. A kill stops the manager and not the reader: what the executable had answered stays in the
pipe (`drained`), and `readTaskOutput` sends it on to the targets the task had, or writes it to the output, and nobody records
it. Compared to `ExactlyOnce` the steps of a tuple are coarser: a call is answered at once and an answer is
forwarded in one step, but a flush is still cut between snapshot and append.

**Jobs.** One job per submission with one task per stage, each node's current job, its output buffer
shared by all jobs, the leader's manager shared by all jobs, and a source goroutine per job. The steps of `SubmitJob` are
one action each, and the health monitor, late RPCs, the reader goroutines of killed tasks and an output
flush that has read the old job spec come between them. An ACK is looked up in the managers of all tasks of the node
(`ACKOwners`); `mistaken` records that one has ended the retries of another task than the one it was sent to. A flush
of records is one step here. One submission ends before the next begins.

**Ring, Hydfs.** `Ring` gives the code's functions on a membership list (indices count dead entries,
targets skip them). Hashes have 8 bits and may be the same; then `sort.Slice` leaves the order of the two open, and the
model takes one order (`Position`) that all lists share, which is an abstraction: in the code two lists may
differ in it. Which properties need hashes that differ is said by `HashesDiffer`, a premise and not an assumption.

`Hydfs` follows one file through all nodes: metadata with the list of appends, the
base file and the chunks; client writes are transfers to all targets at once, each handled in the steps
the server makes (look, then save; chunk, then list). Merges and stabilisations are goroutines in the code, started by
a command, a request or a change of the ring, and none takes a lock: here each is a *worker* with a job, a worker belongs
to a node (`Home`), and a node with several workers may be in several jobs at once. A job goes through its steps call by call:
`GetPrimaryKeyRange` and `FindSuccessors`, which read the list separately, then for each successor `PushFetch`, `PushFile`,
`PushAppend`, `PushDone`, then `PullFetch` (look whether the file is here), `ReceiveFileFromNode` (download it), `AddFile` (enter
it), `PullAppends`; and for a merge `ensureRemoteFileInSync`, `syncRemoteAppendOrder`, `UpdateAppendOrder`. Crash, join and
the ways to learn of them change the lists. A new member gets its list from the introducer (`Join`), enters one member after the
other and starts a goroutine for each, which sees the list as far as it has got (`EnterMember`), then empties its folder
(`clearHydfsFolder`, after these goroutines have started) and only then answers calls (`Serving`). What the
membership service does in between is in `Membership`; here a node learns of a death by its own timeout
or from another node, and of a new member from a node that knows it. Data are the numbers of the writes that brought
them. Three variables only record history: `raced`, that a write, merge or ring change began while another was going on
or that a stabilisation ran for a member that was still joining; `crossed`, that a merge began while another job was under way;
and `overwritten`, that a copy of the file has been saved or entered over one that was there. Properties whose
guarantee the code does not give afterwards name them.

**Membership.** Merge and timeouts treat every member by itself, so the module follows one member,
the Subject, through the lists of all nodes. A merge is two steps, the snapshot (`Receive`) and the
write (`Merge...`), and others may come between. Time is ages in ticks of the check interval: a
tick passes when every due timeout has been taken, the Subject has beaten (gossip) and every message
was handled or lost. A `LastUpdated` that was not sent is the zero time, older than every timeout.
`FailedPendingStabilization` is the set `failed`; `NewlyJoinedPendingStabilization` only guards work
of the ring and is left out. Which node is sent to is free, which covers the stale `nodeOrder`.

## Runs

`PROJECT.json` names the properties and, for each, a mutant of the code that TLC catches.

| Run | Instance | Shows |
|---|---|---|
| `eo_restart` | 2 stages, 1 tuple, kill of task 1, late ticks, 1 lost call | unaccepted outputs stay in sentTuples or come back there after a kill, and their records are in the WAL; flushed ACKs are durable; entries are removed only for accepted tuples |
| `eo_failures` | 1 stage, 2 tuples, one filtered; kill, HyDFS failure, exit of the executable, lost call | at most one copy per incarnation; no ACK without acceptance; implements `Delivery` |
| `eo_live` | 1 stage, 2 tuples, one without an answer; kill, lost call, no bound on retries, fairness | delivery unless killed; retrying ends |
| `wal_records` | all record sequences up to the bound | replay gives the maps; the summary of `EomLog` is exact |
| `mem_detect` | 3 nodes; gossip with suspicion, ping-ack without | nobody ahead; deaths handed on; final status undone only by an overlapping merge; a crash is detected in bounded time (gossip, with a long clean-up) |
| `hydfs` | 3 nodes and 2 that may join, 7 workers, replication factor 2, up to 3 writes, up to two merges that may overlap, a crash or join, a broken call | clients' order; listed appends are stored; one primary in a settled ring; merges of a file that was there, and that do not overlap, agree; replicas serve all accepted writes |
| `scale` | 2 stages, up to 2 tasks in each and 1 that may be added; scale-ups and scale-downs of one stage or of both, kill, late RPC (also in a later operation), lost call | nothing lost or repeated; sends are logged; topologies agree |
| `jobs` | a job of 1 and one of 2 stages, in either order; late RPC, restart and lost call, or a submission over a running job | outputs are kept apart; no line lost; sources start after their tasks |
| `eo_lost`, `eo_shared`, `hydfs_merge`, `scale_lost` | | violations, below |

Bounds: two stages give a first, a forwarding and a last hop; one kill, one lost call and one retry
per manager already give overtaking, duplicates, early ACKs and overlap of two incarnations; two
tuples are needed where the mark of one could hide the other. In `mem_detect` two heartbeats and two
incarnations distinguish old from new, timeouts of one tick with a clean-up after two keep their
order in the code (2 s, 2 s, 10 s) and satisfy `CleanUpIsLong`, two messages or merges at a time give every overlap of two
writers, and two sends a tick let a rumour pass a node while another is timing out. Ping-ack with
suspicion exceeds the time budget; its merge rule is checked under gossip and its messages without
suspicion, and the proofs cover it. In `hydfs`, a replication factor of 2 (3 in the code) in a ring of
three leaves a node without a copy, so that a crash and a join each move a replica; the two joiners
come before and after the second node, one taking over as primary and one as replica; the primary and the node that may
join before it have two workers each, so that two merges with an append, or two of the goroutines that a joiner starts, overlap
(`scenario.workers`: where an append comes beside a join, each node has one worker); a clock of two
seconds gives appends with the same and with different timestamps. In `scale`, one tuple is
enough because tuples meet only in the WAL, whose records are per tuple; its hash sends it to another
task when the stage has another size. Scenarios (a constant of `Hydfs`, `Autoscale` and `Jobs`) name
the budgets that a behaviour has together: each of them is explored in full. Deadlock is checked in
`hydfs`, where a behaviour may end only when every write, merge and stabilisation has ended. Elsewhere it
is not: with bounded retries and heartbeats the systems may stop. In `jobs` no node has two tasks that forward, for which a
job needs three stages and TLC more than its time: `mistaken` stays false there, `eo_shared` shows what such a placement does, and
the theorems on `Jobs` cover it. In `scale` no kill comes beside a scale-down, which exceeds TLC's time as well and is left to the
theorems.

What the properties leave out, because the code gives no such guarantee: in `mem_detect`, a clean-up that is shorter
than a rumour can live (`CleanUpIsLong`, a condition of `CrashDetected`). The code checks every second, with timeouts of 2, 2 and
10 s, which satisfies it in groups of up to five members. In a larger group the rumour may be handed round for
ever: a node that has cleaned the crashed member up enters it again as suspect, on the word of one that is about
to give it up, until the next has cleaned up too. With three other members, timeouts of one tick and a clean-up
after 2 or 3, TLC finds this by the time `DetectionBound` is over, and after 4, where the condition
begins, it finds nothing. In `hydfs`, writes that
overlap a create, a ring change, a job or a broken call may be missing on a replica
(`raced`, `fails`), and so may files of the introducer after a join (`Overlooked`). A new member that starts a stabilisation
while it has only a part of its list may take itself for the primary of a file that it becomes a replica of: it downloads the file with its
appends, and is then pushed the appends by the real primary, since it lists none, and serves them twice; such behaviours
are `raced` as well. Two members with the same hash may both be primary of a file (`HashesDiffer`). `ReplicasServe` speaks of rings that
had a member for each copy and have changed once at most (`Replicable`), because TLC refutes it beyond: with fewer
members than `ReplicationFactor` a node is its own target twice and stores an append to a stream twice (2 members, factor 3);
after two crashes, the second while the first is still in the lists as dead, the window counts the dead, so that the
new primary may not find itself concerned (4 members with factor 2; 6 with factor 3); a replica that the introducer has not
served when it entered it may be the primary once the introducer has crashed; and a single copy goes with its node. A merge is known to reconcile
only a file that was there before (`MergeAgrees`), only in a ring without changes, and only if no other merge overlaps it
(`crossed`): of two, the one that began earlier carries the older list, may put it over what the other has left at a successor, and an
append that was listed in between is gone there, without either merge noticing. A listed append may lose its
last chunk (`StoredSomewhere`) in three ways: by a crash; after two overlapping creates, since the second copy
empties the list that the first had got, and two merges then remove from each side what the other still
listed (a counterexample of 26 steps, with two creates and two merges); and when a joiner is primary while the old
primary has not heard of it, and both merge (27 steps, with one join and three merges). The instance of `hydfs` is
smaller than these two counterexamples; the conditions `~overwritten` and `up = Initial` come from them, and the
proof covers every instance. In `scale`, tuples
acknowledged as duplicates before they are durable, or logged by a flush that outlives its task, or written to the output by
the reader of a removed task of the last stage, whose answer nobody has recorded and the survivor gives again
(`excused`), tuples taken over by a survivor without a WAL when that is removed too (`unlogged`),
operations that give up (`aborted`), and, with a second scale-down, RPCs that time out: a merge that is
executed late may find its survivor removed as well, and then nobody takes the tuples over. In `jobs`, requests and flushes of the old job that take effect
after the new topology is in place (`stale`), jobs with common tuple IDs that overlap (`Apart`), and ACKs that have ended the wrong task's retries (`mistaken`).

Fairness (`FairSpec` of `ExactlyOnce`): goroutines the code starts keep being scheduled and calls
that are not lost are answered (weak fairness); the retry ticker of a manager that is not stopped
fires for ever and every old entry is in its snapshot (strong fairness per tuple, since the loop is
idle only now and then). Nothing is assumed of kills, losses, exits, failing appends, or of a
stopped loop beyond its current iteration. The losses are finite in number, as the retries need.

### Disagreements found

- `eo_lost`: a duplicate is acknowledged before the tuple is durable; with a kill the tuple is lost
  (README.md:52, 55).
- `eo_shared`: with more tasks than worker nodes, two stages share a node, and the ACK for a tuple's first
  hop may be taken for its second (the ID is the same, the manager is found by the ID): the entry of the
  second hop goes although its call was lost, and nothing sends the tuple again (rainstorm_server.go:224,
  README.md:55). The theorems on acceptance name the placements for which this cannot happen.
- `hydfs_merge`: a joiner that becomes a file's primary downloads base and appends as one file and
  lists no appends (ring.go:210 expects them to be added later); a merge replaces the replicas' lists
  by its empty one, and they stop serving the appends (README.md:149).
- `scale_lost`: a flush that is under way when a task is removed reaches its WAL after the merge has
  fetched it; the senders get their ACKs and nobody retries what was in flight (README.md:72).

Other weaknesses that the models contain, without a run of their own: the output buffer and the REC record
are flushed independently, so that a kill between them outputs a tuple twice, once per incarnation;
an executable that exits stays a zombie that signal 0 finds alive and is never restarted; the
next heartbeat overwrites a voluntary leave; a membership merge can undo a final status entered since its
snapshot; in a group of more than five, gossip may keep a crashed member among the suspects for ever (above); the health monitor can restart a task of the job that is being replaced (the comment at
leader.go:115 wants "a clean slate"); a merge during a file's creation may find it missing at a
successor; it has the file pushed there and does not look at that successor's list (hydfs_operations.go:474), and an append that
the primary has refused, since it had no file yet, may stay listed there only; the two overlapping merges, the joiner that serves
appends twice and the two primaries with one hash named above; a tuple that the reader of a removed task of the last stage and the
survivor both write; the late merge of a second scale-down named above; in a job with one stage, the leader sends a
removed task's tuples to the survivor before the merge, so that they may be output again (the instances
of `scale` have two stages).

## Proofs

For every number of stages, tuples, tasks, nodes, jobs and incarnations, every placement and filter, and
every bound or scenario. Assumptions are the named ASSUMEs of the modules (sorts and signs of the constants) and
what a theorem's statement names:

- `HashesDiffer`, in `PrimaryAgreed`, `MergeAgrees` and, where merges are concerned, in `StoredSomewhere`: SHA-1 is taken modulo 2^8, so that it is a
  premise of these properties; the other properties of `Hydfs` hold without it.
- `OwnNodes`, a node per stage (`AckedAccepted`, `InFlight`, `DurableWal`), and `StagesApart`, no node with tasks of
  two forwarding stages (`SentTuplesAreLogged`, `NoTupleLost`). Without them an ACK, which carries no task, may be
  taken for another hop, and the properties do not hold (`eo_shared`). They are assumptions about the placement
  that the leader makes when there are enough nodes; every placement of a job of at most two
  stages satisfies `StagesApart`. For `Jobs` the same condition is `ForwardersApart`, and `AcksFindTheirTask` proves that it keeps
  `mistaken` false.
- The recovery and durability properties are conditional on no HyDFS operation having failed, and the properties
  of `Autoscale` and `Jobs` on what is named under Runs.
- `ScaledOutputOnce` is about jobs of more than one stage; with one stage the property does not hold (see above).

**ExactlyOnce.**
- `TypeCorrect`: `TypeOK`, which includes the roles of the leader and of the last stage, is
  inductive as it stands.
- `OutputOnce`: `outputBuffer[t] + outFile[t]` never exceeds the number of incarnations of the last
  stage that are done with t. An instance takes a tuple once ("none" to "pending"), so it is in at
  most one of stdin, stdout and "processed": this bookkeeping is what makes the count inductive.
- `FlushedAckDurable`: wherever a pending ACK is (pendingAcks, a flush in progress), its REC record
  is in the same place or already in the WAL.
- `AckedAccepted`: every ACK under way is for an accepted tuple, because each of its origins is
  (pendingAcks, flushes, duplicates), and acceptance is never withdrawn.
- `InFlight`, `DurableWal`: proved together. A restart restores `sent` from the WAL, so memory needs
  the WAL, and a flush moves records from the buffer to the WAL, so the WAL needs the buffers of
  all incarnations: whatever REC record is in a buffer or a flush, the SENT record of the same
  unaccepted tuple is in the same place or durable (SENT is logged before REC).
- `PipelineImplementsDelivery`: each step maps to a step of `Delivery` or a stutter. The invariant (`PathInv`) adds to the
  bookkeeping of `OutputOnce` that a tuple which is anywhere past a stage has been read and let through by all stages
  before it, so that an output is one `Delivery` may produce, and that the last stage's REC records, which a new run
  starts from, are for tuples an earlier run has produced.

**Membership.**
- `MembershipTypeCorrect`; `NobodyAhead`: every copy of the entry, in lists, messages, snapshots and
  received entries of pending merges, is bounded by the member's own counters, which only grow.
- `DeathsReachRing`: a death in a list or in the snapshot of a pending merge is in
  `FailedPendingStabilization`, or the member had left. The snapshots are needed because a merge may
  write them back, and that copies with status voluntary_leave are honest is needed because a death
  received over one is not handed on.
- `FinalStaysFinal`: an action property. The merge rules are shown case by case to keep a final status over which
  they were decided; that a node which has the member as dead is never about to enter it as new
  needs an invariant about joins.
- `CrashIsDetected`: `CrashDetected`, under its condition on the clean-up. An entry lives on after the crash only by being handed
  to a node that takes it as news, and no node takes the same news twice. So an entry that is still alive
  (then, when none is, suspect) c ticks after the crash has been with at least c / (timeout + 1) observers
  (`Chain`, by counting), which bounds c. A node that has been with it is left out of the count when it has
  cleaned the member up, as it may take the entry anew; the same count, begun when that node entered the death, shows that the
  entry is gone by then, and this is what `CleanUpIsLong` is for. The invariant (`AfterCrash`) speaks of the lists
  at the last tick: within a tick a merge may write an older snapshot back, so that only what the present lists have come from
  (`Grown`, `Known`) can be counted.

**Jobs.**
- `JobsTypeCorrect`; `StreamsAfterTasks`: an action property; while a submission starts the tasks of a topology, those that
  are not among its pending ones have been started, whatever requests are executed late, and what is used stays used.
- `AcksFindTheirTask`: only tasks that forward have sent anything, and ACKs are sent only to them; so the managers of a node
  among which the ID is looked up are those of one task, the right one, if no node has two.
- `JobsKeepTheirOutput`, `JobsLoseNoLine`: both from one invariant. As long as nothing is `stale` or `mistaken`, a line goes through its
  job in one direction: the invariant gives the phases in which a node's current job may differ from the one its
  tasks belong to, ties every entry of a manager, pipe, buffer and file to a job that has the line and to
  an origin upstream, and counts the line's copies (one in the last task, the node's output buffer or the file).
  A line that is in no place upstream is shown to be in a later one, which gives the second theorem.

**Autoscale.**
- `AutoscaleTypeCorrect`: with the roles of the operation's fields and of each request, since what
  `op.task` is depends on the phase.
- `TopologyReachesNodes`: while no request is late and nothing has timed out or given up, the tasks that run are
  the leader's up to the one being added or removed, and a node that still has old neighbours is in `op.left` of the
  update in progress. The health monitor's restarts keep this because they look at the topology again, and a removed
  task is killed only while its removal is the operation in progress.
- `SentTuplesAreLogged`: every ACK on its way, and every ACK record in a WAL, buffer or flush, is for a tuple that a task
  of the next stage has durably (or that is `excused`); a sent entry is then logged in the task's own records, or in a
  merge that is about to be appended. Durable takes the place of accepted, because a kill makes a task forget
  what it has only accepted.
- `NoTupleLost`: `InFlightKept`. A tuple is *secured* at a task that has sent it and has a durable SENT record for it, its own
  or one it takes over, or by the WAL of a task that is going to be merged. The invariant (`Onward`) is that a tuple
  which is not in the output is secured somewhere or still the leader's, and that for every stage which has it durably, that
  stage or a later one has it secured. An ACK that ends a retry says that the next stage has the tuple durably,
  so it is secured from there on (`OnwardRule`); a REC record becomes durable together with the SENT record of the
  same tuple (`RecordsTogether`); and the survivor of a merge runs when the merge comes (`SurvivorRuns`).
- `ScaledOutputOnce`: `OutputOnce`. The last stage goes through three phases: all its tasks run (`Whole`); one of its two
  tasks has been killed and not been merged (`Handover`); one is left. In the first two every sender still routes by the
  stage as submitted (`Routes`), so that a task of it has received and recorded only what the hash gives it (`ByHash`), and calls
  to the killed task fail. A tuple in the output, unless `excused`, is in the receivedTuples of a running task of the
  stage or, during the handover, in the WAL that is about to be merged (`Once`); so whoever accepts a tuple is the only one that
  could have had it, and has not. What the reader of a removed task of
  an earlier stage still sends carries the targets that the task had, and is a tuple such a task could have sent itself.
  That the hash always picks one of the targets is a lemma about ranks (`SelectPicks`).

**Ring, Hydfs.**
- `HydfsTypeCorrect`: by `AllOK`, which adds to `TypeOK` what calls and jobs are like at each step (a file call carries no
  appends, a stabilisation has successors left, a merge is what works on lists), and needs `Ring_proofs` for the sequences
  that the ring functions return.
- `ClientsKeepTheirOrder`: a list changes only by `AppendToFile`, or is replaced by an empty one or by the list a
  merge has carried since it began (`ListSteps`); so lists and carried lists are ordered together.
- `RingAgreesOnPrimary`: an index is a rank, and ranks are a bijection onto 0..size-1 (by counting, `RankExists`);
  the intervals between predecessors cut the circle of hashes, so that one member's range holds the file
  (`OnePrimary`), and the indices after the primary's lead to distinct members, alive ones among its successors
  (`TargetsOf`, `SuccessorsOf`).
- `ListedIsStored`: `StoreSteps` gives the ways in which a step can change lists and chunks, `DropSteps` and
  `JobSteps` what a job may add to its removals and how it goes on. Without merges (`KeptOK`), every listed append has a node that
  keeps it: the node lists it, has its chunk, and none of its jobs is about to remove it, since a pull removes only what its node
  did not list. With
  merges in a ring without changes (`PrimaryOK`), all jobs are the primary's, of however many workers: the others remove nothing, a merge
  replaces only their lists, by one the primary had, and what the primary is about to remove another node has.
  That a merge never goes to the primary itself is a lemma about the ring (`NotItsOwnSuccessor`).
- `MergesReconcile`: `MergeAgrees`. As long as the ring is as it was, no call is lost and no merges overlap, one job at most is
  under way (`OneJob`), and all replicas keep the
  file, so that no append is refused, and what a client sends goes to all replicas (`ReplicasKeepFile`,
  `ReplicasGetAll`; the successors of the primary are targets, `SuccessorsAreTargets`). So an append that still
  reaches a successor which the merge has passed is listed by the primary or on its way there; if the primary's
  list has not grown since the merge began, the append is in the order that the merge has left at the successor, and
  `AppendToFile` does not list it again. The invariant (`PassedAgree`) states the agreement for the successors
  passed; the merge passes one only when it has the order (`JobMoves`). At the end all are passed.

Only model-checked: liveness (`DeliveredUnlessKilled`, `RetriesEnd`); the replay loop
(`wal_records`, a fold over a sequence, that is induction over data); and that the replicas serve every accepted write once
at rest (`ReplicasServeUnlessMerged`), whose invariant has to follow the several stabilisations a new member may be in.
`Ring_proofs` has what such a proof needs of the ring: the replicas are the nearest members (`ReplicasAreNearest`), a member
that goes or comes changes them by one at most (`OneComesNear`), and the primary finds itself concerned by it (`MemberLost`,
`MemberNew`, `PrimaryNew`).

## Not modelled, and the plan

Done: all modules of the plan, and for each state machine the proof of every safety property that its runs check, except
`ReplicasServeUnlessMerged`.

Not modelled: a switch of the membership protocol while running (the modes are checked one by one); a crash of a
node that runs tasks, from which the code does not recover; two SubmitJob calls at a time;
task IDs made twice in one second; the clean-up of files outside a node's range, which is disabled in
the code; several files and their order in a stabilisation, since copies of different files do not
touch each other; data races on maps and slices that are read without their lock.

Left out for good: encoding and sizes of messages, logging, bandwidth counters, configuration, the
generated gRPC code, and what the executables compute.
