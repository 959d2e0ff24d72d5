------------------------------ MODULE Delivery ------------------------------
(***************************************************************************)
(* What a job promises to the reader of its output file, whatever the tasks *)
(* and managers of the stages do.  A line that passes every stage is put    *)
(* into the output by a run (an incarnation) of the last task, at most once *)
(* by each, and only after it was read from the source.  A new run skips    *)
(* nothing but what an earlier run has produced.  Batches of output reach   *)
(* the file whole and once, or are lost.                                    *)
(***************************************************************************)
EXTENDS Integers

CONSTANTS
  Tuples,
  Passing,    \* the tuples that every stage lets through, a subset of Tuples
  MaxRun      \* bound on the runs of the last task

VARIABLES
  unread,     \* lines of the source
  run,        \* the current run of the last task
  produced,   \* what each run counts as done
  buffered,   \* output that is not in the file yet
  written     \* the output file

vars == <<unread, run, produced, buffered, written>>

Init ==
  /\ unread = Tuples
  /\ run = 1
  /\ produced = [r \in 1..MaxRun |-> {}]
  /\ buffered = [t \in Tuples |-> 0]
  /\ written  = [t \in Tuples |-> 0]

Read(t) ==
  /\ t \in unread
  /\ unread' = unread \ {t}
  /\ UNCHANGED <<run, produced, buffered, written>>

\* By the current run, or by an earlier one that still drains its pipe.
Produce(r, t) ==
  /\ r <= run /\ t \in Passing \ (unread \cup produced[r])
  /\ produced' = [produced EXCEPT ![r] = @ \cup {t}]
  /\ buffered' = [buffered EXCEPT ![t] = @ + 1]
  /\ UNCHANGED <<unread, run, written>>

WriteBatch ==
  /\ written'  = [t \in Tuples |-> written[t] + buffered[t]]
  /\ buffered' = [t \in Tuples |-> 0]
  /\ UNCHANGED <<unread, run, produced>>

LoseBatch ==
  /\ buffered' = [t \in Tuples |-> 0]
  /\ UNCHANGED <<unread, run, produced, written>>

NewRun(done) ==
  /\ run < MaxRun
  /\ done \subseteq UNION {produced[r] : r \in 1..run}
  /\ run' = run + 1
  /\ produced' = [produced EXCEPT ![run + 1] = done]
  /\ UNCHANGED <<unread, buffered, written>>

Next ==
  \/ \E t \in Tuples : Read(t)
  \/ \E r \in 1..MaxRun, t \in Tuples : Produce(r, t)
  \/ WriteBatch \/ LoseBatch
  \/ \E done \in SUBSET Passing : NewRun(done)

Spec == Init /\ [][Next]_vars
=============================================================================
