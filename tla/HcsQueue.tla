------------------------------ MODULE HcsQueue ------------------------------
(***************************************************************************)
(* The background queue that anchors receipts on a Hedera Consensus        *)
(* Service topic (service/src/hcs.ts, class HcsQueue).                     *)
(*                                                                         *)
(* enqueue pushes and calls drain, which runs up to its first await before *)
(* enqueue returns.  A drain takes the head of the queue, awaits submit,   *)
(* and shifts the queue afterwards: in between, other enqueues run, each   *)
(* calling drain again.  `running` is all that keeps a second drain from   *)
(* starting, so a drain is a process here, and there is room for several.  *)
(***************************************************************************)
EXTENDS Naturals, SequencesExt

CONSTANTS
    Receipts,
    Poison,       \* receipts whose submit always fails
    Drains,       \* identities for concurrent activations of drain
    NoReceipt,
    MaxFailures,  \* MAX_CONSECUTIVE_FAILURES
    DoneMax,      \* DONE_MAX
    MaxRestarts   \* bound: how often the process restarts

ASSUME QueueAssumption ==
    /\ Poison \subseteq Receipts
    /\ NoReceipt \notin Receipts
    /\ MaxFailures \in Nat \ {0}
    /\ DoneMax \in Nat \ {0}
    /\ MaxRestarts \in Nat

VARIABLES
    q,          \* receipts waiting, the one being submitted at the head
    running,    \* HcsQueue.running
    drain,      \* drain[d]: the local state of activation d
    done,       \* the `done` map, oldest entry first
    log,        \* history: receipts in the order their submit succeeded
    accepted,   \* history: every receipt ever enqueued
    lost,       \* history: receipts that were waiting when the process died
    restarts

vars == <<q, running, drain, done, log, accepted, lost, restarts>>

Idle == [at |-> "off", head |-> NoReceipt, fails |-> 0]

Activation ==
    [at: {"off", "submitting", "sleeping"},
     head: Receipts \cup {NoReceipt}, fails: 0 .. MaxFailures - 1]

TypeOK ==
    /\ q \in Seq(Receipts)
    /\ running \in BOOLEAN
    /\ drain \in [Drains -> Activation]
    /\ done \in Seq(Receipts)
    /\ log \in Seq(Receipts)
    /\ accepted \subseteq Receipts
    /\ lost \subseteq Receipts
    /\ restarts \in Nat

Init ==
    /\ q = <<>>
    /\ running = FALSE
    /\ drain = [d \in Drains |-> Idle]
    /\ done = <<>>
    /\ log = <<>>
    /\ accepted = {}
    /\ lost = {}
    /\ restarts = 0

-----------------------------------------------------------------------------
(* Actions                                                                  *)

\* Map.delete: a receipt has one entry at most.
Forget(r) ==
    IF r \in ToSet(done)
    THEN RemoveAt(done, CHOOSE i \in 1 .. Len(done) : done[i] = r)
    ELSE done

\* Faulty variant: room is made only once the map is over its size.
RememberOneMore(r) ==
    LET kept == Forget(r)
    IN  IF Len(kept) <= DoneMax THEN Append(kept, r)
        ELSE Append(SubSeq(kept, 2, Len(kept)), r)

\* remember(): the oldest entries make room, the new one goes last.
Remember(r) ==
    LET kept == Forget(r)
    IN  IF Len(kept) < DoneMax THEN Append(kept, r)
        ELSE Append(SubSeq(kept, Len(kept) - DoneMax + 2, Len(kept)), r)

\* Array.shift: nothing happens to an empty array.
Shifted == IF q = <<>> THEN q ELSE Tail(q)

Rotated == Append(Tail(q), Head(q))

\* The head of the drain's loop: submit what is now at the head, or stop.
Loop(d, queue, fails) ==
    /\ drain' = [drain EXCEPT ![d] =
          IF queue = <<>> THEN Idle
          ELSE [at |-> "submitting", head |-> Head(queue), fails |-> fails]]
    /\ running' = (queue # <<>>)

\* enqueue while a drain is active: its own call of drain returns at once.
EnqueueOnly(r) ==
    /\ r \notin accepted /\ running
    /\ accepted' = accepted \cup {r}
    /\ q' = Append(q, r)
    /\ UNCHANGED <<running, drain, done, log, lost, restarts>>

\* Faulty variant: drain starts whether or not one is running.
EnqueueAlwaysDrains(r, d) ==
    /\ r \notin accepted /\ drain[d] = Idle
    /\ accepted' = accepted \cup {r}
    /\ q' = Append(q, r)
    /\ Loop(d, q', 0)
    /\ UNCHANGED <<done, log, lost, restarts>>

\* enqueue that starts a drain, up to the await of its first submit.
EnqueueAndDrain(r, d) ==
    /\ r \notin accepted /\ ~running /\ drain[d] = Idle
    /\ accepted' = accepted \cup {r}
    /\ q' = Append(q, r)
    /\ Loop(d, q', 0)
    /\ UNCHANGED <<done, log, lost, restarts>>

\* The awaited submit succeeded: remember the receipt, shift, go on.
SubmitOk(d, r) ==
    /\ drain[d].at = "submitting" /\ drain[d].head = r /\ r \notin Poison
    /\ log' = Append(log, r)
    /\ done' = Remember(r)
    /\ q' = Shifted
    /\ Loop(d, q', 0)
    /\ UNCHANGED <<accepted, lost, restarts>>

\* Faulty variants: the head is retried for ever; a failing head is dropped.
SubmitFailsForever(d) ==
    /\ drain[d].at = "submitting"
    /\ drain' = [drain EXCEPT ![d] =
          [at |-> "sleeping", head |-> NoReceipt, fails |-> 0]]
    /\ UNCHANGED <<q, running, done, log, accepted, lost, restarts>>

SubmitFailsDrops(d) ==
    /\ drain[d].at = "submitting"
    /\ LET fails == drain[d].fails + 1
       IN  /\ q' = IF fails >= MaxFailures /\ Len(q) > 1 THEN Tail(q) ELSE q
           /\ drain' = [drain EXCEPT ![d] =
                 [at |-> "sleeping", head |-> NoReceipt,
                  fails |-> IF fails >= MaxFailures THEN 0 ELSE fails]]
    /\ UNCHANGED <<running, done, log, accepted, lost, restarts>>

\* It failed (or landed and its answer was lost): after MaxFailures in a row the
\* head goes to the back if anything else waits; then the drain sleeps retryMs.
SubmitFails(d) ==
    /\ drain[d].at = "submitting"
    /\ LET fails  == drain[d].fails + 1
           giveUp == fails >= MaxFailures
       IN  /\ q' = IF giveUp /\ Len(q) > 1 THEN Rotated ELSE q
           /\ drain' = [drain EXCEPT ![d] =
                 [at |-> "sleeping", head |-> NoReceipt,
                  fails |-> IF giveUp THEN 0 ELSE fails]]
    /\ UNCHANGED <<running, done, log, accepted, lost, restarts>>

Wake(d) ==
    /\ drain[d].at = "sleeping"
    /\ Loop(d, q, drain[d].fails)
    /\ UNCHANGED <<q, done, log, accepted, lost, restarts>>

\* The process dies: the queue and the map were only in memory.
Restart ==
    /\ restarts < MaxRestarts
    /\ restarts' = restarts + 1
    /\ lost' = lost \cup ToSet(q)
    /\ q' = <<>> /\ done' = <<>>
    /\ running' = FALSE
    /\ drain' = [d \in Drains |-> Idle]
    /\ UNCHANGED <<log, accepted>>

Next ==
    \/ \E r \in Receipts : EnqueueOnly(r)
    \/ \E r \in Receipts, d \in Drains : EnqueueAndDrain(r, d)
    \/ \E d \in Drains :
          (\E r \in Receipts : SubmitOk(d, r)) \/ SubmitFails(d) \/ Wake(d)
    \/ Restart

Spec == Init /\ [][Next]_vars

\* An awaited submit settles and a timer fires (the runtime), and a receipt the
\* topic accepts is not refused for ever: an outage ends.
Fairness ==
    /\ \A d \in Drains :
          /\ WF_vars(SubmitFails(d) \/ \E r \in Receipts : SubmitOk(d, r))
          /\ WF_vars(Wake(d))
    /\ \A r \in Receipts \ Poison : SF_vars(\E d \in Drains : SubmitOk(d, r))

FairSpec == Spec /\ Fairness

-----------------------------------------------------------------------------
(* Properties                                                               *)

Active(d) == drain[d].at # "off"

\* However enqueues fall between a drain's awaits there is one drain at most, it
\* runs whenever something waits (no wakeup is lost), and the receipt a submit
\* was started for is still the head when the submit returns and shifts.
OneDrainOwnsTheHead ==
    /\ \A d, c \in Drains : Active(d) /\ Active(c) => d = c
    /\ running <=> \E d \in Drains : Active(d)
    /\ q # <<>> <=> running
    /\ \A d \in Drains : drain[d].at = "submitting" => q # <<>> /\ drain[d].head = Head(q)

\* Every receipt ever enqueued is at exactly one place: once in the queue, or
\* committed, or lost to a restart ("Only a successful submit removes a message").
NothingDropped ==
    /\ accepted = ToSet(q) \cup ToSet(log) \cup lost
    /\ ToSet(q) \cap ToSet(log) = {} /\ lost \cap (ToSet(q) \cup ToSet(log)) = {}
    /\ \A i, j \in 1 .. Len(q) : q[i] = q[j] => i = j
    /\ \A i, j \in 1 .. Len(log) : log[i] = log[j] => i = j

\* The map holds the latest commitments, never more than DoneMax, in order.
DoneIsLatest ==
    /\ Len(done) <= DoneMax
    /\ Len(done) <= Len(log)
    /\ done = SubSeq(log, Len(log) - Len(done) + 1, Len(log))

\* The queue implements the abstract log.
Abstract == INSTANCE CommitLog WITH pending <- ToSet(q), committed <- ToSet(log)

ImplementsCommitLog == Abstract!Spec

\* A receipt the topic accepts is committed even if others never are, unless the
\* process restarts: the poisoned ones are rotated out of its way.
PoisonDoesNotBlock == Abstract!EventuallyCommitted
=============================================================================
