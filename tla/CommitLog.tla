------------------------------ MODULE CommitLog -----------------------------
(***************************************************************************)
(* What HCS anchoring promises (service/src/hcs.ts): a receipt handed over *)
(* is pending until it is committed; a commitment is never undone, nothing *)
(* pending is dropped while the process lives, and whatever the topic can  *)
(* accept is committed in the end.  Nothing is said of queues, retries or  *)
(* order.  A restart loses what is pending: the queue is in memory.        *)
(***************************************************************************)
CONSTANTS
    Receipts,
    Poison       \* receipts the topic never accepts

VARIABLES pending, committed

Init == pending = {} /\ committed = {}

Enqueue(r) ==
    /\ r \notin pending \cup committed
    /\ pending' = pending \cup {r}
    /\ UNCHANGED committed

Commit(r) ==
    /\ r \in pending \ Poison
    /\ pending' = pending \ {r}
    /\ committed' = committed \cup {r}

Restart ==
    /\ pending' = {}
    /\ UNCHANGED committed

Next == (\E r \in Receipts : Enqueue(r) \/ Commit(r)) \/ Restart

Spec == Init /\ [][Next]_<<pending, committed>>

\* Every receipt the topic accepts leaves the pending set, by being committed
\* unless a restart came first.
EventuallyCommitted ==
    \A r \in Receipts \ Poison : r \in pending ~> r \notin pending
=============================================================================
