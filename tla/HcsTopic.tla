------------------------------ MODULE HcsTopic ------------------------------
(***************************************************************************)
(* The commitment queue over the topic it writes to, and the two ways a    *)
(* receipt is looked up (service/src/hcs.ts: makeHederaSubmit, lookup,     *)
(* mirrorLookup).                                                          *)
(*                                                                         *)
(* A commitment is longer than a topic message, so submit sends it in      *)
(* chunks, one after the other, and any of them may be the last that       *)
(* arrives; after a lost answer the whole commitment is sent again under a *)
(* new transaction.  mirrorLookup puts the chunks together again from the  *)
(* newest pages.  The topic only grows and a page is found by the age of   *)
(* its messages, so what a look-up reads is what stood there at its first  *)
(* page, and a look-up is an operator here, not a process.                 *)
(***************************************************************************)
EXTENDS HcsQueue, FiniteSets

CONSTANTS
    Chunks,       \* chunks of a commitment
    PageSize,     \* messages of a page of the mirror node
    MaxPages,     \* MIRROR_MAX_PAGES
    MaxForeign,   \* bound: messages of others on the topic
    MaxWasted     \* bound: chunks on the topic of submits that failed

ASSUME TopicAssumption ==
    /\ Chunks \in Nat \ {0} /\ PageSize \in Nat \ {0} /\ MaxPages \in Nat
    /\ MaxForeign \in Nat /\ MaxWasted \in Nat

VARIABLES
    topic,     \* the messages of the topic; a place is a sequence number
    landed,    \* where the chunks of the submit in flight are
    results    \* results[r]: what the successful submit of r returned

topicVars == <<topic, landed, results>>

\* A chunk names its transaction, which is known here by its first chunk.
Chunk(r, first, n) == [receipt |-> r, transaction |-> first, number |-> n]

Submits == {m.transaction : m \in ToSet(topic)}
Succeeded == {results[r].transaction : r \in DOMAIN results}
Places(tx) == {i \in DOMAIN topic : topic[i].transaction = tx}

IsForeign(i) == topic[i].receipt = NoReceipt
Wasted == {i \in DOMAIN topic :
              ~IsForeign(i) /\ i \notin ToSet(landed) /\ topic[i].transaction \notin Succeeded}

TopicInit == Init /\ topic = <<>> /\ landed = <<>> /\ results = << >>

-----------------------------------------------------------------------------
(* makeHederaSubmit                                                         *)

\* executeAll: one more chunk arrives.  The last of a poisoned receipt never does.
Land(d) ==
    /\ drain[d].at = "submitting" /\ Len(landed) < Chunks
    /\ drain[d].head \in Poison =>
          Len(landed) + 1 < Chunks /\ Cardinality(Wasted) < MaxWasted
    /\ LET here == Len(topic) + 1
           n == Len(landed) + 1
       IN  /\ landed' = Append(landed, here)
           /\ topic' = Append(topic, Chunk(drain[d].head, landed'[1], n))
    /\ UNCHANGED <<results, vars>>

\* Another program writes a message of its own.
WriteForeign ==
    /\ Cardinality({i \in DOMAIN topic : IsForeign(i)}) < MaxForeign
    /\ topic' = Append(topic, Chunk(NoReceipt, Len(topic) + 1, 1))
    /\ UNCHANGED <<landed, results, vars>>

\* Faulty variant: the first response is reported, as execute() would.
ReturnedFirst == [sequence |-> landed[1], transaction |-> landed[1]]

\* The place of the last chunk, and the transaction of the first.
Returned == [sequence |-> landed[Chunks], transaction |-> landed[1]]

Succeeds(d, r) ==
    /\ Len(landed) = Chunks
    /\ SubmitOk(d, r)
    /\ results' = [s \in DOMAIN results \cup {r} |-> IF s = r THEN Returned ELSE results[s]]
    /\ landed' = <<>>
    /\ UNCHANGED topic

\* A chunk is refused, or all are there and the last one's record cannot be had.
Fails(d) ==
    /\ landed = <<>> \/ Cardinality(Wasted) + Len(landed) <= MaxWasted
    /\ SubmitFails(d)
    /\ landed' = <<>>
    /\ UNCHANGED <<topic, results>>

\* The topic outlives the process; what it was sending is left as it is.
TopicRestart == Restart /\ landed' = <<>> /\ UNCHANGED <<topic, results>>

Queueing ==
    /\ \/ \E r \in Receipts : EnqueueOnly(r) \/ \E d \in Drains : EnqueueAndDrain(r, d)
       \/ \E d \in Drains : Wake(d)
    /\ UNCHANGED topicVars

TopicNext ==
    \/ Queueing
    \/ WriteForeign
    \/ \E d \in Drains :
          Land(d) \/ Fails(d) \/ \E r \in Receipts : Succeeds(d, r)
    \/ TopicRestart

\* A chunk that is sent arrives or its submit fails.
TopicFairness == Fairness /\ \A d \in Drains : WF_<<vars, topicVars>>(Land(d))

TopicSpec == TopicInit /\ [][TopicNext]_<<vars, topicVars>> /\ TopicFairness

-----------------------------------------------------------------------------
(* Looking a receipt up                                                     *)

NotFound == [sequence |-> 0, transaction |-> 0]

\* What the first pages of the mirror node show, newest first.
InReach(pages) == {i \in DOMAIN topic : i > Len(topic) - pages * PageSize}

\* The groups of chunks that are whole in what was read and spell a commitment of r.
Groups(r, pages) ==
    {tx \in Submits :
        LET group == Places(tx) \cap InReach(pages)
        IN  Cardinality(group) = Chunks /\ \A i \in group : topic[i].receipt = r}

\* The group whose newest chunk was read first.
mirrorLookup(r, pages) ==
    IF Groups(r, pages) = {} THEN NotFound
    ELSE LET tx == CHOOSE t \in Groups(r, pages) : \A u \in Groups(r, pages) :
                       \E i \in Places(t) : \A j \in Places(u) : j <= i
         IN  [sequence |-> CHOOSE i \in Places(tx) : topic[i].number = Chunks,
              transaction |-> tx]

lookup(r, pages) ==
    IF r \in ToSet(done) THEN results[r] ELSE mirrorLookup(r, pages)

-----------------------------------------------------------------------------
(* Property                                                                 *)

\* The complete copies of a receipt's commitment, wherever on the topic.
Copies(r) ==
    {[sequence |-> i, transaction |-> topic[i].transaction] :
        i \in {k \in DOMAIN topic : /\ topic[k].receipt = r /\ topic[k].number = Chunks
                                    /\ \A n \in 1 .. Chunks : \E j \in DOMAIN topic :
                                          topic[j] = [topic[k] EXCEPT !.number = n]}}

\* Whatever was lost, sent twice or cut short, a look-up that names a place on the
\* topic names the end of a complete copy of that receipt's commitment; the map
\* and the mirror node name the same one, the newest, also after a restart; and
\* none is missed that lies in the pages read.
LookupTellsTheTruth ==
    \A r \in Receipts, pages \in 0 .. MaxPages :
        LET answer == lookup(r, pages)
        IN  /\ answer # NotFound =>
                   /\ answer \in Copies(r)
                   /\ \A copy \in Copies(r) : copy.sequence <= answer.sequence
            /\ \A copy \in Copies(r) :
                   copy.transaction > Len(topic) - pages * PageSize => answer # NotFound
            /\ r \in ToSet(log) => results[r] \in Copies(r)
=============================================================================
