--------------------------- MODULE ProviderCache ---------------------------
(***************************************************************************)
(* How the service knows how old its data is (service/src/data/provider.ts *)
(* and metrics.ts).  A chain's head and the answers of its subgraphs are   *)
(* cached for different times; a subgraph's answer is classified against   *)
(* the head its request had in hand, and keeps that class for as long as   *)
(* it is cached.  Requests and admin snapshots run concurrently and may    *)
(* miss a cache together.                                                  *)
(*                                                                         *)
(* A scan takes its chains one after the other, each as here, and chains   *)
(* share nothing: the model is of one chain.  The code keeps instants and  *)
(* compares differences of them only, so the model keeps their ages, which *)
(* a Tick increases: a head of age a was the chain's a ticks ago, and a    *)
(* tick is a block.  An entry's expiry is the life it has left.            *)
(***************************************************************************)
EXTENDS Integers

CONSTANTS
    Requests,     \* requests in the process at once
    Deployments,  \* the chain's subgraph deployments that are not "down"
    Checks,       \* what an admin snapshot checks: rails' health, identity
    HeadTtl, ChainTtl,    \* HEAD_TTL_S, CHAIN_TTL_S
    CheckTtl,             \* CheckTtl[c]: HEALTH_TTL_S or IDENTITY_TTL_S
    Messari, Substreams,  \* THRESHOLDS
    FetchMax,     \* the longest an upstream call takes to answer or fail
    Lags,         \* how far behind the chain a source's answer may be
    Sentinel,     \* Number.MAX_SAFE_INTEGER
    LongAgo       \* bound: ages in the histories stop growing here

VARIABLES
    headCache,    \* headCache of the chain; absent is the same as expired
    chainCache,   \* chainCache of the chain, likewise
    checkCache,   \* Metrics.healthCache and identityCache
    req,          \* req[r]: the local state of request r
    deployments,  \* Metrics.deployments: the last outcome recorded of each
    answer,       \* history: the answer the last step gave, if it gave one
    headFailed    \* history: age of the last head read that failed

caches == <<headCache, chainCache, checkCache>>
vars == <<caches, req, deployments, answer, headFailed>>

\* The longest a head can have been in use behind an answer: its own call, its
\* cache, the subgraphs' call, their cache, and the sink's call.  An entry no
\* longer serves in the tick it expires in.
Staleness == (HeadTtl - 1) + (ChainTtl - 1) + 3 * FetchMax

ASSUME ProviderAssumption ==
    /\ HeadTtl \in Nat \ {0} /\ ChainTtl \in Nat \ {0}
    /\ CheckTtl \in [Checks -> Nat \ {0}]
    /\ Messari \in Nat /\ Substreams \in Nat
    /\ FetchMax \in Nat
    /\ Lags \subseteq Nat
    /\ Sentinel \in Nat /\ LongAgo \in Nat
    /\ Sentinel > Staleness + Messari /\ Sentinel > Staleness + Substreams
    /\ LongAgo > Staleness /\ LongAgo > ChainTtl

Freshness == {"fresh", "stale", "unavailable"}

\* The ages of a head's timestamp and block.
Head == [ts: Int, block: Int]
HeadOf(age) == [ts |-> age, block |-> age]

\* Faulty variant: block 0, from which no cursor is behind.
StaleHeadAtZero == [ts |-> -Sentinel, block |-> Sentinel]

\* STALE_HEAD, an instant far ahead: its age is as far below zero.
StaleHead == [ts |-> -Sentinel, block |-> -Sentinel]

\* What an answer says of a deployment.  A failed one is a zeroed reference
\* and no vaults.
Outcome == [ok: BOOLEAN, age: Nat, class: Freshness]
Failed == [ok |-> FALSE, age |-> 0, class |-> "unavailable"]
Result == [Deployments -> Outcome]
NoResult == [d \in Deployments |-> Failed]

NoHead == [head |-> StaleHead, left |-> 0]
NoChain == [result |-> NoResult, left |-> 0]
NoCheck == [age |-> 0, left |-> 0]

Kinds == {"scan", "table", "sinkTable"}
Waiting == {"heading", "fetching", "sinking", "probing"}

\* waited is the age of the call in flight; looked is when a check looked.
Request ==
    [at: {"idle", "ready"} \cup Waiting, kind: Kinds, waited: 0 .. FetchMax,
     head: Head, result: Result, pending: SUBSET Checks, looked: [Checks -> Nat]]

Idle == [at |-> "idle", kind |-> "scan", waited |-> 0, head |-> StaleHead,
         result |-> NoResult, pending |-> {}, looked |-> [c \in Checks |-> 0]]

\* to is the kind of request answered, "none" when the last step answered none.
Answer == [to: Kinds \cup {"none", "snapshot"}, result: Result,
           sink: Freshness, cursor: Nat, looked: [Checks -> Nat]]

NoAnswer == [to |-> "none", result |-> NoResult, sink |-> "unavailable",
             cursor |-> 0, looked |-> [c \in Checks |-> 0]]

TypeOK ==
    /\ headCache \in [head: Head, left: 0 .. HeadTtl]
    /\ chainCache \in [result: Result, left: 0 .. ChainTtl]
    /\ checkCache \in [Checks -> [age: Nat, left: Nat]]
    /\ req \in [Requests -> Request]
    /\ deployments \in [Deployments -> [ok: BOOLEAN, age: 0 .. LongAgo]]
    /\ answer \in Answer
    /\ headFailed \in 0 .. LongAgo

Init ==
    /\ headCache = NoHead
    /\ chainCache = NoChain
    /\ checkCache = [c \in Checks |-> NoCheck]
    /\ req = [r \in Requests |-> Idle]
    /\ deployments = [d \in Deployments |-> [ok |-> FALSE, age |-> LongAgo]]
    /\ answer = NoAnswer
    /\ headFailed = LongAgo

-----------------------------------------------------------------------------
(* Freshness                                                                *)

\* Faulty variant: the threshold itself is too old.
ClassifyBelow(threshold, age, headAge) ==
    IF age - headAge < threshold THEN "fresh" ELSE "stale"

\* classifyFreshness, for a source without indexing errors: headTs - sourceTs.
Classify(threshold, age, headAge) ==
    IF age - headAge <= threshold THEN "fresh" ELSE "stale"

\* readErc4626Vaults: a cursor is dated by its distance from the head's block.
SinkClass(head, cursor) ==
    LET behind == IF cursor > head.block THEN cursor - head.block ELSE 0
    IN  Classify(Substreams, head.ts + behind, head.ts)

-----------------------------------------------------------------------------
(* A request's way through the caches                                       *)

Live(entry) == entry.left > 0

\* The continuation runs at once; an await leaves it waiting from now on.
Goto(r, at) == [req[r] EXCEPT !.at = at, !.waited = 0]

Begun(r, kind, at) == [Idle EXCEPT !.at = at, !.kind = kind]

\* getChainHead from the cache.
HeadHit(r, kind) ==
    /\ req[r].at = "idle" /\ Live(headCache)
    /\ req' = [req EXCEPT ![r] =
                  [Begun(r, kind, "ready") EXCEPT !.head = headCache.head]]
    /\ answer' = NoAnswer
    /\ UNCHANGED <<caches, deployments, headFailed>>

HeadMiss(r, kind) ==
    /\ req[r].at = "idle" /\ ~Live(headCache)
    /\ req' = [req EXCEPT ![r] = Begun(r, kind, "heading")]
    /\ answer' = NoAnswer
    /\ UNCHANGED <<caches, deployments, headFailed>>

\* getBlock answered with the head of some moment of the call.
HeadAnswers(r, age) ==
    /\ req[r].at = "heading" /\ age <= req[r].waited
    /\ headCache' = [head |-> HeadOf(age), left |-> HeadTtl]
    /\ req' = [req EXCEPT ![r] = [Goto(r, "ready") EXCEPT !.head = HeadOf(age)]]
    /\ answer' = NoAnswer
    /\ UNCHANGED <<chainCache, checkCache, deployments, headFailed>>

\* getBlock threw, or there is no RPC for the chain.
HeadFails(r) ==
    /\ req[r].at = "heading"
    /\ headCache' = [head |-> StaleHead, left |-> HeadTtl]
    /\ req' = [req EXCEPT ![r] = [Goto(r, "ready") EXCEPT !.head = StaleHead]]
    /\ headFailed' = 0
    /\ answer' = NoAnswer
    /\ UNCHANGED <<chainCache, checkCache, deployments>>

\* With the chain's result a table is complete, and a scan reads the sink.
WithResult(r, result) ==
    IF req[r].kind = "scan"
    THEN /\ req' = [req EXCEPT ![r] =
                        [Goto(r, "sinking") EXCEPT !.result = result]]
         /\ answer' = NoAnswer
    ELSE /\ req' = [req EXCEPT ![r] = Idle]
         /\ answer' = [NoAnswer EXCEPT !.to = "table", !.result = result]

\* getChainStandardized from the cache: judged by an earlier request's head.
ChainHit(r) ==
    /\ req[r].at = "ready" /\ req[r].kind # "sinkTable" /\ Live(chainCache)
    /\ WithResult(r, chainCache.result)
    /\ UNCHANGED <<caches, deployments, headFailed>>

ChainMiss(r) ==
    /\ req[r].at = "ready" /\ req[r].kind # "sinkTable" /\ ~Live(chainCache)
    /\ req' = [req EXCEPT ![r] = Goto(r, "fetching")]
    /\ answer' = NoAnswer
    /\ UNCHANGED <<caches, deployments, headFailed>>

\* What fetchStandardized makes of the answers: ages[d] is the age of d's
\* newest block, a d outside DOMAIN ages threw, and one in errs answered with
\* hasIndexingErrors.
Gathered(ages, errs, headAge) ==
    [d \in Deployments |->
        IF d \notin DOMAIN ages THEN Failed
        ELSE [ok |-> TRUE, age |-> ages[d],
              class |-> IF d \in errs THEN "unavailable"
                        ELSE Classify(Messari, ages[d], headAge)]]

\* recordDeploymentOutcomes.
Recorded(result) == [d \in Deployments |-> [ok |-> result[d].ok, age |-> 0]]

\* The deployments answered or failed, each on its own.
ChainAnswers(r, ages, errs) ==
    /\ req[r].at = "fetching"
    /\ LET result == Gathered(ages, errs, req[r].head.ts)
       IN  /\ chainCache' = [result |-> result, left |-> ChainTtl]
           /\ deployments' = Recorded(result)
           /\ WithResult(r, result)
    /\ UNCHANGED <<headCache, checkCache, headFailed>>

\* table("erc4626"): the head, then the sink alone.
SinkOnly(r) ==
    /\ req[r].at = "ready" /\ req[r].kind = "sinkTable"
    /\ req' = [req EXCEPT ![r] = Goto(r, "sinking")]
    /\ answer' = NoAnswer
    /\ UNCHANGED <<caches, deployments, headFailed>>

\* readErc4626Vaults with a cursor.
SinkAnswers(r, cursor) ==
    /\ req[r].at = "sinking"
    /\ req' = [req EXCEPT ![r] = Idle]
    /\ answer' = [NoAnswer EXCEPT
                    !.to = req[r].kind, !.result = req[r].result,
                    !.cursor = cursor, !.sink = SinkClass(req[r].head, cursor)]
    /\ UNCHANGED <<caches, deployments, headFailed>>

\* readErc4626Vaults without one: no table, an empty one, or no database.
SinkFails(r) ==
    /\ req[r].at = "sinking"
    /\ req' = [req EXCEPT ![r] = Idle]
    /\ answer' = [NoAnswer EXCEPT !.to = req[r].kind, !.result = req[r].result]
    /\ UNCHANGED <<caches, deployments, headFailed>>

\* Metrics.snapshot: the checks whose entry is live answer from it.
Snapshot(r) ==
    LET asked == {c \in Checks : ~Live(checkCache[c])}
        looked == [c \in Checks |-> IF c \in asked THEN 0 ELSE checkCache[c].age]
    IN  /\ req[r].at = "idle"
        /\ IF asked = {}
           THEN /\ answer' = [NoAnswer EXCEPT !.to = "snapshot", !.looked = looked]
                /\ UNCHANGED req
           ELSE /\ req' = [req EXCEPT ![r] =
                     [Idle EXCEPT !.at = "probing", !.pending = asked,
                                  !.looked = looked]]
                /\ answer' = NoAnswer
        /\ UNCHANGED <<caches, deployments, headFailed>>

\* Faulty variant: the entry's life starts when the answer is in.
LeftForCheckLate(r, c) == CheckTtl[c]

\* probeHealth, getIdentity: `now` was read before the await.
LeftForCheck(r, c) ==
    IF CheckTtl[c] > req[r].waited THEN CheckTtl[c] - req[r].waited ELSE 0

\* One check looked at a moment of its call; the last completes the snapshot.
ProbeAnswers(r, c, age) ==
    LET looked == [req[r].looked EXCEPT ![c] = age]
    IN  /\ req[r].at = "probing" /\ c \in req[r].pending /\ age <= req[r].waited
        /\ checkCache' = [checkCache EXCEPT ![c] =
                             [age |-> age, left |-> LeftForCheck(r, c)]]
        /\ IF req[r].pending = {c}
           THEN /\ req' = [req EXCEPT ![r] = Idle]
                /\ answer' = [NoAnswer EXCEPT !.to = "snapshot", !.looked = looked]
           ELSE /\ req' = [req EXCEPT ![r].pending = @ \ {c}, ![r].looked = looked]
                /\ answer' = NoAnswer
        /\ UNCHANGED <<headCache, chainCache, deployments, headFailed>>

-----------------------------------------------------------------------------
(* Time                                                                     *)

OlderHead(head) == [ts |-> head.ts + 1, block |-> head.block + 1]

OlderResult(result) == [d \in Deployments |->
    IF result[d].ok THEN [result[d] EXCEPT !.age = @ + 1] ELSE result[d]]

OlderRequest(q) ==
    IF q.at = "idle" THEN q
    ELSE [q EXCEPT !.waited = @ + 1,
            !.head = IF q.at \in {"heading", "probing"} THEN @ ELSE OlderHead(@),
            !.result = OlderResult(@),
            !.looked = [c \in Checks |->
               IF q.at = "probing" /\ c \notin q.pending THEN @[c] + 1 ELSE @[c]]]

\* An entry whose life is over is as good as none.
OlderEntry(entry, older, none) == IF entry.left > 1 THEN older ELSE none

Later(age) == IF age < LongAgo THEN age + 1 ELSE age

\* Time passes between continuations, and every call is over within FetchMax.
Tick ==
    /\ \A r \in Requests : /\ req[r].at # "ready"
                           /\ req[r].at # "idle" => req[r].waited < FetchMax
    /\ req' = [r \in Requests |-> OlderRequest(req[r])]
    /\ headCache' = OlderEntry(headCache, [head |-> OlderHead(headCache.head),
                                           left |-> headCache.left - 1], NoHead)
    /\ chainCache' = OlderEntry(chainCache, [result |-> OlderResult(chainCache.result),
                                             left |-> chainCache.left - 1], NoChain)
    /\ checkCache' = [c \in Checks |->
          OlderEntry(checkCache[c], [age |-> checkCache[c].age + 1,
                                     left |-> checkCache[c].left - 1], NoCheck)]
    /\ deployments' = [d \in Deployments |->
                          [deployments[d] EXCEPT !.age = Later(@)]]
    /\ headFailed' = Later(headFailed)
    /\ answer' = NoAnswer

Work(r) ==
    \/ \E kind \in Kinds : HeadHit(r, kind) \/ HeadMiss(r, kind)
    \/ \E age \in 0 .. FetchMax : HeadAnswers(r, age)
    \/ HeadFails(r)
    \/ ChainHit(r) \/ ChainMiss(r)
    \/ \E answered \in SUBSET Deployments :
         \E ages \in [answered -> Lags], errs \in SUBSET answered :
           ChainAnswers(r, ages, errs)
    \/ SinkOnly(r)
    \/ \E cursor \in Lags : SinkAnswers(r, cursor)
    \/ SinkFails(r)
    \/ Snapshot(r)
    \/ \E c \in Checks, age \in 0 .. FetchMax : ProbeAnswers(r, c, age)

Next == Tick \/ \E r \in Requests : Work(r)

Spec == Init /\ [][Next]_vars

-----------------------------------------------------------------------------
(* Properties                                                               *)

\* What an answer calls fresh is recent by the clock, although nothing on the
\* way compares it with the clock: the data is at most its threshold and
\* Staleness old.  An unreachable chain stops being fresh within that time.
FreshMeansRecent ==
    /\ \A d \in Deployments : answer.result[d].class = "fresh"
                                => answer.result[d].age <= Messari + Staleness
    /\ answer.sink = "fresh" => answer.cursor <= Substreams + Staleness

\* A current source that is called stale is so because a head read failed at
\* most Staleness ago: the mark an outage leaves in the caches goes away.
OutageWearsOff ==
    /\ \A d \in Deployments :
         answer.result[d].class = "stale" /\ answer.result[d].age <= Messari
           => headFailed <= Staleness
    /\ answer.sink = "stale" /\ answer.cursor <= Substreams
         => headFailed <= Staleness

\* What a snapshot says of a facilitator or an identity was so at most a cache
\* life and a call ago, whichever snapshots overlapped and whoever wrote last:
\* the time a check took is taken from the life of its entry.
ChecksAreRecent ==
    /\ answer.to = "snapshot" =>
         \A c \in Checks : answer.looked[c] <= CheckTtl[c] - 1 + FetchMax
    /\ \A c \in Checks : Live(checkCache[c])
                           => checkCache[c].age + checkCache[c].left <= CheckTtl[c]

\* The outcomes shown to the operator are those of the result being served,
\* recorded when it was fetched and not when it was last read.
MetricsDescribeCache ==
    Live(chainCache) => \A d \in Deployments :
      /\ deployments[d].ok = chainCache.result[d].ok
      /\ deployments[d].age = ChainTtl - chainCache.left
=============================================================================
