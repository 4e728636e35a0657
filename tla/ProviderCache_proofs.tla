------------------------ MODULE ProviderCache_proofs ------------------------
(***************************************************************************)
(* Proofs about ProviderCache, for any requests, deployments and checks,   *)
(* cache lives, thresholds, lags and upstream delays.                      *)
(***************************************************************************)
EXTENDS ProviderCache, TLAPS

(* A head at most n ticks old, or the mark of a read that failed at most n  *)
(* ticks ago; f is the age of the last failed read.                         *)
HeadWithin(h, n, f) ==
    /\ h.ts = h.block
    /\ h.ts <= n
    /\ h.ts < 0 => f <= n

\* An outcome judged by a head that is within n now.
OutcomeWithin(o, n, f) ==
    /\ o.class = "fresh" => o.age <= Messari + n
    /\ o.class = "stale" /\ o.age <= Messari => f <= n

ResultWithin(result, n, f) ==
    \A d \in Deployments : OutcomeWithin(result[d], n, f)

\* The oldest a head is when a request has it in hand, and a result when served.
HeadBound == FetchMax + HeadTtl - 1
ResultBound == HeadBound + FetchMax + ChainTtl - 1

HeadCacheOk(c, f) == Live(c) => HeadWithin(c.head, HeadBound + 1 - c.left, f)

ChainCacheOk(c, f) ==
    Live(c) => ResultWithin(c.result, ResultBound + 1 - c.left, f)

ReqOk(q, f) ==
    /\ q.at \in {"heading", "ready"} => q.result = NoResult
    /\ q.at = "ready" => HeadWithin(q.head, HeadBound, f)
    /\ q.at = "fetching" => HeadWithin(q.head, HeadBound + q.waited, f)
    /\ q.at = "sinking" =>
         /\ HeadWithin(q.head, HeadBound + FetchMax + q.waited, f)
         /\ ResultWithin(q.result, ResultBound + q.waited, f)
    /\ q.at = "probing" =>
         \A c \in Checks : c \in q.pending
                             \/ q.looked[c] <= CheckTtl[c] - 1 + q.waited

ChecksOk(cc) == \A c \in Checks : Live(cc[c]) => cc[c].age + cc[c].left <= CheckTtl[c]

AnswerOk(a, f) ==
    /\ ResultWithin(a.result, Staleness, f)
    /\ a.sink = "fresh" => a.cursor <= Substreams + Staleness
    /\ a.sink = "stale" /\ a.cursor <= Substreams => f <= Staleness
    /\ a.to = "snapshot" =>
         \A c \in Checks : a.looked[c] <= CheckTtl[c] - 1 + FetchMax

Bounds ==
    /\ HeadCacheOk(headCache, headFailed)
    /\ ChainCacheOk(chainCache, headFailed)
    /\ \A r \in Requests : ReqOk(req[r], headFailed)
    /\ ChecksOk(checkCache)
    /\ AnswerOk(answer, headFailed)

IInv == TypeOK /\ Bounds /\ MetricsDescribeCache

-----------------------------------------------------------------------------
(* Arithmetic of the bounds                                                 *)

LEMMA Constants ==
  /\ HeadTtl \in Nat /\ HeadTtl > 0 /\ ChainTtl \in Nat /\ ChainTtl > 0
  /\ FetchMax \in Nat /\ Messari \in Nat /\ Substreams \in Nat
  /\ HeadBound \in Nat /\ ResultBound \in Nat /\ Staleness \in Nat
  /\ HeadBound >= FetchMax
  /\ HeadBound + FetchMax <= ResultBound
  /\ ResultBound + FetchMax = Staleness
  /\ HeadBound + FetchMax + FetchMax <= Staleness
  /\ Sentinel \in Nat /\ Sentinel > Staleness + Messari
  /\ Sentinel > Staleness + Substreams
  /\ LongAgo \in Nat /\ LongAgo > Staleness /\ LongAgo > ChainTtl
  /\ \A c \in Checks : CheckTtl[c] \in Nat /\ CheckTtl[c] > 0
BY ProviderAssumption DEF ProviderAssumption, HeadBound, ResultBound, Staleness

\* A later failure and a looser bound keep what a head or a result satisfies.
LEMMA HeadLoosens ==
  ASSUME NEW h \in Head, NEW n \in Nat, NEW m \in Nat, n <= m,
         NEW f \in Nat, NEW g \in Nat, g <= f, HeadWithin(h, n, f)
  PROVE  HeadWithin(h, m, g)
BY DEF HeadWithin, Head

LEMMA ResultLoosens ==
  ASSUME NEW q \in Result, NEW n \in Nat, NEW m \in Nat, n <= m,
         NEW f \in Nat, NEW g \in Nat, g <= f, ResultWithin(q, n, f)
  PROVE  ResultWithin(q, m, g)
<1> SUFFICES ASSUME NEW d \in Deployments PROVE OutcomeWithin(q[d], m, g)
  BY DEF ResultWithin
<1>1. q[d] \in Outcome /\ q[d].age \in Nat
  BY DEF Result, Outcome
<1>2. OutcomeWithin(q[d], n, f)
  BY DEF ResultWithin
<1> QED BY <1>1, <1>2, Constants DEF OutcomeWithin

\* Nothing failed is ever called fresh or stale.
LEMMA NoResultWithin ==
  ASSUME NEW n, NEW f
  PROVE  NoResult \in Result /\ ResultWithin(NoResult, n, f)
<1>1. Failed \in Outcome
  BY DEF Failed, Outcome, Freshness
<1>2. NoResult \in Result
  BY <1>1 DEF NoResult, Result
<1>3. ResultWithin(NoResult, n, f)
  BY DEF NoResult, ResultWithin, OutcomeWithin, Failed
<1> QED BY <1>2, <1>3

\* With time a bound grows by as much as the age.
LEMMA OlderHeadWithin ==
  ASSUME NEW h \in Head, NEW n \in Nat, NEW f \in Nat, NEW g \in Nat, g <= f + 1,
         HeadWithin(h, n, f)
  PROVE  OlderHead(h) \in Head /\ HeadWithin(OlderHead(h), n + 1, g)
BY DEF HeadWithin, Head, OlderHead

LEMMA OlderHeadType ==
  ASSUME NEW h \in Head PROVE OlderHead(h) \in Head
BY DEF Head, OlderHead

LEMMA OlderResultType ==
  ASSUME NEW q \in Result PROVE OlderResult(q) \in Result
<1> SUFFICES ASSUME NEW d \in Deployments
             PROVE (IF q[d].ok THEN [q[d] EXCEPT !.age = @ + 1] ELSE q[d]) \in Outcome
  BY DEF Result, OlderResult
<1>1. q[d] \in Outcome
  BY DEF Result
<1> QED BY <1>1 DEF Outcome

LEMMA OlderResultWithin ==
  ASSUME NEW q \in Result, NEW n \in Nat, NEW f \in Nat, NEW g \in Nat, g <= f + 1,
         ResultWithin(q, n, f)
  PROVE  ResultWithin(OlderResult(q), n + 1, g)
<1> SUFFICES ASSUME NEW d \in Deployments
             PROVE OutcomeWithin(OlderResult(q)[d], n + 1, g)
  BY DEF ResultWithin
<1>1. q[d] \in Outcome /\ OutcomeWithin(q[d], n, f)
  BY DEF ResultWithin, Result
<1>2. OlderResult(q)[d] = IF q[d].ok THEN [q[d] EXCEPT !.age = @ + 1] ELSE q[d]
  BY DEF OlderResult
<1>3. /\ OlderResult(q)[d].class = q[d].class
      /\ OlderResult(q)[d].age \in {q[d].age, q[d].age + 1}
      /\ q[d].age \in Nat
  BY <1>1, <1>2 DEF Outcome
<1> QED BY <1>1, <1>3, Constants DEF OutcomeWithin

-----------------------------------------------------------------------------
(* What the classification says of a head within a bound                    *)

LEMMA GatheredWithin ==
  ASSUME NEW h \in Head, NEW n \in Nat, NEW f \in Nat, HeadWithin(h, n, f),
         NEW answered \in SUBSET Deployments, NEW ages \in [answered -> Lags],
         NEW errs \in SUBSET answered
  PROVE  /\ Gathered(ages, errs, h.ts) \in Result
         /\ ResultWithin(Gathered(ages, errs, h.ts), n, f)
<1> DEFINE g == Gathered(ages, errs, h.ts)
<1>1. Lags \subseteq Nat /\ h.ts \in Int /\ Messari \in Nat
  BY ProviderAssumption DEF ProviderAssumption, Head
<1>2. ASSUME NEW d \in Deployments
      PROVE  g[d] \in Outcome /\ OutcomeWithin(g[d], n, f)
  <2>1. CASE d \notin answered
    <3>1. g[d] = Failed
      BY <2>1 DEF Gathered
    <3> QED BY <3>1 DEF Failed, Outcome, Freshness, OutcomeWithin
  <2>2. CASE d \in answered
    <3> DEFINE c == IF d \in errs THEN "unavailable"
                    ELSE Classify(Messari, ages[d], h.ts)
    <3>1. g[d] = [ok |-> TRUE, age |-> ages[d], class |-> c]
      BY <2>2 DEF Gathered
    <3>2. ages[d] \in Nat
      BY <2>2, <1>1
    <3>3. /\ c \in Freshness
          /\ c = "fresh" => ages[d] - h.ts <= Messari
          /\ c = "stale" => ~(ages[d] - h.ts <= Messari)
      BY DEF Classify, Freshness
    <3>4. g[d] \in Outcome
      BY <3>1, <3>2, <3>3 DEF Outcome
    <3>5. g[d].class = c /\ g[d].age = ages[d]
      BY <3>1
    <3>6. OutcomeWithin(g[d], n, f)
      BY <3>2, <3>3, <3>5, <1>1 DEF OutcomeWithin, HeadWithin
    <3> QED BY <3>4, <3>6
  <2> QED BY <2>1, <2>2
<1>3. g = [d \in Deployments |-> g[d]]
  BY DEF Gathered
<1>4. g \in Result
  BY <1>2, <1>3 DEF Result
<1> QED BY <1>2, <1>4 DEF ResultWithin

LEMMA SinkWithin ==
  ASSUME NEW h \in Head, NEW n \in Nat, NEW f \in Nat, HeadWithin(h, n, f),
         NEW cursor \in Nat
  PROVE  /\ SinkClass(h, cursor) \in Freshness
         /\ SinkClass(h, cursor) = "fresh" => cursor <= Substreams + n
         /\ SinkClass(h, cursor) = "stale" /\ cursor <= Substreams => f <= n
<1> DEFINE behind == IF cursor > h.block THEN cursor - h.block ELSE 0
<1>1. h.ts \in Int /\ h.block \in Int /\ Substreams \in Nat /\ behind \in Nat
  BY Constants DEF Head
<1>2. SinkClass(h, cursor) = Classify(Substreams, h.ts + behind, h.ts)
  BY DEF SinkClass
<1>3. SinkClass(h, cursor) = IF behind <= Substreams THEN "fresh" ELSE "stale"
  BY <1>1, <1>2 DEF Classify
<1> QED BY <1>1, <1>3 DEF HeadWithin, Freshness

-----------------------------------------------------------------------------
(* One request's step                                                       *)

LEMMA ReqStep ==
  ASSUME req \in [Requests -> Request], NEW f, \A s \in Requests : ReqOk(req[s], f),
         NEW r \in Requests, NEW q \in Request, ReqOk(q, f)
  PROVE  /\ [req EXCEPT ![r] = q] \in [Requests -> Request]
         /\ \A s \in Requests : ReqOk([req EXCEPT ![r] = q][s], f)
<1>1. [req EXCEPT ![r] = q] \in [Requests -> Request]
  OBVIOUS
<1>2. ASSUME NEW s \in Requests PROVE ReqOk([req EXCEPT ![r] = q][s], f)
  BY DEF ReqOk
<1> QED BY <1>1, <1>2

\* An idle request and the absence of an answer claim nothing.
LEMMA Quiet ==
  ASSUME NEW f
  PROVE  /\ Idle \in Request /\ ReqOk(Idle, f)
         /\ NoAnswer \in Answer /\ AnswerOk(NoAnswer, f)
         /\ StaleHead \in Head
<1>1. NoResult \in Result /\ ResultWithin(NoResult, Staleness, f)
  BY NoResultWithin
<1>2. StaleHead \in Head
  BY Constants DEF StaleHead, Head
<1>3. Idle \in Request
  BY <1>1, <1>2, Constants DEF Idle, Request, Kinds, Waiting
<1>4. ReqOk(Idle, f)
  BY DEF Idle, ReqOk
<1>5. NoAnswer \in Answer
  BY <1>1 DEF NoAnswer, Answer, Kinds, Freshness
<1>6. AnswerOk(NoAnswer, f)
  BY <1>1 DEF NoAnswer, AnswerOk
<1> QED BY <1>2, <1>3, <1>4, <1>5, <1>6

LEMMA GotoType ==
  ASSUME req \in [Requests -> Request], NEW r \in Requests,
         NEW at \in {"ready", "fetching", "sinking"}
  PROVE  /\ Goto(r, at) \in Request
         /\ Goto(r, at).at = at /\ Goto(r, at).waited = 0
         /\ Goto(r, at).head = req[r].head /\ Goto(r, at).result = req[r].result
<1>1. req[r] \in Request /\ 0 \in 0 .. FetchMax
  BY Constants
<1>2. Goto(r, at) = [req[r] EXCEPT !.at = at, !.waited = 0]
  BY DEF Goto
<1> DEFINE p == req[r]
<1>3. p \in Request /\ Goto(r, at) = [p EXCEPT !.at = at, !.waited = 0]
  BY <1>1, <1>2
<1> HIDE DEF p
<1>4. at \in {"idle", "ready"} \cup Waiting
  BY DEF Waiting
<1>5. [p EXCEPT !.at = at, !.waited = 0] \in Request
  BY <1>1, <1>3, <1>4 DEF Request
<1>6. /\ [p EXCEPT !.at = at, !.waited = 0].at = at
      /\ [p EXCEPT !.at = at, !.waited = 0].waited = 0
      /\ [p EXCEPT !.at = at, !.waited = 0].head = p.head
      /\ [p EXCEPT !.at = at, !.waited = 0].result = p.result
  BY <1>3 DEF Request
<1> QED BY <1>3, <1>5, <1>6 DEF p

LEMMA BegunType ==
  ASSUME NEW r \in Requests, NEW kind \in Kinds, NEW at \in {"ready", "heading"},
         NEW f
  PROVE  /\ Begun(r, kind, at) \in Request
         /\ Begun(r, kind, at).at = at /\ Begun(r, kind, at).result = NoResult
<1>1. Idle \in Request
  BY Quiet
<1> QED BY <1>1 DEF Begun, Idle, Request, Waiting

\* What follows when only a request and the answer change.
LEMMA Moves ==
  ASSUME IInv, NEW r \in Requests, NEW q \in Request, ReqOk(q, headFailed),
         req' = [req EXCEPT ![r] = q],
         answer' \in Answer, AnswerOk(answer', headFailed),
         UNCHANGED <<caches, deployments, headFailed>>
  PROVE  IInv'
<1>1. TypeOK /\ Bounds /\ MetricsDescribeCache
  BY DEF IInv
<1>2. req' \in [Requests -> Request] /\ \A s \in Requests : ReqOk(req'[s], headFailed)
  BY <1>1, ReqStep DEF TypeOK, Bounds
<1>3. TypeOK'
  BY <1>1, <1>2 DEF TypeOK, caches
<1>4. Bounds'
  BY <1>1, <1>2 DEF Bounds, caches
<1>5. MetricsDescribeCache'
  BY <1>1 DEF MetricsDescribeCache, Live, caches
<1> QED BY <1>3, <1>4, <1>5 DEF IInv

LEMMA HeadHitKeeps ==
  ASSUME IInv, NEW r \in Requests, NEW kind \in Kinds, HeadHit(r, kind)
  PROVE  IInv'
<1> DEFINE q == [Begun(r, kind, "ready") EXCEPT !.head = headCache.head]
<1>1. /\ headCache \in [head: Head, left: 0 .. HeadTtl] /\ headFailed \in Nat
      /\ HeadCacheOk(headCache, headFailed) /\ Live(headCache)
  BY Constants DEF IInv, TypeOK, Bounds, HeadHit
<1>2. HeadWithin(headCache.head, HeadBound + 1 - headCache.left, headFailed)
  BY <1>1 DEF HeadCacheOk
<1>3. /\ HeadBound + 1 - headCache.left \in Nat
      /\ HeadBound + 1 - headCache.left <= HeadBound /\ HeadBound \in Nat
  BY <1>1, Constants DEF Live, HeadBound
<1>4. HeadWithin(headCache.head, HeadBound, headFailed)
  BY <1>1, <1>2, <1>3, HeadLoosens
<1>5. /\ q \in Request /\ q.at = "ready" /\ q.head = headCache.head
      /\ q.result = NoResult
  BY <1>1, BegunType DEF Request
<1>6. ReqOk(q, headFailed)
  BY <1>4, <1>5 DEF ReqOk
<1> QED BY <1>5, <1>6, Moves, Quiet DEF HeadHit

LEMMA HeadMissKeeps ==
  ASSUME IInv, NEW r \in Requests, NEW kind \in Kinds, HeadMiss(r, kind)
  PROVE  IInv'
<1>1. /\ Begun(r, kind, "heading") \in Request
      /\ Begun(r, kind, "heading").at = "heading"
      /\ Begun(r, kind, "heading").result = NoResult
  BY BegunType
<1>2. ReqOk(Begun(r, kind, "heading"), headFailed)
  BY <1>1 DEF ReqOk
<1> QED BY <1>1, <1>2, Moves, Quiet DEF HeadMiss

\* A head put into the cache and into the hands of its request.
LEMMA HeadRead ==
  ASSUME IInv, NEW r \in Requests, NEW h \in Head, NEW f \in 0 .. LongAgo,
         f <= headFailed, HeadWithin(h, FetchMax, f), req[r].at = "heading",
         req' = [req EXCEPT ![r] = [Goto(r, "ready") EXCEPT !.head = h]],
         headCache' = [head |-> h, left |-> HeadTtl], headFailed' = f,
         answer' = NoAnswer, UNCHANGED <<chainCache, checkCache, deployments>>
  PROVE  IInv'
<1> DEFINE q == [Goto(r, "ready") EXCEPT !.head = h]
<1>1. /\ TypeOK /\ Bounds /\ MetricsDescribeCache
      /\ headFailed \in Nat /\ f \in Nat /\ req \in [Requests -> Request]
  BY Constants DEF IInv, TypeOK
<1>2. HeadWithin(h, HeadBound, f)
  BY HeadLoosens, Constants, <1>1
<1>3. q \in Request /\ q.at = "ready" /\ q.head = h /\ q.result = NoResult
  <2>1. req[r].result = NoResult
    BY <1>1 DEF Bounds, ReqOk
  <2> QED BY <1>1, <2>1, GotoType DEF Request
<1>4. ReqOk(q, f)
  BY <1>2, <1>3 DEF ReqOk
<1>5. ASSUME NEW s \in Requests PROVE ReqOk(req[s], f)
  <2> DEFINE p == req[s]
  <2>1. p \in Request /\ ReqOk(p, headFailed)
    BY <1>1 DEF Bounds
  <2>2. /\ p.head \in Head /\ p.result \in Result /\ p.waited \in Nat
        /\ HeadBound + p.waited \in Nat /\ HeadBound + FetchMax + p.waited \in Nat
        /\ ResultBound + p.waited \in Nat /\ HeadBound \in Nat
    BY <2>1, Constants DEF Request
  <2> HIDE DEF p
  <2>3. p.at = "ready" => HeadWithin(p.head, HeadBound, f)
    BY <1>1, <2>1, <2>2, HeadLoosens DEF ReqOk
  <2>4. p.at = "fetching" => HeadWithin(p.head, HeadBound + p.waited, f)
    BY <1>1, <2>1, <2>2, HeadLoosens DEF ReqOk
  <2>5. p.at = "sinking" => HeadWithin(p.head, HeadBound + FetchMax + p.waited, f)
    BY <1>1, <2>1, <2>2, HeadLoosens DEF ReqOk
  <2>6. p.at = "sinking" => ResultWithin(p.result, ResultBound + p.waited, f)
    BY <1>1, <2>1, <2>2, ResultLoosens DEF ReqOk
  <2>7. /\ p.at \in {"heading", "ready"} => p.result = NoResult
        /\ p.at = "probing" => \A c \in Checks : c \in p.pending
                                 \/ p.looked[c] <= CheckTtl[c] - 1 + p.waited
    BY <2>1 DEF ReqOk
  <2>8. ReqOk(p, f)
    BY <2>3, <2>4, <2>5, <2>6, <2>7 DEF ReqOk
  <2> QED BY <2>8 DEF p
<1>6. req' \in [Requests -> Request] /\ \A s \in Requests : ReqOk(req'[s], f)
  BY <1>1, <1>3, <1>4, <1>5, ReqStep
<1>7. HeadCacheOk(headCache', f)
  <2>1. headCache'.head = h /\ HeadBound + 1 - headCache'.left = FetchMax
    BY Constants DEF HeadBound
  <2> QED BY <2>1 DEF HeadCacheOk
<1>8. ChainCacheOk(chainCache, f)
  <2> SUFFICES ASSUME Live(chainCache)
               PROVE ResultWithin(chainCache.result, ResultBound + 1 - chainCache.left, f)
    BY DEF ChainCacheOk
  <2>1. /\ chainCache.result \in Result /\ chainCache.left \in 0 .. ChainTtl
        /\ ResultWithin(chainCache.result, ResultBound + 1 - chainCache.left, headFailed)
    BY <1>1 DEF TypeOK, Bounds, ChainCacheOk
  <2>2. ResultBound + 1 - chainCache.left \in Nat
    BY <2>1, Constants DEF ResultBound
  <2> QED BY <1>1, <2>1, <2>2, ResultLoosens
<1>9. TypeOK'
  <2>1. headCache' \in [head: Head, left: 0 .. HeadTtl]
    BY Constants
  <2> QED BY <1>1, <1>6, <2>1, Quiet DEF TypeOK
<1>10. Bounds'
  BY <1>1, <1>6, <1>7, <1>8, Quiet DEF Bounds
<1>11. MetricsDescribeCache'
  BY <1>1 DEF MetricsDescribeCache, Live
<1> QED BY <1>9, <1>10, <1>11 DEF IInv

LEMMA HeadAnswersKeeps ==
  ASSUME IInv, NEW r \in Requests, NEW age \in 0 .. FetchMax, HeadAnswers(r, age)
  PROVE  IInv'
<1>1. headFailed \in 0 .. LongAgo /\ headFailed <= headFailed
  BY Constants DEF IInv, TypeOK
<1>2. HeadOf(age) \in Head /\ HeadWithin(HeadOf(age), FetchMax, headFailed)
  BY Constants DEF HeadOf, Head, HeadWithin
<1> QED BY <1>1, <1>2, HeadRead DEF HeadAnswers

LEMMA HeadFailsKeeps ==
  ASSUME IInv, NEW r \in Requests, HeadFails(r)
  PROVE  IInv'
<1>1. 0 \in 0 .. LongAgo /\ 0 <= headFailed
  BY Constants DEF IInv, TypeOK
<1>2. StaleHead \in Head /\ HeadWithin(StaleHead, FetchMax, 0)
  BY Constants, Quiet DEF StaleHead, HeadWithin
<1> QED BY <1>1, <1>2, HeadRead DEF HeadFails

-----------------------------------------------------------------------------
(* Results                                                                  *)

\* What WithResult does with a result within its bound.
LEMMA WithResultOk ==
  ASSUME IInv, NEW r \in Requests, NEW result \in Result,
         ResultWithin(result, ResultBound, headFailed),
         HeadWithin(req[r].head, HeadBound + FetchMax, headFailed),
         WithResult(r, result)
  PROVE  /\ req' \in [Requests -> Request]
         /\ \A s \in Requests : ReqOk(req'[s], headFailed)
         /\ answer' \in Answer /\ AnswerOk(answer', headFailed)
<1>1. /\ TypeOK /\ Bounds /\ req \in [Requests -> Request] /\ headFailed \in Nat
      /\ \A s \in Requests : ReqOk(req[s], headFailed)
  BY Constants DEF IInv, TypeOK, Bounds
<1>2. CASE req[r].kind = "scan"
  <2> DEFINE q == [Goto(r, "sinking") EXCEPT !.result = result]
  <2>1. /\ q \in Request /\ q.at = "sinking" /\ q.waited = 0
        /\ q.head = req[r].head /\ q.result = result
    BY <1>1, GotoType DEF Request
  <2>2. /\ HeadBound + FetchMax + q.waited = HeadBound + FetchMax
        /\ ResultBound + q.waited = ResultBound
    BY <2>1, Constants
  <2>3. ReqOk(q, headFailed)
    BY <2>1, <2>2 DEF ReqOk
  <2>4. req' = [req EXCEPT ![r] = q] /\ answer' = NoAnswer
    BY <1>2 DEF WithResult
  <2> HIDE DEF q
  <2>5. req' \in [Requests -> Request] /\ \A s \in Requests : ReqOk(req'[s], headFailed)
    BY <1>1, <2>1, <2>3, <2>4, ReqStep
  <2> QED BY <2>4, <2>5, Quiet
<1>3. CASE req[r].kind # "scan"
  <2> DEFINE a == [NoAnswer EXCEPT !.to = "table", !.result = result]
  <2>1. a \in Answer
    BY Quiet DEF Answer, Kinds
  <2>2. /\ a.result = result /\ a.to = "table" /\ a.sink = "unavailable"
    BY DEF NoAnswer
  <2>3. ResultWithin(result, Staleness, headFailed)
    BY <1>1, ResultLoosens, Constants
  <2>4. AnswerOk(a, headFailed)
    BY <2>2, <2>3 DEF AnswerOk
  <2> QED BY <1>1, <1>3, <2>1, <2>4, ReqStep, Quiet DEF WithResult
<1> QED BY <1>2, <1>3

LEMMA ReadyHead ==
  ASSUME IInv, NEW r \in Requests, req[r].at = "ready"
  PROVE  HeadWithin(req[r].head, HeadBound, headFailed)
BY DEF IInv, Bounds, ReqOk

LEMMA ChainHitKeeps ==
  ASSUME IInv, NEW r \in Requests, ChainHit(r)
  PROVE  IInv'
<1>1. /\ TypeOK /\ Bounds /\ MetricsDescribeCache /\ headFailed \in Nat
      /\ req[r] \in Request /\ req[r].at = "ready"
      /\ Live(chainCache) /\ WithResult(r, chainCache.result)
      /\ UNCHANGED <<caches, deployments, headFailed>>
  BY Constants DEF IInv, TypeOK, ChainHit
<1>2. /\ chainCache.result \in Result /\ chainCache.left \in 0 .. ChainTtl
      /\ ResultWithin(chainCache.result, ResultBound + 1 - chainCache.left, headFailed)
  BY <1>1 DEF TypeOK, Bounds, ChainCacheOk
<1>3. /\ ResultBound + 1 - chainCache.left \in Nat /\ ResultBound \in Nat
      /\ ResultBound + 1 - chainCache.left <= ResultBound
  BY <1>1, <1>2, Constants DEF ResultBound, Live
<1>4. ResultWithin(chainCache.result, ResultBound, headFailed)
  BY <1>1, <1>2, <1>3, ResultLoosens
<1>5. HeadWithin(req[r].head, HeadBound + FetchMax, headFailed)
  <2>1. req[r].head \in Head /\ HeadWithin(req[r].head, HeadBound, headFailed)
    BY <1>1, ReadyHead DEF Request
  <2>2. /\ HeadBound \in Nat /\ HeadBound + FetchMax \in Nat
        /\ HeadBound <= HeadBound + FetchMax /\ headFailed <= headFailed
    BY <1>1, Constants
  <2> QED BY <1>1, <2>1, <2>2, HeadLoosens
<1>6. /\ req' \in [Requests -> Request]
      /\ \A s \in Requests : ReqOk(req'[s], headFailed)
      /\ answer' \in Answer /\ AnswerOk(answer', headFailed)
  BY <1>1, <1>2, <1>4, <1>5, WithResultOk
<1>7. TypeOK'
  BY <1>1, <1>6 DEF TypeOK, caches
<1>8. Bounds'
  BY <1>1, <1>6 DEF Bounds, caches
<1>9. MetricsDescribeCache'
  BY <1>1 DEF MetricsDescribeCache, Live, caches
<1> QED BY <1>7, <1>8, <1>9 DEF IInv

LEMMA ChainMissKeeps ==
  ASSUME IInv, NEW r \in Requests, ChainMiss(r)
  PROVE  IInv'
<1>1. req \in [Requests -> Request] /\ req[r].at = "ready"
  BY DEF IInv, TypeOK, ChainMiss
<1>2. /\ Goto(r, "fetching") \in Request /\ Goto(r, "fetching").at = "fetching"
      /\ HeadBound + Goto(r, "fetching").waited = HeadBound
      /\ Goto(r, "fetching").head = req[r].head
  BY <1>1, GotoType, Constants
<1>3. ReqOk(Goto(r, "fetching"), headFailed)
  BY <1>1, <1>2, ReadyHead DEF ReqOk
<1> QED BY <1>2, <1>3, Moves, Quiet DEF ChainMiss

LEMMA ChainAnswersKeeps ==
  ASSUME IInv, NEW r \in Requests, NEW answered \in SUBSET Deployments,
         NEW ages \in [answered -> Lags], NEW errs \in SUBSET answered,
         ChainAnswers(r, ages, errs)
  PROVE  IInv'
<1> DEFINE result == Gathered(ages, errs, req[r].head.ts)
<1>1. /\ TypeOK /\ Bounds /\ headFailed \in Nat
      /\ req[r] \in Request /\ req[r].at = "fetching"
      /\ chainCache' = [result |-> result, left |-> ChainTtl]
      /\ deployments' = Recorded(result) /\ WithResult(r, result)
      /\ UNCHANGED <<headCache, checkCache, headFailed>>
  BY Constants DEF IInv, TypeOK, ChainAnswers
<1>2. /\ req[r].head \in Head /\ req[r].waited \in 0 .. FetchMax
      /\ HeadWithin(req[r].head, HeadBound + req[r].waited, headFailed)
  BY <1>1 DEF Request, Bounds, ReqOk
<1>3. HeadWithin(req[r].head, HeadBound + FetchMax, headFailed)
  BY <1>1, <1>2, HeadLoosens, Constants
<1>4. result \in Result /\ ResultWithin(result, HeadBound + FetchMax, headFailed)
  <2>1. HeadBound + FetchMax \in Nat
    BY Constants
  <2> QED BY <1>1, <1>2, <1>3, <2>1, GatheredWithin
<1> HIDE DEF result
<1>5. /\ ResultWithin(result, ResultBound + 1 - ChainTtl, headFailed)
      /\ ResultWithin(result, ResultBound, headFailed)
  <2>1. ResultBound + 1 - ChainTtl = HeadBound + FetchMax
    BY Constants DEF ResultBound
  <2> QED BY <1>1, <1>4, <2>1, ResultLoosens, Constants
<1>6. /\ req' \in [Requests -> Request]
      /\ \A s \in Requests : ReqOk(req'[s], headFailed)
      /\ answer' \in Answer /\ AnswerOk(answer', headFailed)
  BY <1>1, <1>3, <1>4, <1>5, WithResultOk
<1>7. /\ chainCache' \in [result: Result, left: 0 .. ChainTtl]
      /\ chainCache'.result = result /\ chainCache'.left = ChainTtl
  BY <1>1, <1>4, Constants
<1>8. \A d \in Deployments : result[d].ok \in BOOLEAN
  BY <1>4 DEF Result, Outcome
<1>9. deployments' \in [Deployments -> [ok: BOOLEAN, age: 0 .. LongAgo]]
  BY <1>1, <1>8, Constants DEF Recorded
<1>10. TypeOK'
  BY <1>1, <1>6, <1>7, <1>9 DEF TypeOK
<1>11. ChainCacheOk(chainCache', headFailed)
  BY <1>5, <1>7 DEF ChainCacheOk
<1>12. Bounds'
  BY <1>1, <1>6, <1>11 DEF Bounds
<1>13. MetricsDescribeCache'
  <2>1. ASSUME NEW d \in Deployments
        PROVE  /\ deployments'[d].ok = chainCache'.result[d].ok
               /\ deployments'[d].age = ChainTtl - chainCache'.left
    BY <1>1, <1>7, Constants DEF Recorded
  <2> QED BY <2>1 DEF MetricsDescribeCache
<1> QED BY <1>10, <1>12, <1>13 DEF IInv


LEMMA SinkOnlyKeeps ==
  ASSUME IInv, NEW r \in Requests, SinkOnly(r)
  PROVE  IInv'
<1> DEFINE q == Goto(r, "sinking")
<1>1. /\ TypeOK /\ Bounds /\ headFailed \in Nat
      /\ req \in [Requests -> Request] /\ req[r] \in Request
      /\ req[r].at = "ready" /\ req[r].kind = "sinkTable"
      /\ req' = [req EXCEPT ![r] = q] /\ answer' = NoAnswer
      /\ UNCHANGED <<caches, deployments, headFailed>>
  BY Constants DEF IInv, TypeOK, SinkOnly
<1>2. /\ q \in Request /\ q.at = "sinking" /\ q.waited = 0 /\ q.head = req[r].head
      /\ q.result = req[r].result
  BY <1>1, GotoType
<1> HIDE DEF q
<1>3. HeadWithin(q.head, HeadBound + FetchMax + q.waited, headFailed)
  <2>1. q.head \in Head /\ HeadWithin(q.head, HeadBound, headFailed)
    BY <1>1, <1>2, ReadyHead DEF Request
  <2>2. /\ HeadBound \in Nat /\ HeadBound + FetchMax + q.waited \in Nat
        /\ HeadBound <= HeadBound + FetchMax + q.waited /\ headFailed <= headFailed
    BY <1>1, <1>2, Constants
  <2> QED BY <1>1, <2>1, <2>2, HeadLoosens
<1>4. ResultWithin(q.result, ResultBound + q.waited, headFailed)
  <2>1. q.result = NoResult
    BY <1>1, <1>2 DEF Bounds, ReqOk
  <2> QED BY <2>1, NoResultWithin
<1>5. ReqOk(q, headFailed)
  BY <1>2, <1>3, <1>4 DEF ReqOk
<1> QED BY <1>1, <1>2, <1>5, Moves, Quiet


\* What a sinking request holds, when its answer is in.
LEMMA SinkingHolds ==
  ASSUME IInv, NEW r \in Requests, req[r].at = "sinking"
  PROVE  /\ req[r] \in Request /\ req[r].head \in Head /\ headFailed \in Nat
         /\ HeadWithin(req[r].head, Staleness, headFailed)
         /\ ResultWithin(req[r].result, Staleness, headFailed)
<1>1. /\ req[r] \in Request /\ headFailed \in Nat /\ ReqOk(req[r], headFailed)
  BY Constants DEF IInv, TypeOK, Bounds
<1> DEFINE q == req[r]
<1>2. q \in Request /\ q.at = "sinking" /\ ReqOk(q, headFailed)
  BY <1>1
<1> HIDE DEF q
<1>3. q.head \in Head /\ q.result \in Result /\ q.waited \in 0 .. FetchMax
  BY <1>2 DEF Request
<1>4. /\ HeadBound + FetchMax + q.waited \in Nat /\ ResultBound + q.waited \in Nat
      /\ HeadBound + FetchMax + q.waited <= Staleness
      /\ ResultBound + q.waited <= Staleness /\ headFailed <= headFailed
      /\ Staleness \in Nat
  BY <1>1, <1>3, Constants
<1>5. HeadWithin(q.head, Staleness, headFailed)
  BY <1>1, <1>2, <1>3, <1>4, HeadLoosens DEF ReqOk
<1>6. ResultWithin(q.result, Staleness, headFailed)
  BY <1>1, <1>2, <1>3, <1>4, ResultLoosens DEF ReqOk
<1> QED BY <1>1, <1>3, <1>5, <1>6 DEF q

LEMMA SinkAnswersKeeps ==
  ASSUME IInv, NEW r \in Requests, NEW cursor \in Lags, SinkAnswers(r, cursor)
  PROVE  IInv'
<1> DEFINE q == req[r]
           class == SinkClass(q.head, cursor)
           a == [NoAnswer EXCEPT !.to = q.kind, !.result = q.result,
                                 !.cursor = cursor, !.sink = class]
<1>1. /\ q.at = "sinking" /\ cursor \in Nat
      /\ req' = [req EXCEPT ![r] = Idle] /\ answer' = a
      /\ UNCHANGED <<caches, deployments, headFailed>>
  BY ProviderAssumption DEF SinkAnswers, ProviderAssumption
<1>2. /\ q \in Request /\ q.head \in Head /\ headFailed \in Nat
      /\ HeadWithin(q.head, Staleness, headFailed)
      /\ ResultWithin(q.result, Staleness, headFailed)
  BY <1>1, SinkingHolds
<1>3. /\ class \in Freshness
      /\ class = "fresh" => cursor <= Substreams + Staleness
      /\ class = "stale" /\ cursor <= Substreams => headFailed <= Staleness
  BY <1>1, <1>2, SinkWithin, Constants
<1>4. q.kind \in Kinds /\ q.result \in Result
  BY <1>2 DEF Request
<1> HIDE DEF q, class
<1>5. a \in Answer
  BY <1>1, <1>3, <1>4, Quiet DEF Answer
<1>6. /\ a.to = q.kind /\ a.result = q.result /\ a.cursor = cursor /\ a.sink = class
  BY DEF NoAnswer
<1>7. AnswerOk(a, headFailed)
  BY <1>2, <1>3, <1>4, <1>6 DEF AnswerOk, Kinds
<1> QED BY <1>1, <1>5, <1>7, Moves, Quiet

LEMMA SinkFailsKeeps ==
  ASSUME IInv, NEW r \in Requests, SinkFails(r)
  PROVE  IInv'
<1> DEFINE q == req[r]
           a == [NoAnswer EXCEPT !.to = q.kind, !.result = q.result]
<1>1. /\ q.at = "sinking" /\ req' = [req EXCEPT ![r] = Idle] /\ answer' = a
      /\ UNCHANGED <<caches, deployments, headFailed>>
  BY DEF SinkFails
<1>2. q \in Request /\ ResultWithin(q.result, Staleness, headFailed)
  BY <1>1, SinkingHolds
<1>3. q.kind \in Kinds /\ q.result \in Result
  BY <1>2 DEF Request
<1> HIDE DEF q
<1>4. a \in Answer
  BY <1>3, Quiet DEF Answer
<1>5. a.to = q.kind /\ a.result = q.result /\ a.sink = "unavailable"
  BY DEF NoAnswer
<1>6. AnswerOk(a, headFailed)
  BY <1>2, <1>3, <1>5 DEF AnswerOk, Kinds
<1> QED BY <1>1, <1>4, <1>6, Moves, Quiet

-----------------------------------------------------------------------------
(* The snapshot's checks                                                    *)

LEMMA SnapshotKeeps ==
  ASSUME IInv, NEW r \in Requests, Snapshot(r)
  PROVE  IInv'
<1> DEFINE asked == {c \in Checks : ~Live(checkCache[c])}
           looked == [c \in Checks |-> IF c \in asked THEN 0 ELSE checkCache[c].age]
           a == [NoAnswer EXCEPT !.to = "snapshot", !.looked = looked]
           q == [Idle EXCEPT !.at = "probing", !.pending = asked, !.looked = looked]
<1>1. /\ checkCache \in [Checks -> [age: Nat, left: Nat]]
      /\ req \in [Requests -> Request]
      /\ \A s \in Requests : ReqOk(req[s], headFailed)
      /\ ChecksOk(checkCache)
      /\ UNCHANGED <<caches, deployments, headFailed>>
  BY DEF IInv, TypeOK, Bounds, Snapshot
<1>2. looked \in [Checks -> Nat]
  BY <1>1
<1>3. \A c \in Checks : c \in asked \/ looked[c] <= CheckTtl[c] - 1
  <2> SUFFICES ASSUME NEW c \in Checks, Live(checkCache[c])
               PROVE checkCache[c].age <= CheckTtl[c] - 1
    BY <1>1
  <2>1. /\ checkCache[c].age \in Nat /\ checkCache[c].left \in Nat
        /\ CheckTtl[c] \in Nat
    BY <1>1, Constants
  <2> QED BY <1>1, <2>1 DEF ChecksOk, Live
<1>4. asked \in SUBSET Checks
  OBVIOUS
<1>5. /\ IF asked = {} THEN answer' = a /\ UNCHANGED req
         ELSE req' = [req EXCEPT ![r] = q] /\ answer' = NoAnswer
  BY DEF Snapshot
<1> HIDE DEF asked, looked
<1>6. CASE asked = {}
  <2>1. a \in Answer
    BY <1>2, Quiet DEF Answer
  <2>2. a.looked = looked /\ a.sink = "unavailable" /\ a.result = NoResult
    BY DEF NoAnswer
  <2>3. \A c \in Checks : looked[c] <= CheckTtl[c] - 1 + FetchMax
    BY <1>2, <1>3, <1>6, Constants
  <2>4. AnswerOk(a, headFailed)
    BY <2>2, <2>3, NoResultWithin DEF AnswerOk
  <2>5. answer' = a /\ req' = req
    BY <1>5, <1>6
  <2> HIDE DEF a
  <2>6. req' = [req EXCEPT ![r] = req[r]]
    BY <1>1, <2>5
  <2> QED BY <1>1, <2>1, <2>4, <2>5, <2>6, Moves
<1>7. CASE asked # {}
  <2>1. q \in Request
    BY <1>2, <1>4, Quiet DEF Request, Waiting
  <2>2. q.at = "probing" /\ q.pending = asked /\ q.looked = looked /\ q.waited = 0
    BY DEF Idle
  <2>3. req' = [req EXCEPT ![r] = q] /\ answer' = NoAnswer
    BY <1>5, <1>7
  <2> HIDE DEF q
  <2>4. \A c \in Checks : c \in q.pending \/ q.looked[c] <= CheckTtl[c] - 1 + q.waited
    BY <1>2, <1>3, <2>2, Constants
  <2>5. ReqOk(q, headFailed)
    BY <2>2, <2>4 DEF ReqOk
  <2> QED BY <1>1, <2>1, <2>3, <2>5, Moves, Quiet
<1> QED BY <1>6, <1>7

LEMMA ProbeAnswersKeeps ==
  ASSUME IInv, NEW r \in Requests, NEW c \in Checks, NEW age \in 0 .. FetchMax,
         ProbeAnswers(r, c, age)
  PROVE  IInv'
<1> DEFINE p == req[r]
           looked == [p.looked EXCEPT ![c] = age]
           entry == [age |-> age, left |-> LeftForCheck(r, c)]
           a == [NoAnswer EXCEPT !.to = "snapshot", !.looked = looked]
           q == [p EXCEPT !.pending = @ \ {c}, !.looked = looked]
<1>1. /\ TypeOK /\ Bounds /\ MetricsDescribeCache
      /\ req \in [Requests -> Request] /\ p \in Request
      /\ checkCache \in [Checks -> [age: Nat, left: Nat]]
      /\ \A s \in Requests : ReqOk(req[s], headFailed)
      /\ ChecksOk(checkCache) /\ ReqOk(p, headFailed)
  BY DEF IInv, TypeOK, Bounds
<1>2. /\ p.at = "probing" /\ c \in p.pending /\ age <= p.waited
      /\ checkCache' = [checkCache EXCEPT ![c] = entry]
      /\ UNCHANGED <<headCache, chainCache, deployments, headFailed>>
      /\ IF p.pending = {c} THEN req' = [req EXCEPT ![r] = Idle] /\ answer' = a
         ELSE req' = [req EXCEPT ![r].pending = @ \ {c}, ![r].looked = looked]
              /\ answer' = NoAnswer
  BY DEF ProbeAnswers
<1>3. /\ p.waited \in 0 .. FetchMax /\ p.pending \in SUBSET Checks
      /\ p.looked \in [Checks -> Nat] /\ looked \in [Checks -> Nat] /\ age \in Nat
      /\ FetchMax \in Nat
  BY <1>1, Constants DEF Request
<1>4. entry \in [age: Nat, left: Nat] /\ (Live(entry) => entry.age + entry.left <= CheckTtl[c])
  BY <1>2, <1>3, Constants DEF LeftForCheck, Live
<1> HIDE DEF entry
<1>5. /\ checkCache' \in [Checks -> [age: Nat, left: Nat]]
      /\ ChecksOk(checkCache')
  BY <1>1, <1>2, <1>4 DEF ChecksOk
<1>6. \A d \in Checks : d \in p.pending \ {c} \/ looked[d] <= CheckTtl[d] - 1 + p.waited
  <2> SUFFICES ASSUME NEW d \in Checks, d \notin p.pending \ {c}
               PROVE looked[d] <= CheckTtl[d] - 1 + p.waited
    OBVIOUS
  <2>1. CASE d = c
    BY <1>2, <1>3, <2>1, Constants
  <2>2. CASE d # c
    <3>1. d \notin p.pending /\ looked[d] = p.looked[d]
      BY <1>3, <2>2
    <3> QED BY <1>1, <1>2, <3>1 DEF ReqOk
  <2> QED BY <2>1, <2>2
<1>7. /\ req' \in [Requests -> Request]
      /\ \A s \in Requests : ReqOk(req'[s], headFailed)
      /\ answer' \in Answer /\ AnswerOk(answer', headFailed)
  <2>1. CASE p.pending = {c}
    <3>1. a \in Answer
      BY <1>3, Quiet DEF Answer
    <3>2. a.looked = looked /\ a.sink = "unavailable" /\ a.result = NoResult
      BY DEF NoAnswer
    <3>3. \A d \in Checks : looked[d] <= CheckTtl[d] - 1 + FetchMax
      BY <1>3, <1>6, <2>1, Constants
    <3>4. AnswerOk(a, headFailed)
      BY <3>2, <3>3, NoResultWithin DEF AnswerOk
    <3>5. req' = [req EXCEPT ![r] = Idle] /\ answer' = a
      BY <1>2, <2>1
    <3> HIDE DEF a
    <3> QED BY <1>1, <3>1, <3>4, <3>5, ReqStep, Quiet
  <2>2. CASE p.pending # {c}
    <3>1. req' = [req EXCEPT ![r] = q] /\ answer' = NoAnswer
      BY <1>1, <1>2, <2>2
    <3>2. /\ q \in Request /\ q.at = "probing" /\ q.waited = p.waited
          /\ q.pending = p.pending \ {c} /\ q.looked = looked
      BY <1>1, <1>2, <1>3 DEF Request
    <3> HIDE DEF q
    <3>3. ReqOk(q, headFailed)
      BY <1>6, <3>2 DEF ReqOk
    <3> QED BY <1>1, <3>1, <3>2, <3>3, ReqStep, Quiet
  <2> QED BY <2>1, <2>2
<1>8. TypeOK'
  BY <1>1, <1>2, <1>5, <1>7 DEF TypeOK
<1>9. Bounds'
  BY <1>1, <1>2, <1>5, <1>7 DEF Bounds
<1>10. MetricsDescribeCache'
  BY <1>1, <1>2 DEF MetricsDescribeCache, Live
<1> QED BY <1>8, <1>9, <1>10 DEF IInv


-----------------------------------------------------------------------------
(* Time                                                                     *)

LEMMA OlderNoResult == OlderResult(NoResult) = NoResult
BY DEF OlderResult, NoResult, Failed

LEMMA LaterAge ==
  ASSUME NEW age \in 0 .. LongAgo
  PROVE  Later(age) \in 0 .. LongAgo /\ Later(age) <= age + 1
BY Constants DEF Later

LEMMA OlderRequestOk ==
  ASSUME NEW q \in Request, q.at # "ready", q.at # "idle" => q.waited < FetchMax,
         NEW f \in Nat, NEW g \in Nat, g <= f + 1, ReqOk(q, f)
  PROVE  OlderRequest(q) \in Request /\ ReqOk(OlderRequest(q), g)
<1>1. CASE q.at = "idle"
  BY <1>1 DEF OlderRequest, ReqOk
<1>2. CASE q.at # "idle"
  <2> DEFINE head == IF q.at \in {"heading", "probing"} THEN q.head ELSE OlderHead(q.head)
             result == OlderResult(q.result)
             looked == [c \in Checks |-> IF q.at = "probing" /\ c \notin q.pending
                                         THEN q.looked[c] + 1 ELSE q.looked[c]]
             w == q.waited + 1
             o == [q EXCEPT !.waited = w, !.head = head, !.result = result,
                            !.looked = looked]
  <2>1. /\ q.head \in Head /\ q.result \in Result /\ q.waited \in Nat
        /\ q.waited < FetchMax /\ q.looked \in [Checks -> Nat]
        /\ HeadBound \in Nat /\ ResultBound \in Nat /\ FetchMax \in Nat
    BY <1>2, Constants DEF Request
  <2>2. OlderRequest(q) = o
    BY <1>2 DEF OlderRequest
  <2>3. /\ head \in Head /\ result \in Result /\ w \in 0 .. FetchMax
        /\ looked \in [Checks -> Nat]
    BY <2>1, OlderHeadType, OlderResultType
  <2>4. ASSUME q.at = "fetching" PROVE HeadWithin(head, HeadBound + w, g)
    <3>1. HeadWithin(q.head, HeadBound + q.waited, f) /\ head = OlderHead(q.head)
      BY <2>4 DEF ReqOk
    <3>2. HeadWithin(head, HeadBound + q.waited + 1, g)
      BY <2>1, <3>1, OlderHeadWithin
    <3>3. HeadBound + q.waited + 1 = HeadBound + w
      BY <2>1
    <3> QED BY <3>2, <3>3
  <2>5. ASSUME q.at = "sinking" PROVE HeadWithin(head, HeadBound + FetchMax + w, g)
    <3>1. HeadWithin(q.head, HeadBound + FetchMax + q.waited, f) /\ head = OlderHead(q.head)
      BY <2>5 DEF ReqOk
    <3>2. HeadWithin(head, HeadBound + FetchMax + q.waited + 1, g)
      BY <2>1, <3>1, OlderHeadWithin
    <3>3. HeadBound + FetchMax + q.waited + 1 = HeadBound + FetchMax + w
      BY <2>1
    <3> QED BY <3>2, <3>3
  <2>6. ASSUME q.at = "sinking" PROVE ResultWithin(result, ResultBound + w, g)
    <3>1. ResultWithin(q.result, ResultBound + q.waited, f)
      BY <2>6 DEF ReqOk
    <3>2. ResultWithin(result, ResultBound + q.waited + 1, g)
      BY <2>1, <3>1, OlderResultWithin
    <3>3. ResultBound + q.waited + 1 = ResultBound + w
      BY <2>1
    <3> QED BY <3>2, <3>3
  <2>7. ASSUME q.at = "probing", NEW c \in Checks, c \notin q.pending
        PROVE  looked[c] <= CheckTtl[c] - 1 + w
    <3>1. q.looked[c] <= CheckTtl[c] - 1 + q.waited /\ q.looked[c] \in Nat
          /\ looked[c] = q.looked[c] + 1
      BY <2>1, <2>7 DEF ReqOk
    <3> QED BY <2>1, <3>1, Constants
  <2>8. q.at = "heading" => result = NoResult
    BY OlderNoResult DEF ReqOk
  <2> HIDE DEF head, result, looked, w
  <2>9. o \in Request
    BY <2>3 DEF Request
  <2>10. /\ o.at = q.at /\ o.waited = w /\ o.head = head /\ o.result = result
         /\ o.looked = looked /\ o.pending = q.pending
    BY DEF Request
  <2> HIDE DEF o
  <2>11. ReqOk(o, g)
    BY <2>4, <2>5, <2>6, <2>7, <2>8, <2>10 DEF ReqOk
  <2> QED BY <2>2, <2>9, <2>11
<1> QED BY <1>1, <1>2

LEMMA TickHead ==
  ASSUME NEW c \in [head: Head, left: 0 .. HeadTtl], NEW f \in Nat, NEW g \in Nat,
         g <= f + 1, HeadCacheOk(c, f),
         NEW e, e = OlderEntry(c, [head |-> OlderHead(c.head), left |-> c.left - 1], NoHead)
  PROVE  e \in [head: Head, left: 0 .. HeadTtl] /\ HeadCacheOk(e, g)
<1>1. CASE c.left > 1
  <2>1. /\ c.head \in Head /\ c.left \in Nat /\ HeadBound + 1 - c.left \in Nat
        /\ e = [head |-> OlderHead(c.head), left |-> c.left - 1]
        /\ HeadWithin(c.head, HeadBound + 1 - c.left, f)
    BY <1>1, Constants DEF OlderEntry, HeadCacheOk, Live, HeadBound
  <2>2. /\ OlderHead(c.head) \in Head
        /\ HeadWithin(OlderHead(c.head), HeadBound + 1 - c.left + 1, g)
    BY <2>1, OlderHeadWithin
  <2>3. HeadBound + 1 - c.left + 1 = HeadBound + 1 - e.left /\ e.left \in 0 .. HeadTtl
    BY <1>1, <2>1, Constants
  <2>4. e.head = OlderHead(c.head)
    BY <2>1
  <2> QED BY <2>1, <2>2, <2>3, <2>4 DEF HeadCacheOk
<1>2. CASE ~(c.left > 1)
  BY <1>2, Quiet, Constants DEF OlderEntry, NoHead, HeadCacheOk, Live
<1> QED BY <1>1, <1>2

LEMMA TickChain ==
  ASSUME NEW c \in [result: Result, left: 0 .. ChainTtl], NEW f \in Nat, NEW g \in Nat,
         g <= f + 1, ChainCacheOk(c, f),
         NEW e, e = OlderEntry(c, [result |-> OlderResult(c.result),
                                   left |-> c.left - 1], NoChain)
  PROVE  /\ e \in [result: Result, left: 0 .. ChainTtl] /\ ChainCacheOk(e, g)
         /\ Live(e) => /\ Live(c) /\ e.left = c.left - 1
                       /\ \A d \in Deployments : e.result[d].ok = c.result[d].ok
<1>1. CASE c.left > 1
  <2>1. /\ c.result \in Result /\ c.left \in Nat /\ ResultBound + 1 - c.left \in Nat
        /\ e = [result |-> OlderResult(c.result), left |-> c.left - 1]
        /\ ResultWithin(c.result, ResultBound + 1 - c.left, f)
    BY <1>1, Constants DEF OlderEntry, ChainCacheOk, Live, ResultBound
  <2>2. /\ OlderResult(c.result) \in Result
        /\ ResultWithin(OlderResult(c.result), ResultBound + 1 - c.left + 1, g)
    BY <2>1, OlderResultWithin, OlderResultType
  <2>3. ResultBound + 1 - c.left + 1 = ResultBound + 1 - e.left /\ e.left \in 0 .. ChainTtl
    BY <1>1, <2>1, Constants
  <2>4. e.result = OlderResult(c.result) /\ e.left = c.left - 1
    BY <2>1
  <2>5. ASSUME NEW d \in Deployments PROVE OlderResult(c.result)[d].ok = c.result[d].ok
    <3>1. c.result[d] \in Outcome
      BY <2>1 DEF Result
    <3> QED BY <3>1 DEF OlderResult, Outcome
  <2> QED BY <1>1, <2>1, <2>2, <2>3, <2>4, <2>5 DEF ChainCacheOk, Live
<1>2. CASE ~(c.left > 1)
  BY <1>2, NoResultWithin, Constants DEF OlderEntry, NoChain, ChainCacheOk, Live
<1> QED BY <1>1, <1>2

LEMMA TickCheck ==
  ASSUME NEW c \in [age: Nat, left: Nat], NEW n \in Nat, n > 0,
         Live(c) => c.age + c.left <= n,
         NEW e, e = OlderEntry(c, [age |-> c.age + 1, left |-> c.left - 1], NoCheck)
  PROVE  e \in [age: Nat, left: Nat] /\ (Live(e) => e.age + e.left <= n)
<1>1. CASE c.left > 1
  BY <1>1 DEF OlderEntry, Live
<1>2. CASE ~(c.left > 1)
  BY <1>2 DEF OlderEntry, Live, NoCheck
<1> QED BY <1>1, <1>2

LEMMA TickKeeps ==
  ASSUME IInv, Tick
  PROVE  IInv'
<1>1. /\ TypeOK /\ Bounds /\ MetricsDescribeCache
      /\ headFailed \in 0 .. LongAgo /\ headFailed \in Nat
      /\ headFailed' = Later(headFailed) /\ answer' = NoAnswer
  BY Constants DEF IInv, TypeOK, Tick
<1>2. headFailed' \in 0 .. LongAgo /\ headFailed' \in Nat /\ headFailed' <= headFailed + 1
  BY <1>1, LaterAge, Constants
<1>3. /\ headCache' \in [head: Head, left: 0 .. HeadTtl]
      /\ HeadCacheOk(headCache', headFailed')
  BY <1>1, <1>2, TickHead DEF Tick, TypeOK, Bounds
<1>4. /\ chainCache' \in [result: Result, left: 0 .. ChainTtl]
      /\ ChainCacheOk(chainCache', headFailed')
      /\ Live(chainCache') =>
           /\ Live(chainCache) /\ chainCache'.left = chainCache.left - 1
           /\ \A d \in Deployments : chainCache'.result[d].ok = chainCache.result[d].ok
  BY <1>1, <1>2, TickChain DEF Tick, TypeOK, Bounds
<1>5. /\ checkCache' \in [Checks -> [age: Nat, left: Nat]]
      /\ ChecksOk(checkCache')
  <2> DEFINE e(c) == OlderEntry(checkCache[c], [age |-> checkCache[c].age + 1,
                                                left |-> checkCache[c].left - 1], NoCheck)
  <2>1. checkCache' = [c \in Checks |-> e(c)]
    BY DEF Tick
  <2>2. ASSUME NEW c \in Checks
        PROVE  /\ e(c) \in [age: Nat, left: Nat]
               /\ Live(e(c)) => e(c).age + e(c).left <= CheckTtl[c]
    <3>1. /\ checkCache[c] \in [age: Nat, left: Nat] /\ CheckTtl[c] \in Nat
          /\ CheckTtl[c] > 0
          /\ Live(checkCache[c]) => checkCache[c].age + checkCache[c].left <= CheckTtl[c]
      BY <1>1, Constants DEF TypeOK, Bounds, ChecksOk
    <3> QED BY <3>1, TickCheck
  <2> HIDE DEF e
  <2> QED BY <2>1, <2>2 DEF ChecksOk
<1>6. /\ req' \in [Requests -> Request]
      /\ \A r \in Requests : ReqOk(req'[r], headFailed')
  <2>1. ASSUME NEW r \in Requests
        PROVE  OlderRequest(req[r]) \in Request /\ ReqOk(OlderRequest(req[r]), headFailed')
    <3>1. /\ req[r] \in Request /\ ReqOk(req[r], headFailed)
          /\ req[r].at # "ready" /\ (req[r].at # "idle" => req[r].waited < FetchMax)
      BY <1>1 DEF TypeOK, Bounds, Tick
    <3> QED BY <1>1, <1>2, <3>1, OlderRequestOk
  <2>2. req' = [r \in Requests |-> OlderRequest(req[r])]
    BY DEF Tick
  <2> QED BY <2>1, <2>2
<1>7. /\ deployments' \in [Deployments -> [ok: BOOLEAN, age: 0 .. LongAgo]]
      /\ \A d \in Deployments : /\ deployments'[d].ok = deployments[d].ok
                                /\ deployments'[d].age = Later(deployments[d].age)
  <2>1. deployments \in [Deployments -> [ok: BOOLEAN, age: 0 .. LongAgo]]
    BY <1>1 DEF TypeOK
  <2>2. deployments' = [d \in Deployments |->
                          [deployments[d] EXCEPT !.age = Later(@)]]
    BY DEF Tick
  <2>3. ASSUME NEW d \in Deployments
        PROVE  Later(deployments[d].age) \in 0 .. LongAgo
    BY <2>1, LaterAge
  <2> QED BY <2>1, <2>2, <2>3
<1>8. TypeOK'
  BY <1>1, <1>2, <1>3, <1>4, <1>5, <1>6, <1>7, Quiet DEF TypeOK
<1>9. Bounds'
  BY <1>1, <1>3, <1>4, <1>5, <1>6, Quiet DEF Bounds
<1>10. MetricsDescribeCache'
  <2> SUFFICES ASSUME Live(chainCache'), NEW d \in Deployments
               PROVE  /\ deployments'[d].ok = chainCache'.result[d].ok
                      /\ deployments'[d].age = ChainTtl - chainCache'.left
    BY DEF MetricsDescribeCache
  <2>1. /\ Live(chainCache) /\ chainCache'.left = chainCache.left - 1
        /\ chainCache'.result[d].ok = chainCache.result[d].ok
    BY <1>4
  <2>2. /\ deployments[d].ok = chainCache.result[d].ok
        /\ deployments[d].age = ChainTtl - chainCache.left
    BY <1>1, <2>1 DEF MetricsDescribeCache
  <2>3. chainCache.left \in 0 .. ChainTtl /\ chainCache'.left \in 0 .. ChainTtl
    BY <1>1, <1>4 DEF TypeOK
  <2>4. Later(deployments[d].age) = ChainTtl - chainCache'.left
    BY <2>1, <2>2, <2>3, Constants DEF Later
  <2> QED BY <1>7, <2>1, <2>2, <2>4
<1> QED BY <1>8, <1>9, <1>10 DEF IInv

-----------------------------------------------------------------------------
(* The theorems                                                             *)

LEMMA InitIInv ==
  ASSUME Init
  PROVE  IInv
<1>1. headFailed = LongAgo /\ LongAgo \in 0 .. LongAgo
  BY Constants DEF Init
<1>2. NoResult \in Result
  BY NoResultWithin
<1>3. TypeOK
  <2>1. headCache \in [head: Head, left: 0 .. HeadTtl]
    BY Quiet, Constants DEF Init, NoHead
  <2>2. chainCache \in [result: Result, left: 0 .. ChainTtl]
    BY <1>2, Constants DEF Init, NoChain
  <2>3. checkCache \in [Checks -> [age: Nat, left: Nat]]
    BY DEF Init, NoCheck
  <2>4. deployments \in [Deployments -> [ok: BOOLEAN, age: 0 .. LongAgo]]
    BY <1>1 DEF Init
  <2>5. req \in [Requests -> Request] /\ answer \in Answer
    BY Quiet DEF Init
  <2> QED BY <1>1, <2>1, <2>2, <2>3, <2>4, <2>5 DEF TypeOK
<1>4. /\ \A r \in Requests : ReqOk(req[r], headFailed)
      /\ AnswerOk(answer, headFailed)
  BY Quiet DEF Init
<1>5. ~Live(headCache) /\ ~Live(chainCache) /\ \A c \in Checks : ~Live(checkCache[c])
  BY DEF Init, NoHead, NoChain, NoCheck, Live
<1>6. Bounds
  BY <1>4, <1>5 DEF Bounds, HeadCacheOk, ChainCacheOk, ChecksOk
<1>7. MetricsDescribeCache
  BY <1>5 DEF MetricsDescribeCache
<1> QED BY <1>3, <1>6, <1>7 DEF IInv

LEMMA NextIInv ==
  ASSUME IInv, [Next]_vars
  PROVE  IInv'
<1>1. CASE Tick
  BY <1>1, TickKeeps
<1>2. ASSUME NEW r \in Requests, Work(r)
      PROVE  IInv'
  <2>1. ASSUME NEW kind \in Kinds, HeadHit(r, kind) PROVE IInv'
    BY <2>1, HeadHitKeeps
  <2>2. ASSUME NEW kind \in Kinds, HeadMiss(r, kind) PROVE IInv'
    BY <2>2, HeadMissKeeps
  <2>3. ASSUME NEW age \in 0 .. FetchMax, HeadAnswers(r, age) PROVE IInv'
    BY <2>3, HeadAnswersKeeps
  <2>4. CASE HeadFails(r)
    BY <2>4, HeadFailsKeeps
  <2>5. CASE ChainHit(r)
    BY <2>5, ChainHitKeeps
  <2>6. CASE ChainMiss(r)
    BY <2>6, ChainMissKeeps
  <2>7. ASSUME NEW answered \in SUBSET Deployments, NEW ages \in [answered -> Lags],
               NEW errs \in SUBSET answered, ChainAnswers(r, ages, errs)
        PROVE  IInv'
    BY <2>7, ChainAnswersKeeps
  <2>8. CASE SinkOnly(r)
    BY <2>8, SinkOnlyKeeps
  <2>9. ASSUME NEW cursor \in Lags, SinkAnswers(r, cursor) PROVE IInv'
    BY <2>9, SinkAnswersKeeps
  <2>10. CASE SinkFails(r)
    BY <2>10, SinkFailsKeeps
  <2>11. CASE Snapshot(r)
    BY <2>11, SnapshotKeeps
  <2>12. ASSUME NEW c \in Checks, NEW age \in 0 .. FetchMax, ProbeAnswers(r, c, age)
         PROVE  IInv'
    BY <2>12, ProbeAnswersKeeps
  <2> QED BY <1>2, <2>1, <2>2, <2>3, <2>4, <2>5, <2>6, <2>7, <2>8, <2>9, <2>10,
             <2>11, <2>12 DEF Work
<1>3. CASE UNCHANGED vars
  <2>1. TypeOK'
    BY <1>3 DEF IInv, TypeOK, vars, caches
  <2>2. Bounds'
    BY <1>3 DEF IInv, Bounds, vars, caches
  <2>3. MetricsDescribeCache'
    BY <1>3 DEF IInv, MetricsDescribeCache, Live, vars, caches
  <2> QED BY <2>1, <2>2, <2>3 DEF IInv
<1> QED BY <1>1, <1>2, <1>3 DEF Next

LEMMA Inductive == Spec => []IInv
<1>1. Init => IInv
  BY InitIInv
<1>2. IInv /\ [Next]_vars => IInv'
  BY NextIInv
<1> QED BY <1>1, <1>2, PTL DEF Spec

\* Every cache, request and answer keeps its shape.
THEOREM TypeCorrect == Spec => []TypeOK
<1>1. IInv => TypeOK
  BY DEF IInv
<1> QED BY <1>1, Inductive, PTL

\* What is called fresh is at most its threshold, the caches' lives and three
\* upstream calls old, however requests overlap and whatever fails.
THEOREM FreshIsRecent == Spec => []FreshMeansRecent
<1>1. IInv => FreshMeansRecent
  BY DEF IInv, Bounds, AnswerOk, ResultWithin, OutcomeWithin, FreshMeansRecent
<1> QED BY <1>1, Inductive, PTL

\* A failed head read is held against a current source for no longer than that.
THEOREM OutagesWearOff == Spec => []OutageWearsOff
<1>1. IInv => OutageWearsOff
  BY DEF IInv, Bounds, AnswerOk, ResultWithin, OutcomeWithin, OutageWearsOff
<1> QED BY <1>1, Inductive, PTL

\* A snapshot's checks are at most a cache life and a call old.
THEOREM ChecksStayRecent == Spec => []ChecksAreRecent
<1>1. IInv => ChecksAreRecent
  BY DEF IInv, Bounds, AnswerOk, ChecksOk, ChecksAreRecent
<1> QED BY <1>1, Inductive, PTL

\* The recorded outcomes are those of the result in the cache.
THEOREM MetricsMatch == Spec => []MetricsDescribeCache
<1>1. IInv => MetricsDescribeCache
  BY DEF IInv
<1> QED BY <1>1, Inductive, PTL
=============================================================================
