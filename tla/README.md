# VaultRadar in TLA+

TLA+ specifications of VaultRadar, the pay-per-request vault-risk service in `src/`, with the
TLC configurations that model-check them on small instances and TLAPS proofs of their safety
properties for every value of the constants. Every definition is translated from the source;
`PROJECT.json` maps each one to the lines it models, lists the runs, and lists the hazards of the
code with the properties that cover them.

    tlc -workers 2 -config MCHcsQueue.cfg MCHcsQueue      # any MC*.cfg with its module
    tlapm Hedera_proofs.tla                               # any *_proofs.tla, and Lemmas.tla

Contents: [inventory](#inventory), [modules](#modules), [runs and bounds](#runs-and-bounds),
[findings](#findings), [fairness](#fairness), [assumptions](#assumptions), [proofs](#proofs),
[only model-checked](#only-model-checked), [not modelled](#not-modelled), [plan](#plan).

## Inventory

The system is a paid HTTP service, an agent that buys from it, and a dashboard that does both on
a visitor's behalf. All of it is TypeScript on one event loop per process: what runs between two
`await`s is atomic, and every hazard below is about what happens at an `await`, at a timer, in
another process, or after a restart. Paths are under `src/packages/`.

| Component | State | Operations | What makes it hard |
|---|---|---|---|
| Sealed exchange: `core/src/envelope.ts`, `service/src/handlers/scan.ts`, `service/src/rails/*.ts` | `MemoryNonceStore`, shared by both rails; the stage of each request | pre-payment check, payer check, nonce commit, verify, settle, data call, answer | the two rails run the same checks in opposite orders; on Arc the nonce is looked up before settlement and committed after; store lost on restart; client clocks |
| Hedera commitment queue: `service/src/hcs.ts` | queue, `running`, map of recent commits; the topic | `enqueue`, `drain` (chunked submit, retry, rotate), `lookup`, `mirrorLookup` | enqueues fall between a drain's awaits; a submit that fails after some or all of its chunks; a receipt that never submits; bounded map, bounded pages; restart |
| Hedera settlement correlation: `service/src/rails/hedera.ts` | `verifiedPayerByTxKey`, `receiptByTxKey` with expiry | `onAfterVerify`, the route wrapper, `onAfterSettle`, `onSettleFailure` | hooks and handler meet only through a key; the order of continuations; TTL; requests with one payment |
| Dashboard paid scan: `dashboard/lib/scan.ts`, `spend.ts`, `ratelimit.ts` | `SpendLedger.entries`, `RateLimiter.hits`, the stage of each request | reserve, settle, release, check, discover, pay | bursts; timeouts that do not cancel; transfers later than their request; rolling windows |
| Data provider: `service/src/data/provider.ts`, `metrics.ts`, `core/src/unify/freshness.ts` | head cache (15 s), chain cache (60 s), health and identity caches, last outcomes | `scan`, `table`, `snapshot` | several lifetimes; concurrent misses; an unreachable chain's sentinel head |
| Agent client and rails: `agent/src/client.ts`, `agent/src/rails/*.ts` | the cached discovery; the quote in flight | quote, discover, pay, verify the receipt | the demanded amount is the service's; a shared field across awaits |
| Agent purchase loop: `agent/src/watch.ts`, `policy.ts`, `tools.ts`, `runs.ts` | the run record, decisions carried over, the chat session's open run | identity gate, rail choice, fan-out of purchases, save | one purchase of several fails after others were paid; concurrent tool calls |
| Risk report: `core/src/risk.ts`, `standardized/map.ts`, `substreams/reader.ts` | none | build a history, score it | two series of one flow; windows of ages against spacing, lag and query limits; merged sources |
| Substreams module: `substreams/erc4626-vault-metrics/src/lib.rs` | the stores of the handlers, the rows of three SQL tables | the handlers of one block, in dependency order | calls that fail; stores seen by later handlers of the same block; upserts that leave columns alone |
| Run files: `dashboard/lib/runs.ts`, `agent/src/runs.ts` | the runs directory | list, read one by one, write, rewrite in place | two processes; torn files; names that are ends of names |
| Dashboard pages: `dashboard/app/**`, `lib/universe.ts`, `lib/onchain.ts` | the form's and the receipt check's React state | render a run, rank vaults, scan and reload history, check a receipt | answers lost, late or of an older question; overlapping checks; several verdicts on one vault |
| Pricing, metrics counters, admin page, configuration, cryptography, scripts | counters or none | price, count, show, sign | little: see [not modelled](#not-modelled) |

How they interact. A request reaches the service on one of two rails. On Hedera the facilitator
verifies the payment (`onAfterVerify` stores the payer), the handler runs and buffers its 200, the
facilitator settles, and `onAfterSettle` hands the receipt found under the payment's transaction to
`HcsQueue.enqueue`. On Arc a synchronous pre-validation precedes Circle's verify-and-settle, and the
handler follows the money; its receipt is enqueued when the handler has answered. Both rails share
one nonce store and one queue (`main.ts`). The agent quotes locally, discovers the service, checks
its ERC-8004 identity, signs a payment no larger than its quote allows, and verifies receipt and
attestations before it decides anything. The dashboard's `/api/scan` is an agent purchase under an
aggregate cap, and its portfolio page reads the same ledger.

What makes each component correct:

- *Sealed exchange*: one process works on no envelope twice; a nonce outlives every replay that
  could pass the clock; only the owner of an envelope can burn it; refusals are free on Hedera, and
  on Arc the paid refusals are the two the code accepts; a 200 is paid for and admitted.
- *Commitment queue*: one drain, always on the head, never missing a wake-up; nothing dropped,
  duplicated or blocked by a receipt that cannot be submitted; the map of recent commits is the
  newest part of the log.
- *Settlement correlation*: served if and only if handed over; one receipt per payment; the maps do
  not leak.
- *Dashboard*: what leaves the wallet is bounded by the cap and the hourly count however requests,
  failures and late transfers interleave; what was not bought is not held; no hold is for ever.
- *Provider*: what is called fresh is recent by the clock, within the cache lives and call times; the
  mark of an outage wears off within the same time; a check shown to the operator is recent.
- *Risk report*: an outflow that is flagged happened, a lasting fall is flagged, and no verdict rests
  on a source that is not fresh or on a price that cannot be read.
- *Substreams module*: the tables agree with the chain: totals, flows, depositors.
- *Run files and pages*: every whole run is served; of several readings the worst is shown; a
  purchase is in the history beside it; "verified" is said only of an anchored receipt.
- *Agent*: nothing is paid or believed under an unanchored key; a call's payments, however many, stay
  within its quote and its budget; no action without evidence and no vault without an answer; what a
  call bought is on record, and stays there.

## Modules

| Module | Models | State and actions in the code |
|---|---|---|
| `SealedExchange` | one request from arrival to response on both rails, the nonce store, a restart | `pc[r]` is the await `r` is suspended at (`verifying`: facilitator verify; `paying`, `paid`: Circle's verify-and-settle and the hand-over to the handler; `working`: the data call; `buffered`, `settled`: Hedera settlement) or how it ended. Each action is the code from one await to the next: `HederaAdmitSealed` is the sealed branch of the handler up to the data call, `ArcArrive` all middlewares in front of `gateway.require`, `ArcAdmitSealed` and `ArcRefuseReplay` the two returns of `commitNonce`. A request that arrives copies one of finitely many envelopes, or none. |
| `CommitLog` | what anchoring promises, with no queue, retry or order | `pending`, `committed` |
| `HcsQueue` | class `HcsQueue`; refines `CommitLog` | `q`, `running`, `done` are its fields; `drain[d]` the locals of an activation of `drain()`. `EnqueueAndDrain` is `enqueue` including the synchronous prefix of `drain`; `SubmitOk`, `SubmitFails` and `Wake` continue after the submit and after the retry delay. |
| `HcsTopic` | extends `HcsQueue` with the topic, `makeHederaSubmit`, `lookup`, `mirrorLookup` | `topic` is the topic's messages, `landed` the chunks of the submit in flight, `results` what successful submits returned. `Land` puts one chunk on the topic, `Succeeds` and `Fails` are `SubmitOk` and `SubmitFails` with what is on the topic by then: a submit may fail after none, some or all of its chunks. `mirrorLookup` is an operator: the topic is append-only and its pages are found by age, so what a look-up reads is what stood there when it read its first page. |
| `HederaRail` | the two TTL maps and the x402 hooks | `micro` holds the continuations a handler's answer has queued (the wrapper's store, the middleware's send), which run before any network answer. |
| `DashboardScan` | `handleScan`, `SpendLedger`, `RateLimiter` | `stage[r]` is the await (`discovering`, `paying`) or the outcome; `entries` and `hits` are the two classes' fields; `paid` is the network's record of transfers, independent of what the route was told. |
| `AgentPurchase` | `runWatch` and the paid tools of a chat session (`tools.ts`), over `executePurchase`, `policy.ts` and `VaultRadarClient` | `disc` and `quoteAtomic` are the client's fields, `run` and `file` the record in memory and on disk (`file` is None when there is none or it does not parse: a failed write may have truncated it); `call` holds the locals of the call in progress and `call.stage` the await it is suspended at: `opened` (fetching the card), `trusted` (balances and facilitator health), `buying`, `sent` (the unpaid request), `signed` (the paid one). `Send` is `paid` up to the paying fetch, `Sign` the rail's ceiling and signature, `Served` the rest of `paid` with the loop body of `executePurchase` after it, `OpenRun` and `AppendToRun` `RunLog.append`. `spent` and `signings` are history. |
| `ProviderCache` | one chain of `LiveDataProvider`, with `Metrics`' caches | `req[r]` is the await a request is at: `heading`, `fetching`, `sinking`, `probing`; `headCache`, `chainCache`, `checkCache`, `deployments` are the maps. The code compares only differences of instants, so the model keeps ages, and `Tick` makes everything one older. `answer` and `headFailed` are history. |
| `RiskReport` | `computeRisk` over `mapYieldVaults`, `mapLendingMarkets` and the sink's reader | The behaviour is the vault's past as its sources can tell it: `chain[t]` is the price and balance at tick `t`, whether they were given, and whether `t` has an event; `indexed` is the tick the indexer has got to. Only events are recorded: by the sink as one row each (`Rows`: the newest 500 of 8 days), by a subgraph in the snapshot of their hour and day (`Snapshots`). `Else` and `Text` are the code's `??` and `String`, so a price that is missing becomes the current one, or 1, or no number, where the code makes it so; `BalanceAt` is the event the balance is from, for the sink the last whose eth_call answered. History, flags, score and verdict are operators of the state, as the code's are pure functions, so each reachable state is one input. |
| `VaultSink` | the Substreams module | One action, `ProcessBlock`: the handlers in dependency order, each seeing the stores as its predecessors left them, with the outcome of every eth_call as the action's input. `chain` and `calls` are history. |
| `RunStore` | `dashboard/lib/runs.ts` and the writers of the directory | `SaveBegins` and `SaveEnds` are the agent's rewrite of its file, torn in between, `AgentDies` a rewrite that is never finished; `Persist` the dashboard's own write, which may fail before or after the file was truncated. `ReadAll` and `GetRun` list the directory, `ReadFile` reads one file: the directory may change between any two. |
| `RunPages` | `/universe` and `/runs/[id]` | operators on what a read returned: `buildVaultRows`, `UniversePage`, `VerdictGrid`, `RunPage` |
| `ScanForm` | `/portfolio` with `POST /api/scan` and `GET /api/runs` | the form's `useState`, the request it awaits, and the scans at work on the server, which go on when the connection breaks |
| `VerifyPage` | `/verify`, `lib/onchain.ts`, `core/src/identity.ts` | `checks[c]` are the locals of a running check; `CardArrives`, `AnchorRead`, `PinsArrive` its awaits |
| `DashboardPages` | the three pages over one run store | `page`: which one is open |
| `Arrays` | `Array.prototype.filter` and `sort`, as the pages use them | operators: `filter` keeps the order, `sort` is stable |
| `MC*` | instances for TLC | constants only |
| `Lemmas` | no code: lemmas on sums over finite sets, differences along a chain and multiples; on arrays filtered, sorted and flattened | see [Proofs](#proofs) |
| `*_proofs` | theorems about the module they name; `Hedera_proofs` about `HcsQueue`, `HcsTopic` and `HederaRail`, `Dashboard_proofs` about `DashboardScan` and `DashboardPages` | see [Proofs](#proofs) |

Operators whose comment says "faulty variant" are not part of a specification's `Next`: each is a
plausible bug in the definition that follows it. The `mutants` of `PROJECT.json` put it in place of
that definition, and the property named there is then violated; this is how each property is known
to depend on the code.

What the models abstract: the contents of a request are an envelope or "clear", plus a `fault` that
stands for any reason the handler refuses its body; cryptography is ideal (an envelope names its
payer, cannot be altered, and opens only at the service; in `AgentPurchase` a signature is the key
that made it); amounts appear in `DashboardScan`, on a small scale, and in `AgentPurchase`, in
micro-USD at the catalogue's prices; the HTTP, x402 and Hedera libraries appear as the outcomes they
can report, including "it happened and the answer was lost". Blocks, hours and ticks stand for time at
the coarsest grain that keeps the order of the code's durations; prices and balances in `RiskReport` are
small numbers at the code's thresholds. Parsing is kept where a property is about it: a price that is not
a number, a text of vault ids with blank and malformed lines, a torn JSON file, a log that does not decode.

The modules meet as the code does: `HederaRail`'s `handed` is the sequence of `HcsQueue.enqueue`
calls, and the stages `buffered`, `settled` and `answered` of `SealedExchange` are `answered` and
`served` in `HederaRail`. `HederaRail` covers clear requests: a sealed one is protected from sharing
a payment by its nonce. `VaultSink`'s `vaultMetrics` rows are the block series of `RiskReport`'s
`BlockHistory`; the class `ProviderCache` gives a source is `RiskReport`'s `SourceClass` and `other`. A
run saved by `AgentPurchase` is a file of `RunStore`, and what `ScanForm` calls `Pays` and `Ends` is the
paid part of `DashboardScan`.

## Runs and bounds

Runs marked *violation* check one statement made by the repository's documentation and find a
behaviour of the code against it; all others pass.

| Run (cfg) | Checks | Instance, and why it is enough |
|---|---|---|
| `sealed_exchange` (`MCSealedExchange.cfg`) | `AtMostOncePerBoot`, `NonceOutlivesReplay`, `NonceBurnedByOwner`, `HederaChargesOnlyServed`, `ArcPaidRefusalExplained`, `AnswerIsEarned` | Two requests, one envelope per rail's payer, one restart. Every property speaks of one or two requests, and an envelope may be sent on either rail. `TsWindow` 1, `SettleMax` 1, `NonceTtl` 4: the smallest numbers in the order the assumption needs; the clock reaches 5, so a nonce committed early expires, and a stamp of 3 is ahead of the clock at the start. |
| `hcs_queue` (`MCHcsQueue.cfg`) | `OneDrainOwnsTheHead`, `NothingDropped`, `DoneIsLatest`, `LookupTellsTheTruth`, `ImplementsCommitLog`, `PoisonDoesNotBlock` | Two receipts the topic accepts and one it never does; two drain identities, so that a second drain could start; two failures before a rotation and a map of one, so that rotation and eviction both happen; one restart. A commitment has two chunks and a page holds one message, so a commitment lies across every edge; four pages, which a topic of two commitments, two wasted chunks and a foreign message can exceed. |
| `hedera_rail` (`MCHederaRail.cfg`) | `ServedIsAnchored`, `OneReceiptPerPayment`, `SettledLeavesNothing` | Three requests, two of which carry one payment: the smallest with a shared and an unshared transaction at once. TTL 2, settle calls up to 1, clock to 5, so entries expire before, during and after settlement. |
| `shared_payment` (`MCSharedPayment.cfg`) | violation of `AnchorsOnlyServed` | the same instance |
| `dashboard_scan` (`MCDashboardScan.cfg`) | `BillBounded`, `ScansBounded`, `PaidIsCounted`, `RefusedHoldsNothing`, `OnePerWindow`, `HoldEnds` | Three requests, two of one client, quotes that fill the cap exactly or cross it by the third; an allowance of two scans; spend, scan and limit windows of 5, 4 and 2 with timers and transfer lag of 1, so that holds expire from each window and a transfer may come after its request was given up. The clock runs to 7. |
| `agent_purchase` (`MCAgentPurchase.cfg`) | `PaysOnlyAnchored`, `SpendWithinQuote`, `SpendWithinBudget`, `ActionsRestOnEvidence`, `EveryVaultAnswered`, `ReturnedIsRecorded` | Two vaults on two chains, so a strict plan is one table or two; the catalogue's prices for one and two vaults. Four policies: two tables fit the budget of one rail and one table that of the other, either way round, a pinned identity or none, each privacy tier. Five cards: the right one, one whose registration is unread, one badly signed, one contradicted on one chain, one registered under another identity. Ten answers: late, early, forged, empty, unavailable, misquoted, unsealed, and a receipt for something else. A 402 asks for the quote, 16 more (over one percent of 1500, under it of 3000) or 601 more (just over one percent of a table). Two calls, so that the second finds the record and the cache of the first. |
| `lost_purchase` (`MCLostPurchase.cfg`) | violation of `PurchaseNotLost` | the same instance |
| `vault_sink` (`MCVaultSink.cfg`) | `CountsDistinctDepositors`, `TablesSumToTheChain`, `TotalsAreTheNewestReading` | Two vaults whose refresh slots differ, two owners, four logs over up to four blocks, two in a block: a depositor again in the same block and in a later one, a log that does not decode, a deposit of no shares, a refresh slot with and without logs, calls that fail, answer, or answer with no supply. |
| `data_provider` (`MCProviderCache.cfg`) | `FreshMeansRecent`, `OutageWearsOff`, `ChecksAreRecent` | Two requests, since the caches are raced by two; head cache of 1 tick, chain cache of 2, calls of up to 1, thresholds 1 and 0: the lives keep the order of 15 s and 60 s, and a result outlives two heads. An answer lags by 1, which is fresh at its threshold, or 6, which never is. |
| `risk_report` (`MCRiskReport.cfg`) | `OutflowHappened`, `FallIsSeen`, `VerdictIsBacked` | Six ticks, an hour of two and a day of two hours, so that a day's end falls inside and outside every window; windows of ages 2 to 4, 3 to 5 and 4 to 6; queries that reach two snapshots of a series, or three rows of the sink, which four events exceed. Every tick may have an event. Readings: a price of 100 with a balance the source does not tell, 95 (five percent less) with 20, no price with 21, an unreadable price with 24: a fifth out exactly, less, and against a base told long ago. An indexer up to two ticks behind, a second source none or stale, a deposit limit none or the largest balance, a sink's history answered or not. |
| `partial_verdict` (`MCPartialVerdict.cfg`) | violation of `NothingFromPartialData` | the same instance |
| `dashboard_pages` (`MCDashboardPages.cfg`) | `KeptRunsAreServed`, `WorstIsShown`, `PurchaseInHistory`, `VerifiedMeansAnchored` | Two sessions of the agent beside the run pages, the id of one the end of the other's, so a guess by file name may be wrong; a run of up to two purchases, in which a vault is bought twice; a copied file, a torn one, a committed demo and two recordings. One session beside the form, three texts (one vault, one vault twice with a blank line, a malformed line) and up to two runs. Receipts with and without identities, two keys, a card of another key, one change of the registry or the pin, two checks at once. `CleanPreview` is 0, so that everything clean is folded. |

Bounds that exist only for TLC: `MaxTime` and `MaxTick` (the clock stops), `MaxLag`, `MaxBlock`, `MaxChain`, `MaxLogs`,
`MaxRestarts`, `MaxCalls`, `MaxForeign`, `MaxWasted`, `MaxRequests`, `MaxStarts`, `MaxChanges`, `Beside`,
`LongAgo` (ages in histories stop growing), the finite sets of requests and checks, and in `HcsQueue` the
number of drain identities. `CHECK_DEADLOCK FALSE` is set where every
request may have ended and the clock stopped, which is a normal end; the
provider and the pages never stop. Symmetry is used for the requests of `sealed_exchange` and
`data_provider` and for the two runs of the form, where no liveness is checked.

Properties, by the hazard they are for:

- `AtMostOncePerBoot`, `NonceOutlivesReplay`: two copies of an envelope around Circle's settlement,
  the TTL against the window of a client clock that may be ahead.
- `NonceBurnedByOwner`: a copy sent under another account, before the payer is known.
- `HederaChargesOnlyServed`, `ArcPaidRefusalExplained`, `AnswerIsEarned`: when money moves for a
  request that got nothing, or data for one that paid nothing.
- `OneDrainOwnsTheHead`, `NothingDropped`, `DoneIsLatest`, `PoisonDoesNotBlock`: enqueues between
  the awaits of `drain`, rotation, eviction, a receipt that always fails.
- `LookupTellsTheTruth`: a commitment on the topic twice, once and a half, or across the last page read;
  the map and the mirror node asked for the same receipt before and after a restart.
- `ServedIsAnchored`, `OneReceiptPerPayment`, `SettledLeavesNothing`: the order of
  continuations, lost settlement answers, shared keys, expiry.
- `BillBounded`, `ScansBounded`, `PaidIsCounted`: a burst of requests, a payment that fails or times
  out after it was signed, a transfer that executes later than its hold was taken. They speak of
  `paid`, what the network executed, never of what the ledger believes. The window they speak of is
  shorter than the ledger's by `Hold`, the longest time from a hold to its transfer.
- `RefusedHoldsNothing`, `HoldEnds`, `OnePerWindow`: leaked holds, silent services, double clicks.
- `PaysOnlyAnchored`: a card that changes between two calls, or while the record is opened.
- `SpendWithinQuote`, `SpendWithinBudget`: several payments of one call against one budget, a shared
  quote that outlives its request.
- `ActionsRestOnEvidence`, `EveryVaultAnswered`: two clocks, forged or missing attestations, a table
  without the vault.
- `ReturnedIsRecorded`: half-failed fan-outs, rewrites of one file, failed writes. It is about the record in
  memory; what may become of the file is `FileNeverForgets`, proved.
- `FreshMeansRecent`, `OutageWearsOff`, `ChecksAreRecent`: two caches missed together, the older answer
  written last, a class decided by a head that has expired since. They bound ages by the clock, which the
  code never compares the data with; `Staleness` is the sum of lives and calls along the longest path.
- `OutflowHappened`, `FallIsSeen`, `VerdictIsBacked`: they compare the report with what the sources recorded
  of the vault at each event, not with the snapshots, fallbacks and truncated lists the report is made from.
  `OutflowHappened` takes the base the code takes, the last balance that was told. `FallIsSeen` asks that the
  queries reach some event of the window (`Reached`), which on a busy vault the sink's 500 rows may not.
- `CountsDistinctDepositors`, `TablesSumToTheChain`, `TotalsAreTheNewestReading`: a depositor twice, stores
  seen by later handlers of one block, an upsert that leaves old columns.
- `KeptRunsAreServed`: a directory that changes between the reads of its files. `steady` is the set of
  files that were whole at the listing and have not changed since; nothing is claimed of the others.
- `WorstIsShown`: a vault with several verdicts, and one without a score. Of two readings the one of the
  higher score is shown, of equal scores the one bought first, which is what the code does and less than its
  comment says (see [Findings](#findings)).
- `PurchaseInHistory`: a lost or late answer, a text edited meanwhile, a run that could not be saved, or only half.
- `VerifiedMeansAnchored`: reads that fail, another card, overlapping checks. What was registered is
  collected while the check runs (`during`), since no check can speak of one instant.

Each module also states its type invariant `TypeOK`, where it has one; it is proved for every instance
(see [Proofs](#proofs)) and is not repeated in the runs.

## Findings

Where the repository's documents say more than the code does; each is a violation run.

1. `shared_payment`. `rails/hedera.ts:175`: `onSettled` fires "for a request this rail already
   answered 200 for". Two clear requests with one payment share a map key, and the receipt of the
   one that ends as a 402 can be the one handed over.
2. `partial_verdict`. `risk.ts:79-80`, after the design's rule: "No verdict is ever inferred from partial
   data". A price that no source gives becomes 1 in the mappers (`map.ts:66`, `97`), which the report takes for
   a readable price. `VerdictIsBacked` says what holds.
3. `lost_purchase`. `tools.ts:101-103`: a failed write "must not lose the purchase that already
   happened". The record is opened after the payment by fetching the card again; when that fails, the
   call throws and the purchase is in no record. A fan-out whose later table throws loses the earlier
   ones in the same way, in `watch` too (`watch.ts:399` against `watch.ts:216-220`).

Observed while modelling, without a run of their own:

- `.env.example:67` of the spend cap: "a scan that would cross it is refused". The ledger counts quotes; the
  agent signs for up to one percent more, and `BillBounded` gives the bound that holds.
- `universe.ts:81-83`: of two readings of a vault "the more severe reading wins". The code compares scores, and
  a refused reading scores 0: bought after a clean one it is not shown, bought before it is.
- `reader.ts:107`: the history of a vault is its newest 500 rows, one per block with an event. On a vault with
  an event in every block these reach back 17 minutes at two seconds a block, so that neither the 1 h nor the
  24 h window has a point. A history query that fails (`reader.ts:72-82`) likewise leaves a verdict on the
  current row alone.
- `reader.ts:118`: the outflow of a sink vault is held against `vault_latest.total_assets`, the last eth_call
  that answered, which may be old: a day's flow that is a fifth of that balance is flagged even if it is less
  of today's (`OutflowHappened` says so); with none ever read there is no outflow flag at all.
- `README.md:117`, a replayed envelope "costs nothing" and a nonce "seen in the last 10 minutes" is
  rejected. On Arc the look-up precedes settlement and the commit follows it, so the loser of a race of two
  copies has paid (`handlers/scan.ts:108-115` knows it; `ArcPaidRefusalExplained` says exactly when). The
  store is in memory, and a restart forgets it (`AtMostOncePerBoot` is per boot for that reason).
- `hcs.ts`: after a lost answer a commitment is on the topic twice, and chunks of a submit that failed half
  way stay there. A look-up names the newest complete copy, whichever of the two ways it is made; one older
  than the pages read is reported as not found.
- `lib.rs`, the comment on `store_last_call`: "every vault gets at least one ground-truth reading". Not when
  the calls of its first block fail or its supply is zero; the reading then waits for a refresh slot with an
  event in it.
- `provider.ts:119-122`: an unreachable RPC "forces every source on that chain `stale`". A result cached
  before the failure is still served as fresh until it expires, which `FreshMeansRecent` bounds. The head's lag shown to the
  operator is meaningless while the head is the sentinel. Overlapping snapshots can move `checkedAt` back.
- `risk.ts`: with daily snapshots only, the flow of "24 h" may span two days (`Interval` in
  `OutflowHappened`) and a fall inside a day may be missed (`FallIsSeen` is of the last events of the periods
  that are kept). A point that cannot be read drops its flow, or makes a comparison false; a snapshot without
  a price counts as if the price had been today's, which hides a fall and never makes one up. No single flag reaches the alert threshold,
  although `dashboard/lib/verdict.ts:48` explains an alert as several thresholds "or one severe one"
  (`AlertNeedsTwoSignals`).
- `runs.ts:202` says every id of the table resolves: not those of the recordings once a first real run is
  saved between the table and the click. A listed run whose file is being rewritten answers 404 for a moment.
  A row of the ranking joins the worst verdict with the vault's last decision.
- `ScanForm.tsx:86` says "failed before it reached the server" also when the answer of a paid scan is lost;
  a 200 whose body cannot be read shows nothing, or of the history an empty one without an error, which
  `PurchaseInHistory` exempts; after a 502 the saved run is not in the history until it is
  asked for; an error of the history stands beside the history before it.
- `verify/page.tsx`: a result stays beside a text edited since, and of two overlapping checks the older may
  be shown last; `VerifiedMeansAnchored` is therefore about the receipt that was checked, not the text.
- The admin page colours the states live, stale and down; the service sends ok and unavailable
  (`metrics.ts:228`).

## Fairness

Safety properties are checked without fairness. Two runs need it.

- `HcsQueue`: weak fairness of "the awaited submit settles, one way or the other" and of the retry
  timer, which the runtime provides; strong fairness of `SubmitOk` for each receipt the topic accepts:
  it is tried again and again, and an outage ends. Nothing is assumed of poisoned receipts, and
  nothing prevents a finite number of failures before any success. `HcsTopic` adds weak fairness of `Land`:
  a chunk that was sent arrives, or its submit fails.
- `DashboardScan`: weak fairness of the clock and of the two timeout actions. The service, the
  discovery and the scan have none: `HoldEnds` holds against a service that never answers.

`AgentPurchase` has no liveness property: the agent's own fetches carry no timeout, so a call against
a silent service may wait for ever, and the code promises nothing else. The provider, the sink, the report and the pages are checked for
safety only: each waits for calls of others, without a retry of its own that could be promised to succeed.

## Assumptions

Named in the modules; TLC evaluates them on every run and the proofs cite them.

- `WindowAssumption` (`SealedExchange`): `NonceTtl > 2 * TsWindow + SettleMax`. In production 600 s,
  120 s and Circle's settlement time; the proofs show that this is the inequality the replay defence
  rests on. `Tick` keeps a request from waiting for Circle longer than `SettleMax`.
- `RailAssumption` (`HederaRail`): a settle call is shorter than the entries' life
  (`ENTRY_TTL_MS`, ten minutes). Without it a served request's receipt is gone when the hook looks.
- `ScanAssumption` (`DashboardScan`): the scan window is no longer than the spend window (1 h and
  24 h). Timers fire when due (`Tick` stops at a due timer), and a transfer executes within `PayBy` of
  the start of the paid scan: signed Hedera transactions are valid for minutes, the windows are hours. That
  counts from the signature; `withTimeout` (`scan.ts:146-154`) gives up a scan without cancelling it, so a
  service that holds back its 402 can have the signature itself made later, and then `PayBy` is the longest it
  does so. The ledger's bounds (`BillBounded`, `ScansBounded`) shrink by exactly that time.
- A signed payment transaction executes at most once on its network (`HederaRail.settled`).
- `ProviderAssumption` (`ProviderCache`): the sentinel is further away than any threshold and the longest a
  head can be in use; an upstream call ends within `FetchMax`. The code sets no timeout on these calls; the
  bound on `FreshMeansRecent` grows with the longest.
- `QueueAssumption` (`HcsQueue`), `TopicAssumption` (`HcsTopic`): types of the parameters, and that a
  failure limit, a map, a commitment and a page hold at least one.
- `QueryAssumption` (`RiskReport`): the query asks for at least two hourly snapshots, so that the newest has
  a flow (the code asks for 24, `templates.ts:7`), and a day is a number of hours. Nothing is assumed of how
  far the rows or snapshots reach.
- What `RiskReport` takes of its sources: what an event leaves is what the next record says until another event
  (`Quiet`), a snapshot is of the last event of its period and a period without one has none, `share_price` is
  never null in the sink's tables (`schema.sql`). A vault whose own read fails is no vault of the answer. All
  balances of a vault are in one unit, as whole numbers.
- A submit reported as failed is over: no chunk of it lands afterwards (`HcsTopic.Fails`). The SDK waits for
  each chunk's response before the next (`hcs.ts:240-244`), so that only the chunk whose answer was lost could.
- `RailAssumption`'s counterpart at the head: the RPC's latest block is the chain's (`provider.ts:245` takes
  whatever block it gives). A lagging RPC makes old data look fresh by as much as it lags.
- `VerifyAssumption` (`VerifyPage`): types of receipts, cards and registries.
- `StoreAssumption` (`RunStore`): what is committed and what the service answers has the fields of its type; the
  ids of new runs are not those of committed ones, nor a scan's that of a session: they are random
  (`tools.ts:83`), and a scan's begins with `web-` (`scan.ts:518`).
  `FormAssumption` (`ScanForm`): a text is a sequence of lines, and no refusal has status 200.
  `PreviewAssumption` (`RunPages`): the number of clean cards shown is a natural. `PagesAssumption`
  (`DashboardPages`): the sessions beside a page are sessions of the agent.
- `RiskAssumption`, `SinkAssumption`: types of the inputs, finitely many owners. Blocks come in order and are
  final: a reorganisation is undone by the Substreams host and not by this code.
- `AgentAssumption`, `CardAssumption`, `AnswerAssumption` (`AgentPurchase`): types of what the
  environment supplies, and the names of the two rails; nothing about what the service does. Calls are
  serial, which `client.ts:228-237` requires of its callers; the vaults of a call are distinct; a rail
  without a wallet appears as one with balance 0, which is unusable for the same reason. The ages in an
  answer are those at its age check, and its stated price is given relative to the quote.
- Each request to the models is sent once; a client's retry is another request with the same envelope
  or the same transaction.

## Proofs

Each `*_proofs` module proves, for any requests, envelopes, receipts, windows and bounds, that the
specification keeps an inductive invariant, and derives the properties the runs check.

| Module | Invariant | What it adds, and why the properties alone are not inductive | Theorems |
|---|---|---|---|
| `SealedExchange_proofs` | `ReplayInv`, then `MoneyInv` | `AtMostOncePerBoot` does not survive a step by itself: that a second admission is impossible follows from the nonce still being held, which follows from when it can have been committed. `HeldOrExpired` states that a nonce is held until `ts - TsWindow + NonceTtl`, or that instant has passed; `SettleWindow` that a request waiting for Circle passed the clock check at most `SettleMax` ago. With `WindowAssumption` the two exclude each other. `StandingInv` ties each stage to rail, charge and admission. | `TypeCorrect`, `AtMostOnce`, `NonceHeld`, `BurnedByOwner`, `HederaFreeRefusal`, `ArcPaidRefusals`, `EarnedAnswers` |
| `Hedera_proofs`, queue | `QueueInv`, then `TopicInv` | `NothingDropped` needs that the entry shifted after a submit is the one submitted, which is `OneDrainOwnsTheHead`, which needs distinct queue entries; they are proved together, with lemmas on what a shift, a rotation and the loop head do to a sequence. On the topic a look-up counts the chunks it can see, so that what it finds is a whole commitment, and the newest, needs four facts of where chunks are: a submit's chunks stand in order with none missing before another (`Shape`), no submit starts before the one before it is over (`Serial`), the chunks that have landed of the submit in flight are all there is of it (`InFlight`), and every result kept is the newest complete copy (`ResultsOk`). `WholeGroup` turns the count into "every number is there": the chunks' numbers differ, an injection between sets of one size. | `TypeCorrect`, `SingleDrain`, `Durable`, `LatestRemembered`, `Implements` (the refinement of `CommitLog`: initial states, and every step a step of the abstract log or a stutter), `TopicImplements` (`HcsTopic` implements `HcsQueue`, so that the queue's theorems hold on the topic), `LookupTruth` |
| `Hedera_proofs`, rail | `RailInv`, then `SweepInv` | `Progress(r)` says, for each stage of a request with a payment of its own, where its continuations are and that its receipt is in the map with more life left than its settle call can take; `Owned` that an entry was written by a request with that transaction. | `RailTypeCorrect`, `Anchored`, `OneReceipt`, `NoLeak`, `Swept` |
| `Dashboard_proofs`, scan | `LedgerInv`, `QuotesInv` | Transfers are bounded because holds are: `EntriesInv` says the ledger is exactly the active requests of its window, at their quotes or more; `TimesInv` and `PaidInv` bound the time from hold to transfer; `RecentInv` bounds the active requests of the scan window, whose induction step is the count the ledger makes when it admits one. `QuotesInv` does the same for money: the quotes of the active requests of a spend window stay within the cap, since the ledger's sum when it admits one is at least theirs. A transfer is at most one percent more than its quote, so the sum of the transfers is within the cap and the tolerance of each. | `TypeCorrect`, `LedgerCorrect`, `AllowanceHolds`, `CapHolds`, `Metered`, `NothingHeld`, `ClientSpaced` |
| `Dashboard_proofs`, receipt page | `VerifyInv` | "Verified" is decided at the end of a check from what was read at its awaits, so the invariant says of each running check what it holds at each of them (`CheckOk`): no anchor before the card and none its receipt does not name, an anchor that matches was registered at an instant since the check began, and every entry of the registry since then is among those it collects. What is shown was computed from a check of which this held (`ResultOk`), and answers for the key of that check's card. | `VerifyCorrect`, `VerdictSound` |
| `Dashboard_proofs`, other pages | `AtStore`, `AtPage` | An answer is made of files read one at a time while others are written, so none of the three properties survives a step by itself. `ReaderInv` says what a read still owes: every file that was whole from the listing on (`steady`) is already among the runs read or still to be read, and a run asked for by its id is none other. `FilesInv` ties a file to its name: it holds the run of that id and start, or is torn, by the agent or by a write of the dashboard that failed half way. The history of a form has the purchase shown above it only if nobody wrote over its file: `JobsInv` says the starts of the scans at work are theirs alone and no file has them yet, and `Bought` that the file of a scan that came back holds it or is torn and no scan at work shares its start. `HistoryInv` carries this from the listing through the read to the answer on the page: with the file whole in the listing, any history on its way has the run as it would be found alone (`ShowsRead`). What the pages then show is a function of the runs read: the ranking keeps, for each vault, a reading none prevails over (`PickedIs`, `WorseSorts`: none has a higher score, none as high a one was bought before it), and a run's page folds only what is clean, because the sorted verdicts put everything else at the front (`VerdictGridHas`), and is all clear only when none of another kind is counted (`CountIs`). Runs are numbered in the order they start, where the code's names hold a time and a random id: both keep two runs from one name. | `PagesCorrect`, `RunsServed`, `PurchaseShown`, `WorstShown` |
| `ProviderCache_proofs` | `IInv` | `Bounds` follows a head from its read to every place it is kept: a head in the cache with `left` ticks to live is at most `HeadBound + 1 - left` old, a result likewise, a request at an await no older than it has waited. The sentinel is within the same bounds by the age of the read that failed. One `Tick` ages all of them and shortens every life by the same amount, which is what keeps the sums; the properties follow at the answer. | `TypeCorrect`, `FreshIsRecent`, `OutagesWearOff`, `ChecksStayRecent`, `MetricsMatch` |
| `RiskReport_proofs` | `SourceInv`, `TypeOK` | The report is a function of the state, so most is in lemmas about it. `SourceInv` says the first tick has an event and a tick without one leaves the balance. Snapshots are the last events of their periods (`SnapshotsSpread`), so an event the queries reach is a point of the history with its own price (`ReachedIsShown`), and a window's newest point is an event that fell or one whose missing price was filled with the current one, which is no fall (`NoFallFromNone`). The flows of points that follow one another are differences along a chain, so that their sum is the change between its two ends (`FlowsSpan`, `Telescope`), for points of a row each, of snapshots, and of intervals that begin where no event was; with hourly points there is a flow in every day that has one (`HourlyIsTaken`), so that no two series are summed. | `TypeCorrect`, `SourceSound`, `AlertsRestOnTwo`, `VerdictsBacked`, `FallsAreSeen`, `OutflowsHappened` |
| `VaultSink_proofs` | `ChainInv`, then `CountInv`, `CallInv`, `TotalsInv`, `FlowInv` | The count is a store of its own, so that it equals the distinct depositors needs that `depositorSeen` is exactly the depositors of the chain, with cardinalities of unions. `TotalsInv` ties `lastCall`, which keeps one reading, to the newest row that came from a call. `CallInv` needs that two blocks of one refresh slot are a whole period apart. `FlowInv` carries, beside the sums themselves, that the rows of a vault are those of the blocks with an event of it: a new block's logs have indices above all earlier ones, so the sum over the chain splits at the block, and the part of the block is the sum of its logs renamed (`SumImage`). | `ChainSound`, `CountsCorrect`, `TotalsSound`, `TotalsCorrect`, `TablesCorrect`, `CallsCorrect` |
| `AgentPurchase_proofs` | `Typed`, then one each for cards, evidence, money, coverage and the record | `Afforded` ties what was signed to what is left: paid so far is at most one percent over the unit price times the requests sent, and those still to do are the rest of the plan, so the total of any fan-out is the quote that was held against the budget. It needs `quoteAtomic` to be this request's quote at every `sent` stage. `Counted` says that signatures and purchases agree in number and only the last may have failed; `AllRest` that decisions cite a purchase below the current length; `Answered` that every report of a kept purchase has its decision; `Filed` that the file, when it parses, is contained in the record, and that before the first save there is nothing in either: so a rewrite that succeeds makes good whatever an earlier one tore. | `TypeCorrect`, `AnchoredPayments`, `QuoteBinds`, `BudgetBinds`, `FailureStopsSpending`, `Evidence`, `Complete`, `RecordKept`, `FileKept` |

Three proofs are about sums over sets of transfers, logs and snapshots. The library's sum is a recursive
function over subsets, and an induction theorem with the hypothesis as an operator cannot be instantiated here;
`Lemmas` states induction over a finite set as a fact about a set of its subsets (`SetInduction`: a set of
subsets that has each one whose smaller ones it has, has the whole), and the summand as a function, so every
lemma is about values and can be cited. It proves that the sum exists, does not depend on the order of its
elements, splits, is monotone, and telescopes along a chain.

The pages' proofs rest on what filter, sort and flatMap return. The library's `SelectSeq` and `SortSeq` are
built in to the tools, without a definition that a proof could use, and a `SortSeq` that is not told what to do
with ties says nothing of a stable sort. `Arrays` defines both from sets of indices; `Lemmas` proves that
`filter` leaves the elements that pass, in order, each once (`AtPicks`), that a finite set can be enumerated
along a total order (`AlongLines`), that `sort` returns a permutation in that order, ties as they were
(`SortIs`), and what elements a flattened sequence has. The order of a sort is a relation on
indices, a value, so that these lemmas take no operator either.

The proofs are hierarchical, one step per action of `Next`; facts about helpers are lemmas. The
safety part of the refinement is proved; its liveness is checked by TLC. `TypeCorrect`, `Swept`
(`InsertionSweeps`), `FailureStopsSpending` (`StopsAtFailure`), `FileKept` (`FileNeverForgets`), `MetricsMatch`
(`MetricsDescribeCache`), `AlertsRestOnTwo` (`AlertNeedsTwoSignals`) and `CallsCorrect` (`CallsAreRationed`) are
proved and in no run, which says nothing more once they hold for every instance.

## Only model-checked

- `PoisonDoesNotBlock` and `HoldEnds`: liveness under fairness is outside the prover's reach.
- The violation runs, which exhibit behaviours.

## Not modelled

- Cryptography, canonical JSON, receipt encoding: stateless; idealised where used.
- Configuration, key files, agent card, ERC-8004 reads of the service: environment parsing and single reads.
- Pricing: a table of constants, in `AgentPurchase` as its prices. Metrics' counters and the admin page: they
  are added to and shown. The catalogue, the vault list, the home page's catalogue card, the docs pages: each
  renders one answer. Command line and scripts: arguments and I/O.
- In modelled parts: concurrent tool calls of one chat session (`client.ts:228-237` forbids them); the
  ledger's restart (documented in `spend.ts:18`); the `record` and `reset` of the ledger, which no handler
  calls; a directory that cannot be listed, which the run pages take for an empty one; the single-chunk form of
  a topic message, since a commitment is always longer; the 400 of `validateScanRequest` before a Hedera payment
  is verified (`rails/hedera.ts:159-170`) and `payer_unknown` (`scan.ts:101`), which end as the refusals beside
  them do; the last tie-break of the ranking, by vault id (`universe.ts:108`).

## Plan

Done, in the order of what a fault would cost: sealed exchange, commitment queue with its topic, settlement
correlation, dashboard spending, the agent's purchases, provider, risk report, sink, pages. Next:

1. `AgentPurchase` with concurrent tool calls of one session: the shared quote (`client.ts:392`), two
   opened records (`tools.ts:80`), a card replaced under a purchase in flight. What `PaysOnlyAnchored`
   and `SpendWithinQuote` lose when the callers are not serial.
2. A composition of `HederaRail` and `HcsQueue`: a served request is anchored, end to end.
