----------------------------- MODULE VaultSink -----------------------------
(***************************************************************************)
(* The Substreams module that turns ERC-4626 Deposit and Withdraw logs     *)
(* into the rows the service reads (substreams/erc4626-vault-metrics).     *)
(*                                                                         *)
(* The host runs the handlers of one block in dependency order, each       *)
(* seeing the stores as its predecessors left them, and blocks in order:   *)
(* a block is one action.  eth_calls are made while the block is           *)
(* processed, and each may fail: their outcomes are the action's inputs.   *)
(***************************************************************************)
EXTENDS Integers, FiniteSets, SequencesExt

CONSTANTS
    Vaults, Owners,
    Address,    \* Address[v]: the bytes of the vault's address
    CallEvery,  \* CALL_EVERY
    Wad,        \* 10^18, the scale of a share price
    Logs,       \* the decoded logs a block may carry
    Figures,    \* what totalAssets and totalSupply may answer
    MaxLogs,    \* bound: logs in a block
    MaxChain,   \* bound: logs over all blocks
    MaxBlock    \* bound: number of the last block

Kinds == {"deposit", "withdraw"}

Log == [vault: Vaults, owner: Owners, kind: Kinds,
        assets: Nat, shares: Nat, parses: BOOLEAN]

ASSUME SinkAssumption ==
    /\ IsFiniteSet(Owners)
    /\ Address \in [Vaults -> Seq(0 .. 255)]
    /\ CallEvery \in Nat \ {0}
    /\ Wad \in Nat \ {0}
    /\ Logs \subseteq Log
    /\ Figures \subseteq [assets: Nat, supply: Nat]
    /\ MaxLogs \in Nat /\ MaxChain \in Nat /\ MaxBlock \in Nat

VARIABLES
    block,          \* the last block processed
    vaultSeen,      \* store_vault_seen
    meta,           \* store_vault_meta: vaults whose metadata is cached
    depositorSeen,  \* store_depositor_seen: <<vault, owner>>
    count,          \* store_depositor_count
    dep, wd,        \* store_vault_flows: "dep:<vault>" and "wd:<vault>"
    lastCall,       \* store_last_call
    vaultMetrics,   \* table vault_metrics, keyed by vault and block
    vaultLatest,    \* table vault_latest, keyed by vault
    vaultMeta,      \* table vault_meta, keyed by vault
    chain,          \* history: every log, with its block
    calls           \* history: <<vault, block>> of every totals call attempted

stores == <<vaultSeen, meta, depositorSeen, count, dep, wd, lastCall>>
tables == <<vaultMetrics, vaultLatest, vaultMeta>>
vars == <<block, stores, tables, chain, calls>>

NoTotals == [assets |-> 0, supply |-> 0]

Reading == [block: Nat, assets: Nat, supply: Nat \ {0}, price: Nat]

Row == [vault: Vaults, block: Nat, price: Nat, source: {"call", "event"},
        totals: [assets: Nat, supply: Nat], net: Int, flow: Int, count: Nat]

\* Every store, table and history has its shape, and a cached reading never
\* has a zero supply, which would give a share price nobody can verify.
TypeOK ==
    /\ block \in Nat
    /\ vaultSeen \subseteq Vaults
    /\ meta \subseteq Vaults
    /\ depositorSeen \subseteq Vaults \X Owners
    /\ count \in [Vaults -> Nat]
    /\ dep \in [Vaults -> Nat] /\ wd \in [Vaults -> Nat]
    /\ DOMAIN lastCall \subseteq Vaults
    /\ lastCall \in [DOMAIN lastCall -> Reading]
    /\ vaultMetrics \subseteq Row
    /\ DOMAIN vaultLatest \subseteq Vaults
    /\ vaultLatest \in [DOMAIN vaultLatest -> Row]
    /\ vaultMeta \subseteq Vaults
    /\ chain \in Seq([block: Nat, log: Log])
    /\ calls \subseteq Vaults \X Nat

Init ==
    /\ block = 0
    /\ vaultSeen = {} /\ meta = {} /\ depositorSeen = {}
    /\ count = [v \in Vaults |-> 0]
    /\ dep = [v \in Vaults |-> 0] /\ wd = [v \in Vaults |-> 0]
    /\ lastCall = [v \in {} |-> NoTotals]
    /\ vaultMetrics = {}
    /\ vaultLatest = [v \in {} |-> NoTotals]
    /\ vaultMeta = {}
    /\ chain = <<>>
    /\ calls = {}

-----------------------------------------------------------------------------
(* What a handler computes from a block's events                            *)

\* call_phase: the wrapping fold keeps the last eight bytes of the address.
CallPhase(v) ==
    LET bytes == Address[v]
        kept == SubSeq(bytes, IF Len(bytes) > 8 THEN Len(bytes) - 7 ELSE 1,
                       Len(bytes))
    IN  FoldLeft(LAMBDA acc, b : (acc * 256 + b) % CallEvery, 0, kept)

\* ratio, scaled by Wad.
Ratio(assets, shares) == IF shares = 0 THEN 0 ELSE (assets * Wad) \div shares

\* map_vault_events: the logs of a block whose figures parse, by position.
Events(logs) == {i \in DOMAIN logs : logs[i].parses}

OfVault(logs, v) == {i \in Events(logs) : logs[i].vault = v}

OfKind(logs, v, k) == {i \in OfVault(logs, v) : logs[i].kind = k}

Touched(logs) == {logs[i].vault : i \in Events(logs)}

\* Faulty variant: only a vault's first event of the block is added up.
AssetsOnce(logs, v, k) ==
    IF OfVault(logs, v) = {} THEN 0
    ELSE LET i == Min(OfVault(logs, v))
         IN  IF logs[i].kind = k THEN logs[i].assets ELSE 0

\* What the events of one kind add up to for a vault.
Assets(logs, v, k) ==
    SumFunction([i \in OfKind(logs, v, k) |-> logs[i].assets])

\* Faulty variant: a depositor of an earlier block is new again.
NewDepositorsAlways(logs) ==
    {<<logs[i].vault, logs[i].owner>> :
        i \in {j \in Events(logs) : logs[j].kind = "deposit"}}

\* map_new_depositors: the keys set_if_not_exists creates in this block.
NewDepositors(logs) ==
    {<<logs[i].vault, logs[i].owner>> :
        i \in {j \in Events(logs) : logs[j].kind = "deposit"}} \ depositorSeen

\* map_new_vaults: likewise for store_vault_seen.
NewVaults(logs) == Touched(logs) \ vaultSeen

\* store_last_call, the vaults whose totals are read in block b.
Due(logs, created, b) ==
    {v \in Touched(logs) : v \in created \/ b % CallEvery = CallPhase(v)}

\* The vaults whose calls both answered with something to divide by.
Refreshed(answers) == {v \in DOMAIN answers : answers[v].supply > 0}

\* store_last_call, the store afterwards.
Readings(answers, b) ==
    LET hit == Refreshed(answers)
    IN  [v \in DOMAIN lastCall \cup hit |->
            IF v \in hit
            THEN [block |-> b, assets |-> answers[v].assets,
                  supply |-> answers[v].supply,
                  price |-> Ratio(answers[v].assets, answers[v].supply)]
            ELSE lastCall[v]]

\* map_vault_metrics, whether the store holds a reading of this block.
Verified(last, v, b) == v \in DOMAIN last /\ last[v].block = b

\* map_vault_metrics: the row of one touched vault.
Metrics(logs, v, b) ==
    LET verified == Verified(lastCall', v, b)
        newest == logs[Max(OfVault(logs, v))]
    IN  [vault |-> v, block |-> b,
         price |-> IF verified THEN lastCall'[v].price
                   ELSE Ratio(newest.assets, newest.shares),
         source |-> IF verified THEN "call" ELSE "event",
         totals |-> IF verified
                    THEN [assets |-> lastCall'[v].assets,
                          supply |-> lastCall'[v].supply]
                    ELSE NoTotals,
         net |-> dep'[v] - wd'[v],
         flow |-> Assets(logs, v, "deposit") - Assets(logs, v, "withdraw"),
         count |-> count'[v]]

\* Faulty variant: an empty reading clears the columns.
UpsertedClearing(row) == row

\* db_out: the upsert assigns only the columns it was given.
Upserted(row) ==
    IF row.source = "event" /\ row.vault \in DOMAIN vaultLatest
    THEN [row EXCEPT !.totals = vaultLatest[row.vault].totals]
    ELSE row

-----------------------------------------------------------------------------
(* One block                                                                *)

\* The first-come stores: which keys are new, and what is counted of them.
SeenStores(logs, created) ==
    /\ vaultSeen' = vaultSeen \cup Touched(logs)
    /\ meta' = meta \cup created
    /\ depositorSeen' = depositorSeen \cup NewDepositors(logs)
    /\ count' = [v \in Vaults |-> count[v]
                  + Cardinality({k \in NewDepositors(logs) : k[1] = v})]

\* store_vault_flows.
FlowStores(logs) ==
    /\ dep' = [v \in Vaults |-> dep[v] + Assets(logs, v, "deposit")]
    /\ wd' = [v \in Vaults |-> wd[v] + Assets(logs, v, "withdraw")]

\* db_out, from the metrics of the block and the metadata created in it.
Tables(logs, created, b) ==
    LET touched == Touched(logs)
    IN  /\ vaultMetrics' = vaultMetrics
              \cup {Metrics(logs, v, b) : v \in touched}
        /\ vaultLatest' = [v \in DOMAIN vaultLatest \cup touched |->
              IF v \in touched THEN Upserted(Metrics(logs, v, b))
              ELSE vaultLatest[v]]
        /\ vaultMeta' = vaultMeta \cup created

\* All handlers on one block.  created are the new vaults whose four metadata
\* calls all answered: the others are never tried again.  answers is defined
\* on the due vaults whose totals calls did not fail.
ProcessBlock(b, logs, created, answers) ==
    /\ b > block
    /\ Len(chain) + Len(logs) <= MaxChain
    /\ block' = b
    /\ created \subseteq NewVaults(logs)
    /\ DOMAIN answers \subseteq Due(logs, created, b)
    /\ SeenStores(logs, created)
    /\ FlowStores(logs)
    /\ lastCall' = Readings(answers, b)
    /\ Tables(logs, created, b)
    /\ chain' = chain \o [i \in DOMAIN logs |-> [block |-> b, log |-> logs[i]]]
    /\ calls' = calls \cup (Due(logs, created, b) \X {b})

Next ==
    \E b \in block + 1 .. MaxBlock, logs \in BoundedSeq(Logs, MaxLogs) :
      \E created \in SUBSET NewVaults(logs) :
        \E answered \in SUBSET Due(logs, created, b) :
          \E answers \in [answered -> Figures] :
            ProcessBlock(b, logs, created, answers)

Spec == Init /\ [][Next]_vars

-----------------------------------------------------------------------------
(* Properties                                                               *)

LogsOf(v) == {i \in DOMAIN chain : chain[i].log.vault = v /\ chain[i].log.parses}

\* The vault and owner of every deposit on the chain.
Deposited ==
    {<<chain[i].log.vault, chain[i].log.owner>> :
        i \in {j \in DOMAIN chain :
                 chain[j].log.parses /\ chain[j].log.kind = "deposit"}}

\* The number of depositors the tables give a vault is the number of distinct
\* owners its deposits on the chain name: the count is kept by adding one per
\* key that a first-come store created, in a store of its own.
CountsDistinctDepositors ==
    \A v \in Vaults :
      /\ count[v] = Cardinality({k \in Deposited : k[1] = v})
      /\ v \in DOMAIN vaultLatest => vaultLatest[v].count = count[v]

SumOver(v, k) ==
    SumFunction([i \in {j \in LogsOf(v) : chain[j].log.kind = k} |->
                    chain[i].log.assets])

\* What the newest row says was deposited net of withdrawals is what the
\* chain's logs add up to, and so do the flows of the history rows: neither
\* table drops a block, counts one twice or mixes two vaults.
TablesSumToTheChain ==
    \A v \in DOMAIN vaultLatest :
      LET rows == {r \in vaultMetrics : r.vault = v}
      IN  /\ vaultLatest[v].net = SumOver(v, "deposit") - SumOver(v, "withdraw")
          /\ vaultLatest[v].net = SumFunction([r \in rows |-> r.flow])
          /\ {r.block : r \in rows} = {chain[i].block : i \in LogsOf(v)}

\* The totals shown beside a vault are those of its newest history row that
\* came from a call, however many event-sourced rows came after it, and no row
\* passes an older reading off as its own block's.
TotalsAreTheNewestReading ==
    /\ \A r \in vaultMetrics :
         /\ r.source = "call" => <<r.vault, r.block>> \in calls
         /\ (r.source = "call") = (r.totals.supply > 0)
    /\ \A v \in DOMAIN vaultLatest :
         LET read == {r \in vaultMetrics : r.vault = v /\ r.source = "call"}
         IN  \/ read = {} /\ vaultLatest[v].totals = NoTotals
             \/ \E r \in read : /\ \A s \in read : s.block <= r.block
                                /\ vaultLatest[v].totals = r.totals

\* The block a vault was first touched in is the least block of its logs.
FirstTouch(v, b) == \A i \in LogsOf(v) : chain[i].block >= b

\* Beyond the block a vault is first seen in, its totals are asked for at most
\* once in CallEvery blocks, although no store remembers the last attempt.
CallsAreRationed ==
    \A v \in Vaults, b, c \in {k[2] : k \in calls} :
      <<v, b>> \in calls /\ <<v, c>> \in calls /\ b < c
        => FirstTouch(v, b) \/ c - b >= CallEvery
=============================================================================
