----------------------------- MODULE RiskReport -----------------------------
(***************************************************************************)
(* The verdict on a vault (core/src/risk.ts) over the history its sources  *)
(* give (core/src/standardized/map.ts, core/src/substreams/reader.ts).     *)
(*                                                                         *)
(* Time passes in ticks, of a block or more.  A tick with an event is      *)
(* recorded: by the sink as a row of its own, by a subgraph in the         *)
(* snapshots of its hour and its day.  What a source records may lack the  *)
(* price or the balance.  The report is computed from the records an       *)
(* indexer has got to; the properties compare it with what they said.      *)
(***************************************************************************)
EXTENDS Integers, Sequences, Functions, FiniteSetsExt

CONSTANTS
    Readings,     \* prices and balances an event may leave; told when the source has the balance
    Missing,      \* the price of a reading whose source gives none (null)
    Unreadable,   \* the price of a reading whose string is not a number
    One,          \* the price "1"
    Others,       \* what a second source merged in may report, "none" without one
    Limits,       \* deposit limits, 0 for none
    Hour, Day,    \* their lengths, in ticks
    WindowMin, WindowMax,     \* the ages of each window of WINDOWS, in ticks
    HourlyFirst, DailyFirst,  \* snapshots asked for in the templates: 24 and 8
    SinkDays, SinkFirst,      \* what the sink's history query reaches: 8 days, 500 rows
    FreshTicks,   \* THRESHOLDS of the vault's first source
    MaxTick,      \* bound: the ticks a behaviour lasts
    MaxLag        \* bound: how many of them the indexer falls behind

VARIABLES
    chain,        \* chain[t] is the vault at tick t, and whether t has an event
    indexed,      \* the last tick the indexer has seen
    kind,         \* UnifiedVault.kind
    hourly,       \* whether the subgraph keeps hourly snapshots
    answered,     \* whether the sink's history query is answered
    errors,       \* hasIndexingErrors, or a sink without a cursor
    other,        \* freshness of the second source
    limit         \* depositLimit

sources == <<kind, hourly, answered, errors, other, limit>>
vars == <<chain, indexed, sources>>

Drawdowns == {"share_price_drawdown_1h", "share_price_drawdown_24h",
              "share_price_drawdown_7d"}
Entries == [price: Int, balance: Nat, told: BOOLEAN, event: BOOLEAN]
Kinds == {"yield-vault", "lending-market", "erc4626"}
Freshness == {"fresh", "stale", "unavailable"}

ASSUME RiskAssumption ==
    /\ Readings \subseteq [price: Int, balance: Nat, told: BOOLEAN]
    /\ Missing \in Int /\ Unreadable \in Int
    /\ Missing < 0 /\ Unreadable < 0 /\ Missing # Unreadable
    /\ One \in Nat \ {0}
    /\ Others \subseteq Freshness \cup {"none"} /\ Limits \subseteq Nat
    /\ Hour \in Nat \ {0} /\ Day \in Nat \ {0} /\ MaxTick \in Nat /\ MaxLag \in Nat
    /\ WindowMin \in [Drawdowns -> Nat] /\ WindowMax \in [Drawdowns -> Nat]
    /\ HourlyFirst \in Nat /\ DailyFirst \in Nat /\ SinkDays \in Nat /\ SinkFirst \in Nat
    /\ FreshTicks \in Nat

\* The templates ask for more than one hourly snapshot.
ASSUME QueryAssumption == HourlyFirst >= 2 /\ Day % Hour = 0

now == Len(chain)

\* vault_metrics and vault_latest: share_price is a number and never null.
Recordable(reading) == kind = "erc4626" => reading.price \notin {Missing, Unreadable}

AtEvent(reading) ==
    [price |-> reading.price, balance |-> reading.balance, told |-> reading.told,
     event |-> TRUE]

Init ==
    /\ indexed = 1
    /\ kind \in Kinds
    /\ hourly \in BOOLEAN /\ answered \in BOOLEAN /\ errors \in BOOLEAN
    /\ other \in Others /\ limit \in Limits
    /\ kind = "erc4626" => ~hourly /\ other = "none"
    /\ kind # "erc4626" => answered
    /\ kind # "yield-vault" => limit = 0
    /\ \E reading \in Readings : Recordable(reading) /\ chain = <<AtEvent(reading)>>

\* A deposit, a withdrawal or another event the sources record.
Event(reading) ==
    /\ now < MaxTick /\ now - indexed < MaxLag /\ Recordable(reading)
    /\ chain' = Append(chain, AtEvent(reading))
    /\ UNCHANGED <<indexed, sources>>

\* A tick without an event leaves the vault as it was.
Quiet ==
    /\ now < MaxTick /\ now - indexed < MaxLag
    /\ chain' = Append(chain, [chain[now] EXCEPT !.event = FALSE])
    /\ UNCHANGED <<indexed, sources>>

\* The indexer takes in the next tick.
Index ==
    /\ indexed < now
    /\ indexed' = indexed + 1
    /\ UNCHANGED <<chain, sources>>

Next == Index \/ Quiet \/ \E reading \in Readings : Event(reading)

Spec == Init /\ [][Next]_vars

-----------------------------------------------------------------------------
(* Histories                                                                *)

Recorded == {t \in 1 .. indexed : chain[t].event}
own == chain[Max(Recorded)]    \* the vault entity, or its row of vault_latest

Period(t, length) == (t - 1) \div length
FirstTick(t) == IF t < 1 THEN 1 ELSE t
StartOf(t, length) == FirstTick(Period(t, length) * length)

\* A period's snapshot is the state at its last recorded tick, a period without
\* an event has none, and the query asks for the newest n.
Snapshots(length, n) ==
    {t \in Recorded :
       LET later == {Period(g, length) : g \in {x \in Recorded : x > t}}
       IN  Period(t, length) \notin later /\ Cardinality(later) < n}

HourlyAt == IF hourly THEN Snapshots(Hour, HourlyFirst) ELSE {}
DailyAt == Snapshots(Day, DailyFirst)
Rows ==
    {t \in Recorded : /\ Cardinality({g \in Recorded : g > t}) < SinkFirst
                      /\ t >= now - SinkDays * Day}

\* p ?? q, and the number in String(p): "null" is none.
Else(p, q) == IF p = Missing THEN q ELSE p
Text(p) == Else(p, Unreadable)

Point(t, series, price, known, flow) ==
    [at |-> t, series |-> series, price |-> price, known |-> known, flow |-> flow]

\* What entered the vault after tick g, up to tick t.
Moved(g, t) == chain[t].balance - chain[g].balance

\* yieldSeriesHistory: a point's flow is its difference from the next older
\* point of its series, unless there is none or a balance does not parse.
YieldSeriesHistory(ticks, series) ==
    {LET older == {g \in ticks : g < t}
         known == older # {} /\ chain[Max(older)].told /\ chain[t].told
     IN  Point(t, series, Text(Else(chain[t].price, own.price)), known,
               IF known THEN Moved(Max(older), t) ELSE 0)
     : t \in ticks}

\* Faulty variant: a snapshot without a price is priced 1.
LendingDefaultFirst(ticks, series, length) ==
    {Point(t, series, Else(chain[t].price, One), TRUE, Moved(StartOf(t, length), t))
     : t \in ticks}

\* lendingSeriesHistory: a point carries the totals of its own interval.
LendingSeriesHistory(ticks, series, length) ==
    {Point(t, series, Else(Else(chain[t].price, own.price), One), TRUE,
           Moved(StartOf(t, length), t))
     : t \in ticks}

\* readErc4626Vaults: a row for each block with an event; no row when the
\* query fails.
BlockHistory ==
    {Point(t, "block", Text(chain[t].price), TRUE, Moved(StartOf(t, 1), t))
     : t \in {g \in Rows : answered}}

\* mapYieldVaults, mapLendingMarkets: the series are merged.
MapYieldVault ==
    YieldSeriesHistory(HourlyAt, "hourly") \cup YieldSeriesHistory(DailyAt, "daily")
MapLendingMarket ==
    LendingSeriesHistory(HourlyAt, "hourly", Hour)
      \cup LendingSeriesHistory(DailyAt, "daily", Day)

History ==
    CASE kind = "yield-vault" -> MapYieldVault
      [] kind = "lending-market" -> MapLendingMarket
      [] kind = "erc4626" -> BlockHistory

\* inputTokenBalance: the entity's own, or the total_assets of the last eth_call,
\* which later rows leave in vault_latest; 0 for null, which the report skips too.
BalanceAt == {t \in Recorded : chain[t].told /\ (kind = "erc4626" \/ t = Max(Recorded))}

current ==
    [price |-> IF kind = "erc4626" THEN Text(own.price) ELSE Else(own.price, One),
     balance |-> IF BalanceAt = {} THEN 0 ELSE chain[Max(BalanceAt)].balance]

\* classifyFreshness of the vault's own source.
SourceClass ==
    IF errors THEN "unavailable" ELSE IF now - indexed <= FreshTicks THEN "fresh" ELSE "stale"

\* mergeVaults, vaultFreshness: the worst of the sources.
VaultFreshness ==
    LET all == {SourceClass, other} \ {"none"}
    IN  IF "unavailable" \in all THEN "unavailable"
        ELSE IF "stale" \in all THEN "stale" ELSE "fresh"

-----------------------------------------------------------------------------
(* The report                                                               *)

\* The thresholds, in thousandths.
DropThreshold == [name \in Drawdowns |->
    CASE name = "share_price_drawdown_1h" -> 5
      [] name = "share_price_drawdown_24h" -> 20
      [] name = "share_price_drawdown_7d" -> 50]

\* Faulty variant: the flows of every series in the window are summed.
Flows24hMerged == {p \in History : now - p.at <= Day /\ p.known}

\* flows24h: the finest series with a flow in the window.
Flows24h ==
    LET inWindow == {p \in History : now - p.at <= Day /\ p.known}
        has(series) == \E p \in inWindow : p.series = series
    IN  {p \in inWindow : p.series = IF has("hourly") THEN "hourly"
                                      ELSE IF has("daily") THEN "daily" ELSE "block"}

\* Faulty variant: the window is open at its younger end.
InWindowOpen(name) ==
    {p \in History : now - p.at > WindowMin[name] /\ now - p.at <= WindowMax[name]}

InWindow(name) ==
    {p \in History : now - p.at >= WindowMin[name] /\ now - p.at <= WindowMax[name]}

\* The window's newest point is compared with the current price; an unreadable
\* or zero one compares false.
DroppedIn(name) ==
    LET points == InWindow(name)
        newest == Max({p.at : p \in points})
    IN  \E p \in points :
          /\ p.at = newest /\ p.price > 0
          /\ (p.price - current.price) * 1000 >= DropThreshold[name] * p.price

Outflow ==
    LET flows == Flows24h
    IN  /\ current.balance > 0 /\ flows # {}
        /\ -5 * SumFunction([p \in flows |-> p.flow]) >= current.balance

DepositLimitReached == limit > 0 /\ current.balance >= limit

BadData == VaultFreshness # "fresh" \/ current.price = Unreadable

Flags ==
    IF BadData
    THEN {IF VaultFreshness # "fresh" THEN "stale_data" ELSE "bad_share_price"}
    ELSE {name \in Drawdowns : DroppedIn(name)}
           \cup {name \in {"tvl_outflow_24h"} : Outflow}
           \cup {name \in {"deposit_limit_reached"} : DepositLimitReached}

Weight(name) ==
    CASE name = "share_price_drawdown_1h" -> 30
      [] name = "share_price_drawdown_24h" -> 25
      [] name = "share_price_drawdown_7d" -> 20
      [] name = "tvl_outflow_24h" -> 25
      [] name = "deposit_limit_reached" -> 10
      [] OTHER -> 0

Counted(flags, name) == IF name \in flags THEN Weight(name) ELSE 0

Total(flags) ==
    Counted(flags, "share_price_drawdown_1h") + Counted(flags, "share_price_drawdown_24h")
      + Counted(flags, "share_price_drawdown_7d") + Counted(flags, "tvl_outflow_24h")
      + Counted(flags, "deposit_limit_reached")

Score(flags) == LET total == Total(flags) IN IF total > 100 THEN 100 ELSE total

\* computeRisk's verdict; the flags of bad data weigh nothing and are no verdict.
Verdict(flags) ==
    LET score == Score(flags)
    IN  IF flags \cap {"stale_data", "bad_share_price"} # {} THEN "unavailable"
        ELSE IF score >= 50 THEN "alert"
        ELSE IF score >= 20 THEN "watch" ELSE "ok"

-----------------------------------------------------------------------------
(* Properties                                                               *)

TypeOK ==
    /\ chain \in Seq(Entries) /\ chain # <<>>
    /\ indexed \in 1 .. now
    /\ kind \in Kinds /\ hourly \in BOOLEAN /\ answered \in BOOLEAN /\ errors \in BOOLEAN
    /\ other \in Others /\ limit \in Limits

\* The interval between two points of the series the flows are taken from.
Interval == IF kind = "erc4626" THEN 1 ELSE IF hourly THEN Hour ELSE Day

\* An outflow that is flagged happened: from some tick of the last day and one
\* sampling interval to a later one, a fifth went out of the last balance the
\* source had told (for the sink the last eth_call, however old).  It is not
\* the same money counted by two series.  A subgraph that leaves a balance out
\* of a snapshot leaves the flows around it out of the sum, and is left out.
OutflowHappened ==
    "tvl_outflow_24h" \in Flags
      /\ (kind = "yield-vault" => \A t \in Recorded : chain[t].told)
    => LET told == {t \in Recorded : chain[t].told}
       IN  \E g, t \in 1 .. indexed :
             /\ g <= t /\ now - g <= Day + Interval
             /\ -5 * Moved(g, t) >= chain[Max(told)].balance

\* The recorded ticks whose age is in the window.
EventsIn(name) ==
    {t \in Recorded : now - t >= WindowMin[name] /\ now - t <= WindowMax[name]}

\* The price of an event is above the vault's latest by the window's threshold.
FellBelow(t, name) ==
    /\ chain[t].price > 0
    /\ (chain[t].price - own.price) * 1000 >= DropThreshold[name] * chain[t].price

\* A tick the queries reach: fewer than SinkFirst events have followed, or it is
\* the last event of one of the newest periods asked for.
Closes(t, length, n) ==
    /\ \A g \in Recorded : g > t => Period(g, length) # Period(t, length)
    /\ Period(indexed, length) - Period(t, length) < n

Reached(t) ==
    IF kind = "erc4626"
    THEN /\ answered /\ t >= now - SinkDays * Day
         /\ Cardinality({g \in Recorded : g > t}) < SinkFirst
    ELSE (hourly /\ Closes(t, Hour, HourlyFirst)) \/ Closes(t, Day, DailyFirst)

\* A fall of the price is flagged by every window whose events all stand above
\* the latest price and one of whose events the queries reach: no gap between
\* the series and the window hides it, and no price that was given is replaced.
FallIsSeen ==
    VaultFreshness = "fresh" /\ own.price > 0 =>
      \A name \in Drawdowns :
        (\A t \in EventsIn(name) : FellBelow(t, name))
          /\ (\E t \in EventsIn(name) : Reached(t)) => name \in Flags

\* An alert, on which an agent withdraws, rests on two signals at least, and a
\* full vault alone is nothing to watch.
AlertNeedsTwoSignals ==
    /\ Verdict(Flags) = "alert" => \E a, b \in Flags : a # b
    /\ Verdict(Flags) = "watch" => Flags # {"deposit_limit_reached"}

\* A verdict rests on sources that are all fresh, whichever of two merged ones
\* went bad, and on a price that can be read or that no source gives, which
\* counts as 1.  On a price that is given, a drawdown flagged is one an event of
\* the window shows: a snapshot without a price makes none up.
VerdictIsBacked ==
    Verdict(Flags) # "unavailable" =>
      /\ now - indexed <= FreshTicks /\ ~errors /\ other \notin {"stale", "unavailable"}
      /\ own.price # Unreadable
      /\ own.price # Missing =>
           \A name \in Drawdowns \cap Flags : \E t \in EventsIn(name) : FellBelow(t, name)

\* What risk.ts:79-80 quotes: "No verdict is ever inferred from partial data."  The
\* code takes a price that no source gives for 1 (map.ts:66, 97), and a history
\* query that fails for a vault without a history (reader.ts:72).
NothingFromPartialData ==
    Verdict(Flags) # "unavailable" =>
      own.price \notin {Missing, Unreadable} /\ answered
=============================================================================
