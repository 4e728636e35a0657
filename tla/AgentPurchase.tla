--------------------------- MODULE AgentPurchase ---------------------------
(***************************************************************************)
(* The paying agent (packages/agent): one `watch` run, or the paid tool    *)
(* calls of one `chat` session, which share a client and a run record.     *)
(*                                                                         *)
(* A call discovers the service's card and checks its identity, prices the *)
(* whole plan, picks a rail, buys one scan or one table per chain, and     *)
(* decides per vault on what verified.  The service, the facilitator, the  *)
(* balances and the disk are the environment: they may give any answer at  *)
(* every step.  Calls are serial, as the client's shared quote requires.   *)
(***************************************************************************)
EXTENDS Integers, FiniteSets, Sequences

CONSTANTS
    Rails,        \* "hedera" and "arc"
    Vaults, Chains,
    ChainOf,      \* ChainOf[v]: the chain in the vault's id
    Policies,     \* the policies an operator may load
    Cards,        \* the agent cards the service may serve, as read and checked
    Answers,      \* the bodies the service may answer a paid request with
    Balances,     \* the balances a rail may report
    Surcharges,   \* what a 402 may demand beyond the quote
    ScanPrice,    \* ScanPrice[r][n]: a scan of n vaults
    TablePrice,   \* TABLE_PRICE_USD
    ClockSkew,    \* CLOCK_SKEW_S
    None,
    MaxCalls      \* bound: the tool calls of a session

Ids == UNION {DOMAIN c.onChain : c \in Cards}

Verdicts == {"ok", "watch", "alert", "unavailable"}

PolicySet ==
    [budget: [Rails -> Nat], privacy: {"strict", "balanced", "cheap"},
     prefers: Rails \cup {"cheapest"}, maxAge: Nat, pins: SUBSET Ids]

ASSUME AgentAssumption ==
    /\ Rails = {"hedera", "arc"}
    /\ IsFiniteSet(Vaults) /\ ChainOf \in [Vaults -> Chains]
    /\ Policies \subseteq PolicySet
    /\ ScanPrice \in [Rails -> [1 .. Cardinality(Vaults) -> Nat]] /\ TablePrice \in Nat
    /\ Balances \subseteq Nat /\ Surcharges \subseteq Int
    /\ ClockSkew \in Nat /\ MaxCalls \in Nat
    /\ None \notin Rails \cup Chains \cup Nat \cup Cards

ASSUME CardAssumption ==
    \A c \in Cards : c.sigValid \in BOOLEAN /\ c.bindingValid \in BOOLEAN

ASSUME AnswerAssumption ==
    \A a \in Answers :
        /\ a.vaults \subseteq Vaults /\ DOMAIN a.reports \subseteq Vaults
        /\ a.reports \in [DOMAIN a.reports -> Verdicts]
        /\ \A t \in a.atts : t.vault \in Vaults /\ t.age \in Int
        /\ {a.forRequest, a.forResponse} \subseteq BOOLEAN /\ a.over \in Int

VARIABLES
    mode,         \* the command: "watch" or "chat"
    policy,
    disc,         \* the client's cached discovery
    quoteAtomic,  \* the client's quote for the Hedera request in flight
    calls,        \* how many calls have started
    call,         \* the call in progress, or the last one
    purchases,    \* its purchases
    decisions,    \* its decisions
    spent,        \* history: what it signed for, per rail
    signings,     \* history: how many payments it signed
    run,          \* the run record in memory
    file          \* the run file; None: no file, or one that does not parse

vars == <<mode, policy, disc, quoteAtomic, calls, call, purchases, decisions,
          spent, signings, run, file>>

books == <<run, file>>
results == <<purchases, decisions>>
wallet == <<spent, signings>>

Actions == {"withdraw", "rebalance", "hold", "insufficient data"}

\* A receipt hash is named by the call and the position of its purchase.
Receipts == Nat \X Nat

Decision == [vault: Vaults, action: Actions, cites: Receipts]

Record == [discovery: Cards \cup {None}, requests: SUBSET Receipts,
           decisions: SUBSET Decision]

Empty == [discovery |-> None, requests |-> {}, decisions |-> {}]

Stages == {"idle", "opened", "trusted", "buying", "sent", "signed",
           "ok", "failed", "refused", "returned", "threw"}

Call == [kind: {"policy", "table"}, vaults: SUBSET Vaults, forced: Rails \cup {None},
         todo: SUBSET (Chains \cup {None}), rail: Rails \cup {None},
         price: Nat, chain: Chains \cup {None}, moved: Nat, stage: Stages]

Body == [vaults: SUBSET Vaults,
         reports: UNION {[known -> Verdicts] : known \in SUBSET Vaults},
         atts: SUBSET UNION {a.atts : a \in Answers}]

Bought == [chain: Chains \cup {None}, card: Cards, body: Body, valid: BOOLEAN]

\* Every variable has the type the code gives it.
TypeOK ==
    /\ mode \in {"watch", "chat"}
    /\ policy \in Policies
    /\ disc \in Cards \cup {None}
    /\ quoteAtomic \in Nat \cup {None}
    /\ calls \in Nat
    /\ call \in Call
    /\ spent \in [Rails -> Nat] /\ signings \in Nat
    /\ purchases \in Seq(Bought) /\ decisions \subseteq Decision
    /\ run \in Record /\ file \in Record \cup {None}

Init ==
    /\ mode \in {"watch", "chat"}
    /\ policy \in Policies
    /\ disc = None /\ quoteAtomic = None
    /\ calls = 0
    /\ call = [kind |-> "policy", vaults |-> {}, forced |-> None, todo |-> {},
               rail |-> None, price |-> 0, chain |-> None, moved |-> 0, stage |-> "idle"]
    /\ purchases = <<>> /\ decisions = {}
    /\ spent = [r \in Rails |-> 0] /\ signings = 0
    /\ run = Empty /\ file = None

-----------------------------------------------------------------------------
(* The policy's decisions                                                   *)

\* identityRefusal: nothing on chain may contradict the card's key, at least one
\* registration must confirm it, and a pinned identity must be among those claimed.
IdentityRefused(c) ==
    \/ ~c.sigValid \/ ~c.bindingValid
    \/ \E i \in DOMAIN c.onChain : c.onChain[i] = "mismatch"
    \/ \A i \in DOMAIN c.onChain : c.onChain[i] # "match"
    \/ policy.pins # {} /\ DOMAIN c.onChain \cap policy.pins = {}

\* chooseTier, and an explicit table call.
Tier(kind) == IF kind = "table" \/ policy.privacy = "strict" THEN "table" ELSE "scan"

Sealed(kind) == kind = "table" \/ policy.privacy # "cheap"

\* planChains: one table per chain of the vaults; a scan is one request.
PlanChains(kind, vaults) ==
    IF Tier(kind) = "table" THEN {ChainOf[v] : v \in vaults} ELSE {None}

\* priceFor, quoteAtomicFor: one request of the call.
UnitPrice(rail, kind, vaults) ==
    IF Tier(kind) = "table" THEN TablePrice ELSE ScanPrice[rail][Cardinality(vaults)]

\* Faulty variant: a plan of several tables is quoted as one.
QuoteForOne(rail, kind, vaults) == UnitPrice(rail, kind, vaults)

\* quoteFor: the whole plan.
QuoteFor(rail, kind, vaults) ==
    UnitPrice(rail, kind, vaults) * Cardinality(PlanChains(kind, vaults))

\* maxAcceptableAtomic: the quote and one percent.
MaxAcceptable(quote) == quote + (quote * 100) \div 10000

\* usable: healthy, funded and budgeted for the whole plan.  (A rail without a
\* wallet has balance 0.)
Usable(kind, vaults, balance, up) ==
    {r \in Rails :
        /\ up[r]
        /\ balance[r] >= QuoteFor(r, kind, vaults)
        /\ policy.budget[r] >= QuoteFor(r, kind, vaults)}

\* chooseRail: the preferred rail, the cheapest (hedera on a tie), or the other.
ChooseRail(prefers, usable, kind, vaults) ==
    IF prefers \in usable THEN prefers
    ELSE CHOOSE r \in usable :
            \A o \in usable \ {r} :
               \/ QuoteFor(r, kind, vaults) < QuoteFor(o, kind, vaults)
               \/ r = "hedera" /\ QuoteFor(r, kind, vaults) = QuoteFor(o, kind, vaults)

-----------------------------------------------------------------------------
(* What a purchase proves                                                   *)

\* Every vault of the body is attested exactly once, under the discovered key.
AttestationsValid(a, card) ==
    /\ Cardinality(a.atts) = Cardinality(a.vaults)
    /\ {t.vault : t \in a.atts} = a.vaults
    /\ \A t \in a.atts : t.by = card.key

InBand(amount, quote) == amount >= quote /\ amount <= MaxAcceptable(quote)

\* The receipt is the service's, commits to this request and this body, and states
\* the quoted price; on Arc the amount the rail moved must agree too.
ReceiptValid(a, card, quote, rail, moved) ==
    /\ a.by = card.key /\ a.forRequest /\ a.forResponse
    /\ InBand(quote + a.over, quote)
    /\ rail = "arc" => InBand(moved, quote)

\* narrowResult: a strict-tier table, down to the vaults that were asked about.
Narrowed(a, kind, vaults) ==
    IF kind = "policy" /\ Tier(kind) = "table"
    THEN [vaults |-> a.vaults \cap vaults,
          reports |-> [v \in DOMAIN a.reports \cap vaults |-> a.reports[v]],
          atts |-> {t \in a.atts : t.vault \in vaults}]
    ELSE [vaults |-> a.vaults, reports |-> a.reports, atts |-> a.atts]

\* Faulty variant: an attestation from the future is fresh.
TimelyPast(t) == t.age <= policy.maxAge

\* applyAgeCheck: neither too old nor dated beyond the clock skew.
Timely(t) == t.age <= policy.maxAge /\ t.age >= -ClockSkew

ActionFor == [ok |-> "hold", watch |-> "rebalance", alert |-> "withdraw"]

\* An untimely attestation, a missing one and an unavailable verdict are no ground
\* to act on.
Actionable(body, v) ==
    /\ \E t \in body.atts : t.vault = v
    /\ \A t \in body.atts : t.vault = v => Timely(t)
    /\ body.reports[v] # "unavailable"

\* decide: one decision per report.
Decide(body, cites) ==
    {[vault |-> v,
      action |-> IF Actionable(body, v) THEN ActionFor[body.reports[v]]
                 ELSE "insufficient data",
      cites |-> cites] : v \in DOMAIN body.reports}

\* Faulty variant: a vault whose chain was bought counts as covered.
MissingByChain(bought) ==
    {[vault |-> v, action |-> "insufficient data", cites |-> <<calls, 1>>] :
        v \in {w \in call.vaults :
                 \A i \in 1 .. Len(bought) : bought[i].chain \notin {None, ChainOf[w]}}}

\* missingVaultDecisions: a vault in none of the bodies, citing the table bought
\* for its chain or else the first purchase.
MissingVaultDecisions(bought) ==
    LET Covered == UNION {DOMAIN bought[i].body.reports : i \in 1 .. Len(bought)}
        Source(v) == IF \E i \in 1 .. Len(bought) : bought[i].chain = ChainOf[v]
                     THEN CHOOSE i \in 1 .. Len(bought) : bought[i].chain = ChainOf[v]
                     ELSE 1
    IN  {[vault |-> v, action |-> "insufficient data", cites |-> <<calls, Source(v)>>] :
            v \in call.vaults \ Covered}

-----------------------------------------------------------------------------
(* A call                                                                   *)

\* A watch run, or the next paid tool call of the session.
Start ==
    /\ call.stage \in {"idle", "returned", "threw"}
    /\ calls < (IF mode = "watch" THEN 1 ELSE MaxCalls)
    /\ \E kind \in {"policy", "table"}, vaults \in (SUBSET Vaults) \ {{}},
          forced \in Rails \cup {None} :
          /\ mode = "watch" => kind = "policy"
          /\ mode = "chat" => forced = None
          /\ kind = "table" => \E c \in Chains : vaults = {v \in Vaults : ChainOf[v] = c}
          /\ call' = [kind |-> kind, vaults |-> vaults, forced |-> forced,
                      todo |-> PlanChains(kind, vaults), rail |-> None, price |-> 0,
                      chain |-> None, moved |-> 0, stage |-> "opened"]
    /\ calls' = calls + 1
    /\ purchases' = <<>> /\ decisions' = {}
    /\ spent' = [r \in Rails |-> 0] /\ signings' = 0
    /\ UNCHANGED <<mode, policy, disc, quoteAtomic, books>>

\* The card cannot be fetched or is malformed, a payment is refused or never
\* answered, a reply does not open: the call throws.
Throw ==
    /\ call' = [call EXCEPT !.stage = "threw"]
    /\ UNCHANGED <<mode, policy, calls, results>>

DiscoverFails ==
    /\ call.stage = "opened"
    /\ Throw
    /\ UNCHANGED <<disc, quoteAtomic, wallet, books>>

\* Faulty variant: the card is only checked when none was cached.
DiscoverTrustsCache(card) ==
    /\ call.stage = "opened"
    /\ disc' = card
    /\ call' = [call EXCEPT !.stage =
                    IF disc = None /\ IdentityRefused(card) THEN "refused" ELSE "trusted"]
    /\ run' = IF mode = "watch" THEN [run EXCEPT !.discovery = card] ELSE run
    /\ UNCHANGED <<mode, policy, quoteAtomic, calls, results, wallet, file>>

\* discover, then the identity gate.
Discover(card) ==
    /\ call.stage = "opened"
    /\ disc' = card
    /\ call' = [call EXCEPT !.stage = IF IdentityRefused(card) THEN "refused" ELSE "trusted"]
    /\ run' = IF mode = "watch" THEN [run EXCEPT !.discovery = card] ELSE run
    /\ UNCHANGED <<mode, policy, quoteAtomic, calls, results, wallet, file>>

\* Quotes, balances and facilitator health pick one rail for the whole plan; a
\* forced rail is not replaced.
PickRail ==
    /\ call.stage = "trusted"
    /\ \E balance \in [Rails -> Balances], up \in [Rails -> BOOLEAN] :
          LET prefers == IF call.forced = None THEN policy.prefers ELSE call.forced
              usable == Usable(call.kind, call.vaults, balance, up)
              rail == ChooseRail(prefers, usable, call.kind, call.vaults)
          IN  call' = IF usable = {} \/ call.forced \notin {None, rail}
                      THEN [call EXCEPT !.stage = "refused"]
                      ELSE [call EXCEPT !.rail = rail, !.stage = "buying",
                                        !.price = QuoteFor(rail, call.kind, call.vaults)]
    /\ UNCHANGED <<mode, policy, disc, quoteAtomic, calls, results, wallet, books>>

Quote == UnitPrice(call.rail, call.kind, call.vaults)

\* Faulty variant: the quote is not noted before the paying fetch.
SendUnquoted(chain) ==
    /\ call.stage = "buying" /\ chain \in call.todo
    /\ call' = [call EXCEPT !.todo = @ \ {chain}, !.chain = chain, !.stage = "sent"]
    /\ UNCHANGED <<mode, policy, disc, quoteAtomic, calls, results, wallet, books>>

\* paid: the next request of the plan goes out, unpaid, for the cached card.
Send(chain) ==
    /\ call.stage = "buying" /\ chain \in call.todo
    /\ call' = [call EXCEPT !.todo = @ \ {chain}, !.chain = chain, !.stage = "sent"]
    /\ quoteAtomic' = IF call.rail = "hedera" THEN Quote ELSE quoteAtomic
    /\ UNCHANGED <<mode, policy, disc, calls, results, wallet, books>>

\* overQuoteReason, asked by Hedera's payment policy and Arc's signing hook.
OverQuote(amount) ==
    IF call.rail = "hedera"
    THEN quoteAtomic # None /\ amount > MaxAcceptable(quoteAtomic)
    ELSE amount > MaxAcceptable(Quote)

\* The finally of the Hedera branch.
ClearQuote == quoteAtomic' = IF call.rail = "hedera" THEN None ELSE quoteAtomic

\* The request fails before anything is signed: refused as over the quote, no 402,
\* or no answer.
NotSigned ==
    /\ call.stage = "sent"
    /\ ClearQuote
    /\ Throw
    /\ UNCHANGED <<disc, wallet, books>>

\* The 402 arrives and the rail signs for what it demands.
Sign(amount) ==
    /\ call.stage = "sent" /\ amount >= 0
    /\ ~OverQuote(amount)
    /\ spent' = [spent EXCEPT ![call.rail] = @ + amount]
    /\ signings' = signings + 1
    /\ call' = [call EXCEPT !.moved = amount, !.stage = "signed"]
    /\ UNCHANGED <<mode, policy, disc, quoteAtomic, calls, results, books>>

\* The signed request ends without a usable reply: an error status, no answer, or a
\* clear reply to a sealed request (and the reverse).
NotServed ==
    /\ call.stage = "signed"
    /\ ClearQuote
    /\ Throw
    /\ UNCHANGED <<disc, wallet, books>>

Purchase(a) ==
    [chain |-> call.chain, card |-> disc,
     body |-> Narrowed(a, call.kind, call.vaults),
     valid |-> /\ ReceiptValid(a, disc, Quote, call.rail, call.moved)
               /\ AttestationsValid(a, disc)]

\* The purchase is kept either way.  One that fails a check ends the call with the
\* decisions of the earlier ones; a good one adds its own and the plan goes on.
Buy(a) ==
    LET p == Purchase(a)
        bought == Append(purchases, p)
    IN  /\ purchases' = bought
        /\ decisions' = decisions
             \cup (IF p.valid THEN Decide(p.body, <<calls, Len(bought)>>) ELSE {})
             \cup (IF p.valid /\ call.todo = {} /\ call.kind = "policy"
                   THEN MissingVaultDecisions(bought) ELSE {})
        /\ call' = [call EXCEPT !.stage = IF ~p.valid THEN "failed"
                                          ELSE IF call.todo = {} THEN "ok" ELSE "buying"]

\* The service answers 200, sealed like the request; the reply is checked and aged.
\* (Polling for the receipt's HCS sequence, which follows, changes nothing.)
Served(a) ==
    /\ call.stage = "signed" /\ a.sealed = Sealed(call.kind)
    /\ ClearQuote
    /\ Buy(a)
    /\ UNCHANGED <<mode, policy, disc, calls, wallet, books>>

-----------------------------------------------------------------------------
(* The record                                                               *)

Cited == {<<calls, i>> : i \in 1 .. Len(purchases)}

\* saveRun rewrites the one file of the record, truncating it first.  A failed write is
\* swallowed: it leaves the old file, or what does not parse.
Save(record) ==
    /\ run' = record
    /\ file' \in {record, file, None}

\* runWatch's finish: the attempt is on file whatever its outcome.
FinishWatch ==
    /\ mode = "watch" /\ call.stage \in {"ok", "failed", "refused"}
    /\ Save([run EXCEPT !.requests = Cited, !.decisions = decisions])
    /\ call' = [call EXCEPT !.stage = "returned"]
    /\ UNCHANGED <<mode, policy, disc, quoteAtomic, calls, results, wallet>>

\* RunLog.append of an outcome without purchases opens no record.
ReturnEmpty ==
    /\ mode = "chat" /\ call.stage = "refused"
    /\ call' = [call EXCEPT !.stage = "returned"]
    /\ UNCHANGED <<mode, policy, disc, quoteAtomic, calls, results, wallet, books>>

\* Faulty variant: the decisions of a failed outcome are dropped.
RecordedIfOk(record) ==
    [record EXCEPT !.requests = @ \cup Cited,
                   !.decisions = IF call.stage = "ok" THEN @ \cup decisions ELSE @]

\* append: both kinds of outcome carry decisions.
Recorded(record) ==
    [record EXCEPT !.requests = @ \cup Cited, !.decisions = @ \cup decisions]

\* RunLog.append to the session's open record.
AppendToRun ==
    /\ mode = "chat" /\ call.stage \in {"ok", "failed"}
    /\ run.discovery # None
    /\ Save(Recorded(run))
    /\ call' = [call EXCEPT !.stage = "returned"]
    /\ UNCHANGED <<mode, policy, disc, quoteAtomic, calls, results, wallet>>

\* RunLog.ensure discovers again, after the payment, to open the record.
OpenRun(card) ==
    /\ mode = "chat" /\ call.stage \in {"ok", "failed"}
    /\ run.discovery = None
    /\ disc' = card
    /\ Save(Recorded([Empty EXCEPT !.discovery = card]))
    /\ call' = [call EXCEPT !.stage = "returned"]
    /\ UNCHANGED <<mode, policy, quoteAtomic, calls, results, wallet>>

OpenRunFails ==
    /\ mode = "chat" /\ call.stage \in {"ok", "failed"}
    /\ run.discovery = None
    /\ Throw
    /\ UNCHANGED <<disc, quoteAtomic, wallet, books>>

Next ==
    \/ Start
    \/ DiscoverFails
    \/ \E card \in Cards : Discover(card) \/ OpenRun(card)
    \/ PickRail
    \/ \E chain \in Chains \cup {None} : Send(chain)
    \/ \E s \in Surcharges : Sign(Quote + s)
    \/ NotSigned \/ NotServed
    \/ \E a \in Answers : Served(a)
    \/ FinishWatch \/ ReturnEmpty \/ AppendToRun \/ OpenRunFails

Spec == Init /\ [][Next]_vars

-----------------------------------------------------------------------------
(* Properties                                                               *)

\* The card's signing key is the one some registration pins, no registration
\* contradicts it, and it claims an identity the operator expects.
Anchored(c) ==
    /\ c.sigValid /\ c.bindingValid
    /\ \E i \in DOMAIN c.onChain : c.onChain[i] = "match"
    /\ \A i \in DOMAIN c.onChain : c.onChain[i] # "mismatch"
    /\ policy.pins = {} \/ \E i \in policy.pins : i \in DOMAIN c.onChain

\* Money moves, and a body is verified, only under an anchored card: the cached one
\* when a request goes out, and the one each purchase was checked against, however
\* often the card changed between the calls and while the record was opened.
PaysOnlyAnchored ==
    /\ call.stage \in {"sent", "signed"} => disc # None /\ Anchored(disc)
    /\ \A i \in 1 .. Len(purchases) : Anchored(purchases[i].card)

\* Whatever the service demands at each of its requests, a call signs for no more
\* than what was quoted for its whole plan and one percent.
SpendWithinQuote ==
    call.rail # None => 100 * spent[call.rail] <= 101 * call.price

\* So neither rail is charged beyond its budget and one percent by a call, and a
\* rail the operator did not name is not charged at all.
SpendWithinBudget ==
    \A r \in Rails :
        /\ 100 * spent[r] <= 101 * policy.budget[r]
        /\ call.forced \notin {None, r} => spent[r] = 0

\* A purchase that fails a check is the last payment of its call.
StopsAtFailure ==
    \A i \in 1 .. Len(purchases) : ~purchases[i].valid =>
        i = Len(purchases) /\ signings = i

\* An action other than "insufficient data" rests on a purchase that verified, made
\* under an anchored card whose key signed every attestation of the vault, none of
\* them older than the policy allows or from beyond the clock skew.
ActionsRestOnEvidence ==
    \A d \in decisions : d.action # "insufficient data" =>
        LET p == purchases[d.cites[2]] IN
            /\ p.valid /\ Anchored(p.card)
            /\ \E t \in p.body.atts : t.vault = d.vault
            /\ \A t \in p.body.atts : t.vault = d.vault =>
                  t.by = p.card.key /\ t.age \in -ClockSkew .. policy.maxAge

\* A watch or scan that succeeds says something about each vault it was asked for,
\* whatever the tables left out.
EveryVaultAnswered ==
    call.stage = "ok" /\ call.kind = "policy" =>
        call.vaults \subseteq {d.vault : d \in decisions}

\* When a call returns (rather than throws), each of its purchases and decisions is
\* in the record, those of an outcome that failed half way included.
ReturnedIsRecorded ==
    call.stage = "returned" => Cited \subseteq run.requests /\ decisions \subseteq run.decisions

\* f, when there is one to read, holds no request and no decision that r lacks.
Within(f, r) ==
    f # None => f.requests \subseteq r.requests /\ f.decisions \subseteq r.decisions

\* A write that fails may lose the file of a watch or of a whole session, but nothing
\* else does: the record in memory only grows, the file never holds what the record
\* lacks, and a rewrite that succeeds holds all that the record held before it, so it
\* makes good what earlier writes tore and never brings an older record back.
FileNeverForgets ==
    [][/\ Within(run, run') /\ Within(file', run')
       /\ file' \notin {file, None} => Within(run, file')]_vars

\* RunLog.append's doc: a failed write "must not lose the purchase that already
\* happened, so the in-memory record keeps it either way"; runs.ts calls the record
\* "every paid request it made".  A call that throws after a purchase (the card is
\* unreachable when the record is opened, a later table is refused) loses it.
PurchaseNotLost ==
    call.stage \in {"returned", "threw"} => Cited \subseteq run.requests
=============================================================================
