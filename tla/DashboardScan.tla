---------------------------- MODULE DashboardScan ----------------------------
(***************************************************************************)
(* POST /api/scan of the dashboard (dashboard/lib/scan.ts): the one route  *)
(* of that app that spends money, with the two limits it spends under, the *)
(* SpendLedger (lib/spend.ts) and the RateLimiter (lib/ratelimit.ts).      *)
(*                                                                         *)
(* A request holds its quote in the ledger, takes its client's window,     *)
(* awaits discovery, awaits the paid scan, then settles the hold or, when  *)
(* nothing was bought, releases it.  Both awaits are raced against a timer *)
(* that does not cancel what it raced: a scan given up on may still pay.   *)
(* The ledger and the limiter only change between awaits.                  *)
(***************************************************************************)
EXTENDS Integers, FiniteSets, Functions

CONSTANTS
    Requests,
    Clients, KeyOf,    \* KeyOf[r]: what clientKey makes of r's headers
    Pricings,          \* what the requests' vault lists may cost, in micro-USD
    Budget,            \* the policy's budget, or the per-scan ceiling if lower
    Stated,            \* prices a receipt may state
    Cap, MaxScans,     \* DASHBOARD_SPEND_CAP_USD, DASHBOARD_MAX_SCANS_PER_HOUR
    SpendWindow, ScanWindow, LimitWindow,
    DiscoveryTimeout, ScanTimeout,
    PayBy,             \* the longest from the start of the paid scan to the transfer
    MaxTime            \* bound: the clock

ASSUME ScanAssumption ==
    /\ IsFiniteSet(Requests)
    /\ KeyOf \in [Requests -> Clients]
    /\ Pricings \subseteq [Requests -> Nat] /\ Stated \subseteq Int
    /\ {Budget, Cap, MaxScans, SpendWindow, ScanWindow, LimitWindow} \subseteq Nat
    /\ {DiscoveryTimeout, ScanTimeout, PayBy, MaxTime} \subseteq Nat
    /\ ScanWindow <= SpendWindow

VARIABLES
    quoteOf,  \* quoteOf[r]: the quote for the vaults r asks about
    stage,    \* stage[r]: where handleScan is with r
    heldAt,   \* history: when the quote of r was held (0 once released)
    since,    \* since[r]: when the paid scan of r began
    entries,  \* the ledger: what is held or spent, by the request that did
    hits,     \* the limiter: the last allowed scan of a client
    paid,     \* the transfers the network executed, by the request they paid
    now

vars == <<quoteOf, stage, heldAt, since, entries, hits, paid, now>>

Stages == {"new", "discovering", "paying", "refused", "ended"}

\* client.scan has been called: from here on a transfer may be out.
Started(r) == stage[r] \in {"paying", "ended"}

IsPartial(f, S, T) == DOMAIN f \subseteq S /\ f \in [DOMAIN f -> T]

TypeOK ==
    /\ quoteOf \in [Requests -> Nat]
    /\ stage \in [Requests -> Stages]
    /\ heldAt \in [Requests -> Nat]
    /\ since \in [Requests -> Nat]
    /\ IsPartial(entries, Requests, [at: 0 .. now, micro: Nat])
    /\ IsPartial(hits, Clients, 0 .. now)
    /\ IsPartial(paid, Requests, [at: 0 .. now, amount: Nat])
    /\ now \in Nat

Init ==
    /\ quoteOf \in Pricings
    /\ stage = [r \in Requests |-> "new"]
    /\ heldAt = [r \in Requests |-> 0]
    /\ since = [r \in Requests |-> 0]
    /\ entries = << >> /\ hits = << >> /\ paid = << >>
    /\ now = 0

-----------------------------------------------------------------------------
(* SpendLedger                                                              *)

\* The entries made after `cutoff`.  They are appended in clock order, so the
\* early return of prune changes nothing.
After(cutoff) == {r \in DOMAIN entries : entries[r].at > cutoff}

Pruned ==
    Restrict(entries, After(now - (IF SpendWindow > ScanWindow THEN SpendWindow ELSE ScanWindow)))

Spent == SumFunction([r \in After(now - SpendWindow) |-> entries[r].micro])

ScansLastHour == Cardinality(After(now - ScanWindow))

\* Faulty variants: the cap is only compared with what is already spent; one
\* scan more than the allowance.
RefusesOnceOver(micro) == ScansLastHour >= MaxScans \/ Spent >= Cap
RefusesLate(micro) == ScansLastHour > MaxScans \/ Spent + micro > Cap

\* refuse: both limits are inclusive.
Refuses(micro) == ScansLastHour >= MaxScans \/ Spent + micro > Cap

\* The insert of reserve, which refuse has pruned for.
Reserved(r, micro) ==
    [q \in DOMAIN Pruned \cup {r} |-> IF q = r THEN [at |-> now, micro |-> micro] ELSE Pruned[q]]

\* settle keeps the entry's place in both windows; a pruned entry stays gone.
Settled(r, micro) ==
    [q \in DOMAIN entries |-> IF q = r THEN [entries[q] EXCEPT !.micro = micro] ELSE entries[q]]

Released(r) == Restrict(entries, DOMAIN entries \ {r})

\* chargedMicroUsd: never less than the quote, more if the receipt says so.
Charged(quote, stated) == IF stated > quote THEN stated ELSE quote

-----------------------------------------------------------------------------
(* RateLimiter.check                                                        *)

Unexpired == Restrict(hits, {k \in DOMAIN hits : now - hits[k] < LimitWindow})

Limited(r) == KeyOf[r] \in DOMAIN Unexpired

\* Faulty variant: an allowed call is not stored.
HitForgotten(r) == Unexpired

Hit(r) ==
    [k \in DOMAIN Unexpired \cup {KeyOf[r]} |-> IF k = KeyOf[r] THEN now ELSE Unexpired[k]]

\* The agent's payment policy signs for at most one percent over the quote.
MaxAcceptable(quote) == quote + (quote * 100) \div 10000

-----------------------------------------------------------------------------
(* Actions: the turns of handleScan between two awaits                      *)

\* Bound: a request comes while the clock has room for both its timers.
Arriving(r) == stage[r] = "new" /\ now + DiscoveryTimeout + ScanTimeout <= MaxTime

\* The budget of the policy's hedera rail and the ceiling are both inclusive.
Affordable(r) == quoteOf[r] <= Budget

\* No access, keys, policy, rail or valid body, or a quote over the policy's
\* budget or the ceiling: answered before the ledger is looked at.
RefuseEarly(r) ==
    /\ Arriving(r)
    /\ stage' = [stage EXCEPT ![r] = "refused"]
    /\ UNCHANGED <<quoteOf, heldAt, since, entries, hits, paid, now>>

\* 429: out of allowance.
RefuseAllowance(r) ==
    /\ Arriving(r)
    /\ Affordable(r) /\ Refuses(quoteOf[r])
    /\ stage' = [stage EXCEPT ![r] = "refused"]
    /\ entries' = Pruned
    /\ UNCHANGED <<quoteOf, heldAt, since, hits, paid, now>>

\* 429: the hold is taken, the client's window is not free, and the finally
\* gives the hold back before anyone can see it.
RefuseLimited(r) ==
    /\ Arriving(r)
    /\ Affordable(r) /\ ~Refuses(quoteOf[r]) /\ Limited(r)
    /\ stage' = [stage EXCEPT ![r] = "refused"]
    /\ entries' = Pruned
    /\ hits' = Unexpired
    /\ UNCHANGED <<quoteOf, heldAt, since, paid, now>>

\* The hold and the window are taken in one turn; discovery is awaited.
Admit(r) ==
    /\ Arriving(r)
    /\ Affordable(r) /\ ~Refuses(quoteOf[r]) /\ ~Limited(r)
    /\ entries' = Reserved(r, quoteOf[r])
    /\ heldAt' = [heldAt EXCEPT ![r] = now]
    /\ hits' = Hit(r)
    /\ stage' = [stage EXCEPT ![r] = "discovering"]
    /\ UNCHANGED <<quoteOf, since, paid, now>>

\* Discovery failed, or the pin or the identity gate refused: nothing was
\* bought.  The client's window stays taken.
RefuseService(r) ==
    /\ stage[r] = "discovering"
    /\ stage' = [stage EXCEPT ![r] = "refused"]
    /\ entries' = Released(r)
    /\ heldAt' = [heldAt EXCEPT ![r] = 0]
    /\ UNCHANGED <<quoteOf, since, hits, paid, now>>

\* Faulty variant: a discovery given up on keeps its hold.
DiscoveryTimesOutHolding(r) ==
    /\ stage[r] = "discovering" /\ now >= heldAt[r] + DiscoveryTimeout
    /\ stage' = [stage EXCEPT ![r] = "refused"]
    /\ UNCHANGED <<quoteOf, heldAt, since, entries, hits, paid, now>>

DiscoveryTimesOut(r) ==
    /\ now >= heldAt[r] + DiscoveryTimeout
    /\ RefuseService(r)

\* The service is who it should be: the paid scan is awaited.
StartPaying(r) ==
    /\ stage[r] = "discovering"
    /\ stage' = [stage EXCEPT ![r] = "paying"]
    /\ since' = [since EXCEPT ![r] = now]
    /\ UNCHANGED <<quoteOf, heldAt, entries, hits, paid, now>>

\* The transfer signed for r executes, perhaps after r was given up on.  It is of
\* the most the agent signs for: a smaller one only lowers the bill.
Transfer(r) ==
    /\ Started(r) /\ r \notin DOMAIN paid
    /\ now <= since[r] + PayBy
    /\ paid' = [q \in DOMAIN paid \cup {r} |->
                  IF q = r THEN [at |-> now, amount |-> MaxAcceptable(quoteOf[r])] ELSE paid[q]]
    /\ UNCHANGED <<quoteOf, stage, heldAt, since, entries, hits, now>>

\* The service answered, at a price the receipt states or hides; the hold is
\* settled before the signatures are looked at, whatever they are found to be.
ScanAnswers(r) ==
    /\ stage[r] = "paying"
    /\ \E stated \in Stated : entries' = Settled(r, Charged(quoteOf[r], stated))
    /\ stage' = [stage EXCEPT ![r] = "ended"]
    /\ UNCHANGED <<quoteOf, heldAt, since, hits, paid, now>>

\* Faulty variants: a failed scan counts as nothing bought; it has no timer.
ScanFailsReleasing(r) ==
    /\ stage[r] = "paying"
    /\ stage' = [stage EXCEPT ![r] = "ended"]
    /\ entries' = Released(r)
    /\ UNCHANGED <<quoteOf, heldAt, since, hits, paid, now>>

\* client.scan threw, before or after the transfer was signed: the outcome is
\* unknown and the quote stays counted.
ScanFails(r) ==
    /\ stage[r] = "paying"
    /\ stage' = [stage EXCEPT ![r] = "ended"]
    /\ entries' = Settled(r, quoteOf[r])
    /\ UNCHANGED <<quoteOf, heldAt, since, hits, paid, now>>

ScanNeverTimesOut(r) == FALSE /\ ScanFails(r)

ScanTimesOut(r) ==
    /\ now >= since[r] + ScanTimeout
    /\ ScanFails(r)

\* The portfolio page reads a snapshot of the same ledger.
Snapshot ==
    /\ entries' = Pruned
    /\ UNCHANGED <<quoteOf, stage, heldAt, since, hits, paid, now>>

\* Timers fire when they are due.
Tick ==
    /\ now < MaxTime
    /\ \A r \in Requests :
          /\ stage[r] = "discovering" => now < heldAt[r] + DiscoveryTimeout
          /\ stage[r] = "paying" => now < since[r] + ScanTimeout
    /\ now' = now + 1
    /\ UNCHANGED <<quoteOf, stage, heldAt, since, entries, hits, paid>>

Next ==
    \/ \E r \in Requests :
          \/ RefuseEarly(r) \/ RefuseAllowance(r) \/ RefuseLimited(r) \/ Admit(r)
          \/ RefuseService(r) \/ DiscoveryTimesOut(r) \/ StartPaying(r)
          \/ Transfer(r)
          \/ ScanAnswers(r) \/ ScanFails(r) \/ ScanTimesOut(r)
    \/ Snapshot
    \/ Tick

\* The event loop keeps running and serves the timers that are due; no answer
\* of the service is ever relied on.
Fairness ==
    /\ WF_vars(Tick)
    /\ \A r \in Requests : WF_vars(DiscoveryTimesOut(r)) /\ WF_vars(ScanTimesOut(r))

Spec == Init /\ [][Next]_vars /\ Fairness

-----------------------------------------------------------------------------
(* Properties                                                               *)

\* The longest time from the hold to the transfer it was for.
Hold == DiscoveryTimeout + PayBy

PaidAfter(cutoff) == {r \in DOMAIN paid : paid[r].at > cutoff}

Bill == SumFunction([r \in PaidAfter(now - (SpendWindow - Hold)) |-> paid[r].amount])

\* However requests, timeouts and late transfers interleave, what actually left
\* the wallet within a spend window (less the time a transfer may lag its hold)
\* is within the cap, but for the one percent a payment may exceed its quote by.
BillBounded == Bill <= MaxAcceptable(Cap)

\* The same for the number of paid scans within the scan window.
ScansBounded == Cardinality(PaidAfter(now - (ScanWindow - Hold))) <= MaxScans

\* A transfer is never unmetered: while its hold is in the window the ledger has
\* it, at the quote it was signed for or more, whatever the route was told.
PaidIsCounted ==
    \A r \in DOMAIN paid : heldAt[r] > now - SpendWindow =>
        r \in DOMAIN entries /\ entries[r].micro >= quoteOf[r]

\* A request that bought nothing holds nothing, and was never paid for.
RefusedHoldsNothing ==
    \A r \in Requests : stage[r] = "refused" => r \notin DOMAIN entries \cup DOMAIN paid

\* Two scans of one client that the limiter let through are a limit window apart,
\* whatever became of the payment of the first.  (One refused at discovery keeps
\* the window taken too, and is not compared.)
OnePerWindow ==
    \A r, q \in Requests :
        r # q /\ KeyOf[r] = KeyOf[q]
        /\ (stage[r] = "discovering" \/ Started(r)) /\ (stage[q] = "discovering" \/ Started(q)) =>
            heldAt[r] >= heldAt[q] + LimitWindow \/ heldAt[q] >= heldAt[r] + LimitWindow

\* A service that goes silent cannot keep a request, nor its hold, for ever.
HoldEnds ==
    \A r \in Requests :
        stage[r] \in {"discovering", "paying"} ~> stage[r] \notin {"discovering", "paying"}
=============================================================================
