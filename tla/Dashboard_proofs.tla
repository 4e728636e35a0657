-------------------------- MODULE Dashboard_proofs --------------------------
(***************************************************************************)
(* Proofs about the dashboard.  DashboardScan, for any requests, clients,  *)
(* prices, windows and timeouts: the types, and the invariant LedgerInv    *)
(* from which its safety properties follow.  DashboardPages, for any runs, *)
(* texts, receipts, cards and registries: what /verify says; and, of the   *)
(* pages over the run files, what a read serves while others write, what a *)
(* history shows of a purchase, and what a page may fold away.             *)
(***************************************************************************)
EXTENDS DashboardScan, DashboardPages, Lemmas, FiniteSetTheorems, TLAPS

LEMMA MaxAcceptableType ==
    ASSUME NEW quote \in Nat
    PROVE  MaxAcceptable(quote) \in Nat
BY DEF MaxAcceptable

\* The tolerance on two payments is within the tolerance on their sum.
LEMMA MaxAcceptableAdds ==
    ASSUME NEW a \in Nat, NEW b \in Nat
    PROVE  MaxAcceptable(a) + MaxAcceptable(b) <= MaxAcceptable(a + b)
BY DEF MaxAcceptable

LEMMA MaxAcceptableMonotone ==
    ASSUME NEW a \in Nat, NEW b \in Nat, a <= b
    PROVE  MaxAcceptable(a) <= MaxAcceptable(b)
BY DEF MaxAcceptable

\* So it is with any number of payments.
LEMMA MaxAcceptableSum ==
    ASSUME NEW S, IsFiniteSet(S), NEW q, \A r \in S : q[r] \in Nat,
           NEW w, \A r \in S : w[r] = MaxAcceptable(q[r])
    PROVE  SumFunctionOnSet(w, S) <= MaxAcceptable(SumFunctionOnSet(q, S))
<1> DEFINE Within(T) == SumFunctionOnSet(w, T) <= MaxAcceptable(SumFunctionOnSet(q, T))
           G == {T \in SUBSET S : Within(T)}
<1>1. ASSUME NEW T \in SUBSET S, \A r \in T : T \ {r} \in G PROVE Within(T)
  <2>1. CASE T = {}
    <3>1. SumFunctionOnSet(w, T) = 0 /\ SumFunctionOnSet(q, T) = 0
      BY <2>1, SumEmpty
    <3> QED BY <3>1 DEF MaxAcceptable
  <2>2. ASSUME NEW r \in T PROVE Within(T)
    <3> DEFINE a == SumFunctionOnSet(w, T \ {r})
               b == SumFunctionOnSet(q, T \ {r})
    <3>1. IsFiniteSet(T) /\ IsFiniteSet(T \ {r})
      BY FS_Subset
    <3>2. \A x \in T : w[x] \in Nat /\ q[x] \in Nat
      BY MaxAcceptableType
    <3>3. SumFunctionOnSet(w, T) = w[r] + a
      BY <3>1, <3>2, SumRemove
    <3>4. SumFunctionOnSet(q, T) = q[r] + b
      BY <3>1, <3>2, SumRemove
    <3>5. a \in Nat
      BY <3>1, <3>2, SumNat
    <3>6. b \in Nat
      BY <3>1, <3>2, SumNat
    <3>7. a <= MaxAcceptable(b) /\ w[r] = MaxAcceptable(q[r]) /\ q[r] \in Nat
      BY <1>1
    <3> HIDE DEF a, b
    <3>8. MaxAcceptable(q[r]) + MaxAcceptable(b) <= MaxAcceptable(q[r] + b)
      BY <3>6, <3>7, MaxAcceptableAdds
    <3>9. /\ MaxAcceptable(q[r]) \in Nat /\ MaxAcceptable(b) \in Nat
          /\ MaxAcceptable(q[r] + b) \in Nat
      BY <3>6, <3>7, MaxAcceptableType
    <3>10. w[r] + a <= MaxAcceptable(q[r] + b)
      BY <3>5, <3>7, <3>8, <3>9
    <3> QED BY <3>3, <3>4, <3>10
  <2> QED BY <2>1, <2>2
<1>2. S \in G
  <2>1. \A T \in SUBSET S : (\A r \in T : T \ {r} \in G) => T \in G
    BY <1>1
  <2> HIDE DEF G
  <2> QED BY <2>1, SetInduction
<1> QED BY <1>2

LEMMA AfterSubset ==
    ASSUME NEW cutoff, DOMAIN entries \subseteq Requests
    PROVE  After(cutoff) \subseteq DOMAIN entries /\ After(cutoff) \subseteq Requests
BY DEF After

\* What prune, settle and release leave of the ledger is well typed.
LEMMA LedgerOps ==
    ASSUME TypeOK
    PROVE  /\ IsPartial(Pruned, Requests, [at: 0 .. now, micro: Nat])
           /\ \A r \in Requests, m \in Nat :
                 /\ IsPartial(Reserved(r, m), Requests, [at: 0 .. now, micro: Nat])
                 /\ IsPartial(Settled(r, m), Requests, [at: 0 .. now, micro: Nat])
                 /\ IsPartial(Released(r), Requests, [at: 0 .. now, micro: Nat])
<1> DEFINE T == [at: 0 .. now, micro: Nat]
<1>1. IsPartial(Pruned, Requests, T)
  BY AfterSubset DEF Pruned, Restrict, IsPartial, TypeOK
<1>2. ASSUME NEW r \in Requests, NEW m \in Nat
      PROVE  /\ IsPartial(Reserved(r, m), Requests, T)
             /\ IsPartial(Settled(r, m), Requests, T)
             /\ IsPartial(Released(r), Requests, T)
  <2>1. [at |-> now, micro |-> m] \in T
    BY DEF TypeOK
  <2>2. IsPartial(Reserved(r, m), Requests, T)
    BY <1>1, <2>1 DEF Reserved, IsPartial
  <2>3. IsPartial(Settled(r, m), Requests, T)
    BY DEF Settled, IsPartial, TypeOK
  <2>4. IsPartial(Released(r), Requests, T)
    BY DEF Released, Restrict, IsPartial, TypeOK
  <2> QED BY <2>2, <2>3, <2>4
<1> QED BY <1>1, <1>2

LEMMA LimiterOps ==
    ASSUME ScanAssumption, TypeOK
    PROVE  /\ IsPartial(Unexpired, Clients, 0 .. now)
           /\ \A r \in Requests : IsPartial(Hit(r), Clients, 0 .. now)
<1>1. IsPartial(Unexpired, Clients, 0 .. now)
  BY DEF Unexpired, Restrict, IsPartial, TypeOK
<1>2. ASSUME NEW r \in Requests PROVE IsPartial(Hit(r), Clients, 0 .. now)
  BY <1>1 DEF Hit, IsPartial, TypeOK, ScanAssumption
<1> QED BY <1>1, <1>2

LEMMA ChargedType ==
    ASSUME NEW quote \in Nat, NEW stated \in Int
    PROVE  Charged(quote, stated) \in Nat /\ Charged(quote, stated) >= quote
BY DEF Charged

\* Every step respects the types of the variables.
LEMMA TypeStep ==
    ASSUME ScanAssumption, TypeOK, [Next]_vars
    PROVE  TypeOK'
<1>1. ASSUME NEW r \in Requests, RefuseEarly(r) PROVE TypeOK'
  BY <1>1 DEF RefuseEarly, TypeOK, Stages
<1>2. ASSUME NEW r \in Requests, RefuseAllowance(r) PROVE TypeOK'
  BY <1>2, LedgerOps DEF RefuseAllowance, TypeOK, Stages
<1>3. ASSUME NEW r \in Requests, RefuseLimited(r) PROVE TypeOK'
  BY <1>3, LedgerOps, LimiterOps DEF RefuseLimited, TypeOK, Stages
<1>4. ASSUME NEW r \in Requests, Admit(r) PROVE TypeOK'
  <2>1. quoteOf[r] \in Nat
    BY DEF TypeOK
  <2>2. /\ IsPartial(entries', Requests, [at: 0 .. now, micro: Nat])
        /\ IsPartial(hits', Clients, 0 .. now)
    BY <1>4, <2>1, LedgerOps, LimiterOps DEF Admit
  <2> QED BY <1>4, <2>2 DEF Admit, TypeOK, Stages
<1>5. ASSUME NEW r \in Requests, RefuseService(r) PROVE TypeOK'
  <2>1. IsPartial(entries', Requests, [at: 0 .. now, micro: Nat])
    BY <1>5, LedgerOps DEF RefuseService
  <2> QED BY <1>5, <2>1 DEF RefuseService, TypeOK, Stages
<1>6. ASSUME NEW r \in Requests, StartPaying(r) PROVE TypeOK'
  BY <1>6 DEF StartPaying, TypeOK, Stages
<1>7. ASSUME NEW r \in Requests, Transfer(r) PROVE TypeOK'
  <2>1. [at |-> now, amount |-> MaxAcceptable(quoteOf[r])] \in [at: 0 .. now, amount: Nat]
    <3>1. quoteOf[r] \in Nat /\ now \in 0 .. now
      BY DEF TypeOK
    <3> QED BY <3>1, MaxAcceptableType
  <2>2. IsPartial(paid', Requests, [at: 0 .. now, amount: Nat])
    BY <1>7, <2>1 DEF Transfer, IsPartial, TypeOK
  <2> QED BY <1>7, <2>2 DEF Transfer, TypeOK
<1>8. ASSUME NEW r \in Requests, ScanAnswers(r) PROVE TypeOK'
  <2>1. PICK stated \in Stated : entries' = Settled(r, Charged(quoteOf[r], stated))
    BY <1>8 DEF ScanAnswers
  <2>2. Charged(quoteOf[r], stated) \in Nat
    BY ChargedType DEF TypeOK, ScanAssumption
  <2>3. IsPartial(entries', Requests, [at: 0 .. now, micro: Nat])
    BY <2>1, <2>2, LedgerOps
  <2> QED BY <1>8, <2>3 DEF ScanAnswers, TypeOK, Stages
<1>9. ASSUME NEW r \in Requests, ScanFails(r) PROVE TypeOK'
  <2>1. quoteOf[r] \in Nat
    BY DEF TypeOK
  <2>2. IsPartial(entries', Requests, [at: 0 .. now, micro: Nat])
    BY <1>9, <2>1, LedgerOps DEF ScanFails
  <2> QED BY <1>9, <2>2 DEF ScanFails, TypeOK, Stages
<1>10. CASE Snapshot
  BY <1>10, LedgerOps DEF Snapshot, TypeOK
<1>11. CASE Tick
  <2>1. 0 .. now \subseteq 0 .. now' /\ now' \in Nat
    BY <1>11 DEF Tick, TypeOK
  <2>2. /\ IsPartial(entries', Requests, [at: 0 .. now', micro: Nat])
        /\ IsPartial(paid', Requests, [at: 0 .. now', amount: Nat])
        /\ IsPartial(hits', Clients, 0 .. now')
    BY <1>11, <2>1 DEF Tick, TypeOK, IsPartial
  <2> QED BY <1>11, <2>1, <2>2 DEF Tick, TypeOK
<1>12. CASE UNCHANGED vars
  BY <1>12 DEF vars, TypeOK
<1> QED
  BY <1>1, <1>2, <1>3, <1>4, <1>5, <1>6, <1>7, <1>8, <1>9, <1>10, <1>11, <1>12
  DEF Next, DiscoveryTimesOut, ScanTimesOut

\* The initial state and every step respect the types of the variables.
THEOREM TypeCorrect == Spec => []TypeOK
<1>1. Init => TypeOK
  BY ScanAssumption DEF Init, TypeOK, ScanAssumption, Stages, IsPartial
<1>2. TypeOK /\ [Next]_vars => TypeOK'
  BY ScanAssumption, TypeStep
<1> QED BY <1>1, <1>2, PTL DEF Spec

-----------------------------------------------------------------------------
(* The inductive invariant                                                  *)

\* The route has taken r's hold and has not given it back.
Active(r) == stage[r] = "discovering" \/ Started(r)

\* Holds and awaits are as old as the timers allow.
TimesInv ==
    \A r \in Requests :
        /\ Active(r) => heldAt[r] <= now
        /\ stage[r] = "discovering" => now <= heldAt[r] + DiscoveryTimeout
        /\ Started(r) => since[r] <= heldAt[r] + DiscoveryTimeout

\* The ledger holds the active requests of its window and nothing else.
EntriesInv ==
    /\ \A r \in DOMAIN entries :
          Active(r) /\ entries[r].at = heldAt[r] /\ entries[r].micro >= quoteOf[r]
    /\ \A r \in Requests :
          Active(r) /\ heldAt[r] > now - SpendWindow => r \in DOMAIN entries

\* A transfer belongs to a started scan and is in time and in price.
PaidInv ==
    \A r \in DOMAIN paid :
        /\ Started(r)
        /\ paid[r].at <= since[r] + PayBy
        /\ paid[r].amount = MaxAcceptable(quoteOf[r])

\* The limiter remembers every active request of its window.
HitsInv ==
    \A r \in Requests : Active(r) /\ now - heldAt[r] < LimitWindow =>
        KeyOf[r] \in DOMAIN hits /\ hits[KeyOf[r]] >= heldAt[r]

Recent == {r \in Requests : Active(r) /\ heldAt[r] > now - ScanWindow}

RecentInv == Cardinality(Recent) <= MaxScans

\* The active requests whose holds count against the cap.
Held == {r \in Requests : Active(r) /\ heldAt[r] > now - SpendWindow}

QuotesInv == SumFunctionOnSet(quoteOf, Held) <= Cap

LedgerInv ==
    /\ TypeOK /\ TimesInv /\ EntriesInv /\ PaidInv /\ HitsInv
    /\ RecentInv /\ QuotesInv /\ OnePerWindow

\* A step that makes no request active and takes no entry of one away leaves
\* the scans of the last window as few as they were.
LEMMA RecentShrinks ==
    ASSUME ScanAssumption, RecentInv, Recent' \subseteq Recent
    PROVE  RecentInv'
<1>1. IsFiniteSet(Recent)
  BY FS_Subset DEF Recent, ScanAssumption
<1>2. Cardinality(Recent') <= Cardinality(Recent) /\ Cardinality(Recent') \in Nat /\ Cardinality(Recent) \in Nat
  BY <1>1, FS_Subset, FS_CardinalityType
<1> QED BY <1>2 DEF RecentInv, ScanAssumption

\* Nor do their quotes add up to more.
LEMMA QuotesShrink ==
    ASSUME ScanAssumption, TypeOK, QuotesInv, quoteOf' = quoteOf, Held' \subseteq Held
    PROVE  QuotesInv'
<1>1. IsFiniteSet(Held) /\ IsFiniteSet(Held')
  BY FS_Subset DEF Held, ScanAssumption
<1>2. \A r \in Held : quoteOf[r] \in Nat
  BY DEF Held, TypeOK
<1>3. SumFunctionOnSet(quoteOf, Held') <= SumFunctionOnSet(quoteOf, Held)
  BY <1>1, <1>2, SumSubset
<1>4. SumFunctionOnSet(quoteOf, Held') \in Nat
  BY <1>1, <1>2, SumNat
<1>5. SumFunctionOnSet(quoteOf, Held) \in Nat
  BY <1>1, <1>2, SumNat
<1> QED BY <1>3, <1>4, <1>5 DEF QuotesInv, ScanAssumption

\* What the ledger has spent covers the quotes that count against the cap.
LEMMA QuotesCounted ==
    ASSUME ScanAssumption, LedgerInv
    PROVE  /\ IsFiniteSet(Held) /\ \A r \in Held : quoteOf[r] \in Nat
           /\ Spent \in Nat
           /\ SumFunctionOnSet(quoteOf, Held) \in Nat
           /\ SumFunctionOnSet(quoteOf, Held) <= Spent
<1> DEFINE A == After(now - SpendWindow)
           w == [r \in A |-> entries[r].micro]
<1>1. Held \subseteq A
  BY DEF Held, After, LedgerInv, EntriesInv, TypeOK, ScanAssumption
<1>2. A \subseteq DOMAIN entries /\ A \subseteq Requests
  BY AfterSubset DEF LedgerInv, TypeOK, IsPartial
<1>3. IsFiniteSet(A) /\ IsFiniteSet(Held)
  BY <1>1, <1>2, FS_Subset DEF ScanAssumption
<1>4. \A r \in A : w[r] \in Nat /\ quoteOf[r] \in Nat /\ quoteOf[r] <= w[r]
  BY <1>2 DEF LedgerInv, TypeOK, EntriesInv, IsPartial
<1>5. Spent = SumFunctionOnSet(w, A)
  BY DEF Spent, SumFunction
<1> HIDE DEF w, A
<1>6. SumFunctionOnSet(quoteOf, Held) <= SumFunctionOnSet(quoteOf, A)
  BY <1>1, <1>3, <1>4, SumSubset
<1>7. SumFunctionOnSet(quoteOf, A) <= SumFunctionOnSet(w, A)
  BY <1>3, <1>4, SumMonotone
<1>8. SumFunctionOnSet(quoteOf, Held) \in Nat
  BY <1>1, <1>3, <1>4, SumNat
<1>9. SumFunctionOnSet(quoteOf, A) \in Nat
  BY <1>3, <1>4, SumNat
<1>10. SumFunctionOnSet(w, A) \in Nat
  BY <1>3, <1>4, SumNat
<1>11. \A r \in Held : quoteOf[r] \in Nat
  BY <1>1, <1>4
<1> QED BY <1>3, <1>5, <1>6, <1>7, <1>8, <1>9, <1>10, <1>11

\* The active requests of the scan window are counted by the ledger.
LEMMA RecentCounted ==
    ASSUME ScanAssumption, LedgerInv
    PROVE  /\ IsFiniteSet(Recent)
           /\ Cardinality(Recent) \in Nat
           /\ Cardinality(Recent) <= ScansLastHour
           /\ ScansLastHour \in Nat
<1>1. Recent \subseteq After(now - ScanWindow)
  BY DEF Recent, After, LedgerInv, EntriesInv, TypeOK, ScanAssumption
<1>2. IsFiniteSet(After(now - ScanWindow))
  BY AfterSubset, FS_Subset DEF LedgerInv, TypeOK, IsPartial, ScanAssumption
<1> QED BY <1>1, <1>2, FS_Subset, FS_CardinalityType DEF ScansLastHour

\* Pruning keeps what is in the window; it changes nothing else.
LEMMA PruneKeeps ==
    ASSUME ScanAssumption, TypeOK, EntriesInv
    PROVE  /\ DOMAIN Pruned \subseteq DOMAIN entries
           /\ \A r \in DOMAIN Pruned : Pruned[r] = entries[r]
           /\ \A r \in DOMAIN entries : heldAt[r] > now - SpendWindow => r \in DOMAIN Pruned
BY DEF Pruned, After, Restrict, EntriesInv, TypeOK, IsPartial, ScanAssumption

LEMMA UnexpiredKeeps ==
    ASSUME ScanAssumption, TypeOK, HitsInv
    PROVE  \A r \in Requests : Active(r) /\ now - heldAt[r] < LimitWindow =>
              KeyOf[r] \in DOMAIN Unexpired /\ Unexpired[KeyOf[r]] >= heldAt[r]
BY DEF Unexpired, Restrict, HitsInv, TypeOK, IsPartial, ScanAssumption

LEMMA InitInv ==
    ASSUME ScanAssumption, Init
    PROVE  LedgerInv
<1>1. TypeOK
  BY DEF Init, TypeOK, ScanAssumption, Stages, IsPartial
<1>2. \A r \in Requests : ~Active(r)
  BY DEF Init, Active, Started
<1>3. DOMAIN entries = {} /\ DOMAIN paid = {}
  BY DEF Init
<1>4. Recent = {}
  BY <1>2 DEF Recent
<1>5. RecentInv
  BY <1>4, FS_EmptySet DEF RecentInv, ScanAssumption
<1>6. TimesInv /\ EntriesInv /\ PaidInv /\ HitsInv /\ OnePerWindow
  BY <1>2, <1>3 DEF TimesInv, EntriesInv, PaidInv, HitsInv, OnePerWindow, Active
<1>7. QuotesInv
  <2>1. Held = {}
    BY <1>2 DEF Held
  <2> QED BY <2>1, SumEmpty DEF QuotesInv, ScanAssumption
<1> QED BY <1>1, <1>5, <1>6, <1>7 DEF LedgerInv

\* The steps that leave the requests' progress alone: the ledger may be pruned,
\* the limiter swept, and a request refused before it holds anything.
LEMMA QuietStep ==
    ASSUME ScanAssumption, LedgerInv, TypeOK',
           UNCHANGED <<quoteOf, heldAt, since, paid, now>>,
           \A r \in Requests : stage'[r] = stage[r] \/ (stage[r] = "new" /\ stage'[r] = "refused"),
           entries' = entries \/ entries' = Pruned,
           hits' = hits \/ hits' = Unexpired
    PROVE  LedgerInv'
<1>1. \A r \in Requests : /\ Active(r)' <=> Active(r)
                          /\ Started(r)' <=> Started(r)
                          /\ (stage'[r] = "discovering") <=> (stage[r] = "discovering")
  BY DEF Active, Started
<1>2. TimesInv'
  BY <1>1 DEF LedgerInv, TimesInv
<1>3. EntriesInv'
  BY <1>1, PruneKeeps DEF LedgerInv, EntriesInv, TypeOK, IsPartial
<1>4. PaidInv'
  BY <1>1 DEF LedgerInv, PaidInv, TypeOK, IsPartial
<1>5. HitsInv'
  BY <1>1, UnexpiredKeeps DEF LedgerInv, HitsInv
<1>6. Recent' = Recent
  BY <1>1 DEF Recent
<1>7. RecentInv'
  BY <1>6, RecentShrinks DEF LedgerInv
<1>8. OnePerWindow'
  BY <1>1 DEF LedgerInv, OnePerWindow, Active
<1>9. Held' = Held
  BY <1>1 DEF Held
<1>10. QuotesInv'
  BY <1>9, QuotesShrink DEF LedgerInv
<1> QED BY <1>2, <1>3, <1>4, <1>5, <1>7, <1>8, <1>10 DEF LedgerInv

\* The turn that takes the hold and the client's window.
LEMMA AdmitStep ==
    ASSUME ScanAssumption, LedgerInv, TypeOK', NEW r \in Requests, Admit(r)
    PROVE  LedgerInv'
<1> USE DEF LedgerInv
<1>1. /\ \A q \in Requests \ {r} : /\ Active(q)' <=> Active(q)
                                   /\ Started(q)' <=> Started(q)
                                   /\ heldAt'[q] = heldAt[q] /\ stage'[q] = stage[q]
      /\ ~Active(r) /\ ~Started(r) /\ ~Started(r)' /\ Active(r)'
      /\ heldAt'[r] = now /\ stage'[r] = "discovering"
      /\ UNCHANGED <<quoteOf, since, paid, now>>
  BY DEF Admit, Arriving, Active, Started, TypeOK
<1>2. TimesInv'
  <2>1. ASSUME NEW q \in Requests, q # r
        PROVE  /\ Active(q)' => heldAt'[q] <= now'
               /\ stage'[q] = "discovering" => now' <= heldAt'[q] + DiscoveryTimeout
               /\ Started(q)' => since'[q] <= heldAt'[q] + DiscoveryTimeout
    BY <1>1, <2>1 DEF TimesInv
  <2>2. now <= now /\ now <= now + DiscoveryTimeout
    BY DEF TypeOK, ScanAssumption
  <2> QED BY <1>1, <2>1, <2>2 DEF TimesInv
<1>3. EntriesInv'
  <2>1. /\ DOMAIN entries' = DOMAIN Pruned \cup {r}
        /\ entries'[r] = [at |-> now, micro |-> quoteOf[r]]
        /\ \A q \in DOMAIN Pruned \ {r} : entries'[q] = entries[q]
    BY PruneKeeps DEF Admit, Reserved
  <2>2. ASSUME NEW q \in DOMAIN entries'
        PROVE  Active(q)' /\ entries'[q].at = heldAt'[q] /\ entries'[q].micro >= quoteOf'[q]
    <3>1. CASE q = r
      BY <1>1, <2>1, <3>1 DEF TypeOK
    <3>2. CASE q # r
      BY <1>1, <2>1, <3>2, PruneKeeps DEF EntriesInv, TypeOK, IsPartial
    <3> QED BY <3>1, <3>2
  <2>3. ASSUME NEW q \in Requests, Active(q)', heldAt'[q] > now' - SpendWindow
        PROVE  q \in DOMAIN entries'
    BY <1>1, <2>1, <2>3, PruneKeeps DEF EntriesInv
  <2> QED BY <2>2, <2>3 DEF EntriesInv
<1>4. PaidInv'
  BY <1>1 DEF PaidInv, TypeOK, IsPartial
<1>5. HitsInv'
  <2>1. /\ DOMAIN hits' = DOMAIN Unexpired \cup {KeyOf[r]}
        /\ hits'[KeyOf[r]] = now
        /\ \A k \in DOMAIN Unexpired \ {KeyOf[r]} : hits'[k] = Unexpired[k]
    BY DEF Admit, Hit
  <2>2. ASSUME NEW q \in Requests, Active(q)', now' - heldAt'[q] < LimitWindow
        PROVE  KeyOf[q] \in DOMAIN hits' /\ hits'[KeyOf[q]] >= heldAt'[q]
    <3>1. heldAt'[q] <= now /\ now' = now
      BY <1>1, <1>2, <2>2 DEF TimesInv
    <3>2. CASE KeyOf[q] = KeyOf[r]
      BY <2>1, <3>1, <3>2, <1>1 DEF TypeOK
    <3>3. CASE KeyOf[q] # KeyOf[r]
      BY <1>1, <2>1, <2>2, <3>3, UnexpiredKeeps
    <3> QED BY <3>2, <3>3
  <2> QED BY <2>2 DEF HitsInv
<1>6. RecentInv'
  <2>1. Recent' \subseteq Recent \cup {r}
    BY <1>1 DEF Recent
  <2>2. Cardinality(Recent) < MaxScans
    BY RecentCounted DEF Admit, Refuses, ScanAssumption
  <2>3. IsFiniteSet(Recent \cup {r}) /\ Cardinality(Recent \cup {r}) <= Cardinality(Recent) + 1
    <3>1. CASE r \in Recent
      BY <3>1, RecentCounted, Recent \cup {r} = Recent
    <3>2. CASE r \notin Recent
      <4>1. IsFiniteSet(Recent) /\ Cardinality(Recent) \in Nat
        BY RecentCounted
      <4>2. /\ IsFiniteSet(Recent \cup {r})
            /\ Cardinality(Recent \cup {r}) = Cardinality(Recent) + 1
        BY <3>2, <4>1, FS_AddElement
      <4> QED BY <4>1, <4>2
    <3> QED BY <3>1, <3>2
  <2>4. /\ Cardinality(Recent') <= Cardinality(Recent \cup {r})
        /\ Cardinality(Recent') \in Nat /\ Cardinality(Recent \cup {r}) \in Nat
    BY <2>1, <2>3, FS_Subset, FS_CardinalityType
  <2>5. MaxScans \in Nat /\ Cardinality(Recent) \in Nat
    BY RecentCounted DEF ScanAssumption
  <2> QED BY <2>2, <2>3, <2>4, <2>5 DEF RecentInv
<1>7. OnePerWindow'
  <2>1. ASSUME NEW q \in Requests, q # r, Active(q), KeyOf[q] = KeyOf[r]
        PROVE  now >= heldAt[q] + LimitWindow
    <3>1. ~(now - heldAt[q] < LimitWindow)
      BY <2>1, UnexpiredKeeps DEF Admit, Limited
    <3>2. now \in Nat /\ heldAt[q] \in Nat /\ LimitWindow \in Nat
      BY DEF TypeOK, ScanAssumption
    <3> QED BY <3>1, <3>2
  <2> QED BY <1>1, <2>1 DEF OnePerWindow, Active
<1>8. QuotesInv'
  <2>1. Held' \subseteq Held \cup {r} /\ r \notin Held
    BY <1>1 DEF Held
  <2>2. quoteOf[r] \in Nat /\ \A q \in Held \cup {r} : quoteOf[q] \in Nat
    BY QuotesCounted DEF TypeOK
  <2>3. IsFiniteSet(Held) /\ IsFiniteSet(Held \cup {r}) /\ IsFiniteSet(Held')
    <3>1. IsFiniteSet(Held)
      BY QuotesCounted
    <3>2. IsFiniteSet(Held \cup {r})
      BY <3>1, FS_AddElement
    <3>3. \A T \in SUBSET (Held \cup {r}) : IsFiniteSet(T)
      BY <3>2, FS_Subset
    <3> QED BY <2>1, <3>1, <3>2, <3>3
  <2>4. SumFunctionOnSet(quoteOf, Held \cup {r}) = quoteOf[r] + SumFunctionOnSet(quoteOf, Held)
    <3>1. \A q \in Held \cup {r} : quoteOf[q] \in Int
      BY <2>2
    <3>2. r \notin Held /\ IsFiniteSet(Held)
      BY <2>1, <2>3
    <3> QED BY <3>1, <3>2, SumAdd
  <2>5. SumFunctionOnSet(quoteOf, Held') <= SumFunctionOnSet(quoteOf, Held \cup {r})
    BY <2>1, <2>2, <2>3, SumSubset
  <2>6. SumFunctionOnSet(quoteOf, Held') \in Nat
    BY <2>1, <2>2, <2>3, SumNat
  <2>7. ~(Spent + quoteOf[r] > Cap)
    BY DEF Admit, Refuses
  <2>8. SumFunctionOnSet(quoteOf, Held) + quoteOf[r] <= Cap
    BY <2>2, <2>7, QuotesCounted DEF ScanAssumption
  <2>9. SumFunctionOnSet(quoteOf, Held') <= Cap
    <3> DEFINE a == SumFunctionOnSet(quoteOf, Held)
               b == SumFunctionOnSet(quoteOf, Held')
               c == SumFunctionOnSet(quoteOf, Held \cup {r})
    <3>1. a \in Nat /\ b \in Nat /\ Cap \in Nat /\ quoteOf[r] \in Nat
      BY <2>2, <2>6, QuotesCounted DEF ScanAssumption
    <3>2. c = quoteOf[r] + a /\ b <= c /\ a + quoteOf[r] <= Cap
      BY <2>4, <2>5, <2>8
    <3> HIDE DEF a, b, c
    <3>3. b <= Cap
      BY <3>1, <3>2
    <3> QED BY <3>3 DEF b
  <2> QED BY <1>1, <2>9 DEF QuotesInv
<1> QED BY <1>2, <1>3, <1>4, <1>5, <1>6, <1>7, <1>8

\* Discovery failed or was refused: r is no longer active and holds nothing.
LEMMA ReleaseStep ==
    ASSUME ScanAssumption, LedgerInv, TypeOK', NEW r \in Requests, RefuseService(r)
    PROVE  LedgerInv'
<1> USE DEF LedgerInv
<1>1. /\ \A q \in Requests \ {r} : /\ Active(q)' <=> Active(q)
                                   /\ Started(q)' <=> Started(q)
                                   /\ heldAt'[q] = heldAt[q] /\ stage'[q] = stage[q]
      /\ ~Started(r) /\ ~Started(r)' /\ ~Active(r)' /\ stage'[r] # "discovering"
      /\ UNCHANGED <<quoteOf, since, hits, paid, now>>
  BY DEF RefuseService, Active, Started, TypeOK
<1>2. TimesInv'
  BY <1>1 DEF TimesInv
<1>3. EntriesInv'
  <2>1. DOMAIN entries' = DOMAIN entries \ {r} /\ \A q \in DOMAIN entries' : entries'[q] = entries[q]
    BY DEF RefuseService, Released, Restrict
  <2> QED BY <1>1, <2>1 DEF EntriesInv, TypeOK, IsPartial
<1>4. PaidInv'
  BY <1>1 DEF PaidInv, TypeOK, IsPartial
<1>5. HitsInv'
  BY <1>1 DEF HitsInv
<1>6. Recent' \subseteq Recent
  BY <1>1 DEF Recent
<1>7. RecentInv'
  BY <1>6, RecentShrinks
<1>8. OnePerWindow'
  BY <1>1 DEF OnePerWindow, Active
<1>9. Held' \subseteq Held
  BY <1>1 DEF Held
<1>10. QuotesInv'
  BY <1>1, <1>9, QuotesShrink
<1> QED BY <1>2, <1>3, <1>4, <1>5, <1>7, <1>8, <1>10

\* The steps of a request that stays active: its scan starts, is paid for, ends.
LEMMA ProgressStep ==
    ASSUME ScanAssumption, LedgerInv, TypeOK', NEW r \in Requests,
           StartPaying(r) \/ Transfer(r) \/ ScanAnswers(r) \/ ScanFails(r)
    PROVE  LedgerInv'
<1> USE DEF LedgerInv
<1>1. /\ \A q \in Requests : /\ Active(q)' <=> Active(q)
                             /\ Started(q) => Started(q)'
                             /\ q # r => (Started(q)' <=> Started(q)) /\ stage'[q] = stage[q]
                             /\ Started(q) \/ q # r => since'[q] = since[q]
                             /\ stage'[q] = "discovering" => stage[q] = "discovering"
      /\ UNCHANGED <<quoteOf, heldAt, hits, now>>
      /\ Active(r)
  BY DEF StartPaying, Transfer, ScanAnswers, ScanFails, Active, Started, TypeOK
<1>2. TimesInv'
  <2>1. Started(r)' => since'[r] <= heldAt[r] + DiscoveryTimeout
    BY <1>1 DEF StartPaying, Transfer, ScanAnswers, ScanFails, TimesInv, Started, TypeOK
  <2> QED BY <1>1, <2>1 DEF TimesInv
<1>3. EntriesInv'
  <2>1. /\ DOMAIN entries' = DOMAIN entries
        /\ \A q \in DOMAIN entries : /\ entries'[q].at = entries[q].at
                                     /\ (entries'[q].micro = entries[q].micro
                                         \/ entries'[q].micro >= quoteOf[q])
    <3>1. CASE StartPaying(r) \/ Transfer(r)
      BY <3>1 DEF StartPaying, Transfer
    <3>2. CASE ScanAnswers(r)
      <4>1. PICK stated \in Stated : entries' = Settled(r, Charged(quoteOf[r], stated))
        BY <3>2 DEF ScanAnswers
      <4>2. Charged(quoteOf[r], stated) >= quoteOf[r]
        BY ChargedType DEF TypeOK, ScanAssumption
      <4> QED BY <4>1, <4>2 DEF Settled, TypeOK, IsPartial
    <3>3. CASE ScanFails(r)
      BY <3>3 DEF ScanFails, Settled, TypeOK, IsPartial
    <3> QED BY <3>1, <3>2, <3>3
  <2> QED BY <1>1, <2>1 DEF EntriesInv, TypeOK, IsPartial
<1>4. PaidInv'
  <2>1. CASE Transfer(r)
    BY <1>1, <2>1 DEF Transfer, PaidInv, TypeOK, IsPartial
  <2>2. CASE ~Transfer(r)
    <3>1. paid' = paid
      BY <2>2 DEF StartPaying, ScanAnswers, ScanFails
    <3> QED BY <1>1, <3>1 DEF PaidInv, TypeOK, IsPartial
  <2> QED BY <2>1, <2>2
<1>5. HitsInv'
  BY <1>1 DEF HitsInv
<1>6. Recent' = Recent
  BY <1>1 DEF Recent
<1>7. RecentInv'
  BY <1>6, RecentShrinks
<1>8. OnePerWindow'
  BY <1>1 DEF OnePerWindow, Active
<1>9. Held' = Held
  BY <1>1 DEF Held
<1>10. QuotesInv'
  BY <1>1, <1>9, QuotesShrink
<1> QED BY <1>2, <1>3, <1>4, <1>5, <1>7, <1>8, <1>10

LEMMA TickStep ==
    ASSUME ScanAssumption, LedgerInv, TypeOK', Tick
    PROVE  LedgerInv'
<1> USE DEF LedgerInv
<1>1. /\ \A q \in Requests : (Active(q)' <=> Active(q)) /\ (Started(q)' <=> Started(q))
      /\ UNCHANGED <<quoteOf, stage, heldAt, since, entries, hits, paid>>
      /\ now' = now + 1
  BY DEF Tick, Active, Started
<1>2. TimesInv'
  BY <1>1 DEF Tick, TimesInv, TypeOK, ScanAssumption
<1>3. EntriesInv'
  BY <1>1 DEF EntriesInv, TypeOK, IsPartial, ScanAssumption
<1>4. PaidInv'
  BY <1>1 DEF PaidInv, TypeOK, IsPartial
<1>5. HitsInv'
  BY <1>1 DEF HitsInv, TypeOK, ScanAssumption
<1>6. Recent' \subseteq Recent
  BY <1>1 DEF Recent, TypeOK, ScanAssumption
<1>7. RecentInv'
  BY <1>6, RecentShrinks
<1>8. OnePerWindow'
  BY <1>1 DEF OnePerWindow, Active
<1>9. Held' \subseteq Held
  BY <1>1 DEF Held, TypeOK, ScanAssumption
<1>10. QuotesInv'
  BY <1>1, <1>9, QuotesShrink
<1> QED BY <1>2, <1>3, <1>4, <1>5, <1>7, <1>8, <1>10

\* Every reachable state satisfies the invariant.
THEOREM LedgerCorrect == Spec => []LedgerInv
<1> USE ScanAssumption
<1>1. Init => LedgerInv
  BY InitInv
<1>2. LedgerInv /\ [Next]_vars => LedgerInv'
  <2> SUFFICES ASSUME LedgerInv, [Next]_vars PROVE LedgerInv'
    OBVIOUS
  <2>0. TypeOK'
    BY TypeStep DEF LedgerInv
  <2>1. ASSUME NEW r \in Requests, RefuseEarly(r) \/ RefuseAllowance(r) \/ RefuseLimited(r)
        PROVE  LedgerInv'
    BY <2>0, <2>1, QuietStep DEF RefuseEarly, RefuseAllowance, RefuseLimited, Arriving, LedgerInv, TypeOK
  <2>2. ASSUME NEW r \in Requests, Admit(r) PROVE LedgerInv'
    BY <2>0, <2>2, AdmitStep
  <2>3. ASSUME NEW r \in Requests, RefuseService(r) PROVE LedgerInv'
    BY <2>0, <2>3, ReleaseStep
  <2>4. ASSUME NEW r \in Requests, StartPaying(r) \/ Transfer(r) \/ ScanAnswers(r) \/ ScanFails(r)
        PROVE  LedgerInv'
    BY <2>0, <2>4, ProgressStep
  <2>5. CASE Snapshot
    BY <2>0, <2>5, QuietStep DEF Snapshot
  <2>6. CASE Tick
    BY <2>0, <2>6, TickStep
  <2>7. CASE UNCHANGED vars
    BY <2>0, <2>7, QuietStep DEF vars
  <2> QED
    BY <2>1, <2>2, <2>3, <2>4, <2>5, <2>6, <2>7 DEF Next, DiscoveryTimesOut, ScanTimesOut
<1> QED BY <1>1, <1>2, PTL DEF Spec

-----------------------------------------------------------------------------
(* The properties                                                           *)

\* Within a scan window, less the time a transfer may lag its hold, no more
\* transfers leave the wallet than the hourly allowance.
THEOREM AllowanceHolds == Spec => []ScansBounded
<1> USE ScanAssumption
<1>1. LedgerInv => ScansBounded
  <2> SUFFICES ASSUME LedgerInv PROVE ScansBounded
    OBVIOUS
  <2>1. PaidAfter(now - (ScanWindow - Hold)) \subseteq Recent
    <3> SUFFICES ASSUME NEW r \in DOMAIN paid, paid[r].at > now - (ScanWindow - Hold)
                 PROVE  r \in Recent
      BY DEF PaidAfter
    <3>1. r \in Requests /\ paid[r].at \in Nat /\ since[r] \in Nat /\ heldAt[r] \in Nat /\ now \in Nat
      BY DEF LedgerInv, TypeOK, IsPartial
    <3>2. Started(r) /\ paid[r].at <= since[r] + PayBy /\ since[r] <= heldAt[r] + DiscoveryTimeout
      BY <3>1 DEF LedgerInv, PaidInv, TimesInv
    <3> QED BY <3>1, <3>2 DEF Recent, Active, Hold, ScanAssumption
  <2>2. Cardinality(PaidAfter(now - (ScanWindow - Hold))) <= Cardinality(Recent)
    BY <2>1, RecentCounted, FS_Subset
  <2>3. Cardinality(PaidAfter(now - (ScanWindow - Hold))) \in Nat
    BY <2>1, RecentCounted, FS_Subset, FS_CardinalityType
  <2> QED BY <2>2, <2>3, RecentCounted DEF LedgerInv, RecentInv, ScansBounded, ScanAssumption
<1> QED BY <1>1, LedgerCorrect, PTL

\* What leaves the wallet within a spend window, less the time a transfer may lag
\* its hold, is within the cap and the tolerance of one payment of it.
THEOREM CapHolds == Spec => []BillBounded
<1> USE ScanAssumption
<1>1. LedgerInv => BillBounded
  <2> SUFFICES ASSUME LedgerInv PROVE BillBounded
    OBVIOUS
  <2> DEFINE P == PaidAfter(now - (SpendWindow - Hold))
             w == [r \in P |-> paid[r].amount]
  <2>1. ASSUME NEW r \in P PROVE r \in Held /\ w[r] = MaxAcceptable(quoteOf[r])
    <3>1. r \in DOMAIN paid /\ paid[r].at > now - (SpendWindow - Hold)
      BY DEF PaidAfter
    <3>2. r \in Requests /\ paid[r].at \in Nat /\ since[r] \in Nat /\ heldAt[r] \in Nat /\ now \in Nat
      BY <3>1 DEF LedgerInv, TypeOK, IsPartial
    <3>3. Started(r) /\ paid[r].at <= since[r] + PayBy /\ since[r] <= heldAt[r] + DiscoveryTimeout
      BY <3>1, <3>2 DEF LedgerInv, PaidInv, TimesInv
    <3>4. r \in Held
      BY <3>1, <3>2, <3>3 DEF Held, Active, Hold, ScanAssumption
    <3> QED BY <3>1, <3>4 DEF LedgerInv, PaidInv
  <2>2. Bill = SumFunctionOnSet(w, P)
    BY DEF Bill, SumFunction
  <2>3. IsFiniteSet(Held) /\ (\A r \in Held : quoteOf[r] \in Nat) /\ P \subseteq Held
    BY <2>1, QuotesCounted
  <2> HIDE DEF P, w
  <2>4. IsFiniteSet(P)
    BY <2>3, FS_Subset
  <2> DEFINE bill == SumFunctionOnSet(w, P)
             quoted == SumFunctionOnSet(quoteOf, P)
  <2>5. bill <= MaxAcceptable(quoted)
    BY <2>1, <2>3, <2>4, MaxAcceptableSum
  <2>6. quoted <= SumFunctionOnSet(quoteOf, Held)
    BY <2>3, SumSubset
  <2>7. quoted \in Nat
    BY <2>3, <2>4, SumNat
  <2>8. bill \in Nat
    BY <2>1, <2>3, <2>4, SumNat, MaxAcceptableType
  <2>9. quoted <= Cap
    <3>1. SumFunctionOnSet(quoteOf, Held) \in Nat /\ SumFunctionOnSet(quoteOf, Held) <= Cap
      BY QuotesCounted DEF LedgerInv, QuotesInv
    <3> HIDE DEF quoted
    <3> QED BY <2>6, <2>7, <3>1 DEF ScanAssumption
  <2> HIDE DEF bill, quoted
  <2>10. Cap \in Nat
    BY DEF ScanAssumption
  <2>11. MaxAcceptable(quoted) <= MaxAcceptable(Cap)
    BY <2>7, <2>9, <2>10, MaxAcceptableMonotone
  <2>12. MaxAcceptable(quoted) \in Nat /\ MaxAcceptable(Cap) \in Nat
    BY <2>7, <2>10, MaxAcceptableType
  <2>13. bill <= MaxAcceptable(Cap)
    BY <2>5, <2>8, <2>11, <2>12
  <2> QED BY <2>2, <2>13 DEF BillBounded, bill
<1> QED BY <1>1, LedgerCorrect, PTL

\* Every transfer is in the ledger, at its quote or more, for as long as its
\* hold is in the spend window: on a timeout and on a failure as on a success.
THEOREM Metered == Spec => []PaidIsCounted
<1>1. LedgerInv => PaidIsCounted
  <2> SUFFICES ASSUME LedgerInv, NEW r \in DOMAIN paid, heldAt[r] > now - SpendWindow
               PROVE  r \in DOMAIN entries /\ entries[r].micro >= quoteOf[r]
    BY DEF PaidIsCounted
  <2>1. r \in Requests
    BY DEF LedgerInv, TypeOK, IsPartial
  <2>2. Started(r)
    BY DEF LedgerInv, PaidInv
  <2> QED BY <2>1, <2>2 DEF LedgerInv, EntriesInv, Active
<1> QED BY <1>1, LedgerCorrect, PTL

\* A refused request holds no allowance and was never paid for.
THEOREM NothingHeld == Spec => []RefusedHoldsNothing
<1>1. LedgerInv => RefusedHoldsNothing
  BY DEF LedgerInv, EntriesInv, PaidInv, RefusedHoldsNothing, Active, Started
<1> QED BY <1>1, LedgerCorrect, PTL

\* Two admitted scans of one client are a limit window apart.
THEOREM ClientSpaced == Spec => []OnePerWindow
BY LedgerCorrect, PTL DEF LedgerInv

-----------------------------------------------------------------------------
(* The page that verifies a receipt                                         *)

AnchorStates == {"matches", "mismatch", "unavailable"}

\* A state that was read of i's entry is one of three, and a match names an entry
\* there was.
Justified(i, state, key, seen) ==
    state \in AnchorStates /\ (state = "matches" => <<i, key>> \in seen)

\* A running check has read no entry before its card and none its receipt does not
\* name, and has seen every entry of the registry since it began.
CheckOk(k, current) ==
    /\ DOMAIN k = {"receipt", "card", "anchors", "entries"}
    /\ k.receipt \in Receipts /\ k.card \in Cards \cup {Nothing}
    /\ DOMAIN k.anchors \subseteq k.receipt.claims
    /\ k.card = Nothing => DOMAIN k.anchors = {}
    /\ \A i \in DOMAIN k.anchors : Justified(i, k.anchors[i], k.card.key, k.entries)
    /\ current \subseteq k.entries

\* A result answers for the key of the card its check was given.
ResultOk(r) ==
    \E key \in Keys :
        /\ r.signatureValid = verifyReceipt(r.about, key)
        /\ {r.signatureValid, r.cardSignatureValid, r.keyMatchesCard, r.identitiesInCard} \subseteq BOOLEAN
        /\ DOMAIN r.anchors = r.about.claims
        /\ \A i \in DOMAIN r.anchors : Justified(i, r.anchors[i], key, r.during)
        /\ r.pinMatched = matchesIdentityPin(r.about.claims, r.pins)
        /\ r.pins = r.operator /\ r.pins # Mistyped

VerifyInv ==
    /\ registry \in [Identities -> Keys \cup {Unset}]
    /\ box \in Receipts \cup {NoReceipt, Nothing}
    /\ \A c \in DOMAIN checks : CheckOk(checks[c], Entries)
    /\ shown.status = "done" => ResultOk(shown)

\* A step that changes neither the registry nor a check leaves the checks as good.
LEMMA ChecksKept ==
    ASSUME VerifyInv, UNCHANGED <<registry, checks>>
    PROVE  Entries' = Entries /\ \A c \in DOMAIN checks' : CheckOk(checks'[c], Entries')
<1>1. Entries' = Entries
  BY DEF Entries
<1> QED BY <1>1 DEF VerifyInv

LEMMA VerifyStep ==
    ASSUME VerifyAssumption, VerifyInv, VerifyNext
    PROVE  VerifyInv'
<1> USE VerifyAssumption DEF VerifyAssumption
<1>1. ASSUME NEW i \in Identities, NEW hash \in Keys \cup {Unset}, Register(i, hash)
      PROVE  VerifyInv'
  <2>1. /\ registry' = [registry EXCEPT ![i] = hash] /\ UNCHANGED <<box, shown>>
        /\ DOMAIN checks' = DOMAIN checks
        /\ \A c \in DOMAIN checks :
              checks'[c] = [checks[c] EXCEPT !.entries = checks[c].entries \cup {<<i, hash>>}]
    BY <1>1 DEF Register
  <2>2. Entries' \subseteq Entries \cup {<<i, hash>>}
    BY <2>1 DEF Entries, VerifyInv
  <2>3. ASSUME NEW c \in DOMAIN checks PROVE CheckOk(checks'[c], Entries')
    <3> DEFINE k == checks[c]
               l == checks'[c]
    <3>1. CheckOk(k, Entries)
      BY DEF VerifyInv
    <3>2. l = [k EXCEPT !.entries = k.entries \cup {<<i, hash>>}]
      BY <2>1
    <3> HIDE DEF k, l
    <3>3. /\ l.receipt = k.receipt /\ l.card = k.card /\ l.anchors = k.anchors
          /\ l.entries = k.entries \cup {<<i, hash>>} /\ DOMAIN l = DOMAIN k
      BY <3>1, <3>2 DEF CheckOk
    <3>4. CheckOk(l, Entries')
      BY <2>2, <3>1, <3>3 DEF CheckOk, Justified
    <3> QED BY <3>4 DEF l
  <2> QED BY <2>1, <2>3 DEF VerifyInv, ResultOk
<1>2. ASSUME NEW pins \in Pins, Reconfigure(pins) PROVE VerifyInv'
  BY <1>2, ChecksKept DEF Reconfigure, VerifyInv
<1>3. ASSUME NEW line \in Receipts \cup {NoReceipt, Nothing}, EditBox(line) PROVE VerifyInv'
  BY <1>3, ChecksKept DEF EditBox, VerifyInv
<1>4. CASE loadExample
  BY <1>4, ChecksKept DEF loadExample, VerifyInv, Status
<1>5. ASSUME NEW c \in Checks, onVerify(c) PROVE VerifyInv'
  <2>1. CASE box = NoReceipt
    BY <1>5, <2>1, ChecksKept DEF onVerify, VerifyInv, Status
  <2>2. CASE box # NoReceipt
    <3> DEFINE k == [receipt |-> box, card |-> Nothing, anchors |-> << >>, entries |-> Entries]
    <3>1. /\ UNCHANGED <<registry, box>> /\ shown'.status = "checking"
          /\ DOMAIN checks' = DOMAIN checks \cup {c} /\ checks'[c] = k
          /\ \A d \in DOMAIN checks \ {c} : checks'[d] = checks[d]
      BY <1>5, <2>2 DEF onVerify, Status
    <3>2. CheckOk(k, Entries)
      BY <1>5, <2>2 DEF onVerify, CheckOk, VerifyInv
    <3>3. \A d \in DOMAIN checks' : CheckOk(checks'[d], Entries)
      BY <3>1, <3>2 DEF VerifyInv
    <3>4. \A d \in DOMAIN checks' : CheckOk(checks'[d], Entries')
      BY <3>1, <3>3 DEF CheckOk, Entries
    <3> QED BY <3>1, <3>4 DEF VerifyInv
  <2> QED BY <2>1, <2>2
<1>6. ASSUME NEW c \in Checks, CheckFails(c) PROVE VerifyInv'
  <2>1. /\ UNCHANGED <<registry, box>> /\ shown'.status = "error"
        /\ DOMAIN checks' \subseteq DOMAIN checks
        /\ \A d \in DOMAIN checks' : checks'[d] = checks[d]
    BY <1>6 DEF CheckFails, Without, Status
  <2>2. \A d \in DOMAIN checks' : CheckOk(checks'[d], Entries')
    BY <2>1 DEF VerifyInv, CheckOk, Entries
  <2> QED BY <2>1, <2>2 DEF VerifyInv
<1>7. ASSUME NEW c \in Checks, NEW card \in Cards, CardArrives(c, card) PROVE VerifyInv'
  <2>1. /\ UNCHANGED <<registry, box, shown>> /\ c \in DOMAIN checks
        /\ checks[c].card = Nothing /\ DOMAIN checks' = DOMAIN checks
        /\ checks'[c] = [checks[c] EXCEPT !.card = card]
        /\ \A d \in DOMAIN checks \ {c} : checks'[d] = checks[d]
    BY <1>7 DEF CardArrives, With
  <2>2. CheckOk(checks'[c], Entries)
    <3> DEFINE k == checks[c]
               l == checks'[c]
    <3>1. CheckOk(k, Entries) /\ k.card = Nothing /\ l = [k EXCEPT !.card = card]
      BY <2>1 DEF VerifyInv
    <3> HIDE DEF k, l
    <3>2. /\ l.receipt = k.receipt /\ l.anchors = k.anchors /\ l.entries = k.entries
          /\ l.card = card /\ DOMAIN l = DOMAIN k
      BY <3>1 DEF CheckOk
    <3>3. CheckOk(l, Entries)
      BY <3>1, <3>2 DEF CheckOk
    <3> QED BY <3>3 DEF l
  <2>3. \A d \in DOMAIN checks' : CheckOk(checks'[d], Entries)
    BY <2>1, <2>2 DEF VerifyInv
  <2>4. \A d \in DOMAIN checks' : CheckOk(checks'[d], Entries')
    BY <2>1, <2>3 DEF CheckOk, Entries
  <2> QED BY <2>1, <2>4 DEF VerifyInv, ResultOk
<1>8. ASSUME NEW c \in Checks, NEW i \in Identities, NEW readable \in BOOLEAN,
             AnchorRead(c, i, readable)
      PROVE  VerifyInv'
  <2> DEFINE k == checks[c]
             state == AnchorState(i, k.card.key, readable)
  <2>1. /\ UNCHANGED <<registry, box, shown>> /\ c \in DOMAIN checks
        /\ k.card # Nothing /\ i \in k.receipt.claims
        /\ DOMAIN checks' = DOMAIN checks
        /\ \A d \in DOMAIN checks \ {c} : checks'[d] = checks[d]
    BY <1>8 DEF AnchorRead, With
  <2>2. checks'[c] = [k EXCEPT !.anchors =
           [j \in DOMAIN k.anchors \cup {i} |-> IF j = i THEN state ELSE k.anchors[j]]]
    BY <1>8 DEF AnchorRead, With
  <2>3. Justified(i, state, k.card.key, k.entries)
    <3>1. <<i, registry[i]>> \in k.entries
      BY <2>1 DEF VerifyInv, CheckOk, Entries
    <3> QED BY <3>1 DEF AnchorState, Justified, AnchorStates
  <2>4. CheckOk(k, Entries)
    BY <2>1 DEF VerifyInv
  <2> DEFINE l == checks'[c]
             read == [j \in DOMAIN k.anchors \cup {i} |-> IF j = i THEN state ELSE k.anchors[j]]
  <2> HIDE DEF k, state
  <2>5. /\ l.receipt = k.receipt /\ l.card = k.card /\ l.entries = k.entries
        /\ DOMAIN l = DOMAIN k
        /\ DOMAIN l.anchors = DOMAIN k.anchors \cup {i} /\ l.anchors[i] = state
        /\ \A j \in DOMAIN k.anchors \ {i} : l.anchors[j] = k.anchors[j]
    <3>1. l = [k EXCEPT !.anchors = read]
      BY <2>2
    <3> HIDE DEF l, read
    <3>2. /\ l.receipt = k.receipt /\ l.card = k.card /\ l.entries = k.entries
          /\ DOMAIN l = DOMAIN k /\ l.anchors = read
      BY <2>4, <3>1 DEF CheckOk
    <3> QED BY <3>2 DEF read
  <2> HIDE DEF l
  <2>6. CheckOk(l, Entries)
    BY <2>1, <2>3, <2>4, <2>5 DEF CheckOk
  <2>7. \A d \in DOMAIN checks' : CheckOk(checks'[d], Entries)
    BY <2>1, <2>6 DEF VerifyInv, l
  <2>8. \A d \in DOMAIN checks' : CheckOk(checks'[d], Entries')
    BY <2>1, <2>7 DEF CheckOk, Entries
  <2> QED BY <2>1, <2>8 DEF VerifyInv, ResultOk
<1>9. ASSUME NEW c \in Checks, PinsArrive(c) PROVE VerifyInv'
  <2>1. /\ UNCHANGED <<registry, box>> /\ c \in DOMAIN checks
        /\ checks[c].card # Nothing /\ DOMAIN checks[c].anchors = checks[c].receipt.claims
        /\ Parses(expected) /\ shown' = Done(checks[c], expected)
        /\ DOMAIN checks' \subseteq DOMAIN checks
        /\ \A d \in DOMAIN checks' : checks'[d] = checks[d]
    BY <1>9 DEF PinsArrive, Without
  <2>2. CheckOk(checks[c], Entries)
    BY <2>1 DEF VerifyInv
  <2>3. ResultOk(Done(checks[c], expected))
    <3>1. /\ checks[c].card.key \in Keys /\ checks[c].card.intact \in BOOLEAN
          /\ checks[c].receipt.intact \in BOOLEAN
      BY <2>1, <2>2 DEF CheckOk
    <3>2. verifyReceipt(checks[c].receipt, checks[c].card.key) \in BOOLEAN
      BY <3>1 DEF verifyReceipt
    <3> QED BY <2>1, <2>2, <3>1, <3>2 DEF Done, ResultOk, CheckOk, Parses
  <2>4. \A d \in DOMAIN checks' : CheckOk(checks'[d], Entries')
    BY <2>1 DEF VerifyInv, CheckOk, Entries
  <2> QED BY <2>1, <2>3, <2>4 DEF VerifyInv, ResultOk
<1> QED BY <1>1, <1>2, <1>3, <1>4, <1>5, <1>6, <1>7, <1>8, <1>9 DEF VerifyNext

\* Every reachable state of the page, and of the other pages beside it.
THEOREM VerifyCorrect == PagesSpec => []VerifyInv
<1> USE VerifyAssumption
<1>1. PagesInit => VerifyInv
  BY DEF PagesInit, VerifyInit, VerifyInv, VerifyAssumption, Status
<1>2. VerifyInv /\ [PagesNext]_pagesVars => VerifyInv'
  <2> SUFFICES ASSUME VerifyInv, [PagesNext]_pagesVars PROVE VerifyInv'
    OBVIOUS
  <2>1. CASE UNCHANGED verifyVars
    BY <2>1, ChecksKept DEF verifyVars, VerifyInv
  <2>2. CASE VerifyNext
    BY <2>2, VerifyStep
  <2> QED BY <2>1, <2>2 DEF PagesNext, Runs, Form, Verify, pagesVars
<1> QED BY <1>1, <1>2, PTL DEF PagesSpec

\* "Verified." is shown only of a receipt whose signer was registered, during the
\* check, for every identity it names, and "unproven" of none that is refused.
THEOREM VerdictSound == PagesSpec => []VerifiedMeansAnchored
<1>1. VerifyInv => VerifiedMeansAnchored
  <2> SUFFICES ASSUME VerifyInv, shown.status = "done" PROVE VerifiedMeansAnchored
    BY DEF VerifiedMeansAnchored
  <2> DEFINE r == shown
  <2>1. PICK key \in Keys :
          /\ r.signatureValid = verifyReceipt(r.about, key)
          /\ {r.signatureValid, r.cardSignatureValid, r.keyMatchesCard, r.identitiesInCard} \subseteq BOOLEAN
          /\ DOMAIN r.anchors = r.about.claims
          /\ \A i \in DOMAIN r.anchors : Justified(i, r.anchors[i], key, r.during)
          /\ r.pinMatched = matchesIdentityPin(r.about.claims, r.pins)
          /\ r.pins = r.operator /\ r.pins # Mistyped
    BY DEF VerifyInv, ResultOk
  <2>2. States(r) \subseteq AnchorStates
    BY <2>1 DEF States, Justified
  <2>3. r.pins = {} \/ r.pinMatched => Satisfies(r.about.claims, r.operator)
    BY <2>1 DEF Satisfies, matchesIdentityPin
  <2>4. ASSUME headline(r) = "verified"
        PROVE  /\ Verdict(r).lines = {TRUE} /\ ~Verdict(r).unread
               /\ r.about.intact /\ r.about.claims # {}
               /\ \A i \in r.about.claims : <<i, r.about.signer>> \in r.during
               /\ Satisfies(r.about.claims, r.operator)
    <3>1. isVerified(r)
      BY <2>4 DEF headline
    <3>2. verifyReceipt(r.about, key)
      BY <2>1, <3>1 DEF isVerified
    <3>3. r.about.intact /\ r.about.signer = key
      BY <3>2 DEF verifyReceipt
    <3>4. r.about.claims # {} /\ \A i \in r.about.claims : r.anchors[i] = "matches"
      BY <2>1, <3>1 DEF isVerified, States
    <3>5. \A i \in r.about.claims : <<i, r.about.signer>> \in r.during
      BY <2>1, <3>3, <3>4 DEF Justified
    <3>6. Verdict(r).lines = {TRUE} /\ ~Verdict(r).unread
      BY <2>1, <3>1 DEF isVerified, Verdict
    <3> QED BY <2>3, <3>1, <3>3, <3>4, <3>5, <3>6 DEF isVerified
  <2>5. ASSUME headline(r) = "unread"
        PROVE  /\ Verdict(r).unread /\ Verdict(r).lines = {TRUE}
               /\ \A i \in DOMAIN Verdict(r).anchors : Verdict(r).anchors[i] # "mismatch"
               /\ Satisfies(r.about.claims, r.operator)
    <3>1. /\ ~isVerified(r) /\ r.signatureValid /\ r.cardSignatureValid
          /\ r.keyMatchesCard /\ r.identitiesInCard
          /\ States(r) # {} /\ "mismatch" \notin States(r)
          /\ r.pins = {} \/ r.pinMatched
      BY <2>5 DEF headline
    <3>2. "unavailable" \in States(r)
      BY <2>2, <3>1 DEF isVerified, AnchorStates
    <3>3. Verdict(r).unread /\ Verdict(r).lines = {TRUE}
      BY <2>1, <3>1, <3>2 DEF Verdict
    <3>4. \A i \in DOMAIN Verdict(r).anchors : Verdict(r).anchors[i] # "mismatch"
      BY <3>1 DEF States, Verdict
    <3> QED BY <2>3, <3>1, <3>3, <3>4
  <2>6. Verdict(r).says = headline(r)
    BY DEF Verdict
  <2> HIDE DEF r
  <2> QED BY <2>4, <2>5, <2>6 DEF VerifiedMeansAnchored, r
<1> QED BY <1>1, VerifyCorrect, PTL

-----------------------------------------------------------------------------
(* The invariant of the run files and of the form                           *)
\* The names of files that runs have, and what is in one that is whole.
Own == Sessions \cup WebRuns
Names == [at : Nat, id : Own, copy : BOOLEAN]

RunFor(run, name) == run.id = name.id /\ run.at = name.at /\ RunOk(run)

\* What is in a file is a run of its name, or not a run at all.
FilesInv ==
    /\ started \in Nat
    /\ DOMAIN files \subseteq Names /\ IsFiniteSet(DOMAIN files)
    /\ \A n \in DOMAIN files : n.at < started /\ (files[n] = Torn \/ RunFor(files[n], n))

\* The run that is being rewritten has a start.
WritingInv ==
    writing # None =>
        writing.id \in Sessions /\ writing.at \in Nat /\ writing.at < started /\ RunOk(writing)

\* A read has served, or has still before it, every file that was whole from its
\* listing on.
ReaderInv ==
    reader # None =>
        /\ DOMAIN reader = {"wanted", "names", "todo", "runs"}
        /\ reader.wanted \in {None} \cup RunIds
        /\ reader.todo \in Seq(DOMAIN files)
        /\ IsSeq(reader.runs) /\ \A run \in Range(reader.runs) : RunOk(run)
        /\ steady \subseteq DOMAIN files /\ \A n \in steady : files[n] # Torn
        /\ reader.wanted = None =>
              \A n \in steady : n \in Range(reader.todo) \/ files[n] \in Range(reader.runs)
        /\ reader.wanted # None =>
              /\ \A run \in Range(reader.runs) : run.id = reader.wanted
              /\ reader.runs = <<>> /\ isValidRunId(reader.wanted) =>
                    \A n \in steady : n.id = reader.wanted => n \in Range(reader.todo)
        /\ steady # {} => \A run \in Range(reader.runs) : run.id \in Own

\* The scans at work have vaults, and a start that no other run has.
JobsInv ==
    /\ DOMAIN jobs \subseteq WebRuns
    /\ \A id \in DOMAIN jobs :
          /\ jobs[id].at \in Nat /\ jobs[id].at < started /\ IsFiniteSet(jobs[id].vaults)
          /\ \A n \in DOMAIN files : n.at # jobs[id].at
          /\ writing # None => writing.at # jobs[id].at
          /\ \A other \in DOMAIN jobs : jobs[other].at = jobs[id].at => other = id

\* A purchase that a scan brought back: its file, if it has one, holds it or is torn, and no
\* other scan will write that file.
Bought(run, stored, scans, clock) ==
    /\ run.id \in WebRuns /\ run.at \in Nat /\ run.at < clock /\ RunOk(run) /\ run # Torn
    /\ NameOf(run) \in DOMAIN stored => stored[NameOf(run)] \in {run, Torn}
    /\ \A id \in DOMAIN scans : scans[id].at # run.at

\* A history has a run as it would be found alone.
Shows(rows, run, vaults) ==
    \E i \in DOMAIN rows : findRunsForVaults(<<run>>, vaults) = <<rows[i]>>

\* What the form awaits and what has come of it.
FetchInv ==
    /\ page # "form" => fetch = None /\ result = None
    /\ text \in Seq(DOMAIN Reads)
    /\ fetch # None =>
          /\ busy # "idle"
          /\ DOMAIN fetch = {"url", "vaults", "id", "reply"} /\ IsFiniteSet(fetch.vaults)
          /\ fetch.url = "runs" \/ (fetch.url = "scan" /\ result = None /\ error = None)
          /\ fetch.url = "runs" => fetch.id = None
          /\ fetch.url = "scan" /\ fetch.reply # None /\ fetch.reply.status = 200
                => Bought(fetch.reply.run, files, jobs, started)
    /\ page = "form" /\ reader # None =>
          fetch # None /\ fetch.url = "runs" /\ fetch.reply = None /\ reader.wanted = None

\* A history that is being read, on its way or on the page was listed after the
\* purchase on the page came back.
HistoryInv ==
    result # None =>
        /\ error = None /\ Bought(result, files, jobs, started)
        /\ Saved(result) /\ reader # None => NameOf(result) \in steady
        /\ /\ Saved(result) /\ fetch # None /\ fetch.url = "runs" /\ fetch.reply # None
           /\ vaultIdsIn(result) \cap fetch.vaults # {}
           => Shows(fetch.reply.matches, result, fetch.vaults)
        /\ /\ Saved(result) /\ ~running /\ history # None /\ ~historyError
           /\ vaultIdsIn(result) \cap historyOf # {}
           => Shows(history, result, historyOf)

\* The run files and their reader, and the form with what it awaits.
AtStore == FilesInv /\ WritingInv /\ ReaderInv /\ JobsInv
AtPage == FetchInv /\ HistoryInv

-----------------------------------------------------------------------------
(* What runs are made of                                                    *)
\* The decisions of a run are what each of its requests decides.
LEMMA RunOkRun ==
  ASSUME NEW id, NEW at \in Nat, NEW requests, IsSeq(requests),
         \A q \in Range(requests) : AnswerOk(q)
  PROVE  RunOk(Run(id, at, requests))
<1> DEFINE ss == [i \in DOMAIN requests |-> Decide(requests[i])]
           X == UNION {Range(ss[i]) : i \in DOMAIN requests}
           run == Run(id, at, requests)
<1>1. Len(requests) \in Nat /\ DOMAIN requests = 1 .. Len(requests)
  BY DEF IsSeq
<1>2. \A i \in DOMAIN requests : ss[i] \in Seq(X)
  <2> SUFFICES ASSUME NEW i \in DOMAIN requests PROVE ss[i] \in Seq(X)
    OBVIOUS
  <2> DEFINE vs == requests[i].verdicts
             d == Decide(requests[i])
  <2>1. IsSeq(vs)
    <3>1. requests[i] \in Range(requests)
      BY DEF Range
    <3> QED BY <3>1 DEF AnswerOk
  <2>2. Len(vs) \in Nat /\ DOMAIN vs = 1 .. Len(vs)
    BY <2>1 DEF IsSeq
  <2>3. DOMAIN d = DOMAIN vs /\ d = [k \in DOMAIN vs |-> d[k]]
    BY DEF Decide
  <2>4. d = ss[i]
    OBVIOUS
  <2>5. \A k \in DOMAIN vs : d[k] \in X
    <3>1. Range(ss[i]) \subseteq X
      OBVIOUS
    <3> HIDE DEF X, vs, d, ss
    <3> QED BY <2>3, <2>4, <3>1 DEF Range
  <2> HIDE DEF X, vs, d, ss
  <2> QED BY <2>2, <2>3, <2>4, <2>5, MapIs
<1>3. DOMAIN ss = 1 .. Len(requests) /\ ss = [i \in 1 .. Len(requests) |-> ss[i]]
  BY <1>1
<1> HIDE DEF X
<1>4. ss \in Seq(Seq(X))
  <2> HIDE DEF ss
  <2> QED BY <1>1, <1>2, <1>3, MapIs
<1>5. run.at \in Nat /\ run.requests = requests /\ run.decisions = FlattenSeq(ss)
  BY DEF Run
<1>6. IsSeq(run.decisions)
  <2> HIDE DEF ss, run
  <2>1. FlattenSeq(ss) \in Seq(X)
    BY <1>4, FlatCollects
  <2> QED BY <2>1, <1>5, RangeIs
<1> HIDE DEF run
<1>7. IsSeq(run.requests) /\ \A q \in Range(run.requests) : AnswerOk(q)
  BY <1>5
<1> QED BY <1>5, <1>6, <1>7 DEF RunOk, run

LEMMA RunOkFailed ==
  ASSUME NEW id, NEW at \in Nat, NEW vaults, IsFiniteSet(vaults)
  PROVE  RunOk(FailedRun(id, at, vaults))
<1> DEFINE n == Cardinality(vaults)
           order == SetToSeq(vaults)
           d == [i \in DOMAIN order |-> [vault |-> order[i], action |-> "insufficient data"]]
           run == FailedRun(id, at, vaults)
<1>1. n \in Nat /\ order \in [1 .. n -> vaults]
  BY SetToSeqIs
<1>2. run.at \in Nat /\ run.requests = << >> /\ run.decisions = d
  BY DEF FailedRun
<1>3. d \in Seq(Range(d))
  <2>1. DOMAIN order = 1 .. n
    BY <1>1
  <2>2. DOMAIN d = 1 .. n /\ d = [i \in 1 .. n |-> d[i]]
    BY <2>1
  <2> HIDE DEF d, n
  <2>3. \A i \in 1 .. n : d[i] \in Range(d)
    BY <2>2 DEF Range
  <2> QED BY <1>1, <2>2, <2>3, MapIs
<1>4. IsSeq(<< >>) /\ Range(<< >>) = {}
  BY EmptyIs
<1> HIDE DEF run, d
<1> QED BY <1>2, <1>3, <1>4 DEF RunOk, IsSeq, run

\* A scan's run has the name of its job.
LEMMA RunFields ==
  ASSUME NEW id, NEW at, NEW x
  PROVE  /\ Run(id, at, x).id = id /\ Run(id, at, x).at = at
         /\ FailedRun(id, at, x).id = id /\ FailedRun(id, at, x).at = at
BY DEF Run, FailedRun

-----------------------------------------------------------------------------
(* What a read begins with                                                  *)
\* A listing has every file of the directory and nothing else.
LEMMA ListIs ==
  ASSUME FilesInv
  PROVE  listRunFiles \in Seq(DOMAIN files) /\ Range(listRunFiles) = DOMAIN files
<1> DEFINE S == DOMAIN files
           R == {e \in S \X S : Before(e[1], e[2])}
<1>1. \A n \in S : n.at \in Nat /\ n.copy \in BOOLEAN
  BY DEF FilesInv, Names
<1>2. \A a, b \in S : <<a, b>> \in R <=> Before(a, b)
  OBVIOUS
<1> HIDE DEF R
<1>3. \A a, b \in S : Before(a, b) \/ Before(b, a)
  BY <1>1 DEF Before
<1>4. \A a, b, c \in S : Before(a, b) /\ Before(b, c) => Before(a, c)
  BY <1>1 DEF Before
<1>5. Sorts(S, R)
  BY <1>2, <1>3, <1>4 DEF Sorts
<1>6. IsFiniteSet(S)
  BY DEF FilesInv
<1>7. listRunFiles = Along(S, R)
  BY DEF listRunFiles, InOrder, R
<1> HIDE DEF S
<1>8. listRunFiles \in Seq(S) /\ \A x \in S : \E i \in DOMAIN listRunFiles : listRunFiles[i] = x
  BY <1>5, <1>6, <1>7, AlongLines
<1>9. Range(listRunFiles) \subseteq S /\ \A x : x \in Range(listRunFiles) <=> \E i \in DOMAIN listRunFiles : listRunFiles[i] = x
  BY <1>8, RangeIs
<1> QED BY <1>8, <1>9 DEF S

\* What is served from the repository has the fields of a run.
LEMMA BundledIs ==
  /\ IsSeq(readBundledRuns)
  /\ \A run \in Range(readBundledRuns) : RunOk(run)
<1> DEFINE all == Demo \o Recordings
           X == Range(Demo) \cup Range(Recordings)
           kept == {i \in DOMAIN all : \A j \in 1 .. i - 1 : all[j].id # all[i].id}
<1>1. Demo \in Seq(X) /\ Recordings \in Seq(X)
  <2>1. Demo \in Seq(Range(Demo)) /\ Recordings \in Seq(Range(Recordings))
    BY StoreAssumption DEF IsSeq
  <2>2. Range(Demo) \subseteq X /\ Range(Recordings) \subseteq X
    OBVIOUS
  <2> HIDE DEF X
  <2> QED BY <2>1, <2>2
<1> HIDE DEF X
<1>2. all \in Seq(X)
  BY <1>1, RangeConcat
<1>3. readBundledRuns = At(all, kept)
  BY DEF readBundledRuns
<1>4. kept \subseteq DOMAIN all
  OBVIOUS
<1>5. \A i \in DOMAIN all : RunOk(all[i])
  BY StoreAssumption DEF Range
<1> HIDE DEF all, kept
<1>6. At(all, kept) \in Seq(X) /\ Range(At(all, kept)) = {all[i] : i \in kept}
  BY <1>2, <1>4, RangeAt
<1>7. IsSeq(At(all, kept))
  BY <1>6, RangeIs
<1> QED BY <1>3, <1>4, <1>5, <1>6, <1>7

\* A guess by name picks files of the listing.
LEMMA GuessedIs ==
  ASSUME NEW X, NEW names \in Seq(X), NEW id
  PROVE  Guessed(names, id) \in Seq(X) /\ Range(Guessed(names, id)) \subseteq Range(names)
<1> DEFINE kept == {i \in DOMAIN names : names[i].id = id \/ <<id, names[i].id>> \in Tails}
<1>1. Guessed(names, id) = At(names, kept)
  BY DEF Guessed, filter
<1>2. kept \subseteq DOMAIN names
  OBVIOUS
<1> HIDE DEF kept
<1>3. At(names, kept) \in Seq(X) /\ Range(At(names, kept)) = {names[i] : i \in kept}
  BY <1>2, RangeAt
<1>4. Range(At(names, kept)) \subseteq Range(names)
  BY <1>2, <1>3 DEF Range
<1> QED BY <1>1, <1>3, <1>4

\* The run of an id among others, if it is there.
LEMMA FirstIs ==
  ASSUME NEW runs, IsSeq(runs), NEW id
  PROVE  /\ IsSeq(FirstOf(WithId(runs, id)))
         /\ \A r \in Range(FirstOf(WithId(runs, id))) : r \in Range(runs) /\ r.id = id
<1> DEFINE X == Range(runs)
           kept == {i \in DOMAIN runs : runs[i].id = id}
           its == WithId(runs, id)
<1>1. its = At(runs, kept)
  BY DEF WithId, filter
<1>2. kept \subseteq DOMAIN runs /\ \A i \in kept : runs[i].id = id
  OBVIOUS
<1>3. runs \in Seq(X)
  BY DEF IsSeq
<1> HIDE DEF kept, its
<1>4. its \in Seq(X) /\ Range(its) = {runs[i] : i \in kept}
  BY <1>1, <1>2, <1>3, RangeAt
<1>5. \A r \in Range(its) : r \in X /\ r.id = id
  BY <1>2, <1>3, <1>4, RangeIs
<1> HIDE DEF X
<1>6. CASE its = << >>
  <2>1. FirstOf(its) = << >>
    BY <1>6 DEF FirstOf
  <2> QED BY <2>1, EmptyIs DEF its
<1>7. CASE its # << >>
  <2>1. Head(its) \in Range(its)
    BY <1>4, <1>7, RangeTail
  <2>2. FirstOf(its) = <<Head(its)>>
    BY <1>7 DEF FirstOf
  <2>3. <<Head(its)>> \in Seq(Range(its))
    BY <2>1
  <2> HIDE DEF its
  <2>4. IsSeq(FirstOf(its)) /\ Range(FirstOf(its)) \subseteq Range(its)
    BY <2>2, <2>3, RangeIs
  <2> QED BY <2>4, <1>5 DEF X, its
<1> QED BY <1>6, <1>7

LEMMA ParsedFinite ==
  ASSUME text \in Seq(DOMAIN Reads)
  PROVE  IsFiniteSet(parsed.vaults)
<1> DEFINE s == [i \in DOMAIN text |-> Reads[text[i]]]
           kept == {i \in DOMAIN s : s[i] # Blank}
<1>1. parsed.vaults = Range(At(s, kept))
  BY DEF parsed, parseVaultList, filter
<1>2. Len(text) \in Nat /\ DOMAIN text = 1 .. Len(text)
  OBVIOUS
<1>3. s \in Seq(Range(s))
  <2>1. DOMAIN s = 1 .. Len(text) /\ s = [i \in 1 .. Len(text) |-> s[i]]
    BY <1>2
  <2> HIDE DEF s
  <2>2. \A i \in 1 .. Len(text) : s[i] \in Range(s)
    BY <2>1 DEF Range
  <2> QED BY <1>2, <2>1, <2>2, MapIs
<1>4. kept \subseteq DOMAIN s
  OBVIOUS
<1> HIDE DEF s, kept
<1>5. At(s, kept) \in Seq(Range(s))
  BY <1>3, <1>4, RangeAt
<1> QED BY <1>1, <1>5, RangeFinite

-----------------------------------------------------------------------------
(* The history of a form                                                    *)
Newer(a, b) == a.at > b.at
NewerFirst(rows) == Stably(rows, Newer)

Matches(runs, vaults) ==
    LET covering == At(runs, {i \in DOMAIN runs : vaultIdsIn(runs[i]) \cap vaults # {}})
    IN  [i \in DOMAIN covering |-> MatchOf(covering[i], vaults)]

LEMMA FindIs ==
  ASSUME NEW runs, NEW vaults
  PROVE  findRunsForVaults(runs, vaults)
            = Sorted(Matches(runs, vaults), NewerFirst(Matches(runs, vaults)))
BY DEF findRunsForVaults, Matches, NewerFirst, Newer, Stably, sort, filter

LEMMA NewerIs ==
  ASSUME NEW rows, NEW a \in DOMAIN rows, NEW b \in DOMAIN rows
  PROVE  <<a, b>> \in NewerFirst(rows)
            <=> \/ rows[a].at > rows[b].at
                \/ ~(rows[b].at > rows[a].at) /\ a < b
<1>1. <<a, b>> \in (DOMAIN rows) \X (DOMAIN rows) /\ <<a, b>>[1] = a /\ <<a, b>>[2] = b
  OBVIOUS
<1> QED BY <1>1 DEF NewerFirst, Stably, Newer

LEMMA MatchAt ==
  ASSUME NEW r, NEW vaults
  PROVE  MatchOf(r, vaults).at = r.at
BY DEF MatchOf

\* The answer to a history: the runs that cover a vault, one match each.
LEMMA MatchesAre ==
  ASSUME NEW runs, IsSeq(runs), \A r \in Range(runs) : RunOk(r), NEW vaults
  PROVE  LET rows == Matches(runs, vaults)
         IN  /\ IsSeq(rows) /\ Sorts(DOMAIN rows, NewerFirst(rows))
             /\ \A i \in DOMAIN rows :
                  \E r \in Range(runs) : vaultIdsIn(r) \cap vaults # {} /\ rows[i] = MatchOf(r, vaults)
             /\ \A r \in Range(runs) :
                  vaultIdsIn(r) \cap vaults # {} => \E i \in DOMAIN rows : rows[i] = MatchOf(r, vaults)
<1> DEFINE X == Range(runs)
           kept == {i \in DOMAIN runs : vaultIdsIn(runs[i]) \cap vaults # {}}
           covering == At(runs, kept)
           rows == Matches(runs, vaults)
<1>1. kept \subseteq DOMAIN runs
  OBVIOUS
<1>2. \A i \in kept : vaultIdsIn(runs[i]) \cap vaults # {}
  OBVIOUS
<1>3. \A i \in DOMAIN runs : vaultIdsIn(runs[i]) \cap vaults # {} => i \in kept
  OBVIOUS
<1>4. rows = [i \in DOMAIN covering |-> MatchOf(covering[i], vaults)]
  BY DEF Matches
<1>5. runs \in Seq(X)
  BY DEF IsSeq
<1> HIDE DEF kept
<1>6. covering \in Seq(X) /\ Range(covering) = {runs[i] : i \in kept}
  BY <1>1, <1>5, RangeAt
<1> HIDE DEF covering, rows, X
<1>7. Len(covering) \in Nat /\ DOMAIN covering = 1 .. Len(covering)
  BY <1>6
<1>8. DOMAIN rows = 1 .. Len(covering) /\ rows = [i \in 1 .. Len(covering) |-> rows[i]]
  BY <1>4, <1>7
<1>9. \A i \in 1 .. Len(covering) : rows[i] = MatchOf(covering[i], vaults)
  BY <1>4, <1>7
<1>10. IsSeq(rows)
  <2>1. \A i \in 1 .. Len(covering) : rows[i] \in Range(rows)
    BY <1>8 DEF Range
  <2> QED BY <1>7, <1>8, <2>1, MapIs DEF IsSeq
<1>11. \A i \in DOMAIN rows : rows[i].at \in Nat
  <2> SUFFICES ASSUME NEW i \in DOMAIN rows PROVE rows[i].at \in Nat
    OBVIOUS
  <2>1. covering[i] \in X
    BY <1>6, <1>8
  <2>2. RunOk(covering[i])
    BY <2>1 DEF X
  <2>3. rows[i].at = covering[i].at
    BY <1>8, <1>9, MatchAt
  <2> QED BY <2>2, <2>3 DEF RunOk
<1>12. Sorts(DOMAIN rows, NewerFirst(rows))
  <2> DEFINE R == NewerFirst(rows)
  <2>1. \A a, b \in DOMAIN rows :
           <<a, b>> \in R <=> \/ rows[a].at > rows[b].at
                              \/ ~(rows[b].at > rows[a].at) /\ a < b
    BY NewerIs
  <2> HIDE DEF R
  <2>2. \A a \in DOMAIN rows : a \in Nat
    BY <1>7, <1>8
  <2>3. \A a, b \in DOMAIN rows : a # b => <<a, b>> \in R \/ <<b, a>> \in R
    BY <2>1, <2>2, <1>11
  <2>4. \A a, b, c \in DOMAIN rows : <<a, b>> \in R /\ <<b, c>> \in R => <<a, c>> \in R
    BY <2>1, <2>2, <1>11
  <2> QED BY <2>3, <2>4 DEF Sorts, R
<1>13. \A i \in DOMAIN rows :
          \E r \in X : vaultIdsIn(r) \cap vaults # {} /\ rows[i] = MatchOf(r, vaults)
  <2> SUFFICES ASSUME NEW i \in DOMAIN rows
               PROVE  \E r \in X : vaultIdsIn(r) \cap vaults # {} /\ rows[i] = MatchOf(r, vaults)
    OBVIOUS
  <2>1. covering[i] \in Range(covering) /\ covering[i] \in X
    BY <1>6, <1>7, <1>8 DEF Range
  <2> QED BY <2>1, <1>2, <1>6, <1>8, <1>9
<1>14. ASSUME NEW r \in X, vaultIdsIn(r) \cap vaults # {}
       PROVE  \E i \in DOMAIN rows : rows[i] = MatchOf(r, vaults)
  <2>1. PICK k \in DOMAIN runs : runs[k] = r
    BY DEF X, Range
  <2>2. r \in Range(covering)
    BY <2>1, <1>3, <1>6, <1>14
  <2>3. PICK i \in DOMAIN covering : covering[i] = r
    BY <2>2 DEF Range
  <2> QED BY <2>3, <1>7, <1>8, <1>9
<1> QED BY <1>10, <1>12, <1>13, <1>14 DEF X, rows

\* A run that was read is in the answer as it would be alone.
LEMMA ShowsRead ==
  ASSUME NEW runs, IsSeq(runs), \A r \in Range(runs) : RunOk(r), NEW vaults,
         NEW run \in Range(runs), vaultIdsIn(run) \cap vaults # {}
  PROVE  Shows(findRunsForVaults(runs, vaults), run, vaults)
<1> DEFINE rows == Matches(runs, vaults)
           R == NewerFirst(rows)
           all == Sorted(rows, R)
           one == Matches(<<run>>, vaults)
           Q == NewerFirst(one)
           alone == Sorted(one, Q)
           row == MatchOf(run, vaults)
<1>1. /\ IsSeq(rows) /\ Sorts(DOMAIN rows, R)
      /\ \E i \in DOMAIN rows : rows[i] = row
  BY MatchesAre
<1>2. IsSeq(<<run>>) /\ Range(<<run>>) = {run}
  BY SingleIs
<1>3. /\ IsSeq(one) /\ Sorts(DOMAIN one, Q)
      /\ \A i \in DOMAIN one : one[i] = row
      /\ DOMAIN one # {}
  <2>1. \A r \in Range(<<run>>) : RunOk(r)
    BY <1>2
  <2>2. /\ IsSeq(one) /\ Sorts(DOMAIN one, Q)
        /\ \A i \in DOMAIN one :
             \E r \in Range(<<run>>) : vaultIdsIn(r) \cap vaults # {} /\ one[i] = MatchOf(r, vaults)
        /\ \A r \in Range(<<run>>) :
             vaultIdsIn(r) \cap vaults # {} => \E i \in DOMAIN one : one[i] = MatchOf(r, vaults)
    BY <1>2, <2>1, MatchesAre
  <2> HIDE DEF one, Q, row
  <2>3. \A i \in DOMAIN one : one[i] = row
    BY <1>2, <2>2 DEF row
  <2>4. DOMAIN one # {}
    BY <1>2, <2>2
  <2> QED BY <2>2, <2>3, <2>4
<1>4. DOMAIN one = {1}
  <2> DEFINE kept == {i \in DOMAIN <<run>> : vaultIdsIn(<<run>>[i]) \cap vaults # {}}
             covering == At(<<run>>, kept)
  <2>1. kept \subseteq {1} /\ kept \subseteq DOMAIN <<run>> /\ <<run>> \in Seq({run})
    OBVIOUS
  <2>2. DOMAIN one = DOMAIN covering
    BY DEF Matches
  <2> HIDE DEF kept
  <2>3. covering \in Seq({run}) /\ \E e : Picks(covering, <<run>>, kept, e)
    BY <2>1, AtPicks
  <2> HIDE DEF covering, one
  <2>4. PICK e : Picks(covering, <<run>>, kept, e)
    BY <2>3
  <2>5. \A k \in DOMAIN covering : e[k] = 1
    BY <2>1, <2>4 DEF Picks
  <2>6. \A j, k \in DOMAIN covering : ~ j < k
    BY <2>4, <2>5 DEF Picks
  <2>7. DOMAIN covering = 1 .. Len(covering) /\ Len(covering) \in Nat
    BY <2>3
  <2>8. Len(covering) # 0
    BY <2>2, <2>7, <1>3 DEF one
  <2>9. ~ Len(covering) > 1
    <3>1. SUFFICES ASSUME Len(covering) > 1 PROVE FALSE
      OBVIOUS
    <3>2. 1 \in DOMAIN covering /\ 2 \in DOMAIN covering
      BY <2>7, <3>1
    <3>3. ~ 1 < 2
      BY <3>2, <2>6
    <3> QED BY <3>3
  <2>10. Len(covering) = 1
    BY <2>7, <2>8, <2>9
  <2> QED BY <2>2, <2>7, <2>10
<1>5. \E i \in DOMAIN all : all[i] = row
  <2> HIDE DEF rows, R, all, row
  <2>1. rows \in Seq(Range(rows))
    BY <1>1 DEF IsSeq
  <2>2. Orders(all, rows, R, Along(DOMAIN rows, R))
    BY <2>1, <1>1, SortIs DEF all
  <2>3. PICK k \in DOMAIN rows : rows[k] = row
    BY <1>1
  <2>4. PICK i \in DOMAIN rows : Along(DOMAIN rows, R)[i] = k
    BY <2>2 DEF Orders
  <2>5. i \in DOMAIN all /\ all[i] = row
    BY <2>2, <2>3, <2>4 DEF Orders
  <2> QED BY <2>5
<1>6. alone = <<row>>
  <2> HIDE DEF one, Q, alone, row
  <2>1. one \in Seq(Range(one))
    BY <1>3 DEF IsSeq
  <2>2. alone \in Seq(Range(one)) /\ Orders(alone, one, Q, Along(DOMAIN one, Q))
    BY <2>1, <1>3, SortIs DEF alone
  <2>3. DOMAIN alone = {1} /\ alone[1] = row
    BY <2>2, <1>3, <1>4 DEF Orders
  <2>4. Len(alone) = 1
    <3>1. Len(alone) \in Nat /\ DOMAIN alone = 1 .. Len(alone)
      BY <2>2
    <3>2. 1 \in 1 .. Len(alone)
      BY <3>1, <2>3
    <3>3. Len(alone) \in 1 .. Len(alone)
      BY <3>1, <3>2
    <3> QED BY <3>1, <3>3, <2>3
  <2> QED BY <2>2, <2>3, <2>4
<1>7. findRunsForVaults(runs, vaults) = all /\ findRunsForVaults(<<run>>, vaults) = alone
  BY FindIs
<1> HIDE DEF all, alone, row
<1> QED BY <1>5, <1>6, <1>7 DEF Shows

-----------------------------------------------------------------------------
(* The run files under a reader                                             *)
\* A write changes one file, which is steady no more.
LEMMA PutIs ==
  ASSUME NEW name, NEW content, Put(name, content)
  PROVE  /\ DOMAIN files' = DOMAIN files \cup {name} /\ files'[name] = content
         /\ \A n \in DOMAIN files : n # name => files'[n] = files[n]
         /\ steady' = steady \ {name}
BY DEF Put

\* A file written meanwhile leaves the others of the listing as they were.
LEMMA PutReader ==
  ASSUME ReaderInv, UNCHANGED reader, NEW name, NEW content, Put(name, content)
  PROVE  ReaderInv'
<1> SUFFICES ASSUME reader # None PROVE ReaderInv'
  BY DEF ReaderInv
<1>1. /\ DOMAIN files \subseteq DOMAIN files'
      /\ steady' \subseteq steady
      /\ \A n \in steady' : n \in steady /\ files'[n] = files[n]
  BY PutIs DEF ReaderInv
<1>2. reader.todo \in Seq(DOMAIN files')
  BY <1>1, SeqGrows DEF ReaderInv
<1>3. steady' \subseteq DOMAIN files' /\ \A n \in steady' : files'[n] # Torn
  BY <1>1 DEF ReaderInv
<1>4. steady' # {} => steady # {}
  BY <1>1
<1> QED BY <1>1, <1>2, <1>3, <1>4 DEF ReaderInv

\* A file is written under its own name.
LEMMA PutFiles ==
  ASSUME FilesInv, NEW name \in Names, NEW content, Put(name, content),
         content = Torn \/ RunFor(content, name),
         started' \in Nat, started <= started', name.at < started'
  PROVE  FilesInv'
<1>0. /\ DOMAIN files' = DOMAIN files \cup {name} /\ files'[name] = content
      /\ \A n \in DOMAIN files : n # name => files'[n] = files[n]
  BY PutIs
<1>1. DOMAIN files' \subseteq Names /\ IsFiniteSet(DOMAIN files')
  <2>1. IsFiniteSet(DOMAIN files \cup {name})
    BY FS_AddElement DEF FilesInv
  <2> QED BY <1>0, <2>1 DEF FilesInv
<1>2. \A n \in DOMAIN files' : n.at < started' /\ (files'[n] = Torn \/ RunFor(files'[n], n))
  <2> SUFFICES ASSUME NEW n \in DOMAIN files'
               PROVE  n.at < started' /\ (files'[n] = Torn \/ RunFor(files'[n], n))
    OBVIOUS
  <2>1. CASE n = name
    BY <2>1, <1>0
  <2>2. CASE n # name
    <3>1. n \in DOMAIN files /\ files'[n] = files[n]
      BY <2>2, <1>0
    <3>2. n.at \in Nat /\ n.at < started /\ (files[n] = Torn \/ RunFor(files[n], n))
      BY <3>1 DEF FilesInv, Names
    <3>3. n.at < started'
      BY <3>2 DEF FilesInv
    <3> QED BY <3>1, <3>2, <3>3
  <2> QED BY <2>1, <2>2
<1> QED BY <1>1, <1>2 DEF FilesInv

\* A start already given to a run that is not a scan's.
Given(at) ==
    \/ at = started
    \/ \E n \in DOMAIN files : n.at = at
    \/ writing # None /\ writing.at = at

\* What the agent may have done in a step.
AgentStep ==
    /\ reader' = reader /\ started' \in Nat /\ started <= started'
    /\ \/ UNCHANGED <<files, steady>>
       \/ \E name, content :
             name \in Names /\ Put(name, content) /\ name.id \in Sessions /\ Given(name.at)
    /\ writing' # None => Given(writing'.at)

LEMMA NameIs ==
  ASSUME NEW run, run.at \in Nat, run.id \in Own
  PROVE  /\ NameOf(run) \in Names
         /\ NameOf(run).at = run.at /\ NameOf(run).id = run.id /\ ~ NameOf(run).copy
BY DEF NameOf, Names

\* The agent tears the file of its session, or begins one of a fresh start.
LEMMA SaveBeginsKeeps ==
  ASSUME FilesInv, WritingInv, ReaderInv,
         NEW id \in Sessions, NEW request \in Answers, SaveBegins(id, request)
  PROVE  FilesInv' /\ WritingInv' /\ ReaderInv' /\ AgentStep
<1> DEFINE mine == {n \in DOMAIN files : n.id = id /\ ~n.copy}
<1>1. /\ Put(NameOf(writing'), Torn) /\ UNCHANGED reader
      /\ \/ writing' = Run(id, started, <<request>>) /\ started' = started + 1
         \/ \E n \in mine :
               /\ files[n] # Torn /\ started' = started
               /\ writing' = Run(id, n.at, Append(files[n].requests, request))
  BY DEF SaveBegins
<1>2. started \in Nat /\ AnswerOk(request)
  BY StoreAssumption DEF FilesInv
<1>3. /\ writing'.id = id /\ writing'.at \in Nat /\ writing'.at < started'
      /\ started' \in Nat /\ started <= started' /\ Given(writing'.at) /\ RunOk(writing')
  <2>1. CASE writing' = Run(id, started, <<request>>) /\ started' = started + 1
    <3>1. IsSeq(<<request>>) /\ Range(<<request>>) = {request}
      BY SingleIs
    <3>2. RunOk(writing')
      BY <3>1, <2>1, <1>2, RunOkRun
    <3>3. writing'.id = id /\ writing'.at = started
      BY <2>1, RunFields
    <3> QED BY <3>2, <3>3, <2>1, <1>2 DEF Given
  <2>2. CASE \E n \in mine :
               /\ files[n] # Torn /\ started' = started
               /\ writing' = Run(id, n.at, Append(files[n].requests, request))
    <3>1. PICK n \in mine :
               /\ files[n] # Torn /\ started' = started
               /\ writing' = Run(id, n.at, Append(files[n].requests, request))
      BY <2>2
    <3>2. n \in DOMAIN files /\ n.at \in Nat /\ n.at < started /\ RunOk(files[n])
      BY <3>1 DEF FilesInv, Names, RunFor
    <3> DEFINE requests == Append(files[n].requests, request)
    <3>3. IsSeq(requests) /\ \A q \in Range(requests) : AnswerOk(q)
      <4>1. IsSeq(files[n].requests) /\ \A q \in Range(files[n].requests) : AnswerOk(q)
        BY <3>2 DEF RunOk
      <4>2. IsSeq(requests) /\ Range(requests) = Range(files[n].requests) \cup {request}
        BY <4>1, RangeAppend
      <4> HIDE DEF requests
      <4> QED BY <4>1, <4>2, <1>2
    <3> HIDE DEF requests
    <3>4. RunOk(Run(id, n.at, requests))
      BY <3>2, <3>3, RunOkRun
    <3>5. writing'.id = id /\ writing'.at = n.at /\ RunOk(writing')
      BY <3>1, <3>4, RunFields DEF requests
    <3>6. Given(writing'.at)
      BY <3>2, <3>5 DEF Given
    <3> QED BY <3>1, <3>2, <3>5, <3>6, <1>2
  <2> QED BY <1>1, <2>1, <2>2
<1>4. /\ NameOf(writing') \in Names /\ NameOf(writing').at = writing'.at
      /\ NameOf(writing').id = writing'.id
  BY <1>3, NameIs DEF Own
<1>5. FilesInv'
  BY <1>1, <1>3, <1>4, PutFiles
<1>6. WritingInv'
  BY <1>3 DEF WritingInv
<1>7. ReaderInv'
  BY <1>1, PutReader
<1>8. AgentStep
  BY <1>1, <1>3, <1>4 DEF AgentStep
<1> QED BY <1>5, <1>6, <1>7, <1>8

LEMMA SaveEndsKeeps ==
  ASSUME FilesInv, WritingInv, ReaderInv, SaveEnds
  PROVE  FilesInv' /\ WritingInv' /\ ReaderInv' /\ AgentStep
<1>1. /\ writing # None /\ Put(NameOf(writing), writing)
      /\ writing' = None /\ started' = started /\ UNCHANGED reader
  BY DEF SaveEnds
<1>2. writing.id \in Sessions /\ writing.at \in Nat /\ writing.at < started /\ RunOk(writing)
  BY <1>1 DEF WritingInv
<1>3. /\ NameOf(writing) \in Names /\ NameOf(writing).at = writing.at
      /\ NameOf(writing).id = writing.id
  BY <1>2, NameIs DEF Own
<1>4. started \in Nat
  BY DEF FilesInv
<1>5. FilesInv'
  BY <1>1, <1>2, <1>3, <1>4, PutFiles DEF RunFor
<1>6. ReaderInv'
  BY <1>1, PutReader
<1>7. AgentStep
  BY <1>1, <1>2, <1>3, <1>4 DEF AgentStep, Given
<1> QED BY <1>1, <1>5, <1>6, <1>7 DEF WritingInv

LEMMA AgentKeeps ==
  ASSUME FilesInv, WritingInv, ReaderInv,
         NEW sessions, sessions \subseteq Sessions, AgentWrites(sessions)
  PROVE  FilesInv' /\ WritingInv' /\ ReaderInv' /\ AgentStep
<1>1. CASE \E id \in sessions, request \in Answers : SaveBegins(id, request)
  BY <1>1, SaveBeginsKeeps
<1>2. CASE SaveEnds
  BY <1>2, SaveEndsKeeps
<1>3. CASE AgentDies
  <2>1. started \in Nat /\ started <= started
    BY DEF FilesInv
  <2>2. writing' = None /\ UNCHANGED <<files, started, reader, steady>>
    BY <1>3 DEF AgentDies
  <2>3. FilesInv' /\ ReaderInv'
    BY <2>2 DEF FilesInv, ReaderInv
  <2> QED BY <2>1, <2>2, <2>3 DEF WritingInv, AgentStep
<1> QED BY <1>1, <1>2, <1>3 DEF AgentWrites

LEMMA CopyKeeps ==
  ASSUME FilesInv, WritingInv, ReaderInv, NEW name \in DOMAIN files, Copy(name)
  PROVE  /\ FilesInv' /\ WritingInv' /\ ReaderInv'
         /\ \E other, content : other \in Names /\ Put(other, content) /\ other.at = name.at /\ other.copy
<1> DEFINE other == [name EXCEPT !.copy = TRUE]
<1>1. files[name] # Torn /\ Put(other, files[name]) /\ UNCHANGED <<writing, started, reader>>
  BY DEF Copy
<1>2. name \in Names /\ started \in Nat
  BY DEF FilesInv
<1>3. other \in Names /\ other.id = name.id /\ other.at = name.at /\ other.copy
  BY <1>2 DEF Names
<1>4. name.at < started /\ RunFor(files[name], name)
  BY <1>1 DEF FilesInv
<1> HIDE DEF other
<1>5. RunFor(files[name], other)
  BY <1>3, <1>4 DEF RunFor
<1>6. FilesInv'
  BY <1>1, <1>2, <1>3, <1>4, <1>5, PutFiles
<1>7. ReaderInv' /\ WritingInv'
  BY <1>1, PutReader DEF WritingInv
<1> QED BY <1>1, <1>3, <1>6, <1>7

LEMMA PersistKeeps ==
  ASSUME FilesInv, WritingInv, ReaderInv,
         NEW run, run.id \in WebRuns, run.at \in Nat, run.at < started, RunOk(run), Persist(run)
  PROVE  /\ FilesInv' /\ WritingInv' /\ ReaderInv'
         /\ UNCHANGED <<writing, started, reader>>
         /\ \/ \E content \in {run, Torn} : Put(NameOf(run), content)
            \/ UNCHANGED <<files, steady>>
<1>1. /\ UNCHANGED <<writing, started, reader>>
      /\ \/ \E content \in {run, Torn} : Put(NameOf(run), content)
         \/ UNCHANGED <<files, steady>>
  BY DEF Persist
<1>2. started \in Nat
  BY DEF FilesInv
<1>3. ASSUME NEW content \in {run, Torn}, Put(NameOf(run), content)
      PROVE  FilesInv' /\ WritingInv' /\ ReaderInv'
  <2>1. NameOf(run) \in Names /\ NameOf(run).at = run.at /\ NameOf(run).id = run.id
    BY NameIs DEF Own
  <2>2. content = Torn \/ RunFor(content, NameOf(run))
    BY <2>1 DEF RunFor
  <2>3. FilesInv'
    BY <1>1, <1>2, <1>3, <2>1, <2>2, PutFiles
  <2> QED BY <1>1, <1>3, <2>3, PutReader DEF WritingInv
<1>4. CASE UNCHANGED <<files, steady>>
  BY <1>1, <1>4 DEF FilesInv, WritingInv, ReaderInv
<1> QED BY <1>1, <1>3, <1>4

\* No recording has the id of a run.
LEMMA RecordedElsewhere ==
  ASSUME NEW run \in Range(Demo \o Recordings)
  PROVE  run.id \notin Own
BY StoreAssumption DEF Own

\* A read that begins owes every file that is whole.
LEMMA ReadAllReads ==
  ASSUME FilesInv, ReadAll
  PROVE  ReaderInv' /\ reader'.wanted = None /\ steady' = {n \in DOMAIN files : files[n] # Torn}
<1> DEFINE names == listRunFiles
           runs == IF names = <<>> THEN readBundledRuns ELSE <<>>
<1>1. /\ reader' = [wanted |-> None, names |-> names, todo |-> names, runs |-> runs]
      /\ steady' = {n \in DOMAIN files : files[n] # Torn}
      /\ files' = files
  BY DEF ReadAll
<1>2. names \in Seq(DOMAIN files) /\ Range(names) = DOMAIN files
  BY ListIs
<1>3. IsSeq(runs) /\ \A run \in Range(runs) : RunOk(run)
  BY BundledIs, EmptyIs
<1>4. steady' # {} => runs = << >>
  <2>1. names = << >> => DOMAIN files = {}
    BY <1>2, EmptyIs
  <2> QED BY <2>1, <1>1
<1> HIDE DEF names, runs
<1>5. /\ reader'.wanted = None /\ reader'.todo = names /\ reader'.runs = runs
      /\ DOMAIN reader' = {"wanted", "names", "todo", "runs"}
  BY <1>1
<1>6. steady' \subseteq DOMAIN files' /\ \A n \in steady' : files'[n] # Torn
  BY <1>1
<1>7. \A n \in steady' : n \in Range(reader'.todo)
  BY <1>1, <1>2, <1>5
<1>8. steady' # {} => \A run \in Range(reader'.runs) : run.id \in Own
  BY <1>4, <1>5, EmptyIs
<1> QED BY <1>1, <1>2, <1>3, <1>5, <1>6, <1>7, <1>8 DEF ReaderInv

\* So does one for an id, of the files with that id.
LEMMA GetRunReads ==
  ASSUME FilesInv, NEW id \in RunIds, GetRun(id)
  PROVE  ReaderInv'
<1> DEFINE names == IF isValidRunId(id) THEN listRunFiles ELSE <<>>
           first == FirstOf(WithId(readBundledRuns, id))
           runs == IF isValidRunId(id) /\ names = <<>> THEN first ELSE <<>>
           todo == Guessed(names, id) \o names
<1>1. /\ reader' = [wanted |-> id, names |-> names, todo |-> todo, runs |-> runs]
      /\ steady' = {n \in DOMAIN files : files[n] # Torn}
      /\ files' = files
  BY DEF GetRun
<1>2. names \in Seq(DOMAIN files) /\ (isValidRunId(id) => Range(names) = DOMAIN files)
  <2>1. << >> \in Seq(DOMAIN files)
    OBVIOUS
  <2> QED BY <2>1, ListIs
<1>3. todo \in Seq(DOMAIN files) /\ (isValidRunId(id) => Range(todo) = DOMAIN files)
  <2> HIDE DEF names
  <2>1. /\ Guessed(names, id) \in Seq(DOMAIN files)
        /\ Range(Guessed(names, id)) \subseteq Range(names)
    BY <1>2, GuessedIs
  <2>2. todo \in Seq(DOMAIN files) /\ Range(todo) = Range(Guessed(names, id)) \cup Range(names)
    BY <1>2, <2>1, RangeConcat
  <2> QED BY <1>2, <2>1, <2>2
<1>4. /\ IsSeq(first)
      /\ \A run \in Range(first) : RunOk(run) /\ run.id = id
  BY BundledIs, FirstIs
<1>5. IsSeq(runs) /\ \A run \in Range(runs) : RunOk(run) /\ run.id = id
  BY <1>4, EmptyIs
<1>6. steady' # {} => runs = << >>
  <2>1. isValidRunId(id) /\ names = << >> => DOMAIN files = {}
    BY <1>2, EmptyIs
  <2> QED BY <2>1, <1>1
<1> HIDE DEF names, runs, todo, first
<1>7. /\ reader'.wanted = id /\ reader'.todo = todo /\ reader'.runs = runs /\ id # None
      /\ DOMAIN reader' = {"wanted", "names", "todo", "runs"}
  BY <1>1, StoreAssumption
<1>8. steady' \subseteq DOMAIN files' /\ \A n \in steady' : files'[n] # Torn
  BY <1>1
<1>9. isValidRunId(id) => \A n \in steady' : n \in Range(reader'.todo)
  BY <1>1, <1>3, <1>7
<1>10. steady' # {} => \A run \in Range(reader'.runs) : run.id \in Own
  BY <1>6, <1>7, EmptyIs
<1>11. reader'.todo \in Seq(DOMAIN files')
  BY <1>1, <1>3, <1>7
<1> QED BY <1>5, <1>7, <1>8, <1>9, <1>10, <1>11 DEF ReaderInv

\* A file that is read is owed no more: it is served, or not whole.
LEMMA ReadFileReads ==
  ASSUME FilesInv, ReaderInv, ReadFile
  PROVE  ReaderInv' /\ reader'.wanted = reader.wanted /\ UNCHANGED <<files, writing, started, steady>>
<1> DEFINE name == Head(reader.todo)
           content == files[name]
           found == content # Torn /\ reader.wanted = content.id
           served == content # Torn /\ (found \/ reader.wanted = None)
           todo == IF found THEN <<>> ELSE Tail(reader.todo)
           runs == IF served THEN Append(reader.runs, content) ELSE reader.runs
<1>1. /\ reader # None /\ reader.todo # << >>
      /\ UNCHANGED <<files, writing, started, steady>>
      /\ reader' = [reader EXCEPT !.todo = todo, !.runs = runs]
  BY DEF ReadFile, Reading
<1>2. /\ reader.todo \in Seq(DOMAIN files)
      /\ IsSeq(reader.runs) /\ \A run \in Range(reader.runs) : RunOk(run)
  BY <1>1 DEF ReaderInv
<1>3. /\ name \in DOMAIN files /\ Tail(reader.todo) \in Seq(DOMAIN files)
      /\ Range(reader.todo) = {name} \cup Range(Tail(reader.todo))
  BY <1>1, <1>2, RangeTail
<1>4. content # Torn => content.id = name.id /\ name.id \in Own /\ RunOk(content)
  BY <1>3 DEF FilesInv, RunFor, Names
<1>5. todo \in Seq(DOMAIN files)
  <2>1. << >> \in Seq(DOMAIN files)
    OBVIOUS
  <2> QED BY <2>1, <1>3
<1>6. /\ IsSeq(runs)
      /\ Range(runs) = Range(reader.runs) \cup (IF served THEN {content} ELSE {})
  <2>1. IsSeq(Append(reader.runs, content)) /\ Range(Append(reader.runs, content)) = Range(reader.runs) \cup {content}
    BY <1>2, RangeAppend
  <2> QED BY <2>1, <1>2
<1>7. \A run \in Range(runs) : RunOk(run)
  BY <1>2, <1>4, <1>6
<1>8. found => Range(todo) = {} /\ runs # << >>
  <2>1. found => content \in Range(runs) /\ todo = << >>
    BY <1>6
  <2> HIDE DEF runs, todo, found
  <2> QED BY <2>1, EmptyIs
<1>9. ~found => Range(reader.todo) = {name} \cup Range(todo)
  BY <1>3
<1>10. runs = << >> => ~served /\ reader.runs = << >>
  <2>1. served => content \in Range(runs)
    BY <1>6
  <2>2. runs = << >> => ~served
    <3> HIDE DEF runs, served
    <3> QED BY <2>1, EmptyIs
  <2> QED BY <2>2
<1>11. steady \subseteq DOMAIN files /\ \A n \in steady : files[n] # Torn
  BY <1>1 DEF ReaderInv
<1>12. reader.wanted = None =>
          \A n \in steady : n \in Range(todo) \/ files[n] \in Range(runs)
  <2> SUFFICES ASSUME reader.wanted = None, NEW n \in steady
               PROVE  n \in Range(todo) \/ files[n] \in Range(runs)
    OBVIOUS
  <2>1. n \in Range(reader.todo) \/ files[n] \in Range(reader.runs)
    BY <1>1 DEF ReaderInv
  <2>2. CASE files[n] \in Range(reader.runs)
    BY <2>2, <1>6
  <2>3. CASE n = name
    <3>1. served
      BY <2>3, <1>11
    <3> QED BY <3>1, <2>3, <1>6
  <2>4. CASE n \in Range(reader.todo) /\ n # name
    <3>1. CASE found
      \* It was read before its turn only if it had been served: ids are runs' ids.
      <4>1. None \in Own
        BY <3>1, <1>4
      <4> QED BY <4>1, StoreAssumption DEF Own, RunIds
    <3>2. CASE ~found
      BY <3>2, <2>4, <1>9
    <3> QED BY <3>1, <3>2
  <2> QED BY <2>1, <2>2, <2>3, <2>4
<1>13. reader.wanted # None =>
          /\ \A run \in Range(runs) : run.id = reader.wanted
          /\ runs = <<>> /\ isValidRunId(reader.wanted) =>
                \A n \in steady : n.id = reader.wanted => n \in Range(todo)
  <2> SUFFICES ASSUME reader.wanted # None
               PROVE  /\ \A run \in Range(runs) : run.id = reader.wanted
                      /\ runs = <<>> /\ isValidRunId(reader.wanted) =>
                            \A n \in steady : n.id = reader.wanted => n \in Range(todo)
    OBVIOUS
  <2>1. \A run \in Range(reader.runs) : run.id = reader.wanted
    BY <1>1 DEF ReaderInv
  <2>2. \A run \in Range(runs) : run.id = reader.wanted
    BY <2>1, <1>6
  <2>3. ASSUME runs = <<>>, isValidRunId(reader.wanted), NEW n \in steady, n.id = reader.wanted
        PROVE  n \in Range(todo)
    <3>1. ~served /\ reader.runs = << >>
      BY <2>3, <1>10
    <3>2. n \in Range(reader.todo)
      BY <1>1, <2>3, <3>1 DEF ReaderInv
    <3>3. n # name
      BY <2>3, <3>1, <1>4, <1>11
    <3> QED BY <3>1, <3>2, <3>3, <1>9
  <2> QED BY <2>2, <2>3
<1>14. steady # {} => \A run \in Range(runs) : run.id \in Own
  <2>1. steady # {} => \A run \in Range(reader.runs) : run.id \in Own
    BY <1>1 DEF ReaderInv
  <2> QED BY <2>1, <1>4, <1>6
<1> HIDE DEF todo, runs, name, content, found, served
<1>15. /\ reader'.wanted = reader.wanted /\ reader'.todo = todo /\ reader'.runs = runs
       /\ DOMAIN reader' = {"wanted", "names", "todo", "runs"}
  BY <1>1 DEF ReaderInv
<1>16. reader.wanted \in {None} \cup RunIds
  BY <1>1 DEF ReaderInv
<1> QED BY <1>1, <1>5, <1>6, <1>7, <1>11, <1>12, <1>13, <1>14, <1>15, <1>16 DEF ReaderInv

-----------------------------------------------------------------------------
(* The scans and what they bought                                           *)
\* What a step may not do to a purchase.
Spared ==
    \A run :
        Bought(run, files, jobs, started) =>
            /\ Bought(run, files', jobs', started')
            /\ Saved(run)' => Saved(run)

LEMMA SparedWhole ==
  ASSUME FilesInv, UNCHANGED files, started' \in Nat, started <= started',
         \A run : Bought(run, files, jobs, started) =>
                     \A id \in DOMAIN jobs' : jobs'[id].at # run.at
  PROVE  Spared
<1> SUFFICES ASSUME NEW run, Bought(run, files, jobs, started)
             PROVE  Bought(run, files', jobs', started')
  BY DEF Spared, Saved
<1>1. run.at \in Nat /\ run.at < started /\ started \in Nat
  BY DEF Bought, FilesInv
<1>2. run.at < started'
  BY <1>1
<1> QED BY <1>2 DEF Bought

\* A write under another start spares the purchase.
LEMMA SparedPut ==
  ASSUME FilesInv, started' \in Nat, started <= started', NEW name, NEW content,
         Put(name, content),
         \A run : Bought(run, files, jobs, started) =>
                     /\ NameOf(run) # name
                     /\ \A id \in DOMAIN jobs' : jobs'[id].at # run.at
  PROVE  Spared
<1> SUFFICES ASSUME NEW run, Bought(run, files, jobs, started)
             PROVE  /\ Bought(run, files', jobs', started')
                    /\ Saved(run)' => Saved(run)
  BY DEF Spared
<1>1. run.at \in Nat /\ run.at < started /\ started \in Nat
  BY DEF Bought, FilesInv
<1>2. run.at < started'
  BY <1>1
<1>3. NameOf(run) # name /\ \A id \in DOMAIN jobs' : jobs'[id].at # run.at
  OBVIOUS
<1>4. /\ NameOf(run) \in DOMAIN files' => NameOf(run) \in DOMAIN files
      /\ NameOf(run) \in DOMAIN files => files'[NameOf(run)] = files[NameOf(run)]
  <2>1. /\ DOMAIN files' = DOMAIN files \cup {name}
        /\ \A n \in DOMAIN files : n # name => files'[n] = files[n]
    BY PutIs
  <2> QED BY <2>1, <1>3
<1> QED BY <1>2, <1>3, <1>4 DEF Bought, Saved

\* Nothing is begun or saved under the start of a scan that is at work.
LEMMA AgentSpares ==
  ASSUME FilesInv, WritingInv, JobsInv, AgentStep, UNCHANGED jobs
  PROVE  JobsInv' /\ Spared
<1>1. started \in Nat /\ started' \in Nat /\ started <= started'
  BY DEF FilesInv, AgentStep
<1>2. ASSUME NEW at, Given(at), NEW id \in DOMAIN jobs
      PROVE  at # jobs[id].at
  <2>1. jobs[id].at \in Nat /\ jobs[id].at < started
    BY <1>2 DEF JobsInv
  <2>2. jobs[id].at # started
    BY <2>1, <1>1
  <2> QED BY <1>2, <2>2 DEF Given, JobsInv
<1>3. JobsInv'
  <2>1. DOMAIN jobs' \subseteq WebRuns
    BY DEF JobsInv
  <2>2. ASSUME NEW id \in DOMAIN jobs'
        PROVE  /\ jobs'[id].at \in Nat /\ jobs'[id].at < started' /\ IsFiniteSet(jobs'[id].vaults)
               /\ \A n \in DOMAIN files' : n.at # jobs'[id].at
               /\ writing' # None => writing'.at # jobs'[id].at
               /\ \A other \in DOMAIN jobs' : jobs'[other].at = jobs'[id].at => other = id
    <3>1. id \in DOMAIN jobs /\ jobs' = jobs
      BY <2>2
    <3>2. /\ jobs[id].at \in Nat /\ jobs[id].at < started /\ IsFiniteSet(jobs[id].vaults)
          /\ \A n \in DOMAIN files : n.at # jobs[id].at
          /\ \A other \in DOMAIN jobs : jobs[other].at = jobs[id].at => other = id
      BY <3>1 DEF JobsInv
    <3>3. jobs[id].at < started'
      BY <3>2, <1>1
    <3>4. writing' # None => writing'.at # jobs[id].at
      BY <3>1, <1>2 DEF AgentStep
    <3>5. \A n \in DOMAIN files' : n.at # jobs[id].at
      <4>1. CASE UNCHANGED <<files, steady>>
        BY <4>1, <3>2
      <4>2. CASE \E name, content :
                    name \in Names /\ Put(name, content) /\ name.id \in Sessions /\ Given(name.at)
        <5>1. PICK name, content :
                    name \in Names /\ Put(name, content) /\ name.id \in Sessions /\ Given(name.at)
          BY <4>2
        <5>2. name.at # jobs[id].at
          BY <5>1, <3>1, <1>2
        <5>3. DOMAIN files' = DOMAIN files \cup {name}
          BY <5>1, PutIs
        <5> QED BY <5>2, <5>3, <3>2
      <4> QED BY <4>1, <4>2 DEF AgentStep
    <3> QED BY <3>1, <3>2, <3>3, <3>4, <3>5
  <2> QED BY <2>1, <2>2 DEF JobsInv
<1>4. Spared
  <2>1. \A run : Bought(run, files, jobs, started) =>
                    \A id \in DOMAIN jobs' : jobs'[id].at # run.at
    BY DEF Bought
  <2>2. CASE UNCHANGED <<files, steady>>
    BY <2>1, <2>2, <1>1, SparedWhole
  <2>3. CASE \E name, content :
                name \in Names /\ Put(name, content) /\ name.id \in Sessions /\ Given(name.at)
    <3>1. PICK name, content :
                name \in Names /\ Put(name, content) /\ name.id \in Sessions /\ Given(name.at)
      BY <2>3
    <3>2. ASSUME NEW run, Bought(run, files, jobs, started) PROVE NameOf(run) # name
      <4>1. NameOf(run).id \in WebRuns
        BY <3>2, NameIs DEF Bought, Own
      <4> QED BY <4>1, <3>1, StoreAssumption
    <3> QED BY <3>1, <3>2, <2>1, <1>1, SparedPut
  <2> QED BY <2>2, <2>3 DEF AgentStep
<1> QED BY <1>3, <1>4

LEMMA CopySpares ==
  ASSUME FilesInv, WritingInv, ReaderInv, JobsInv, UNCHANGED jobs,
         NEW name \in DOMAIN files, Copy(name)
  PROVE  JobsInv' /\ Spared
<1>1. PICK other, content : other \in Names /\ Put(other, content) /\ other.at = name.at /\ other.copy
  BY CopyKeeps
<1>2. UNCHANGED <<writing, started>>
  BY DEF Copy
<1>3. started \in Nat /\ started <= started
  BY DEF FilesInv
<1>4. DOMAIN files' = DOMAIN files \cup {other}
  BY <1>1, PutIs
<1>5. JobsInv'
  BY <1>1, <1>2, <1>4 DEF JobsInv
<1>6. \A run : Bought(run, files, jobs, started) => NameOf(run) # other
  BY <1>1 DEF NameOf
<1>7. \A run : Bought(run, files, jobs, started) =>
                  \A id \in DOMAIN jobs' : jobs'[id].at # run.at
  BY DEF Bought
<1>8. Spared
  BY <1>1, <1>2, <1>3, <1>6, <1>7, SparedPut
<1> QED BY <1>5, <1>8

-----------------------------------------------------------------------------
(* The form while others act                                                *)
\* A step that leaves the files and the scans alone spares every purchase.
LEMMA RestSpares ==
  ASSUME FilesInv, JobsInv, UNCHANGED <<files, writing, started, jobs>>
  PROVE  JobsInv' /\ Spared
<1>1. started \in Nat /\ started <= started
  BY DEF FilesInv
<1>2. \A run : Bought(run, files, jobs, started) =>
                  \A id \in DOMAIN jobs' : jobs'[id].at # run.at
  BY DEF Bought
<1>3. Spared
  BY <1>1, <1>2, SparedWhole
<1> QED BY <1>3 DEF JobsInv

-----------------------------------------------------------------------------
(* The form while others act                                                *)

atForm == <<page, text, busy, error, result, history, historyError, fetch, historyOf>>

LEMMA FormRests ==
  ASSUME FetchInv, HistoryInv, Spared, UNCHANGED atForm,
         page = "form" /\ reader' # None => reader # None /\ reader'.wanted = reader.wanted,
         \A run : /\ Bought(run, files, jobs, started) /\ reader' # None
                  /\ NameOf(run) \in steady
                  => NameOf(run) \in steady'
  PROVE  FetchInv' /\ HistoryInv'
<1>1. UNCHANGED <<page, text, busy, error, result, history, historyError, fetch, historyOf>>
  BY DEF atForm
<1>2. FetchInv'
  <2>1. ASSUME fetch # None, fetch.url = "scan", fetch.reply # None, fetch.reply.status = 200
        PROVE  Bought(fetch.reply.run, files', jobs', started')
    BY <2>1 DEF FetchInv, Spared
  <2> QED BY <1>1, <2>1 DEF FetchInv
<1>3. ASSUME result # None PROVE HistoryInv'
  <2>1. error = None /\ Bought(result, files, jobs, started) /\ page = "form"
    BY <1>3 DEF HistoryInv, FetchInv
  <2>2. /\ Bought(result, files', jobs', started')
        /\ Saved(result)' => Saved(result)
    BY <1>1, <2>1 DEF Spared, Saved
  <2>3. Saved(result)' /\ reader' # None => NameOf(result) \in steady'
    BY <1>3, <2>1, <2>2 DEF HistoryInv
  <2>4. ~running' => ~running
    BY <1>1 DEF running
  <2> QED BY <1>1, <1>3, <2>1, <2>2, <2>3, <2>4 DEF HistoryInv
<1>4. result = None => HistoryInv'
  BY <1>1 DEF HistoryInv
<1> QED BY <1>2, <1>3, <1>4

LEMMA StoreRests ==
  ASSUME AtStore, UNCHANGED <<storeVars, jobs>>
  PROVE  AtStore'
<1>1. UNCHANGED <<files, writing, started, reader, steady, jobs>>
  BY DEF storeVars
<1>2. FilesInv' /\ WritingInv' /\ ReaderInv' /\ JobsInv'
  BY <1>1 DEF AtStore, FilesInv, WritingInv, ReaderInv, JobsInv
<1> QED BY <1>2 DEF AtStore

-----------------------------------------------------------------------------
(* What the form does                                                       *)
\* What the form does by itself.
FormStep ==
    \/ \E lines \in Texts : Edit(lines)
    \/ onShowHistory
    \/ onScan
    \/ \E readable \in BOOLEAN : ScanReplied(readable) \/ HistoryReplied(readable)
    \/ \E status \in Refusals : ScanRefused(status)

LEMMA IdleForm ==
  ASSUME FetchInv, page = "form", ~running
  PROVE  fetch = None /\ reader = None
BY DEF FetchInv, running

\* A text edited meanwhile disturbs neither the purchase nor the history on the
\* page.
LEMMA EditKeeps ==
  ASSUME AtPage, page = "form", UNCHANGED page, NEW lines \in Texts, Edit(lines)
  PROVE  AtPage'
<1>1. /\ text' = lines
      /\ UNCHANGED <<busy, error, result, history, historyError, fetch, jobs, historyOf,
                     files, writing, started, reader, steady>>
  BY DEF Edit, storeVars
<1>2. text' \in Seq(DOMAIN Reads)
  BY <1>1, FormAssumption
<1>3. FetchInv'
  BY <1>1, <1>2 DEF AtPage, FetchInv
<1>4. HistoryInv'
  BY <1>1 DEF AtPage, HistoryInv, Saved, running
<1> QED BY <1>3, <1>4 DEF AtPage

LEMMA ShowKeeps ==
  ASSUME AtPage, page = "form", UNCHANGED page, onShowHistory
  PROVE  AtPage'
<1>1. /\ ~running /\ busy' = "history" /\ historyError' = FALSE
      /\ fetch' = [url |-> "runs", vaults |-> parsed.vaults, id |-> None, reply |-> None]
      /\ UNCHANGED <<text, error, result, history, jobs, historyOf,
                     files, writing, started, reader, steady>>
  BY DEF onShowHistory, loadHistory, storeVars
<1>2. reader = None /\ IsFiniteSet(parsed.vaults)
  BY <1>1, IdleForm, ParsedFinite DEF AtPage, FetchInv
<1>3. /\ fetch'.url = "runs" /\ fetch'.reply = None /\ fetch'.id = None
      /\ fetch'.vaults = parsed.vaults /\ DOMAIN fetch' = {"url", "vaults", "id", "reply"}
  BY <1>1
<1>4. FetchInv'
  BY <1>1, <1>2, <1>3 DEF AtPage, FetchInv
<1>5. HistoryInv'
  BY <1>1, <1>3 DEF AtPage, HistoryInv, Saved, running
<1> QED BY <1>4, <1>5 DEF AtPage

LEMMA ScanKeeps ==
  ASSUME AtPage, page = "form", UNCHANGED page, onScan
  PROVE  AtPage'
<1>1. /\ ~running /\ busy' = "scanning" /\ error' = None /\ result' = None
      /\ fetch' = [url |-> "scan", vaults |-> parsed.vaults, id |-> None, reply |-> None]
      /\ UNCHANGED <<text, reader>>
  BY DEF onScan, storeVars
<1>2. reader = None /\ IsFiniteSet(parsed.vaults)
  BY <1>1, IdleForm, ParsedFinite DEF AtPage, FetchInv
<1>3. /\ fetch'.url = "scan" /\ fetch'.reply = None /\ fetch'.id = None
      /\ fetch'.vaults = parsed.vaults /\ DOMAIN fetch' = {"url", "vaults", "id", "reply"}
  BY <1>1
<1>4. FetchInv'
  BY <1>1, <1>2, <1>3 DEF AtPage, FetchInv
<1>5. HistoryInv'
  BY <1>1 DEF HistoryInv
<1> QED BY <1>4, <1>5 DEF AtPage

LEMMA ScanRepliedKeeps ==
  ASSUME AtPage, page = "form", UNCHANGED page, NEW readable \in BOOLEAN, ScanReplied(readable)
  PROVE  AtPage'
<1>1. /\ fetch # None /\ fetch.url = "scan" /\ fetch.reply # None
      /\ UNCHANGED <<text, history, jobs, historyOf, files, writing, started, reader, steady>>
  BY DEF ScanReplied, Replied, storeVars
<1>2. reader = None /\ result = None /\ error = None /\ busy # "idle"
  BY <1>1 DEF AtPage, FetchInv
<1>3. CASE fetch.reply.status = 200
  <2>1. /\ result' = IF readable THEN fetch.reply.run ELSE None
        /\ historyError' = FALSE /\ UNCHANGED <<busy, error>>
        /\ fetch' = [url |-> "runs", vaults |-> parsed.vaults, id |-> None, reply |-> None]
    BY <1>3 DEF ScanReplied, loadHistory
  <2>2. /\ fetch'.url = "runs" /\ fetch'.reply = None /\ fetch'.id = None
        /\ fetch'.vaults = parsed.vaults /\ DOMAIN fetch' = {"url", "vaults", "id", "reply"}
    BY <2>1
  <2>3. IsFiniteSet(parsed.vaults)
    BY ParsedFinite DEF AtPage, FetchInv
  <2>4. FetchInv'
    BY <1>1, <1>2, <2>1, <2>2, <2>3 DEF AtPage, FetchInv
  <2>5. Bought(fetch.reply.run, files, jobs, started)
    BY <1>1, <1>3 DEF AtPage, FetchInv
  <2>6. result' # None => Bought(result', files', jobs', started')
    BY <1>1, <2>1, <2>5
  <2>7. HistoryInv'
    BY <1>1, <1>2, <2>1, <2>2, <2>6 DEF HistoryInv, running
  <2> QED BY <2>4, <2>7 DEF AtPage
<1>4. CASE fetch.reply.status # 200
  <2>1. /\ busy' = "idle" /\ fetch' = None /\ result' = None
    BY <1>2, <1>4 DEF ScanReplied
  <2>2. FetchInv'
    BY <1>1, <1>2, <2>1 DEF AtPage, FetchInv
  <2> QED BY <2>1, <2>2 DEF AtPage, HistoryInv
<1> QED BY <1>3, <1>4

LEMMA HistoryRepliedKeeps ==
  ASSUME AtPage, page = "form", UNCHANGED page, NEW readable \in BOOLEAN,
         HistoryReplied(readable)
  PROVE  AtPage'
<1>1. /\ fetch # None /\ fetch.url = "runs" /\ fetch.reply # None
      /\ history' = IF readable THEN fetch.reply.matches ELSE <<>>
      /\ historyOf' = IF readable THEN fetch.vaults ELSE {}
      /\ busy' = "idle" /\ fetch' = None
      /\ UNCHANGED <<text, error, result, historyError, jobs, files, writing, started,
                     reader, steady>>
  BY DEF HistoryReplied, Replied, storeVars
<1>2. reader = None
  BY <1>1 DEF AtPage, FetchInv
<1>3. FetchInv'
  BY <1>1, <1>2 DEF AtPage, FetchInv
<1>4. ASSUME result # None PROVE HistoryInv'
  <2>1. /\ error = None /\ Bought(result, files, jobs, started)
        /\ Saved(result) /\ vaultIdsIn(result) \cap fetch.vaults # {}
           => Shows(fetch.reply.matches, result, fetch.vaults)
    BY <1>1, <1>4 DEF AtPage, HistoryInv
  <2>2. CASE readable
    <3>1. history' = fetch.reply.matches /\ historyOf' = fetch.vaults
      BY <1>1, <2>2
    <3> QED BY <1>1, <1>2, <2>1, <3>1 DEF HistoryInv, Saved
  <2>3. CASE ~readable
    <3>1. historyOf' = {}
      BY <1>1, <2>3
    <3> QED BY <1>1, <1>2, <2>1, <3>1 DEF HistoryInv
  <2> QED BY <2>2, <2>3
<1>5. result = None => HistoryInv'
  BY <1>1 DEF HistoryInv
<1> QED BY <1>3, <1>4, <1>5 DEF AtPage

LEMMA RefusedKeeps ==
  ASSUME AtPage, page = "form", UNCHANGED page, NEW status \in Refusals, ScanRefused(status)
  PROVE  AtPage'
<1>1. /\ fetch # None /\ fetch.url = "scan"
      /\ fetch' = [fetch EXCEPT !.reply = [status |-> status]]
      /\ UNCHANGED <<text, busy, error, result, history, historyError, jobs, historyOf,
                     files, writing, started, reader, steady>>
  BY DEF ScanRefused, Arrived, storeVars
<1>2. /\ fetch'.url = "scan" /\ fetch'.reply.status = status
      /\ fetch'.vaults = fetch.vaults /\ DOMAIN fetch' = {"url", "vaults", "id", "reply"}
  BY <1>1 DEF AtPage, FetchInv
<1>3. status # 200
  BY FormAssumption
<1>4. reader = None /\ result = None
  BY <1>1 DEF AtPage, FetchInv
<1>5. FetchInv'
  BY <1>1, <1>2, <1>3, <1>4 DEF AtPage, FetchInv
<1> QED BY <1>1, <1>4, <1>5 DEF AtPage, HistoryInv

LEMMA FormKeeps ==
  ASSUME AtStore, AtPage, page = "form", UNCHANGED page, FormStep
  PROVE  AtStore' /\ AtPage'
<1>1. UNCHANGED <<storeVars, jobs>>
  BY DEF FormStep, Edit, onShowHistory, onScan, ScanReplied, HistoryReplied, ScanRefused
<1>2. AtStore'
  BY <1>1, StoreRests
<1>3. AtPage'
  BY EditKeeps, ShowKeeps, ScanKeeps, ScanRepliedKeeps, HistoryRepliedKeeps, RefusedKeeps DEF FormStep
<1> QED BY <1>2, <1>3

-----------------------------------------------------------------------------
(* The routes the form calls                                                *)
\* A connection that breaks loses the answer, and leaves the scan at work.
LEMMA LostKeeps ==
  ASSUME AtStore, AtPage, page = "form", UNCHANGED page, ConnectionLost
  PROVE  AtStore' /\ AtPage'
<1>1. /\ fetch # None /\ busy' = "idle" /\ fetch' = None /\ reader' = None
      /\ UNCHANGED <<text, result, history, jobs, historyOf, files, writing, started>>
      /\ fetch.url = "scan" \/ (historyError' = TRUE /\ error' = error)
  BY DEF ConnectionLost
<1>2. FilesInv' /\ WritingInv' /\ ReaderInv'
  BY <1>1 DEF AtStore, FilesInv, WritingInv, ReaderInv
<1>3. JobsInv' /\ Spared
  BY <1>1, RestSpares DEF AtStore
<1>4. FetchInv'
  BY <1>1 DEF AtPage, FetchInv
<1>5. ASSUME result # None PROVE HistoryInv'
  <2>1. historyError' = TRUE /\ error' = error
    BY <1>1, <1>5 DEF AtPage, FetchInv
  <2>2. error = None /\ Bought(result, files, jobs, started)
    BY <1>5 DEF AtPage, HistoryInv
  <2> QED BY <1>1, <2>1, <2>2 DEF HistoryInv
<1>6. result = None => HistoryInv'
  BY <1>1 DEF HistoryInv
<1> QED BY <1>2, <1>3, <1>4, <1>5, <1>6 DEF AtStore, AtPage

\* A scan takes a start nobody has.
LEMMA PaysKeeps ==
  ASSUME AtStore, AtPage, page = "form", UNCHANGED page, NEW id \in WebRuns, Pays(id)
  PROVE  AtStore' /\ AtPage'
<1>1. /\ fetch # None /\ fetch.url = "scan" /\ fetch.reply = None
      /\ jobs' = [j \in DOMAIN jobs \cup {id} |->
                     IF j = id THEN [at |-> started, vaults |-> fetch.vaults] ELSE jobs[j]]
      /\ id \notin DOMAIN jobs
      /\ started' = started + 1
      /\ fetch' = [fetch EXCEPT !.id = id]
      /\ UNCHANGED <<text, busy, error, result, history, historyError, historyOf,
                     files, writing, reader, steady>>
  BY DEF Pays, Arrived
<1>2. started \in Nat /\ started' \in Nat /\ started < started'
  BY <1>1 DEF AtStore, FilesInv
<1>3. /\ DOMAIN jobs' = DOMAIN jobs \cup {id}
      /\ jobs'[id].at = started /\ jobs'[id].vaults = fetch.vaults
      /\ \A j \in DOMAIN jobs : jobs'[j] = jobs[j]
  BY <1>1
<1>4. FilesInv'
  <2> SUFFICES \A n \in DOMAIN files : n.at < started'
    BY <1>1, <1>2 DEF AtStore, FilesInv
  <2>1. \A n \in DOMAIN files : n.at \in Nat /\ n.at < started
    BY DEF AtStore, FilesInv, Names
  <2> QED BY <2>1, <1>2
<1>5. WritingInv' /\ ReaderInv'
  <2>1. ReaderInv'
    BY <1>1 DEF AtStore, ReaderInv
  <2>2. writing # None => writing.at < started'
    BY <1>2 DEF AtStore, WritingInv
  <2> QED BY <2>1, <2>2, <1>1 DEF AtStore, WritingInv
<1>6. JobsInv'
  <2>1. DOMAIN jobs' \subseteq WebRuns
    BY <1>3 DEF AtStore, JobsInv
  <2>2. \A j \in DOMAIN jobs : jobs[j].at \in Nat /\ jobs[j].at < started
    BY DEF AtStore, JobsInv
  <2>3. \A j \in DOMAIN jobs : jobs[j].at < started' /\ jobs[j].at # started
    BY <2>2, <1>2
  <2>4. \A n \in DOMAIN files : n.at # started
    <3>1. \A n \in DOMAIN files : n.at \in Nat /\ n.at < started
      BY DEF AtStore, FilesInv, Names
    <3> QED BY <3>1, <1>2
  <2>5. writing # None => writing.at # started
    <3>1. writing # None => writing.at \in Nat /\ writing.at < started
      BY DEF AtStore, WritingInv
    <3> QED BY <3>1, <1>2
  <2>6. IsFiniteSet(fetch.vaults)
    BY <1>1 DEF AtPage, FetchInv
  <2>7. ASSUME NEW j \in DOMAIN jobs'
        PROVE  /\ jobs'[j].at \in Nat /\ jobs'[j].at < started' /\ IsFiniteSet(jobs'[j].vaults)
               /\ \A n \in DOMAIN files' : n.at # jobs'[j].at
               /\ writing' # None => writing'.at # jobs'[j].at
               /\ \A other \in DOMAIN jobs' : jobs'[other].at = jobs'[j].at => other = j
    <3>1. CASE j = id
      <4>1. \A other \in DOMAIN jobs' : jobs'[other].at = started => other = id
        BY <1>3, <2>3
      <4> QED BY <3>1, <4>1, <1>1, <1>2, <1>3, <2>4, <2>5, <2>6
    <3>2. CASE j # id
      <4>1. j \in DOMAIN jobs /\ jobs'[j] = jobs[j]
        BY <3>2, <2>7, <1>3
      <4>2. /\ jobs[j].at \in Nat /\ IsFiniteSet(jobs[j].vaults)
            /\ \A n \in DOMAIN files : n.at # jobs[j].at
            /\ writing # None => writing.at # jobs[j].at
            /\ \A other \in DOMAIN jobs : jobs[other].at = jobs[j].at => other = j
        BY <4>1 DEF AtStore, JobsInv
      <4>3. jobs[j].at < started' /\ jobs[j].at # started
        BY <4>1, <2>3
      <4>4. \A other \in DOMAIN jobs' : jobs'[other].at = jobs[j].at => other = j
        BY <4>2, <4>3, <1>3
      <4> QED BY <4>1, <4>2, <4>3, <4>4, <1>1
    <3> QED BY <3>1, <3>2
  <2> QED BY <2>1, <2>7 DEF JobsInv
<1>7. result = None /\ error = None /\ reader = None
  BY <1>1 DEF AtPage, FetchInv
<1>8. /\ fetch'.url = "scan" /\ fetch'.reply = None
      /\ fetch'.vaults = fetch.vaults /\ DOMAIN fetch' = {"url", "vaults", "id", "reply"}
  BY <1>1 DEF AtPage, FetchInv
<1>9. FetchInv'
  BY <1>1, <1>7, <1>8 DEF AtPage, FetchInv
<1> QED BY <1>1, <1>4, <1>5, <1>6, <1>7, <1>9 DEF AtStore, AtPage, HistoryInv

\* A scan that ends takes the start of its run with it.
LEMMA EndsKeeps ==
  ASSUME AtStore, AtPage, page = "form", UNCHANGED page,
         NEW id \in DOMAIN jobs, NEW run, NEW reply, Ends(id, run, reply),
         run.id = id, run.at = jobs[id].at, RunOk(run), run # Torn,
         reply.status = 200 => reply.run = run
  PROVE  AtStore' /\ AtPage'
<1>1. /\ Persist(run)
      /\ jobs' = [j \in DOMAIN jobs \ {id} |-> jobs[j]]
      /\ fetch' = IF fetch # None /\ fetch.id = id THEN [fetch EXCEPT !.reply = reply] ELSE fetch
      /\ UNCHANGED <<text, busy, error, result, history, historyError, historyOf>>
  BY DEF Ends
<1>2. /\ run.id \in WebRuns /\ run.at \in Nat /\ run.at < started
      /\ \A n \in DOMAIN files : n.at # run.at
      /\ writing # None => writing.at # run.at
      /\ \A j \in DOMAIN jobs : jobs[j].at = run.at => j = id
  BY DEF AtStore, JobsInv
<1>3. /\ FilesInv' /\ WritingInv' /\ ReaderInv'
      /\ UNCHANGED <<writing, started, reader>>
      /\ \/ \E content \in {run, Torn} : Put(NameOf(run), content)
         \/ UNCHANGED <<files, steady>>
  BY <1>1, <1>2, PersistKeeps DEF AtStore
<1>4. /\ DOMAIN jobs' = DOMAIN jobs \ {id}
      /\ \A j \in DOMAIN jobs' : jobs'[j] = jobs[j]
  BY <1>1
<1>5. NameOf(run) \in Names /\ NameOf(run).at = run.at
  BY <1>2, NameIs DEF Own
<1>6. \A j \in DOMAIN jobs' : jobs'[j].at # run.at
  BY <1>2, <1>4
<1>7. \A n \in DOMAIN files' : n \in DOMAIN files \/ n = NameOf(run)
  <2>1. CASE \E content \in {run, Torn} : Put(NameOf(run), content)
    BY <2>1, PutIs
  <2>2. CASE UNCHANGED <<files, steady>>
    BY <2>2
  <2> QED BY <2>1, <2>2, <1>3
<1>8. JobsInv'
  <2>1. DOMAIN jobs' \subseteq WebRuns
    BY <1>4 DEF AtStore, JobsInv
  <2>2. ASSUME NEW j \in DOMAIN jobs'
        PROVE  /\ jobs'[j].at \in Nat /\ jobs'[j].at < started' /\ IsFiniteSet(jobs'[j].vaults)
               /\ \A n \in DOMAIN files' : n.at # jobs'[j].at
               /\ writing' # None => writing'.at # jobs'[j].at
               /\ \A other \in DOMAIN jobs' : jobs'[other].at = jobs'[j].at => other = j
    <3>1. j \in DOMAIN jobs /\ jobs'[j] = jobs[j] /\ jobs[j].at # run.at
      BY <1>4, <1>6
    <3>2. /\ jobs[j].at \in Nat /\ jobs[j].at < started /\ IsFiniteSet(jobs[j].vaults)
          /\ \A n \in DOMAIN files : n.at # jobs[j].at
          /\ writing # None => writing.at # jobs[j].at
          /\ \A other \in DOMAIN jobs : jobs[other].at = jobs[j].at => other = j
      BY <3>1 DEF AtStore, JobsInv
    <3>3. \A n \in DOMAIN files' : n.at # jobs[j].at
      BY <3>1, <3>2, <1>5, <1>7
    <3>4. \A other \in DOMAIN jobs' : jobs'[other].at = jobs[j].at => other = j
      BY <3>2, <1>4
    <3> QED BY <3>1, <3>2, <3>3, <3>4, <1>3
  <2> QED BY <2>1, <2>2 DEF JobsInv
<1>9. started \in Nat /\ started <= started
  BY DEF AtStore, FilesInv
<1>10. \A other : Bought(other, files, jobs, started) =>
                    /\ NameOf(other) # NameOf(run)
                    /\ \A j \in DOMAIN jobs' : jobs'[j].at # other.at
  <2> SUFFICES ASSUME NEW other, Bought(other, files, jobs, started)
               PROVE  /\ NameOf(other) # NameOf(run)
                      /\ \A j \in DOMAIN jobs' : jobs'[j].at # other.at
    OBVIOUS
  <2>1. other.at # run.at /\ \A j \in DOMAIN jobs : jobs[j].at # other.at
    BY DEF Bought
  <2>2. NameOf(other).at = other.at
    BY DEF NameOf
  <2> QED BY <2>1, <2>2, <1>4, <1>5
<1>11. Spared
  <2>1. CASE \E content \in {run, Torn} : Put(NameOf(run), content)
    BY <2>1, <1>3, <1>9, <1>10, SparedPut DEF AtStore
  <2>2. CASE UNCHANGED <<files, steady>>
    BY <2>2, <1>3, <1>9, <1>10, SparedWhole DEF AtStore
  <2> QED BY <2>1, <2>2, <1>3
<1>12. Bought(run, files', jobs', started')
  <2>1. NameOf(run) \in DOMAIN files' => files'[NameOf(run)] \in {run, Torn}
    <3>1. CASE \E content \in {run, Torn} : Put(NameOf(run), content)
      BY <3>1, PutIs
    <3>2. CASE UNCHANGED <<files, steady>>
      BY <3>2, <1>2, <1>5
    <3> QED BY <3>1, <3>2, <1>3
  <2> QED BY <2>1, <1>2, <1>3, <1>6 DEF Bought
<1>13. \A other : /\ Bought(other, files, jobs, started) /\ reader' # None
                  /\ NameOf(other) \in steady
                  => NameOf(other) \in steady'
  <2>1. CASE \E content \in {run, Torn} : Put(NameOf(run), content)
    <3>1. steady' = steady \ {NameOf(run)}
      BY <2>1, PutIs
    <3> QED BY <3>1, <1>10
  <2>2. CASE UNCHANGED <<files, steady>>
    BY <2>2
  <2> QED BY <2>1, <2>2, <1>3
<1>14. FetchInv' /\ HistoryInv'
  <2>1. CASE fetch # None /\ fetch.id = id
    <3>1. fetch' = [fetch EXCEPT !.reply = reply]
      BY <2>1, <1>1
    <3>2. fetch.url = "scan" /\ result = None /\ error = None /\ reader = None
      <4>1. id # None
        BY <1>2, StoreAssumption DEF RunIds
      <4> QED BY <2>1, <4>1 DEF AtPage, FetchInv
    <3>3. /\ fetch'.url = "scan" /\ fetch'.reply = reply
          /\ fetch'.vaults = fetch.vaults /\ DOMAIN fetch' = {"url", "vaults", "id", "reply"}
      BY <3>1, <3>2, <2>1 DEF AtPage, FetchInv
    <3>4. fetch'.reply.status = 200 => Bought(fetch'.reply.run, files', jobs', started')
      BY <3>3, <1>12
    <3>5. FetchInv'
      BY <2>1, <3>2, <3>3, <3>4, <1>1, <1>3 DEF AtPage, FetchInv
    <3> QED BY <3>2, <3>5, <1>1 DEF HistoryInv
  <2>2. CASE ~(fetch # None /\ fetch.id = id)
    <3>1. UNCHANGED atForm
      BY <2>2, <1>1 DEF atForm
    <3> QED BY <3>1, <1>3, <1>11, <1>13, FormRests DEF AtPage
  <2> QED BY <2>1, <2>2
<1> QED BY <1>3, <1>8, <1>14 DEF AtStore, AtPage

LEMMA VerifiesKeeps ==
  ASSUME AtStore, AtPage, page = "form", UNCHANGED page,
         NEW id \in WebRuns, NEW answer \in Answers, ScanVerifies(id, answer)
  PROVE  AtStore' /\ AtPage'
<1> DEFINE run == Run(id, jobs[id].at, <<answer>>)
           reply == [status |-> 200, run |-> run]
<1>1. id \in DOMAIN jobs /\ Ends(id, run, reply)
  BY DEF ScanVerifies
<1>2. jobs[id].at \in Nat
  BY <1>1 DEF AtStore, JobsInv
<1>3. RunOk(run)
  <2>1. IsSeq(<<answer>>) /\ Range(<<answer>>) = {answer}
    BY SingleIs
  <2>2. AnswerOk(answer)
    BY StoreAssumption
  <2> QED BY <1>2, <2>1, <2>2, RunOkRun
<1>4. run # Torn
  BY DEF Run, Torn
<1>5. run.id = id /\ run.at = jobs[id].at
  BY RunFields
<1> HIDE DEF run
<1>6. reply.run = run
  OBVIOUS
<1> HIDE DEF reply
<1> QED BY <1>1, <1>3, <1>4, <1>5, <1>6, EndsKeeps

LEMMA ThrowsKeeps ==
  ASSUME AtStore, AtPage, page = "form", UNCHANGED page, NEW id \in WebRuns, ScanThrows(id)
  PROVE  AtStore' /\ AtPage'
<1> DEFINE run == FailedRun(id, jobs[id].at, jobs[id].vaults)
           reply == [status |-> 502]
<1>1. id \in DOMAIN jobs /\ Ends(id, run, reply)
  BY DEF ScanThrows
<1>2. jobs[id].at \in Nat /\ IsFiniteSet(jobs[id].vaults)
  BY <1>1 DEF AtStore, JobsInv
<1>3. RunOk(run)
  BY <1>2, RunOkFailed
<1>4. run # Torn
  BY DEF FailedRun, Torn
<1>5. run.id = id /\ run.at = jobs[id].at
  BY RunFields
<1> HIDE DEF run
<1>6. reply.status # 200
  OBVIOUS
<1> HIDE DEF reply
<1> QED BY <1>1, <1>3, <1>4, <1>5, <1>6, EndsKeeps

LEMMA ReadsHistoryKeeps ==
  ASSUME AtStore, AtPage, page = "form", UNCHANGED page, ReadsHistory
  PROVE  AtStore' /\ AtPage'
<1>1. /\ fetch # None /\ fetch.url = "runs" /\ fetch.reply = None /\ ReadAll
      /\ UNCHANGED <<text, busy, error, result, history, historyError, fetch, jobs, historyOf>>
  BY DEF ReadsHistory, formVars
<1>2. UNCHANGED <<files, writing, started>>
  BY <1>1 DEF ReadAll
<1>3. ReaderInv' /\ reader'.wanted = None /\ steady' = {n \in DOMAIN files : files[n] # Torn}
  BY <1>1, ReadAllReads DEF AtStore
<1>4. FilesInv' /\ WritingInv'
  BY <1>2 DEF AtStore, FilesInv, WritingInv
<1>5. JobsInv' /\ Spared
  BY <1>1, <1>2, RestSpares DEF AtStore
<1>6. FetchInv'
  BY <1>1, <1>2, <1>3 DEF AtPage, FetchInv
<1>7. ASSUME result # None PROVE HistoryInv'
  <2>1. Bought(result, files, jobs, started)
    BY <1>7 DEF AtPage, HistoryInv
  <2>2. Saved(result) => NameOf(result) \in steady'
    BY <1>3 DEF Saved
  <2> QED BY <2>2, <1>1, <1>2, <1>7 DEF AtPage, HistoryInv, Saved, running
<1>8. result = None => HistoryInv'
  BY <1>1 DEF HistoryInv
<1> QED BY <1>3, <1>4, <1>5, <1>6, <1>7, <1>8 DEF AtStore, AtPage

\* The history that answers has the purchase, if it was saved.
LEMMA AnswersHistoryKeeps ==
  ASSUME AtStore, AtPage, page = "form", UNCHANGED page, AnswersHistory
  PROVE  AtStore' /\ AtPage'
<1> DEFINE matches == findRunsForVaults(reader.runs, fetch.vaults)
<1>1. /\ reader # None /\ reader.todo = << >> /\ reader' = None
      /\ fetch' = [fetch EXCEPT !.reply = [status |-> 200, matches |-> matches]]
      /\ UNCHANGED <<text, busy, error, result, history, historyError, jobs, historyOf,
                     files, writing, started>>
  BY DEF AnswersHistory, Reply, Answered
<1>2. fetch # None /\ fetch.url = "runs" /\ reader.wanted = None
  BY <1>1 DEF AtPage, FetchInv
<1>3. /\ fetch'.url = "runs" /\ fetch'.reply.matches = matches /\ fetch'.id = fetch.id
      /\ fetch'.vaults = fetch.vaults /\ DOMAIN fetch' = {"url", "vaults", "id", "reply"}
  BY <1>1, <1>2 DEF AtPage, FetchInv
<1>4. FilesInv' /\ WritingInv' /\ ReaderInv'
  BY <1>1 DEF AtStore, FilesInv, WritingInv, ReaderInv
<1>5. JobsInv' /\ Spared
  BY <1>1, RestSpares DEF AtStore
<1>6. FetchInv'
  BY <1>1, <1>2, <1>3 DEF AtPage, FetchInv
<1>7. ASSUME result # None PROVE HistoryInv'
  <2>1. error = None /\ Bought(result, files, jobs, started) /\ busy # "idle"
    BY <1>2, <1>7 DEF AtPage, HistoryInv, FetchInv
  <2>2. ASSUME Saved(result), vaultIdsIn(result) \cap fetch.vaults # {}
        PROVE  Shows(matches, result, fetch.vaults)
    <3>1. NameOf(result) \in steady /\ files[NameOf(result)] = result
      BY <2>1, <2>2, <1>1, <1>7 DEF AtPage, HistoryInv, Bought, Saved
    <3>2. /\ IsSeq(reader.runs) /\ \A r \in Range(reader.runs) : RunOk(r)
          /\ NameOf(result) \in Range(reader.todo) \/ result \in Range(reader.runs)
      BY <3>1, <1>1, <1>2 DEF AtStore, ReaderInv
    <3>3. result \in Range(reader.runs)
      BY <3>2, <1>1, EmptyIs
    <3> QED BY <3>2, <3>3, <2>2, ShowsRead
  <2> HIDE DEF matches
  <2>3. running'
    BY <2>1, <1>1 DEF running
  <2> QED BY <2>1, <2>2, <2>3, <1>1, <1>3, <1>7 DEF HistoryInv, Saved
<1>8. result = None => HistoryInv'
  BY <1>1 DEF HistoryInv
<1> QED BY <1>4, <1>5, <1>6, <1>7, <1>8 DEF AtStore, AtPage

-----------------------------------------------------------------------------
(* The pages together                                                       *)
LEMMA PagesInitInv == PagesInit => AtStore /\ AtPage
<1> SUFFICES ASSUME PagesInit PROVE AtStore /\ AtPage
  OBVIOUS
<1>1. /\ files = << >> /\ writing = None /\ started = 0 /\ reader = None /\ steady = {}
      /\ text = <<>> /\ result = None /\ fetch = None /\ jobs = << >>
  BY DEF PagesInit, StoreInit, FormInit
<1>2. DOMAIN files = {} /\ DOMAIN jobs = {} /\ IsFiniteSet({}) /\ text \in Seq(DOMAIN Reads)
  BY <1>1, FS_EmptySet
<1>3. FilesInv /\ WritingInv /\ ReaderInv /\ JobsInv
  BY <1>1, <1>2 DEF FilesInv, WritingInv, ReaderInv, JobsInv
<1>4. FetchInv /\ HistoryInv
  BY <1>1, <1>2 DEF FetchInv, HistoryInv
<1> QED BY <1>3, <1>4 DEF AtStore, AtPage

\* The pages of runs.
LEMMA RunsKeeps ==
  ASSUME AtStore, AtPage, Runs
  PROVE  AtStore' /\ AtPage'
<1>1. page = "runs" /\ fetch = None /\ result = None
  BY DEF Runs, AtPage, FetchInv
<1>2. UNCHANGED <<page, text, busy, error, result, history, historyError, fetch, jobs, historyOf>>
  BY DEF Runs, formVars
<1>3. AtPage'
  <2>1. FetchInv'
    BY <1>1, <1>2 DEF AtPage, FetchInv
  <2> QED BY <2>1, <1>1, <1>2 DEF AtPage, HistoryInv
<1>4. CASE AgentWrites(Beside.runs)
  <2>1. FilesInv' /\ WritingInv' /\ ReaderInv' /\ AgentStep
    BY <1>4, AgentKeeps, PagesAssumption DEF AtStore
  <2>2. JobsInv'
    BY <2>1, <1>2, AgentSpares DEF AtStore
  <2> QED BY <2>1, <2>2, <1>3 DEF AtStore
<1>5. CASE \E name \in DOMAIN files : Copy(name)
  <2>1. PICK name \in DOMAIN files : Copy(name)
    BY <1>5
  <2>2. FilesInv' /\ WritingInv' /\ ReaderInv'
    BY <2>1, CopyKeeps DEF AtStore
  <2>3. JobsInv'
    BY <2>1, <1>2, CopySpares DEF AtStore
  <2> QED BY <2>2, <2>3, <1>3 DEF AtStore
<1>6. CASE Visit \/ ReadFile
  <2>1. UNCHANGED <<files, writing, started>>
    BY <1>6 DEF Visit, ReadAll, GetRun, Reply, ReadFile
  <2>2. ReaderInv'
    <3>1. CASE ReadAll
      BY <3>1, ReadAllReads DEF AtStore
    <3>2. CASE \E id \in RunIds : GetRun(id)
      BY <3>2, GetRunReads DEF AtStore
    <3>3. CASE Reply
      BY <3>3 DEF Reply, ReaderInv
    <3>4. CASE ReadFile
      BY <3>4, ReadFileReads DEF AtStore
    <3> QED BY <3>1, <3>2, <3>3, <3>4, <1>6 DEF Visit
  <2>3. FilesInv' /\ WritingInv' /\ JobsInv'
    BY <2>1, <1>2 DEF AtStore, FilesInv, WritingInv, JobsInv
  <2> QED BY <2>2, <2>3, <1>3 DEF AtStore
<1> QED BY <1>4, <1>5, <1>6 DEF Runs

\* The agent and the reader beside the form.
LEMMA BesideFormKeeps ==
  ASSUME AtStore, AtPage, page = "form", UNCHANGED <<page, formVars>>,
         AgentWrites(Beside.form) \/ ReadFile
  PROVE  AtStore' /\ AtPage'
<1>1. UNCHANGED atForm /\ UNCHANGED jobs
  BY DEF atForm, formVars
<1>2. CASE AgentWrites(Beside.form)
  <2>1. FilesInv' /\ WritingInv' /\ ReaderInv' /\ AgentStep
    BY <1>2, AgentKeeps, PagesAssumption DEF AtStore
  <2>2. JobsInv' /\ Spared
    BY <2>1, <1>1, AgentSpares DEF AtStore
  <2>3. reader' = reader
    BY <2>1 DEF AgentStep
  <2>4. ASSUME NEW run, Bought(run, files, jobs, started), NameOf(run) \in steady
        PROVE  NameOf(run) \in steady'
    <3>1. CASE UNCHANGED <<files, steady>>
      BY <3>1, <2>4
    <3>2. CASE \E name, content :
                  name \in Names /\ Put(name, content) /\ name.id \in Sessions /\ Given(name.at)
      <4>1. PICK name, content : name \in Names /\ Put(name, content) /\ name.id \in Sessions
        BY <3>2
      <4>2. steady' = steady \ {name}
        BY <4>1, PutIs
      <4>3. NameOf(run).id \in WebRuns
        BY <2>4, NameIs DEF Bought, Own
      <4>4. NameOf(run) # name
        BY <4>1, <4>3, StoreAssumption
      <4> QED BY <4>2, <4>4, <2>4
    <3> QED BY <3>1, <3>2, <2>1 DEF AgentStep
  <2>5. FetchInv' /\ HistoryInv'
    BY <2>2, <2>3, <2>4, <1>1, FormRests DEF AtPage
  <2> QED BY <2>1, <2>2, <2>5 DEF AtStore, AtPage
<1>3. CASE ReadFile
  <2>1. ReaderInv' /\ reader'.wanted = reader.wanted /\ UNCHANGED <<files, writing, started, steady>>
    BY <1>3, ReadFileReads DEF AtStore
  <2>2. reader # None
    BY <1>3 DEF ReadFile, Reading
  <2>3. FilesInv' /\ WritingInv'
    BY <2>1 DEF AtStore, FilesInv, WritingInv
  <2>4. JobsInv' /\ Spared
    BY <2>1, <1>1, RestSpares DEF AtStore
  <2>5. FetchInv' /\ HistoryInv'
    BY <2>1, <2>2, <2>4, <1>1, FormRests DEF AtPage
  <2> QED BY <2>1, <2>3, <2>4, <2>5 DEF AtStore, AtPage
<1> QED BY <1>2, <1>3

LEMMA PagesStep ==
  ASSUME AtStore, AtPage, [PagesNext]_pagesVars
  PROVE  AtStore' /\ AtPage'
<1>1. CASE Runs
  BY <1>1, RunsKeeps
<1>2. CASE Form
  <2>1. page = "form" /\ UNCHANGED page
    BY <1>2 DEF Form
  <2>2. CASE (AgentWrites(Beside.form) \/ ReadFile) /\ UNCHANGED formVars
    BY <2>1, <2>2, BesideFormKeeps
  <2>3. CASE FormNext
    BY <2>1, <2>3, FormKeeps, LostKeeps, PaysKeeps, VerifiesKeeps, ThrowsKeeps,
       ReadsHistoryKeeps, AnswersHistoryKeeps DEF FormNext, FormStep
  <2> QED BY <1>2, <2>2, <2>3 DEF Form
<1>3. CASE Verify \/ UNCHANGED pagesVars
  <2>1. UNCHANGED <<page, storeVars, formVars>>
    BY <1>3 DEF Verify, pagesVars
  <2>2. UNCHANGED <<page, text, busy, error, result, history, historyError, fetch, jobs, historyOf,
                    files, writing, started, reader, steady>>
    BY <2>1 DEF storeVars, formVars
  <2>3. AtStore'
    BY <2>2, StoreRests DEF storeVars
  <2>4. AtPage'
    BY <2>2 DEF AtPage, FetchInv, HistoryInv, Saved, running
  <2> QED BY <2>3, <2>4
<1> QED BY <1>1, <1>2, <1>3 DEF PagesNext

\* Every reachable state of the pages, whichever is open.
THEOREM PagesCorrect == PagesSpec => [](AtStore /\ AtPage)
<1>1. AtStore /\ AtPage /\ [PagesNext]_pagesVars => (AtStore /\ AtPage)'
  BY PagesStep
<1> QED BY PagesInitInv, <1>1, PTL DEF PagesSpec

-----------------------------------------------------------------------------
(* What a read serves, and what the form shows of a purchase                *)
\* An answer is what was owed, once nothing is owed.
LEMMA ServedKept ==
  ASSUME AtStore
  PROVE  KeptRunsAreServed
<1> SUFFICES ASSUME Answered PROVE KeptRunsAreServed
  BY DEF KeptRunsAreServed
<1>1. /\ reader # None /\ reader.todo = << >> /\ Range(reader.todo) = {}
      /\ IsSeq(reader.runs)
  BY EmptyIs DEF Answered, AtStore, ReaderInv
<1>2. \A n \in steady : n \in DOMAIN files /\ RunFor(files[n], n)
  BY <1>1 DEF AtStore, ReaderInv, FilesInv
<1>3. ASSUME reader.wanted = None, NEW n \in steady
      PROVE  /\ files[n] \in Range(reader.runs)
             /\ \E row \in Range(listRuns(reader.runs)) :
                   row.id = n.id /\ row.requests = Len(files[n].requests)
  <2>1. files[n] \in Range(reader.runs)
    BY <1>1, <1>3 DEF AtStore, ReaderInv
  <2>2. PICK i \in DOMAIN reader.runs : reader.runs[i] = files[n]
    BY <2>1 DEF Range
  <2>3. i \in DOMAIN listRuns(reader.runs)
    BY DEF listRuns
  <2>4. /\ listRuns(reader.runs)[i].id = files[n].id
        /\ listRuns(reader.runs)[i].requests = Len(files[n].requests)
    BY <2>2 DEF listRuns
  <2>5. listRuns(reader.runs)[i] \in Range(listRuns(reader.runs))
    BY <2>3 DEF Range
  <2> QED BY <2>1, <2>4, <2>5, <1>2 DEF RunFor
<1>4. ASSUME reader.wanted # None
      PROVE  /\ \A run \in Range(reader.runs) : run.id = reader.wanted
             /\ Range(reader.runs) = {} /\ isValidRunId(reader.wanted) =>
                    \A n \in steady : n.id # reader.wanted
  <2>1. Range(reader.runs) = {} => reader.runs = << >>
    <3>1. Range(reader.runs) = {} => reader.runs \in Seq({})
      BY <1>1 DEF IsSeq
    <3> QED BY <3>1
  <2> QED BY <2>1, <1>1, <1>4 DEF AtStore, ReaderInv
<1>5. steady # {} => Range(reader.runs) \cap Range(Demo \o Recordings) = {}
  BY <1>1, RecordedElsewhere DEF AtStore, ReaderInv
<1> QED BY <1>3, <1>4, <1>5 DEF KeptRunsAreServed

\* The history on the page has the purchase on the page.
LEMMA ShownInHistory ==
  ASSUME AtPage
  PROVE  PurchaseInHistory
<1> SUFFICES ASSUME Page.purchase # None PROVE PurchaseInHistory
  BY DEF PurchaseInHistory
<1>1. /\ Page.working = running /\ Page.error = error
      /\ Page.purchase = (IF result = None THEN None ELSE Result(result))
      /\ Page.history = (IF history = None /\ ~historyError THEN None ELSE History)
  BY DEF Page
<1>2. result # None
  BY <1>1
<1>3. error = None
  BY <1>2 DEF AtPage, HistoryInv
<1>4. ASSUME ~Page.working, Page.history # None, ~Page.history.error,
             Saved(result), vaultIdsIn(result) \cap historyOf # {}
      PROVE  \E i \in DOMAIN Page.history.rows :
                findRunsForVaults(<<result>>, historyOf) = <<Page.history.rows[i]>>
  <2>1. Page.history = History
    BY <1>1, <1>4
  <2>2. /\ History.error = historyError
        /\ History.rows = (IF history = None THEN <<>> ELSE history)
    BY DEF History
  <2>3. ~historyError /\ history # None
    BY <1>1, <1>4, <2>1, <2>2
  <2>4. Shows(history, result, historyOf)
    BY <1>1, <1>2, <1>4, <2>3 DEF AtPage, HistoryInv
  <2> QED BY <2>1, <2>2, <2>3, <2>4 DEF Shows
<1> QED BY <1>1, <1>3, <1>4 DEF PurchaseInHistory

\* A list of the runs, or a run asked for by its id, is answered from every file
\* that stayed whole from the listing on.
THEOREM RunsServed == PagesSpec => []KeptRunsAreServed
<1>1. AtStore /\ AtPage => KeptRunsAreServed
  BY ServedKept
<1> QED BY <1>1, PagesCorrect, PTL

\* A purchase the form shows is in the history it shows beside it, once saved.
THEOREM PurchaseShown == PagesSpec => []PurchaseInHistory
<1>1. AtStore /\ AtPage => PurchaseInHistory
  BY ShownInHistory
<1> QED BY <1>1, PagesCorrect, PTL

-----------------------------------------------------------------------------
(* What the pages make of a run                                             *)
Verdicts == {"ok", "watch", "alert", "unavailable"}
JudgedOk(v) == v.verdict \in Verdicts /\ v.score \in Nat

LEMMA VerdictsAre ==
  ASSUME NEW run, RunOk(run)
  PROVE  /\ IsSeq(VerdictsOf(run)) /\ \A v \in Range(VerdictsOf(run)) : JudgedOk(v)
         /\ \A i \in DOMAIN run.requests :
               /\ IsSeq(run.requests[i].verdicts)
               /\ \A v \in Range(run.requests[i].verdicts) : JudgedOk(v)
<1> DEFINE requests == run.requests
           ss == [i \in DOMAIN requests |-> requests[i].verdicts]
           X == UNION {Range(ss[i]) : i \in DOMAIN requests}
<1>1. Len(requests) \in Nat /\ DOMAIN requests = 1 .. Len(requests)
  BY DEF RunOk, IsSeq
<1>2. \A i \in DOMAIN requests : AnswerOk(requests[i])
  BY DEF RunOk, Range
<1>3. \A i \in DOMAIN requests :
         IsSeq(requests[i].verdicts) /\ \A v \in Range(requests[i].verdicts) : JudgedOk(v)
  BY <1>2 DEF AnswerOk, JudgedOk, Verdicts
<1>4. DOMAIN ss = 1 .. Len(requests) /\ ss = [i \in 1 .. Len(requests) |-> ss[i]]
  BY <1>1
<1>5. \A i \in 1 .. Len(requests) : ss[i] \in Seq(X) /\ \A v \in Range(ss[i]) : JudgedOk(v)
  <2> SUFFICES ASSUME NEW i \in 1 .. Len(requests)
               PROVE  ss[i] \in Seq(X) /\ \A v \in Range(ss[i]) : JudgedOk(v)
    OBVIOUS
  <2>1. ss[i] \in Seq(Range(ss[i])) /\ \A v \in Range(ss[i]) : JudgedOk(v)
    BY <1>1, <1>3 DEF IsSeq
  <2>2. Range(ss[i]) \subseteq X
    BY <1>1
  <2> HIDE DEF X, ss
  <2> QED BY <2>1, <2>2, SeqGrows
<1>6. VerdictsOf(run) = FlattenSeq(ss)
  BY DEF VerdictsOf
<1> HIDE DEF X, ss
<1>7. ss \in Seq(Seq(X)) /\ Len(ss) = Len(requests)
  <2>1. ss \in Seq(Seq(X))
    BY <1>1, <1>4, <1>5, MapIs
  <2> QED BY <2>1, <1>1, <1>4
<1>8. FlattenSeq(ss) \in Seq(X) /\ Collects(FlattenSeq(ss), ss, Len(ss))
  BY <1>7, FlatCollects
<1> DEFINE flat == FlattenSeq(ss)
<1> HIDE DEF flat
<1>9. IsSeq(flat)
  BY <1>8, RangeIs DEF flat
<1>10. \A v \in Range(flat) : JudgedOk(v)
  <2> SUFFICES ASSUME NEW k \in DOMAIN flat PROVE JudgedOk(flat[k])
    BY DEF Range
  <2>1. PICK i \in 1 .. Len(requests) : \E j \in DOMAIN ss[i] : flat[k] = ss[i][j]
    BY <1>7, <1>8 DEF Collects, flat
  <2>2. flat[k] \in Range(ss[i])
    BY <2>1 DEF Range
  <2> QED BY <2>2, <1>5
<1> QED BY <1>3, <1>6, <1>9, <1>10 DEF flat

\* Of a sequence that was narrowed down the first.
LEMMA FirstAt ==
  ASSUME NEW X, NEW s \in Seq(X), NEW kept, kept \subseteq DOMAIN s
  PROVE  /\ FirstOf(At(s, kept)) = << >> \/ \E i \in kept : FirstOf(At(s, kept)) = <<s[i]>>
<1> DEFINE its == At(s, kept)
<1>1. its \in Seq(X) /\ Range(its) = {s[i] : i \in kept}
  BY RangeAt
<1> HIDE DEF its
<1>2. CASE its = << >>
  BY <1>2 DEF FirstOf, its
<1>3. CASE its # << >>
  <2>1. Head(its) \in Range(its)
    BY <1>1, <1>3, RangeTail
  <2>2. PICK i \in kept : Head(its) = s[i]
    BY <2>1, <1>1
  <2> QED BY <2>2, <1>3 DEF FirstOf, its
<1> QED BY <1>2, <1>3

\* The run that is ranked is one of those read, and none outranks it unless it
\* was asked for.
LEMMA RankedIs ==
  ASSUME NEW runs, IsSeq(runs), NEW wanted
  PROVE  \/ RankedRun(runs, wanted) = << >>
         \/ \E run \in Range(runs) :
               /\ RankedRun(runs, wanted) = <<run>>
               /\ wanted = None => \A other \in Range(runs) : Rank(other) <= Rank(run)
<1>1. runs \in Seq(Range(runs)) /\ \A i \in DOMAIN runs : runs[i] \in Range(runs)
  BY DEF IsSeq, Range
<1>2. CASE wanted # None
  <2> DEFINE kept == {i \in DOMAIN runs : runs[i].id = wanted}
  <2>1. RankedRun(runs, wanted) = FirstOf(At(runs, kept)) /\ kept \subseteq DOMAIN runs
    BY <1>2 DEF RankedRun, WithId, filter
  <2> HIDE DEF kept
  <2>2. \/ FirstOf(At(runs, kept)) = << >>
        \/ \E i \in kept : FirstOf(At(runs, kept)) = <<runs[i]>>
    BY <2>1, <1>1, FirstAt
  <2> QED BY <2>1, <2>2, <1>1, <1>2
<1>3. CASE wanted = None
  <2> DEFINE kept == {i \in DOMAIN runs : \A other \in Range(runs) : Rank(other) <= Rank(runs[i])}
  <2>1. RankedRun(runs, wanted) = FirstOf(At(runs, kept)) /\ kept \subseteq DOMAIN runs
    BY <1>3 DEF RankedRun, filter
  <2>2. \A i \in kept : \A other \in Range(runs) : Rank(other) <= Rank(runs[i])
    OBVIOUS
  <2> HIDE DEF kept
  <2>3. \/ FirstOf(At(runs, kept)) = << >>
        \/ \E i \in kept : FirstOf(At(runs, kept)) = <<runs[i]>>
    BY <2>1, <1>1, FirstAt
  <2> QED BY <2>1, <2>2, <2>3, <1>1
<1> QED BY <1>2, <1>3

-----------------------------------------------------------------------------
(* The ranking                                                              *)
WorseFirst(rows) == Stably(rows, Worse)

LEMMA WorseIs ==
  ASSUME NEW rows, NEW a \in DOMAIN rows, NEW b \in DOMAIN rows
  PROVE  <<a, b>> \in WorseFirst(rows)
            <=> \/ Worse(rows[a], rows[b])
                \/ ~Worse(rows[b], rows[a]) /\ a < b
<1>1. <<a, b>> \in (DOMAIN rows) \X (DOMAIN rows) /\ <<a, b>>[1] = a /\ <<a, b>>[2] = b
  OBVIOUS
<1> QED BY <1>1 DEF WorseFirst, Stably

LEMMA WorseSorts ==
  ASSUME NEW rows, IsSeq(rows), \A i \in DOMAIN rows : rows[i].score \in Nat
  PROVE  Sorts(DOMAIN rows, WorseFirst(rows))
<1>1. \A i \in DOMAIN rows : i \in Nat
  BY DEF IsSeq
<1>2. \A a, b \in DOMAIN rows : a # b => Worse(rows[a], rows[b]) \/ Worse(rows[b], rows[a]) \/ a < b \/ b < a
  BY <1>1
<1>3. \A a, b \in DOMAIN rows :
         a # b => <<a, b>> \in WorseFirst(rows) \/ <<b, a>> \in WorseFirst(rows)
  BY <1>2, WorseIs
<1>4. ASSUME NEW a \in DOMAIN rows, NEW b \in DOMAIN rows, NEW c \in DOMAIN rows,
             \/ Worse(rows[a], rows[b])
             \/ ~Worse(rows[b], rows[a]) /\ a < b,
             \/ Worse(rows[b], rows[c])
             \/ ~Worse(rows[c], rows[b]) /\ b < c
      PROVE  \/ Worse(rows[a], rows[c])
             \/ ~Worse(rows[c], rows[a]) /\ a < c
  <2>1. /\ rows[a].score \in Nat /\ rows[b].score \in Nat /\ rows[c].score \in Nat
        /\ a \in Nat /\ b \in Nat /\ c \in Nat
    BY <1>1
  <2> QED BY <2>1, <1>4 DEF Worse, Refused
<1>5. \A a, b, c \in DOMAIN rows :
         <<a, b>> \in WorseFirst(rows) /\ <<b, c>> \in WorseFirst(rows)
         => <<a, c>> \in WorseFirst(rows)
  BY <1>4, WorseIs
<1> QED BY <1>3, <1>5 DEF Sorts

\* Each vault has one reading that is kept, the one that prevails.
LEMMA PickedIs ==
  ASSUME NEW verdicts, IsSeq(verdicts), \A v \in Range(verdicts) : JudgedOk(v)
  PROVE  /\ \A i, j \in Picked(verdicts) : verdicts[i].vault = verdicts[j].vault => i = j
         /\ \A k \in DOMAIN verdicts :
               \E i \in Picked(verdicts) :
                  verdicts[i].vault = verdicts[k].vault /\ Prevails(verdicts, i, k)
<1>1. \A i \in DOMAIN verdicts : i \in Nat /\ verdicts[i].score \in Nat
  BY DEF IsSeq, Range, JudgedOk
<1>2. ASSUME NEW i \in Picked(verdicts), NEW j \in Picked(verdicts),
             verdicts[i].vault = verdicts[j].vault
      PROVE  i = j
  <2>1. /\ i \in DOMAIN verdicts /\ j \in DOMAIN verdicts
        /\ \/ verdicts[j].score < verdicts[i].score
           \/ verdicts[j].score = verdicts[i].score /\ i <= j
        /\ \/ verdicts[i].score < verdicts[j].score
           \/ verdicts[i].score = verdicts[j].score /\ j <= i
    BY <1>2 DEF Picked
  <2> QED BY <2>1, <1>1
<1>3. ASSUME NEW k \in DOMAIN verdicts
      PROVE  \E i \in Picked(verdicts) :
                verdicts[i].vault = verdicts[k].vault /\ Prevails(verdicts, i, k)
  <2> DEFINE S == {j \in DOMAIN verdicts : verdicts[j].vault = verdicts[k].vault}
             Better(j, i) == \/ verdicts[j].score < verdicts[i].score
                             \/ verdicts[j].score = verdicts[i].score /\ i <= j
             R == {e \in S \X S : Better(e[1], e[2])}
  <2>1. IsFiniteSet(S) /\ S # {}
    <3>1. IsFiniteSet(DOMAIN verdicts)
      BY FS_Interval DEF IsSeq
    <3> QED BY <3>1, FS_Subset
  <2>2. \A a, b \in S : <<a, b>> \in R <=> Better(a, b)
    <3> HIDE DEF S, Better
    <3> QED OBVIOUS
  <2>3. \A a \in S : a \in Nat /\ verdicts[a].score \in Nat
    BY <1>1
  <2>4. k \in S
    OBVIOUS
  <2>5. \A a \in S : a \in DOMAIN verdicts /\ verdicts[a].vault = verdicts[k].vault
    OBVIOUS
  <2>6. \A j \in DOMAIN verdicts : verdicts[j].vault = verdicts[k].vault => j \in S
    OBVIOUS
  <2> HIDE DEF S, R
  <2>7. Sorts(S, R)
    BY <2>2, <2>3 DEF Sorts
  <2>8. PICK i \in S : IsLast(S, R, i)
    BY <2>1, <2>7, LastExists
  <2>9. \A j \in S : Better(j, i)
    <3>1. \A j \in S \ {i} : <<j, i>> \in R
      BY <2>8 DEF IsLast
    <3>2. Better(i, i)
      BY <2>3
    <3> QED BY <3>1, <3>2, <2>2
  <2>10. i \in Picked(verdicts)
    <3>1. i \in DOMAIN verdicts /\ verdicts[i].vault = verdicts[k].vault
      BY <2>5
    <3> QED BY <3>1, <2>6, <2>9 DEF Picked
  <2>11. Prevails(verdicts, i, k)
    BY <2>3, <2>4, <2>9 DEF Prevails
  <2> QED BY <2>5, <2>10, <2>11
<1> QED BY <1>2, <1>3

\* A row has the verdict of its reading.
LEMMA RowIs ==
  ASSUME NEW v, NEW decisions
  PROVE  /\ RowOf(v, decisions).vault = v.vault
         /\ RowOf(v, decisions).verdict = v.verdict /\ RowOf(v, decisions).score = v.score
BY DEF RowOf

Unsorted(verdicts, decisions) ==
    LET picked == At(verdicts, Picked(verdicts))
    IN  [k \in DOMAIN picked |-> RowOf(picked[k], decisions)]

LEMMA RowsAre ==
  ASSUME NEW verdicts, IsSeq(verdicts), \A v \in Range(verdicts) : JudgedOk(v), NEW decisions
  PROVE  LET rows == buildVaultRows(verdicts, decisions)
         IN  /\ OneRowEach(rows, verdicts)
             /\ \A i, k \in DOMAIN rows : i < k => ~Worse(rows[k], rows[i])
<1> DEFINE kept == Picked(verdicts)
           picked == At(verdicts, kept)
           pre == Unsorted(verdicts, decisions)
           order == Along(DOMAIN pre, WorseFirst(pre))
           rows == buildVaultRows(verdicts, decisions)
<1>1. kept \subseteq DOMAIN verdicts
  BY DEF Picked
<1>2. verdicts \in Seq(Range(verdicts)) /\ \A i \in DOMAIN verdicts : JudgedOk(verdicts[i])
  BY DEF IsSeq, Range
<1> HIDE DEF kept
<1>3. picked \in Seq(Range(verdicts)) /\ \E e : Picks(picked, verdicts, kept, e)
  BY <1>1, <1>2, AtPicks
<1>4. pre = [k \in DOMAIN picked |-> RowOf(picked[k], decisions)]
  BY DEF Unsorted, kept
<1>5. rows = Sorted(pre, WorseFirst(pre))
  BY DEF buildVaultRows, Unsorted, sort, WorseFirst
<1> HIDE DEF picked, pre, rows
<1>6. PICK e : Picks(picked, verdicts, kept, e)
  BY <1>3
<1>7. /\ DOMAIN picked = 1 .. Len(picked) /\ Len(picked) \in Nat
      /\ DOMAIN pre = 1 .. Len(picked) /\ pre = [k \in 1 .. Len(picked) |-> pre[k]]
  BY <1>3, <1>4
<1>8. \A k \in DOMAIN pre :
         /\ e[k] \in kept /\ Tells(pre[k], verdicts[e[k]]) /\ pre[k].score \in Nat
  <2> SUFFICES ASSUME NEW k \in DOMAIN pre
               PROVE  e[k] \in kept /\ Tells(pre[k], verdicts[e[k]]) /\ pre[k].score \in Nat
    OBVIOUS
  <2>1. e[k] \in kept /\ picked[k] = verdicts[e[k]]
    BY <1>6, <1>7 DEF Picks
  <2>2. pre[k] = RowOf(picked[k], decisions)
    BY <1>4, <1>7
  <2>3. JudgedOk(verdicts[e[k]])
    BY <2>1, <1>1, <1>2
  <2> QED BY <2>1, <2>2, <2>3, RowIs DEF JudgedOk, Tells
<1>9. pre \in Seq(Range(pre)) /\ IsSeq(pre)
  <2>1. \A k \in 1 .. Len(picked) : pre[k] \in Range(pre)
    BY <1>7 DEF Range
  <2> QED BY <2>1, <1>7, MapIs DEF IsSeq
<1>10. Orders(rows, pre, WorseFirst(pre), order)
  BY <1>5, <1>8, <1>9, WorseSorts, SortIs
<1> HIDE DEF order
<1>11. /\ DOMAIN rows = DOMAIN pre
       /\ \A i \in DOMAIN rows : order[i] \in DOMAIN pre /\ rows[i] = pre[order[i]]
       /\ \A i, k \in DOMAIN rows : order[i] = order[k] => i = k
  BY <1>10 DEF Orders
<1>12. ASSUME NEW n \in DOMAIN verdicts
       PROVE  \E i \in DOMAIN rows :
                 /\ rows[i].vault = verdicts[n].vault
                 /\ \E x \in DOMAIN verdicts :
                        Tells(rows[i], verdicts[x]) /\ Prevails(verdicts, x, n)
                 /\ \A k \in DOMAIN rows : rows[k].vault = verdicts[n].vault => k = i
  <2>2. PICK m \in kept : verdicts[m].vault = verdicts[n].vault /\ Prevails(verdicts, m, n)
    BY PickedIs DEF kept
  <2>3. PICK p \in DOMAIN pre : e[p] = m
    BY <1>6, <1>7 DEF Picks
  <2>4. PICK i \in DOMAIN rows : order[i] = p
    BY <2>3, <1>10, <1>11 DEF Orders
  <2>5. rows[i].vault = verdicts[n].vault /\ Tells(rows[i], verdicts[m])
    BY <2>2, <2>3, <2>4, <1>8, <1>11 DEF Tells
  <2>6. ASSUME NEW k \in DOMAIN rows, rows[k].vault = verdicts[n].vault PROVE k = i
    <3>1. /\ order[k] \in DOMAIN pre /\ e[order[k]] \in kept
          /\ verdicts[e[order[k]]].vault = verdicts[m].vault
      BY <2>2, <2>6, <1>8, <1>11 DEF Tells
    <3>2. e[order[k]] = m
      BY <3>1, PickedIs DEF kept
    <3>3. order[k] = p
      <4>1. \A a, b \in DOMAIN pre : a < b => e[a] < e[b]
        BY <1>6, <1>7 DEF Picks
      <4>2. order[k] \in Nat /\ p \in Nat /\ m \in Nat
        <5>1. m \in DOMAIN verdicts
          BY <1>1
        <5> QED BY <5>1, <3>1, <1>2, <1>7
      <4>3. order[k] < p \/ p < order[k] \/ order[k] = p
        BY <4>2
      <4>4. ~ m < m
        BY <4>2
      <4> QED BY <3>1, <3>2, <4>1, <4>3, <4>4, <2>3
    <3> QED BY <3>3, <2>4, <1>11
  <2> QED BY <2>2, <2>5, <2>6, <1>1
<1>13. ASSUME NEW i \in DOMAIN rows, NEW k \in DOMAIN rows, i < k
       PROVE  ~Worse(rows[k], rows[i])
  <2> DEFINE a == order[i]
             b == order[k]
  <2>1. a \in DOMAIN pre /\ b \in DOMAIN pre /\ rows[i] = pre[a] /\ rows[k] = pre[b]
    BY <1>11
  <2>2. <<a, b>> \in WorseFirst(pre)
    BY <1>10, <1>11, <1>13 DEF Orders
  <2>3. pre[a].score \in Nat /\ pre[b].score \in Nat
    BY <2>1, <1>8
  <2> HIDE DEF a, b
  <2>4. Worse(pre[a], pre[b]) \/ ~Worse(pre[b], pre[a])
    BY <2>1, <2>2, WorseIs
  <2> QED BY <2>1, <2>3, <2>4 DEF Worse, Refused
<1>14. OneRowEach(rows, verdicts)
  BY <1>12 DEF OneRowEach
<1> QED BY <1>13, <1>14 DEF rows

LEMMA RankingHolds ==
  ASSUME NEW runs, IsSeq(runs), \A run \in Range(runs) : RunOk(run), NEW wanted
  PROVE  RankingIsWorst(runs, wanted)
<1> DEFINE ranked == RankedRun(runs, wanted)
           rows == IF ranked = <<>> THEN <<>>
                   ELSE buildVaultRows(VerdictsOf(ranked[1]), ranked[1].decisions)
<1>1. UniversePage(runs, wanted).run = ranked /\ UniversePage(runs, wanted).rows = rows
  BY DEF UniversePage
<1>2. CASE ranked = << >>
  BY <1>1, <1>2, EmptyIs DEF RankingIsWorst
<1>3. CASE \E run \in Range(runs) :
              /\ ranked = <<run>>
              /\ wanted = None => \A other \in Range(runs) : Rank(other) <= Rank(run)
  <2>1. PICK run \in Range(runs) :
              /\ ranked = <<run>>
              /\ wanted = None => \A other \in Range(runs) : Rank(other) <= Rank(run)
    BY <1>3
  <2>2. Range(ranked) = {run} /\ ranked[1] = run /\ ranked # << >>
    BY <2>1, SingleIs
  <2>3. rows = buildVaultRows(VerdictsOf(run), run.decisions)
    BY <2>2
  <2>4. IsSeq(VerdictsOf(run)) /\ \A v \in Range(VerdictsOf(run)) : JudgedOk(v)
    BY VerdictsAre
  <2> HIDE DEF rows, ranked
  <2>5. /\ OneRowEach(rows, VerdictsOf(run))
        /\ \A i, k \in DOMAIN rows : i < k => ~Worse(rows[k], rows[i])
    BY <2>3, <2>4, RowsAre
  <2>6. wanted = None => \A other \in Range(runs) : Rank(run) >= Rank(other)
    BY <2>1
  <2> QED BY <2>2, <2>5, <2>6, <1>1 DEF RankingIsWorst
<1> QED BY <1>2, <1>3, RankedIs

-----------------------------------------------------------------------------
(* A run's own page                                                         *)
\* What is shown and what is folded are what there is.
LEMMA FoldLoses ==
  ASSUME NEW X, NEW s \in Seq(X), NEW n \in Nat, NEW x \in Range(s)
  PROVE  Holds(Prefix(s, n), x) \/ Holds(Rest(s, n), x)
<1>1. PICK i \in 1 .. Len(s) : s[i] = x
  BY DEF Range
<1>2. Len(s) \in Nat
  OBVIOUS
<1>3. CASE i <= n
  <2> DEFINE m == IF n < Len(s) THEN n ELSE Len(s)
  <2>1. m \in Nat /\ i <= m /\ m <= Len(s) /\ i \in 1 .. m
    BY <1>2, <1>3
  <2>2. Prefix(s, n) = SubSeq(s, 1, m)
    BY DEF Prefix
  <2> HIDE DEF m
  <2>3. i \in DOMAIN SubSeq(s, 1, m) /\ SubSeq(s, 1, m)[i] = s[i]
    BY <2>1, <1>2
  <2> QED BY <2>2, <2>3, <1>1 DEF Holds
<1>4. CASE ~(i <= n)
  <2>1. i - n \in 1 .. Len(s) - n /\ n + 1 <= Len(s)
    BY <1>2, <1>4
  <2>2. i - n \in DOMAIN SubSeq(s, n + 1, Len(s)) /\ SubSeq(s, n + 1, Len(s))[i - n] = s[i]
    BY <2>1, <1>2
  <2> QED BY <2>2, <1>1 DEF Rest, Holds
<1> QED BY <1>3, <1>4

LEMMA HoldsConcat ==
  ASSUME NEW X, NEW s \in Seq(X), NEW t \in Seq(X), NEW x
  PROVE  Holds(s \o t, x) <=> Holds(s, x) \/ Holds(t, x)
<1>1. s \o t \in Seq(X) /\ Range(s \o t) = Range(s) \cup Range(t)
  BY RangeConcat
<1>2. \A u : Holds(u, x) <=> x \in Range(u)
  BY DEF Holds, Range
<1> QED BY <1>1, <1>2

LEMMA HoldsCards ==
  ASSUME NEW s, NEW v, Holds(s, v)
  PROVE  Holds(CardsOf(s), VerdictCard(v))
BY DEF Holds, CardsOf

\* Both parts of a sequence that is cut are sequences.
LEMMA PartsAre ==
  ASSUME NEW X, NEW s \in Seq(X), NEW n \in Nat
  PROVE  Prefix(s, n) \in Seq(X) /\ Rest(s, n) \in Seq(X)
<1>1. Len(s) \in Nat
  OBVIOUS
<1> DEFINE m == IF n < Len(s) THEN n ELSE Len(s)
<1>2. m \in Nat /\ m <= Len(s)
  BY <1>1
<1>3. Prefix(s, n) = SubSeq(s, 1, m)
  BY DEF Prefix
<1> HIDE DEF m
<1>4. SubSeq(s, 1, m) \in Seq(X)
  BY <1>1, <1>2
<1>5. SubSeq(s, n + 1, Len(s)) \in Seq(X)
  BY <1>1
<1> QED BY <1>3, <1>4, <1>5 DEF Rest

Graver(a, b) ==
    \/ Severity[a.verdict] < Severity[b.verdict]
    \/ a.verdict = b.verdict /\ a.score > b.score
GravestFirst(verdicts) == Stably(verdicts, Graver)

LEMMA GraverIs ==
  ASSUME NEW rows, NEW a \in DOMAIN rows, NEW b \in DOMAIN rows
  PROVE  <<a, b>> \in GravestFirst(rows)
            <=> \/ Graver(rows[a], rows[b])
                \/ ~Graver(rows[b], rows[a]) /\ a < b
<1>1. <<a, b>> \in (DOMAIN rows) \X (DOMAIN rows) /\ <<a, b>>[1] = a /\ <<a, b>>[2] = b
  OBVIOUS
<1> QED BY <1>1 DEF GravestFirst, Stably

LEMMA SeverityIs ==
  ASSUME NEW x \in Verdicts, NEW y \in Verdicts
  PROVE  Severity[x] \in Nat /\ (Severity[x] = Severity[y] => x = y)
BY DEF Severity, Verdicts

LEMMA GraverSorts ==
  ASSUME NEW rows, IsSeq(rows), \A v \in Range(rows) : JudgedOk(v)
  PROVE  Sorts(DOMAIN rows, GravestFirst(rows))
<1>1. \A i \in DOMAIN rows : i \in Nat /\ JudgedOk(rows[i])
  BY DEF IsSeq, Range
<1>2. \A a, b \in DOMAIN rows : a # b => Graver(rows[a], rows[b]) \/ Graver(rows[b], rows[a]) \/ a < b \/ b < a
  BY <1>1
<1>3. \A a, b \in DOMAIN rows :
         a # b => <<a, b>> \in GravestFirst(rows) \/ <<b, a>> \in GravestFirst(rows)
  BY <1>2, GraverIs
<1>4. ASSUME NEW a \in DOMAIN rows, NEW b \in DOMAIN rows, NEW c \in DOMAIN rows,
             \/ Graver(rows[a], rows[b])
             \/ ~Graver(rows[b], rows[a]) /\ a < b,
             \/ Graver(rows[b], rows[c])
             \/ ~Graver(rows[c], rows[b]) /\ b < c
      PROVE  \/ Graver(rows[a], rows[c])
             \/ ~Graver(rows[c], rows[a]) /\ a < c
  <2> DEFINE p == Severity[rows[a].verdict]
             q == Severity[rows[b].verdict]
             r == Severity[rows[c].verdict]
  <2>1. /\ rows[a].score \in Nat /\ rows[b].score \in Nat /\ rows[c].score \in Nat
        /\ a \in Nat /\ b \in Nat /\ c \in Nat
        /\ p \in Nat /\ q \in Nat /\ r \in Nat
        /\ (rows[a].verdict = rows[b].verdict) = (p = q)
        /\ (rows[b].verdict = rows[c].verdict) = (q = r)
        /\ (rows[a].verdict = rows[c].verdict) = (p = r)
    BY <1>1, SeverityIs DEF JudgedOk
  <2>2. /\ Graver(rows[a], rows[b]) <=> p < q \/ (p = q /\ rows[a].score > rows[b].score)
        /\ Graver(rows[b], rows[a]) <=> q < p \/ (p = q /\ rows[b].score > rows[a].score)
        /\ Graver(rows[b], rows[c]) <=> q < r \/ (q = r /\ rows[b].score > rows[c].score)
        /\ Graver(rows[c], rows[b]) <=> r < q \/ (q = r /\ rows[c].score > rows[b].score)
        /\ Graver(rows[a], rows[c]) <=> p < r \/ (p = r /\ rows[a].score > rows[c].score)
        /\ Graver(rows[c], rows[a]) <=> r < p \/ (p = r /\ rows[c].score > rows[a].score)
    BY <2>1 DEF Graver
  <2> HIDE DEF p, q, r
  <2> QED BY <2>1, <2>2, <1>4
<1>5. \A a, b, c \in DOMAIN rows :
         <<a, b>> \in GravestFirst(rows) /\ <<b, c>> \in GravestFirst(rows)
         => <<a, c>> \in GravestFirst(rows)
  BY <1>4, GraverIs
<1> QED BY <1>3, <1>5 DEF Sorts

\* What a grid makes of a sequence: the part that stands out, then the rest.
LEMMA GridHas ==
  ASSUME NEW X, NEW s \in Seq(X), NEW odd, odd \subseteq DOMAIN s, NEW n \in Nat,
         NEW k \in DOMAIN s
  PROVE  LET rest == At(s, (DOMAIN s) \ odd)
         IN  /\ At(s, odd) \o Prefix(rest, n) \in Seq(X) /\ Rest(rest, n) \in Seq(X)
             /\ k \in odd => Holds(At(s, odd) \o Prefix(rest, n), s[k])
             /\ k \notin odd => \/ Holds(At(s, odd) \o Prefix(rest, n), s[k])
                                \/ Holds(Rest(rest, n), s[k])
<1> DEFINE even == (DOMAIN s) \ odd
           some == At(s, odd)
           rest == At(s, even)
<1>1. some \in Seq(X) /\ Range(some) = {s[i] : i \in odd}
  BY RangeAt
<1>2. rest \in Seq(X) /\ Range(rest) = {s[i] : i \in even}
  BY RangeAt
<1>3. k \in odd \/ k \in even
  OBVIOUS
<1>4. k \notin odd => k \in even
  OBVIOUS
<1> HIDE DEF some, rest, even
<1>5. Prefix(rest, n) \in Seq(X) /\ Rest(rest, n) \in Seq(X)
  BY <1>2, PartsAre
<1>6. \A x : Holds(some \o Prefix(rest, n), x) <=> Holds(some, x) \/ Holds(Prefix(rest, n), x)
  BY <1>1, <1>5, HoldsConcat
<1>7. some \o Prefix(rest, n) \in Seq(X)
  BY <1>1, <1>5
<1>8. k \in odd => Holds(some, s[k])
  BY <1>1 DEF Holds, Range
<1>9. k \in even => Holds(Prefix(rest, n), s[k]) \/ Holds(Rest(rest, n), s[k])
  <2>1. k \in even => s[k] \in Range(rest)
    BY <1>2
  <2> QED BY <2>1, <1>2, FoldLoses
<1> QED BY <1>4, <1>5, <1>6, <1>7, <1>8, <1>9 DEF some, rest, even

\* A grid has every verdict, and one that is not clean is shown.
LEMMA VerdictGridHas ==
  ASSUME NEW verdicts, IsSeq(verdicts), \A v \in Range(verdicts) : JudgedOk(v),
         NEW v \in Range(verdicts)
  PROVE  LET grid == VerdictGrid(verdicts)
         IN  IF v.verdict = "ok" THEN Holds(grid.shown \o grid.folded, VerdictCard(v))
                                 ELSE Holds(grid.shown, VerdictCard(v))
<1> DEFINE n == CleanPreview
           sorted == Sorted(verdicts, GravestFirst(verdicts))
           odd == {i \in DOMAIN sorted : sorted[i].verdict # "ok"}
           ok == {i \in DOMAIN sorted : sorted[i].verdict = "ok"}
           first == At(sorted, odd) \o Prefix(At(sorted, ok), n)
           last == Rest(At(sorted, ok), n)
           grid == VerdictGrid(verdicts)
<1>1. grid.shown = CardsOf(first) /\ grid.folded = CardsOf(last)
  BY DEF VerdictGrid, GravestFirst, Graver, Stably, sort, filter, Is
<1>2. /\ sorted \in Seq(Range(verdicts))
      /\ \A x \in Range(verdicts) : \E i \in DOMAIN sorted : sorted[i] = x
  BY GraverSorts, SortedHas
<1> HIDE DEF sorted, grid
<1>3. PICK k \in DOMAIN sorted : sorted[k] = v
  BY <1>2
<1>4. odd \subseteq DOMAIN sorted /\ ok = (DOMAIN sorted) \ odd /\ (k \in odd <=> v.verdict # "ok")
  BY <1>3
<1>5. n \in Nat
  BY PreviewAssumption
<1> HIDE DEF odd, ok, n
<1>6. /\ first \in Seq(Range(verdicts)) /\ last \in Seq(Range(verdicts))
      /\ k \in odd => Holds(first, v)
      /\ k \notin odd => Holds(first, v) \/ Holds(last, v)
  BY <1>2, <1>3, <1>4, <1>5, GridHas
<1> HIDE DEF first, last
<1>7. CASE v.verdict # "ok"
  BY <1>1, <1>4, <1>6, <1>7, HoldsCards DEF grid
<1>8. CASE v.verdict = "ok"
  <2>1. Holds(CardsOf(first), VerdictCard(v)) \/ Holds(CardsOf(last), VerdictCard(v))
    BY <1>4, <1>6, <1>8, HoldsCards
  <2> DEFINE Y == {VerdictCard(x) : x \in Range(verdicts)}
  <2>2. \A x \in Range(verdicts) : VerdictCard(x) \in Y
    OBVIOUS
  <2> HIDE DEF Y
  <2>3. ASSUME NEW s \in Seq(Range(verdicts)) PROVE CardsOf(s) \in Seq(Y)
    <3>1. Len(s) \in Nat /\ DOMAIN s = 1 .. Len(s) /\ \A i \in 1 .. Len(s) : s[i] \in Range(verdicts)
      BY <2>3
    <3> DEFINE c == CardsOf(s)
    <3>2. DOMAIN c = 1 .. Len(s) /\ c = [i \in 1 .. Len(s) |-> c[i]]
          /\ \A i \in 1 .. Len(s) : c[i] = VerdictCard(s[i])
      BY <3>1 DEF CardsOf
    <3> HIDE DEF c
    <3>3. \A i \in 1 .. Len(s) : c[i] \in Y
      BY <3>1, <3>2, <2>2
    <3> QED BY <3>1, <3>2, <3>3, MapIs DEF c
  <2>4. CardsOf(first) \in Seq(Y) /\ CardsOf(last) \in Seq(Y)
    BY <1>6, <2>3
  <2>5. Holds(CardsOf(first) \o CardsOf(last), VerdictCard(v))
    BY <2>1, <2>4, HoldsConcat
  <2> QED BY <2>5, <1>1, <1>8 DEF grid
<1> QED BY <1>7, <1>8

\* A grid has every decision, and one that is not to hold is shown.
LEMMA DecisionGridHas ==
  ASSUME NEW decisions, IsSeq(decisions), NEW d \in Range(decisions)
  PROVE  LET grid == DecisionGrid(decisions)
         IN  IF d.action = "hold" THEN Holds(grid.shown \o grid.folded, d)
                                  ELSE Holds(grid.shown, d)
<1> DEFINE n == CleanPreview
           odd == {i \in DOMAIN decisions : decisions[i].action # "hold"}
           hold == {i \in DOMAIN decisions : decisions[i].action = "hold"}
           first == At(decisions, odd) \o Prefix(At(decisions, hold), n)
           last == Rest(At(decisions, hold), n)
           grid == DecisionGrid(decisions)
<1>1. grid.shown = first /\ grid.folded = last
  BY DEF DecisionGrid, filter
<1>2. decisions \in Seq(Range(decisions))
  BY DEF IsSeq
<1>3. PICK k \in DOMAIN decisions : decisions[k] = d
  BY DEF Range
<1>4. /\ odd \subseteq DOMAIN decisions /\ hold = (DOMAIN decisions) \ odd
      /\ k \in odd <=> d.action # "hold"
  BY <1>3
<1>5. n \in Nat
  BY PreviewAssumption
<1> HIDE DEF odd, hold, n, grid
<1>6. /\ first \in Seq(Range(decisions)) /\ last \in Seq(Range(decisions))
      /\ k \in odd => Holds(first, d)
      /\ k \notin odd => Holds(first, d) \/ Holds(last, d)
  BY <1>2, <1>3, <1>4, <1>5, GridHas
<1> HIDE DEF first, last
<1>7. Holds(first \o last, d) <=> Holds(first, d) \/ Holds(last, d)
  BY <1>6, HoldsConcat
<1> QED BY <1>1, <1>4, <1>6, <1>7 DEF grid

\* None of a kind is counted only if there is none.
LEMMA CountIs ==
  ASSUME NEW verdicts, IsSeq(verdicts), NEW kind
  PROVE  /\ Len(Is(verdicts, kind)) \in Nat
         /\ Len(Is(verdicts, kind)) = 0 => \A v \in Range(verdicts) : v.verdict # kind
<1> DEFINE kept == {i \in DOMAIN verdicts : verdicts[i].verdict = kind}
           its == At(verdicts, kept)
<1>1. Is(verdicts, kind) = its
  BY DEF Is, filter
<1>2. kept \subseteq DOMAIN verdicts /\ \A i \in DOMAIN verdicts : verdicts[i].verdict = kind => i \in kept
  OBVIOUS
<1>3. verdicts \in Seq(Range(verdicts))
  BY DEF IsSeq
<1> HIDE DEF kept
<1>4. its \in Seq(Range(verdicts)) /\ Range(its) = {verdicts[i] : i \in kept}
  BY <1>2, <1>3, RangeAt
<1> HIDE DEF its
<1>5. Len(its) \in Nat /\ (Len(its) = 0 => its = << >>)
  BY <1>4
<1>6. Len(its) = 0 => kept = {}
  BY <1>4, <1>5, EmptyIs
<1> QED BY <1>1, <1>2, <1>5, <1>6 DEF Range

\* A run's page has every verdict and decision, and says all is fine only if it
\* is.
LEMMA HidesNothing ==
  ASSUME NEW run, RunOk(run)
  PROVE  NothingHidden(run)
<1> DEFINE all == VerdictsOf(run)
           Count(kind) == Len(Is(all, kind))
           requests == run.requests
           page_ == RunPage(run)
<1>1. /\ page_.sections = [i \in DOMAIN requests |-> RequestSection(requests[i])]
      /\ page_.decisions = DecisionGrid(run.decisions)
      /\ page_.allClear => Count("alert") + Count("watch") + Count("unavailable") = 0
  BY DEF RunPage
<1> HIDE DEF page_
<1>2. \A i \in DOMAIN requests : page_.sections[i].grid = VerdictGrid(requests[i].verdicts)
  BY <1>1 DEF RequestSection
<1>3. /\ IsSeq(all) /\ \A v \in Range(all) : JudgedOk(v)
      /\ \A i \in DOMAIN requests :
            IsSeq(requests[i].verdicts) /\ \A v \in Range(requests[i].verdicts) : JudgedOk(v)
  BY VerdictsAre
<1>4. IsSeq(run.decisions)
  BY DEF RunOk
<1>5. ASSUME NEW i \in DOMAIN requests, NEW v \in Range(requests[i].verdicts)
      PROVE  LET grid == page_.sections[i].grid
             IN  IF v.verdict = "ok" THEN Holds(grid.shown \o grid.folded, VerdictCard(v))
                                     ELSE Holds(grid.shown, VerdictCard(v))
  BY <1>2, <1>3, VerdictGridHas
<1>6. ASSUME NEW d \in Range(run.decisions)
      PROVE  IF d.action = "hold" THEN Holds(page_.decisions.shown \o page_.decisions.folded, d)
                                  ELSE Holds(page_.decisions.shown, d)
  BY <1>1, <1>4, DecisionGridHas
<1>7. ASSUME page_.allClear, NEW v \in Range(all) PROVE v.verdict = "ok"
  <2> HIDE DEF all
  <2>1. /\ Count("alert") \in Nat /\ Count("watch") \in Nat /\ Count("unavailable") \in Nat
        /\ Count("alert") = 0 => v.verdict # "alert"
        /\ Count("watch") = 0 => v.verdict # "watch"
        /\ Count("unavailable") = 0 => v.verdict # "unavailable"
    BY <1>3, <1>7, CountIs
  <2> HIDE DEF Count
  <2>2. Count("alert") + Count("watch") + Count("unavailable") = 0
    BY <1>1, <1>7
  <2>3. \A a, b, c \in Nat : a + b + c = 0 => a = 0 /\ b = 0 /\ c = 0
    OBVIOUS
  <2>4. Count("alert") = 0 /\ Count("watch") = 0 /\ Count("unavailable") = 0
    BY <2>1, <2>2, <2>3
  <2> QED BY <2>1, <2>4, <1>3, <1>7 DEF JudgedOk, Verdicts
<1> QED BY <1>5, <1>6, <1>7 DEF NothingHidden, page_

LEMMA ShownWorst ==
  ASSUME AtStore
  PROVE  WorstIsShown
<1> SUFFICES ASSUME Answered PROVE WorstIsShown
  BY DEF WorstIsShown
<1>1. IsSeq(reader.runs) /\ \A run \in Range(reader.runs) : RunOk(run)
  BY DEF Answered, AtStore, ReaderInv
<1>2. \A run \in Range(reader.runs) : NothingHidden(run)
  BY <1>1, HidesNothing
<1>3. \A wanted : RankingIsWorst(reader.runs, wanted)
  BY <1>1, RankingHolds
<1> QED BY <1>2, <1>3 DEF WorstIsShown

\* The ranking (buildVaultRows) hides no reading of a vault but behind one that
\* scores higher, or as much and was bought first, and a run's page folds nothing
\* that is not fine.
THEOREM WorstShown == PagesSpec => []WorstIsShown
<1>1. AtStore /\ AtPage => WorstIsShown
  BY ShownWorst
<1> QED BY <1>1, PagesCorrect, PTL
=============================================================================
