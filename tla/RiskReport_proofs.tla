-------------------------- MODULE RiskReport_proofs --------------------------
(***************************************************************************)
(* Proofs about RiskReport, for any readings, windows, series lengths,     *)
(* lengths of an hour and a day, and freshness threshold.                  *)
(***************************************************************************)
EXTENDS RiskReport, Lemmas, FiniteSetTheorems, TLAPS

Names == Drawdowns \cup {"tvl_outflow_24h", "deposit_limit_reached"}

\* The first tick has an event, and the balance moves at events alone.
SourceInv ==
    /\ TypeOK
    /\ chain[1].event
    /\ \A t \in 2 .. now : ~chain[t].event => chain[t].balance = chain[t - 1].balance

LEMMA EntryTyped ==
  ASSUME NEW reading \in Readings
  PROVE  AtEvent(reading) \in Entries /\ AtEvent(reading).event
BY RiskAssumption DEF RiskAssumption, AtEvent, Entries

\* Growing the chain by one entry keeps what is known of those before it.
LEMMA ChainGrows ==
  ASSUME SourceInv, NEW e \in Entries,
         ~e.event => e.balance = chain[now].balance,
         chain' = Append(chain, e), UNCHANGED <<indexed, sources>>
  PROVE  SourceInv'
<1>1. /\ chain \in Seq(Entries) /\ Len(chain) \in Nat /\ Len(chain) >= 1
      /\ indexed \in 1 .. Len(chain)
  BY DEF SourceInv, TypeOK, now
<1>2. /\ chain' \in Seq(Entries) /\ Len(chain') = Len(chain) + 1 /\ chain' # <<>>
      /\ \A t \in 1 .. Len(chain) : chain'[t] = chain[t]
      /\ chain'[Len(chain) + 1] = e
  BY <1>1
<1>3. TypeOK'
  <2>1. indexed' \in 1 .. Len(chain')
    BY <1>1, <1>2
  <2> QED BY <1>2, <2>1 DEF SourceInv, TypeOK, now, sources
<1>4. chain'[1].event
  BY <1>1, <1>2 DEF SourceInv
<1>5. ASSUME NEW t \in 2 .. Len(chain'), ~chain'[t].event
      PROVE  chain'[t].balance = chain'[t - 1].balance
  <2>1. CASE t <= Len(chain)
    <3>1. chain'[t] = chain[t] /\ chain'[t - 1] = chain[t - 1] /\ t \in 2 .. now
      BY <1>1, <1>2, <2>1 DEF now
    <3> QED BY <1>5, <3>1 DEF SourceInv
  <2>2. CASE t = Len(chain) + 1
    <3>1. chain'[t] = e /\ chain'[t - 1] = chain[Len(chain)]
      BY <1>1, <1>2, <2>2
    <3> QED BY <1>5, <3>1 DEF now
  <2> QED BY <1>1, <1>2, <2>1, <2>2
<1> QED BY <1>3, <1>4, <1>5 DEF SourceInv, now

THEOREM SourceSound == Spec => []SourceInv
<1>1. Init => SourceInv
  <2> SUFFICES ASSUME Init PROVE SourceInv
    OBVIOUS
  <2>1. PICK reading \in Readings : chain = <<AtEvent(reading)>>
    BY DEF Init
  <2>2. chain \in Seq(Entries) /\ Len(chain) = 1 /\ chain # <<>> /\ chain[1].event
    BY <2>1, EntryTyped
  <2>3. TypeOK
    BY <2>2 DEF Init, TypeOK, now
  <2> QED BY <2>2, <2>3 DEF SourceInv, now
<1>2. SourceInv /\ [Next]_vars => SourceInv'
  <2> SUFFICES ASSUME SourceInv, [Next]_vars PROVE SourceInv'
    OBVIOUS
  <2>1. chain \in Seq(Entries) /\ Len(chain) \in Nat /\ indexed \in 1 .. Len(chain)
    BY DEF SourceInv, TypeOK, now
  <2>2. CASE Index
    <3>1. chain' = chain /\ indexed' \in 1 .. Len(chain') /\ UNCHANGED sources
      BY <2>1, <2>2 DEF Index, now
    <3> QED BY <3>1 DEF SourceInv, TypeOK, now, sources
  <2>3. CASE Quiet
    <3> DEFINE e == [chain[now] EXCEPT !.event = FALSE]
    <3>1. chain[now] \in Entries
      BY <2>1 DEF now
    <3>2. e \in Entries /\ e.balance = chain[now].balance
      BY <3>1 DEF Entries
    <3>3. chain' = Append(chain, e) /\ UNCHANGED <<indexed, sources>>
      BY <2>3 DEF Quiet
    <3> HIDE DEF e
    <3> QED BY <3>2, <3>3, ChainGrows
  <2>4. ASSUME NEW reading \in Readings, Event(reading) PROVE SourceInv'
    <3>1. chain' = Append(chain, AtEvent(reading)) /\ UNCHANGED <<indexed, sources>>
      BY <2>4 DEF Event
    <3> QED BY <3>1, EntryTyped, ChainGrows
  <2>5. CASE UNCHANGED vars
    BY <2>5 DEF SourceInv, TypeOK, now, vars, sources
  <2> QED BY <2>2, <2>3, <2>4, <2>5 DEF Next
<1> QED BY <1>1, <1>2, PTL DEF Spec

\* The vault's sources and its past keep their shape.
THEOREM TypeCorrect == Spec => []TypeOK
<1>1. SourceInv => TypeOK
  BY DEF SourceInv
<1> QED BY <1>1, SourceSound, PTL

\* No single flag weighs as much as an alert, and a full vault not even a watch.
LEMMA OneFlagIsNoAlert ==
  ASSUME NEW flags, NEW only, \A f \in flags : f = only
  PROVE  /\ Total(flags) \in 0 .. 30
         /\ only = "deposit_limit_reached" => Total(flags) <= 10
<1>1. \A name \in Names : Counted(flags, name) \in Nat
  BY DEF Counted, Weight, Names, Drawdowns
<1>2. \A name \in Names : name # only => Counted(flags, name) = 0
  BY DEF Counted
<1>3. /\ Counted(flags, "share_price_drawdown_1h") <= 30
      /\ Counted(flags, "share_price_drawdown_24h") <= 25
      /\ Counted(flags, "share_price_drawdown_7d") <= 20
      /\ Counted(flags, "tvl_outflow_24h") <= 25
      /\ Counted(flags, "deposit_limit_reached") <= 10
  BY DEF Counted, Weight
<1> QED BY <1>1, <1>2, <1>3 DEF Total, Names, Drawdowns

LEMMA AlertsHold == AlertNeedsTwoSignals
<1>1. ASSUME Verdict(Flags) = "alert" PROVE \E a, b \in Flags : a # b
  <2>1. Score(Flags) >= 50
    BY <1>1 DEF Verdict
  <2> SUFFICES ASSUME \A a, b \in Flags : a = b PROVE FALSE
    OBVIOUS
  <2>2. PICK only : \A f \in Flags : f = only
    OBVIOUS
  <2>3. Total(Flags) \in 0 .. 30
    BY <2>2, OneFlagIsNoAlert
  <2> QED BY <2>1, <2>3 DEF Score
<1>2. ASSUME Verdict(Flags) = "watch", Flags = {"deposit_limit_reached"} PROVE FALSE
  <2>1. Score(Flags) >= 20
    BY <1>1, <1>2 DEF Verdict
  <2>2. Total(Flags) \in 0 .. 30 /\ Total(Flags) <= 10
    BY <1>2, OneFlagIsNoAlert
  <2> QED BY <2>1, <2>2 DEF Score
<1> QED BY <1>1, <1>2 DEF AlertNeedsTwoSignals

\* No alert on one signal, and no watch on a full vault, whatever the history.
THEOREM AlertsRestOnTwo == Spec => []AlertNeedsTwoSignals
BY AlertsHold, PTL

-----------------------------------------------------------------------------
(* Ticks and periods                                                        *)

LEMMA ChainTyped ==
  ASSUME SourceInv
  PROVE  /\ now \in Nat /\ indexed \in Nat /\ indexed \in 1 .. now
         /\ \A t \in 1 .. indexed :
              /\ chain[t].price \in Int /\ chain[t].balance \in Int
              /\ chain[t].told \in BOOLEAN /\ chain[t].event \in BOOLEAN
<1>1. chain \in Seq(Entries) /\ indexed \in 1 .. Len(chain) /\ Len(chain) \in Nat
  BY DEF SourceInv, TypeOK, now
<1>2. \A t \in 1 .. indexed : chain[t] \in Entries
  BY <1>1
<1> QED BY <1>1, <1>2 DEF now, Entries

\* The newest of some ticks.
LEMMA MaxIs ==
  ASSUME NEW n \in Nat, NEW S \in SUBSET (1 .. n), S # {}
  PROVE  Max(S) \in S /\ \A x \in S : x <= Max(S)
<1>1. PICK b \in S : \A x \in S : x <= b
  BY Greatest
<1>2. \A x \in S : b >= x
  BY <1>1
<1>3. Max(S) \in S /\ \A x \in S : Max(S) >= x
  BY <1>2 DEF Max
<1> QED BY <1>3

LEMMA RecordedIs ==
  ASSUME SourceInv
  PROVE  /\ Recorded \in SUBSET (1 .. indexed) /\ 1 \in Recorded
         /\ Max(Recorded) \in Recorded /\ \A t \in Recorded : t <= Max(Recorded)
<1>1. indexed \in Nat /\ indexed >= 1 /\ chain[1].event
  BY ChainTyped DEF SourceInv
<1>2. Recorded \in SUBSET (1 .. indexed) /\ 1 \in Recorded
  BY <1>1 DEF Recorded
<1> QED BY <1>1, <1>2, MaxIs

\* The period a tick is in, and where it starts.
LEMMA PeriodIs ==
  ASSUME NEW length \in Nat \ {0}, NEW t \in Nat, t >= 1
  PROVE  /\ Period(t, length) \in Int /\ Period(t, length) * length \in Int
         /\ Period(t, length) * length < t
         /\ t - Period(t, length) * length <= length
<1> DEFINE q == (t - 1) \div length
           r == (t - 1) % length
<1>1. q \in Int /\ r \in 0 .. length - 1 /\ t - 1 = length * q + r
  BY DivMod
<1> HIDE DEF q, r
<1>2. q * length \in Int /\ length * q = q * length
  BY <1>1, SMT
<1>3. q * length < t /\ t - q * length <= length
  BY <1>1, <1>2
<1>4. Period(t, length) = q
  BY DEF Period, q
<1> QED BY <1>1, <1>2, <1>3, <1>4

LEMMA PeriodOrder ==
  ASSUME NEW length \in Nat \ {0}, NEW g \in Nat, NEW t \in Nat, g >= 1, t >= 1
  PROVE  /\ g <= t => Period(g, length) <= Period(t, length)
         /\ Period(g, length) < Period(t, length) <=> g <= Period(t, length) * length
<1> DEFINE p == Period(t, length)
<1>1. p \in Int /\ p * length \in Int
  BY PeriodIs
<1> HIDE DEF p
<1>2. (g - 1) \div length < p <=> g - 1 < p * length
  BY <1>1, DivBelow
<1>3. Period(g, length) < p <=> g <= p * length
  BY <1>1, <1>2 DEF Period
<1>4. g <= t => (g - 1) \div length <= (t - 1) \div length
  BY DivOrder
<1> QED BY <1>3, <1>4 DEF p, Period

\* Between events a balance stays.
LEMMA StaysQuiet ==
  ASSUME SourceInv, NEW g \in 1 .. indexed, NEW s \in 1 .. indexed, g <= s,
         \A t \in Recorded : ~(g < t /\ t <= s)
  PROVE  chain[s].balance = chain[g].balance
<1> DEFINE G == {n \in Nat : g + n <= s => chain[g + n].balance = chain[g].balance}
<1>1. /\ now \in Nat /\ indexed \in Nat /\ indexed <= now
      /\ g \in Nat /\ s \in Nat /\ g >= 1 /\ s <= indexed
  BY ChainTyped
<1>2. 0 \in G
  <2>1. g + 0 = g
    BY <1>1
  <2> QED BY <2>1
<1>3. ASSUME NEW n \in Nat, n \in G PROVE n + 1 \in G
  <2> SUFFICES ASSUME g + (n + 1) <= s
               PROVE  chain[g + (n + 1)].balance = chain[g].balance
    BY <1>1
  <2> DEFINE t == g + (n + 1)
  <2>1. t \in 2 .. now /\ t \in 1 .. indexed /\ g < t /\ t <= s /\ t - 1 = g + n /\ g + n <= s
    BY <1>1
  <2>2. chain[t - 1].balance = chain[g].balance
    BY <1>3, <2>1
  <2> HIDE DEF t
  <2>3. ~chain[t].event
    BY <2>1 DEF Recorded
  <2>4. chain[t].balance = chain[t - 1].balance
    BY <2>1, <2>3 DEF SourceInv
  <2> QED BY <2>2, <2>4 DEF t
<1> HIDE DEF G
<1>4. Nat \subseteq G
  BY <1>2, <1>3, NatSetInduction
<1>5. s - g \in Nat /\ g + (s - g) = s /\ s <= s
  BY <1>1
<1>6. s - g \in G
  BY <1>4, <1>5
<1> QED BY <1>5, <1>6 DEF G

-----------------------------------------------------------------------------
(* Series                                                                   *)

\* One tick of a period with an event, from some period on.
Spread(S, length) ==
    /\ S \in SUBSET Recorded
    /\ \A g, h \in S : g < h => Period(g, length) # Period(h, length)
    /\ \A g \in S, m \in Recorded :
         g < m => \E x \in S : m <= x /\ Period(x, length) = Period(m, length)

Later(t, length) == {Period(g, length) : g \in {x \in Recorded : x > t}}

LEMMA SnapshotsAre ==
  ASSUME NEW length, NEW n
  PROVE  Snapshots(length, n)
           = {t \in Recorded : /\ Period(t, length) \notin Later(t, length)
                               /\ Cardinality(Later(t, length)) < n}
BY DEF Snapshots, Later

LEMMA LaterFinite ==
  ASSUME SourceInv, NEW length, NEW t
  PROVE  /\ IsFiniteSet(Later(t, length)) /\ Cardinality(Later(t, length)) \in Nat
         /\ IsFiniteSet({g \in Recorded : g > t})
         /\ Cardinality({g \in Recorded : g > t}) \in Nat
<1> DEFINE A == {x \in Recorded : x > t}
           f == [x \in A |-> Period(x, length)]
<1>1. IsFiniteSet(1 .. indexed)
  BY ChainTyped, FS_Interval
<1>2. A \subseteq 1 .. indexed
  BY RecordedIs
<1>3. IsFiniteSet(A)
  BY <1>1, <1>2, FS_Subset
<1>4. f \in Surjection(A, Later(t, length))
  <2>1. f \in [A -> Later(t, length)]
    BY DEF Later
  <2>2. \A y \in Later(t, length) : \E x \in A : f[x] = y
    BY DEF Later
  <2> QED BY <2>1, <2>2 DEF Surjection
<1> HIDE DEF A, f
<1>5. IsFiniteSet(Later(t, length))
  BY <1>3, <1>4, FS_Surjection
<1> QED BY <1>3, <1>5, FS_CardinalityType DEF A

LEMMA SnapshotsSpread ==
  ASSUME SourceInv, NEW length \in Nat \ {0}, NEW n \in Nat
  PROVE  Spread(Snapshots(length, n), length)
<1> DEFINE S == Snapshots(length, n)
<1>1. \A t : t \in S <=> /\ t \in Recorded /\ Period(t, length) \notin Later(t, length)
                         /\ Cardinality(Later(t, length)) < n
  BY SnapshotsAre
<1>2. Recorded \in SUBSET (1 .. indexed) /\ indexed \in Nat
  BY RecordedIs, ChainTyped
<1> HIDE DEF S
<1>3. \A g, h \in S : g < h => Period(g, length) # Period(h, length)
  <2> SUFFICES ASSUME NEW g \in S, NEW h \in S, g < h
               PROVE  Period(g, length) # Period(h, length)
    OBVIOUS
  <2>1. h \in Recorded /\ h > g
    BY <1>1, <1>2
  <2>2. Period(h, length) \in Later(g, length)
    BY <2>1 DEF Later
  <2> QED BY <1>1, <2>2
<1>4. ASSUME NEW g \in S, NEW m \in Recorded, g < m
      PROVE  \E x \in S : m <= x /\ Period(x, length) = Period(m, length)
  <2> DEFINE P == {y \in Recorded : Period(y, length) = Period(m, length)}
             x == Max(P)
  <2>1. P \in SUBSET (1 .. indexed) /\ m \in P
    BY <1>2
  <2>2. x \in P /\ \A y \in P : y <= x
    BY <1>2, <2>1, MaxIs
  <2>3. x \in Recorded /\ Period(x, length) = Period(m, length) /\ m <= x
    BY <2>1, <2>2
  <2>4. ASSUME Period(x, length) \in Later(x, length) PROVE FALSE
    <3>1. PICK y \in Recorded : y > x /\ Period(y, length) = Period(x, length)
      BY <2>4 DEF Later
    <3>2. y \in P
      BY <2>3, <3>1
    <3>3. y <= x /\ x \in 1 .. indexed /\ y \in 1 .. indexed
      BY <1>2, <2>2, <2>3, <3>2
    <3> QED BY <1>2, <3>1, <3>3
  <2> HIDE DEF x, P
  <2>5. Later(x, length) \subseteq Later(g, length)
    <3>1. \A y \in Recorded : y > x => y > g
      <4> TAKE y \in Recorded
      <4>1. /\ g \in 1 .. indexed /\ m \in 1 .. indexed /\ x \in 1 .. indexed
            /\ y \in 1 .. indexed
        BY <1>1, <1>2, <2>3
      <4> QED BY <1>2, <1>4, <2>3, <4>1
    <3> QED BY <3>1 DEF Later
  <2>6. Cardinality(Later(x, length)) <= Cardinality(Later(g, length))
    BY <2>5, LaterFinite, FS_Subset
  <2>7. Cardinality(Later(x, length)) < n
    <3>1. Cardinality(Later(g, length)) < n
      BY <1>1
    <3>2. /\ Cardinality(Later(x, length)) \in Nat
          /\ Cardinality(Later(g, length)) \in Nat
      BY LaterFinite
    <3> QED BY <2>6, <3>1, <3>2
  <2>8. x \in S
    BY <1>1, <2>3, <2>4, <2>7
  <2> QED BY <2>3, <2>8
<1>5. Spread(S, length)
  <2>1. S \in SUBSET Recorded
    BY <1>1
  <2> QED BY <1>3, <1>4, <2>1 DEF Spread
<1> QED BY <1>5 DEF S

LEMMA RowsSpread ==
  ASSUME SourceInv
  PROVE  Spread(Rows, 1)
<1> DEFINE edge == now - SinkDays * Day
<1>1. Recorded \in SUBSET (1 .. indexed) /\ indexed \in Nat /\ now \in Nat
  BY RecordedIs, ChainTyped
<1>2. edge \in Int
  <2>1. SinkDays \in Nat /\ Day \in Nat
    BY RiskAssumption DEF RiskAssumption
  <2>2. SinkDays * Day \in Int
    BY <2>1, SMT
  <2> HIDE DEF now
  <2> QED BY <1>1, <2>2
<1>3. \A t : t \in Rows <=> /\ t \in Recorded /\ t >= edge
                            /\ Cardinality({g \in Recorded : g > t}) < SinkFirst
  BY DEF Rows
<1>4. SinkFirst \in Nat
  BY RiskAssumption DEF RiskAssumption
<1> HIDE DEF edge
<1>5. ASSUME NEW g \in Rows, NEW m \in Recorded, g < m PROVE m \in Rows
  <2> DEFINE A == {x \in Recorded : x > m}
             B == {x \in Recorded : x > g}
  <2>1. g \in 1 .. indexed /\ m \in 1 .. indexed /\ g >= edge
    BY <1>1, <1>3
  <2>2. A \subseteq B
    <3>1. \A x \in Recorded : x > m => x > g
      <4> TAKE x \in Recorded
      <4>1. x \in 1 .. indexed
        BY <1>1
      <4> QED BY <1>1, <1>5, <2>1, <4>1
    <3> QED BY <3>1
  <2>3. IsFiniteSet(B) /\ Cardinality(A) \in Nat /\ Cardinality(B) \in Nat
    BY LaterFinite
  <2>4. Cardinality(A) <= Cardinality(B) /\ Cardinality(B) < SinkFirst
    BY <1>3, <2>2, <2>3, FS_Subset
  <2>5. Cardinality(A) < SinkFirst
    <3> HIDE DEF A, B
    <3> QED BY <1>4, <2>3, <2>4
  <2>6. m >= edge
    BY <1>1, <1>2, <1>5, <2>1
  <2> QED BY <1>3, <2>5, <2>6
<1>6. \A g, h \in Rows : g < h => Period(g, 1) # Period(h, 1)
  <2> SUFFICES ASSUME NEW g \in Rows, NEW h \in Rows, g < h
               PROVE  Period(g, 1) # Period(h, 1)
    OBVIOUS
  <2>1. g \in 1 .. indexed /\ h \in 1 .. indexed
    BY <1>1, <1>3
  <2>2. Period(g, 1) = g - 1 /\ Period(h, 1) = h - 1
    BY <1>1, <2>1 DEF Period
  <2> QED BY <1>1, <2>1, <2>2
<1>7. \A g \in Rows, m \in Recorded :
        g < m => \E x \in Rows : m <= x /\ Period(x, 1) = Period(m, 1)
  <2> SUFFICES ASSUME NEW g \in Rows, NEW m \in Recorded, g < m
               PROVE  \E x \in Rows : m <= x /\ Period(x, 1) = Period(m, 1)
    OBVIOUS
  <2>1. m \in Rows /\ m <= m
    BY <1>1, <1>5
  <2> QED BY <2>1
<1>8. Rows \in SUBSET Recorded
  BY <1>3
<1> QED BY <1>6, <1>7, <1>8 DEF Spread

Before(ticks, t) == {g \in ticks : g < t}

\* The balance where a period starts is the one of the series' next older
\* tick: nothing has happened in between.
LEMMA StartIsOlder ==
  ASSUME SourceInv, NEW length \in Nat \ {0}, NEW S, Spread(S, length),
         NEW t \in S, Before(S, t) # {}
  PROVE  /\ Max(Before(S, t)) \in S /\ Max(Before(S, t)) < t
         /\ \A g \in S : g < t => g <= Max(Before(S, t))
         /\ Moved(StartOf(t, length), t) = Moved(Max(Before(S, t)), t)
<1> DEFINE g == Max(Before(S, t))
           s == Period(t, length) * length
<1>1. Recorded \in SUBSET (1 .. indexed) /\ indexed \in Nat
  BY RecordedIs, ChainTyped
<1>2. /\ S \in SUBSET Recorded
      /\ \A a, b \in S : a < b => Period(a, length) # Period(b, length)
      /\ \A a \in S, m \in Recorded :
           a < m => \E x \in S : m <= x /\ Period(x, length) = Period(m, length)
  BY DEF Spread
<1>3. Before(S, t) \in SUBSET (1 .. indexed)
  BY <1>1, <1>2 DEF Before
<1>4. g \in Before(S, t) /\ \A x \in Before(S, t) : x <= g
  BY <1>1, <1>3, MaxIs
<1>5. g \in S /\ g < t /\ \A x \in S : x < t => x <= g
  BY <1>4 DEF Before
<1> HIDE DEF g
<1>6. /\ g \in Recorded /\ t \in Recorded /\ g \in 1 .. indexed /\ t \in 1 .. indexed
      /\ g \in Nat /\ t \in Nat /\ g >= 1 /\ t >= 1
  BY <1>1, <1>2, <1>5
<1>7. s \in Int /\ s < t /\ Period(t, length) \in Int
  BY <1>6, PeriodIs
<1>8. g <= s
  <2>1. Period(g, length) <= Period(t, length) /\ Period(g, length) # Period(t, length)
    BY <1>2, <1>5, <1>6, PeriodOrder
  <2>2. Period(g, length) \in Int
    BY <1>6, PeriodIs
  <2>3. Period(g, length) < Period(t, length)
    BY <1>7, <2>1, <2>2
  <2> QED BY <1>6, <2>3, PeriodOrder
<1>9. ASSUME NEW m \in Recorded, g < m, m <= s PROVE FALSE
  <2>1. m \in 1 .. indexed /\ m \in Nat /\ m >= 1
    BY <1>1
  <2>2. PICK x \in S : m <= x /\ Period(x, length) = Period(m, length)
    BY <1>2, <1>5, <1>9
  <2>3. Period(m, length) < Period(t, length)
    BY <1>6, <1>9, <2>1, PeriodOrder
  <2>4. x \in 1 .. indexed /\ x \in Nat /\ x >= 1
    BY <1>1, <1>2
  <2>5. x < t
    <3>1. x <= s
      BY <1>6, <2>2, <2>3, <2>4, PeriodOrder
    <3> QED BY <1>6, <1>7, <2>4, <3>1
  <2>6. x <= g
    BY <1>5, <2>5
  <2> QED BY <1>6, <1>9, <2>1, <2>2, <2>4, <2>6
<1>10. StartOf(t, length) = s /\ s \in 1 .. indexed
  BY <1>1, <1>6, <1>7, <1>8 DEF StartOf, FirstTick
<1>11. chain[s].balance = chain[g].balance
  <2> HIDE DEF s
  <2> QED BY <1>6, <1>8, <1>9, <1>10, StaysQuiet
<1>12. Moved(StartOf(t, length), t) = Moved(g, t)
  BY <1>10, <1>11 DEF Moved
<1> QED BY <1>5, <1>12 DEF g

-----------------------------------------------------------------------------
(* The points of each history                                               *)

PriceAt(t) ==
    IF kind = "yield-vault" THEN Text(Else(chain[t].price, own.price))
    ELSE IF kind = "lending-market" THEN Else(Else(chain[t].price, own.price), One)
    ELSE Text(chain[t].price)

\* The points show ticks of a series, each with its price and, where its flow
\* is known, what its period moved.
Shows(points, ticks, series, length) ==
    /\ \A p \in points :
         /\ p.at \in ticks /\ p.series = series /\ p.price = PriceAt(p.at)
         /\ p.known => p.flow = Moved(StartOf(p.at, length), p.at)
    /\ \A p, q \in points : p.at = q.at => p = q
    /\ \A t \in ticks : \E p \in points : p.at = t

LEMMA PointIs ==
  ASSUME NEW t, NEW series, NEW price, NEW known, NEW flow
  PROVE  /\ Point(t, series, price, known, flow).at = t
         /\ Point(t, series, price, known, flow).price = price
         /\ Point(t, series, price, known, flow).series = series
         /\ Point(t, series, price, known, flow).known = known
         /\ Point(t, series, price, known, flow).flow = flow
BY DEF Point

YieldKnown(ticks, t) ==
    Before(ticks, t) # {} /\ chain[Max(Before(ticks, t))].told /\ chain[t].told
YieldPoint(ticks, series, t) ==
    Point(t, series, Text(Else(chain[t].price, own.price)), YieldKnown(ticks, t),
          IF YieldKnown(ticks, t) THEN Moved(Max(Before(ticks, t)), t) ELSE 0)

LEMMA YieldShows ==
  ASSUME SourceInv, kind = "yield-vault", NEW length \in Nat \ {0}, NEW S,
         Spread(S, length), NEW series
  PROVE  /\ Shows(YieldSeriesHistory(S, series), S, series, length)
         /\ \A p \in YieldSeriesHistory(S, series) : p.known = YieldKnown(S, p.at)
<1> DEFINE pt(t) == YieldPoint(S, series, t)
           points == YieldSeriesHistory(S, series)
<1>1. points = {pt(t) : t \in S}
  BY DEF YieldSeriesHistory, YieldPoint, YieldKnown, Before
<1>2. \A t : /\ pt(t).at = t /\ pt(t).series = series /\ pt(t).price = PriceAt(t)
             /\ pt(t).known = YieldKnown(S, t)
             /\ pt(t).known => pt(t).flow = Moved(Max(Before(S, t)), t)
  BY PointIs DEF YieldPoint, PriceAt
<1>3. ASSUME NEW t \in S, YieldKnown(S, t)
      PROVE  Moved(Max(Before(S, t)), t) = Moved(StartOf(t, length), t)
  BY <1>3, StartIsOlder DEF YieldKnown
<1> HIDE DEF pt, points
<1>4. \A p \in points : /\ p.at \in S /\ p = pt(p.at)
  BY <1>1, <1>2
<1>5. \A t \in S : pt(t) \in points
  BY <1>1
<1>6. \A p \in points :
        /\ p.at \in S /\ p.series = series /\ p.price = PriceAt(p.at)
        /\ p.known => p.flow = Moved(StartOf(p.at, length), p.at)
        /\ p.known = YieldKnown(S, p.at)
  <2> SUFFICES ASSUME NEW p \in points
               PROVE  /\ p.at \in S /\ p.series = series /\ p.price = PriceAt(p.at)
                      /\ p.known => p.flow = Moved(StartOf(p.at, length), p.at)
                      /\ p.known = YieldKnown(S, p.at)
    OBVIOUS
  <2>1. p.at \in S /\ p = pt(p.at)
    BY <1>4
  <2>2. /\ p.series = series /\ p.price = PriceAt(p.at)
        /\ p.known = YieldKnown(S, p.at)
        /\ p.known => p.flow = Moved(Max(Before(S, p.at)), p.at)
    BY <1>2, <2>1
  <2> QED BY <1>3, <2>1, <2>2
<1>7. \A p, q \in points : p.at = q.at => p = q
  BY <1>4
<1>8. \A t \in S : \E p \in points : p.at = t
  BY <1>2, <1>5
<1>9. Shows(points, S, series, length)
  BY <1>6, <1>7, <1>8 DEF Shows
<1>10. \A p \in points : p.known = YieldKnown(S, p.at)
  BY <1>6
<1> QED BY <1>9, <1>10 DEF points

\* The points that carry the totals of their own period.
TotalPoint(series, length, t) ==
    Point(t, series, PriceAt(t), TRUE, Moved(StartOf(t, length), t))

LEMMA TotalsShow ==
  ASSUME NEW ticks, NEW series, NEW length, NEW points,
         points = {TotalPoint(series, length, t) : t \in ticks}
  PROVE  Shows(points, ticks, series, length) /\ \A p \in points : p.known
<1> DEFINE pt(t) == TotalPoint(series, length, t)
<1>1. \A t : /\ pt(t).at = t /\ pt(t).series = series /\ pt(t).price = PriceAt(t)
             /\ pt(t).known /\ pt(t).flow = Moved(StartOf(t, length), t)
  BY DEF TotalPoint, Point
<1>2. points = {pt(t) : t \in ticks}
  OBVIOUS
<1> HIDE DEF pt
<1>3. \A p \in points : p.at \in ticks /\ p = pt(p.at)
  BY <1>1, <1>2
<1>4. \A t \in ticks : pt(t) \in points
  BY <1>2
<1>5. \A p \in points :
        /\ p.at \in ticks /\ p.series = series /\ p.price = PriceAt(p.at)
        /\ p.known /\ p.flow = Moved(StartOf(p.at, length), p.at)
  <2> TAKE p \in points
  <2>1. p.at \in ticks /\ p = pt(p.at)
    BY <1>3
  <2> QED BY <1>1, <2>1
<1>6. \A p, q \in points : p.at = q.at => p = q
  BY <1>3
<1>7. \A t \in ticks : \E p \in points : p.at = t
  BY <1>1, <1>4
<1> QED BY <1>5, <1>6, <1>7 DEF Shows

LEMMA LendingShows ==
  ASSUME kind = "lending-market", NEW ticks, NEW series, NEW length
  PROVE  /\ Shows(LendingSeriesHistory(ticks, series, length), ticks, series, length)
         /\ \A p \in LendingSeriesHistory(ticks, series, length) : p.known
<1>1. LendingSeriesHistory(ticks, series, length)
        = {TotalPoint(series, length, t) : t \in ticks}
  BY DEF LendingSeriesHistory, TotalPoint, PriceAt
<1> QED BY <1>1, TotalsShow

AnsweredRows == {g \in Rows : answered}

LEMMA BlocksShow ==
  ASSUME kind = "erc4626"
  PROVE  Shows(BlockHistory, AnsweredRows, "block", 1) /\ \A p \in BlockHistory : p.known
<1>1. BlockHistory = {TotalPoint("block", 1, t) : t \in AnsweredRows}
  BY DEF BlockHistory, TotalPoint, PriceAt, AnsweredRows
<1> QED BY <1>1, TotalsShow

LEMMA AnsweredSpread ==
  ASSUME SourceInv
  PROVE  Spread(AnsweredRows, 1)
<1>1. CASE answered
  <2>1. AnsweredRows = Rows
    BY <1>1 DEF AnsweredRows
  <2> QED BY <2>1, RowsSpread
<1>2. CASE ~answered
  <2>1. AnsweredRows = {}
    BY <1>2 DEF AnsweredRows
  <2> QED BY <2>1 DEF Spread
<1> QED BY <1>1, <1>2

LEMMA LengthsAre ==
  /\ Hour \in Nat \ {0} /\ Day \in Nat \ {0} /\ 1 \in Nat \ {0}
  /\ HourlyFirst \in Nat /\ DailyFirst \in Nat /\ HourlyFirst >= 2 /\ Day % Hour = 0
BY RiskAssumption, QueryAssumption DEF RiskAssumption, QueryAssumption

LEMMA SeriesSpread ==
  ASSUME SourceInv
  PROVE  Spread(HourlyAt, Hour) /\ Spread(DailyAt, Day)
<1>1. Spread(Snapshots(Hour, HourlyFirst), Hour)
  BY LengthsAre, SnapshotsSpread
<1>2. Spread({}, Hour)
  BY DEF Spread
<1>3. Spread(DailyAt, Day)
  BY LengthsAre, SnapshotsSpread DEF DailyAt
<1> QED BY <1>1, <1>2, <1>3 DEF HourlyAt

\* Each kind of vault has the points of its series.
YH == YieldSeriesHistory(HourlyAt, "hourly")
YD == YieldSeriesHistory(DailyAt, "daily")
LH == LendingSeriesHistory(HourlyAt, "hourly", Hour)
LD == LendingSeriesHistory(DailyAt, "daily", Day)

LEMMA HistoryIs ==
  ASSUME SourceInv
  PROVE  \/ /\ kind = "yield-vault" /\ History = YH \cup YD
            /\ Shows(YH, HourlyAt, "hourly", Hour) /\ Shows(YD, DailyAt, "daily", Day)
         \/ /\ kind = "lending-market" /\ History = LH \cup LD
            /\ Shows(LH, HourlyAt, "hourly", Hour) /\ Shows(LD, DailyAt, "daily", Day)
         \/ /\ kind = "erc4626" /\ History = BlockHistory
            /\ Shows(BlockHistory, AnsweredRows, "block", 1)
<1>1. CASE kind = "yield-vault"
  <2>1. History = YH \cup YD
    BY <1>1 DEF History, MapYieldVault, YH, YD
  <2>2. Shows(YH, HourlyAt, "hourly", Hour)
    BY <1>1, SeriesSpread, LengthsAre, YieldShows DEF YH
  <2>3. Shows(YD, DailyAt, "daily", Day)
    BY <1>1, SeriesSpread, LengthsAre, YieldShows DEF YD
  <2> QED BY <1>1, <2>1, <2>2, <2>3
<1>2. CASE kind = "lending-market"
  <2>1. History = LH \cup LD
    BY <1>2 DEF History, MapLendingMarket, LH, LD
  <2>2. Shows(LH, HourlyAt, "hourly", Hour) /\ Shows(LD, DailyAt, "daily", Day)
    BY <1>2, LendingShows DEF LH, LD
  <2> QED BY <1>2, <2>1, <2>2
<1>3. CASE kind = "erc4626"
  <2>1. History = BlockHistory
    BY <1>3 DEF History
  <2> QED BY <1>3, <2>1, BlocksShow
<1> QED BY <1>1, <1>2, <1>3 DEF SourceInv, TypeOK, Kinds

LEMMA SeriesRecorded ==
  ASSUME SourceInv
  PROVE  HourlyAt \subseteq Recorded /\ DailyAt \subseteq Recorded
         /\ AnsweredRows \subseteq Recorded
BY SeriesSpread, AnsweredSpread DEF Spread

\* Every point shows a recorded tick and its price.
LEMMA HistoryShows ==
  ASSUME SourceInv, NEW p \in History
  PROVE  p.at \in Recorded /\ p.price = PriceAt(p.at)
<1>1. HourlyAt \subseteq Recorded /\ DailyAt \subseteq Recorded
      /\ AnsweredRows \subseteq Recorded
  BY SeriesRecorded
<1>2. CASE History = YH \cup YD /\ Shows(YH, HourlyAt, "hourly", Hour)
             /\ Shows(YD, DailyAt, "daily", Day)
  BY <1>1, <1>2 DEF Shows
<1>3. CASE History = LH \cup LD /\ Shows(LH, HourlyAt, "hourly", Hour)
             /\ Shows(LD, DailyAt, "daily", Day)
  BY <1>1, <1>3 DEF Shows
<1>4. CASE History = BlockHistory /\ Shows(BlockHistory, AnsweredRows, "block", 1)
  BY <1>1, <1>4 DEF Shows
<1> QED BY <1>2, <1>3, <1>4, HistoryIs

-----------------------------------------------------------------------------
(* Drawdowns                                                                *)

\* The price the report compares with, where the source gives one.
LEMMA CurrentPrice ==
  ASSUME own.price # Missing
  PROVE  current.price = own.price
BY DEF current, Text, Else

LEMMA PriceIs ==
  ASSUME NEW t
  PROVE  chain[t].price # Missing => PriceAt(t) = chain[t].price
BY DEF PriceAt, Text, Else

\* A point without a price of its own shows no fall.
LEMMA NoFallFromNone ==
  ASSUME SourceInv, NEW t, chain[t].price = Missing, own.price # Missing, own.price \in Int,
         PriceAt(t) > 0
  PROVE  PriceAt(t) = own.price
<1>1. Unreadable \in Int /\ Unreadable < 0
  BY RiskAssumption DEF RiskAssumption
<1>2. kind # "yield-vault" /\ kind # "lending-market" => PriceAt(t) = Unreadable
  BY DEF PriceAt, Text, Else
<1>3. ~(Unreadable > 0)
  BY <1>1
<1>4. CASE kind = "yield-vault"
  BY <1>4 DEF PriceAt, Text, Else
<1>5. CASE kind = "lending-market"
  BY <1>5 DEF PriceAt, Else
<1> QED BY <1>2, <1>3, <1>4, <1>5

LEMMA Thresholds ==
  ASSUME NEW name \in Drawdowns, NEW a \in Int, a > 0
  PROVE  /\ DropThreshold[name] \in Int
         /\ ~((a - a) * 1000 >= DropThreshold[name] * a)
<1>1. DropThreshold[name] \in {5, 20, 50}
  BY DEF DropThreshold, Drawdowns
<1>2. \A d \in {5, 20, 50} : ~((a - a) * 1000 >= d * a)
  OBVIOUS
<1> QED BY <1>1, <1>2

LEMMA BackedHolds ==
  ASSUME SourceInv
  PROVE  VerdictIsBacked
<1> SUFFICES ASSUME Verdict(Flags) # "unavailable"
             PROVE  /\ now - indexed <= FreshTicks /\ ~errors
                    /\ other \notin {"stale", "unavailable"}
                    /\ own.price # Unreadable
                    /\ own.price # Missing =>
                         \A name \in Drawdowns \cap Flags :
                           \E t \in EventsIn(name) : FellBelow(t, name)
  BY DEF VerdictIsBacked
<1>1. ~BadData
  BY DEF Verdict, Flags
<1>2. VaultFreshness = "fresh" /\ current.price # Unreadable
  BY <1>1 DEF BadData
<1>3. SourceClass = "fresh" /\ other \notin {"stale", "unavailable"}
  BY <1>2 DEF VaultFreshness, SourceClass
<1>4. now - indexed <= FreshTicks /\ ~errors
  BY <1>3 DEF SourceClass
<1>5. own.price # Unreadable
  BY <1>2, CurrentPrice, RiskAssumption DEF RiskAssumption
<1>6. ASSUME own.price # Missing, NEW name \in Drawdowns, name \in Flags
      PROVE  \E t \in EventsIn(name) : FellBelow(t, name)
  <2>1. DroppedIn(name)
    BY <1>1, <1>6 DEF Flags, Drawdowns
  <2>2. PICK p \in InWindow(name) :
          p.price > 0 /\ (p.price - current.price) * 1000 >= DropThreshold[name] * p.price
    BY <2>1 DEF DroppedIn
  <2> DEFINE t == p.at
  <2>3. t \in Recorded /\ p.price = PriceAt(t)
    BY <2>2, HistoryShows DEF InWindow
  <2>4. t \in EventsIn(name)
    BY <2>3 DEF InWindow, EventsIn
  <2>5. current.price = own.price /\ own.price \in Int
    BY <1>6, CurrentPrice, RecordedIs, ChainTyped DEF own
  <2>6. chain[t].price # Missing
    <3> SUFFICES ASSUME chain[t].price = Missing PROVE FALSE
      OBVIOUS
    <3>1. p.price = own.price
      BY <1>6, <2>2, <2>3, <2>5, NoFallFromNone
    <3> QED BY <2>2, <2>5, <3>1, Thresholds
  <2>7. p.price = chain[t].price
    BY <2>3, <2>6, PriceIs
  <2>8. FellBelow(t, name)
    BY <2>2, <2>5, <2>7 DEF FellBelow
  <2> QED BY <2>4, <2>8
<1> QED BY <1>2, <1>3, <1>4, <1>5, <1>6

\* A verdict rests on fresh sources, and a drawdown on a price that was given
\* (computeRisk over the histories the mappers and the sink's reader make).
THEOREM VerdictsBacked == Spec => []VerdictIsBacked
BY BackedHolds, SourceSound, PTL

\* The queries' reach: what the newest periods leave room for is in the answer.
LEMMA ClosesIsIn ==
  ASSUME SourceInv, NEW length \in Nat \ {0}, NEW n \in Nat, NEW t \in Recorded,
         Closes(t, length, n)
  PROVE  t \in Snapshots(length, n)
<1> DEFINE a == Period(t, length)
           b == Period(indexed, length)
<1>1. /\ Recorded \in SUBSET (1 .. indexed) /\ indexed \in Nat /\ indexed >= 1
      /\ t \in 1 .. indexed /\ t \in Nat /\ t >= 1
  BY RecordedIs, ChainTyped
<1>2. a \in Int /\ b \in Int
  BY <1>1, PeriodIs
<1>3. b - a < n /\ \A g \in Recorded : g > t => Period(g, length) # a
  BY DEF Closes
<1>4. a \notin Later(t, length)
  BY <1>3 DEF Later
<1>5. a <= b
  BY <1>1, PeriodOrder
<1> HIDE DEF a, b
<1>6. Later(t, length) \subseteq (a + 1) .. b
  <2> SUFFICES ASSUME NEW g \in Recorded, g > t
               PROVE  Period(g, length) \in (a + 1) .. b
    BY DEF Later
  <2>1. g \in 1 .. indexed /\ g \in Nat /\ g >= 1 /\ t <= g /\ g <= indexed
    BY <1>1
  <2>2. Period(g, length) \in Int
    BY <2>1, PeriodIs
  <2>3. a <= Period(g, length) /\ Period(g, length) <= b
    BY <1>1, <2>1, PeriodOrder DEF a, b
  <2>4. Period(g, length) # a
    BY <1>3
  <2> QED BY <1>2, <2>2, <2>3, <2>4
<1>7. /\ IsFiniteSet((a + 1) .. b)
      /\ Cardinality((a + 1) .. b) = IF a + 1 > b THEN 0 ELSE b - (a + 1) + 1
  BY <1>2, FS_Interval
<1>8. Cardinality((a + 1) .. b) = b - a
  BY <1>2, <1>5, <1>7
<1>9. Cardinality(Later(t, length)) <= b - a /\ Cardinality(Later(t, length)) \in Nat
  BY <1>6, <1>7, <1>8, FS_Subset, LaterFinite
<1>10. Cardinality(Later(t, length)) < n
  BY <1>2, <1>3, <1>9
<1> QED BY <1>4, <1>10, SnapshotsAre DEF a

LEMMA ReachedIsShown ==
  ASSUME SourceInv, NEW t \in Recorded, Reached(t)
  PROVE  \E p \in History : p.at = t
<1>1. CASE kind = "erc4626"
  <2>1. t \in AnsweredRows
    BY <1>1 DEF Reached, AnsweredRows, Rows
  <2> QED BY <1>1, <2>1, HistoryIs DEF Shows
<1>2. CASE kind # "erc4626"
  <2>1. t \in HourlyAt \/ t \in DailyAt
    <3>1. hourly /\ Closes(t, Hour, HourlyFirst) => t \in HourlyAt
      BY ClosesIsIn, LengthsAre DEF HourlyAt
    <3>2. Closes(t, Day, DailyFirst) => t \in DailyAt
      BY ClosesIsIn, LengthsAre DEF DailyAt
    <3> QED BY <1>2, <3>1, <3>2 DEF Reached
  <2> QED BY <1>2, <2>1, HistoryIs DEF Shows
<1> QED BY <1>1, <1>2

NewestAt(name) == Max({p.at : p \in InWindow(name)})

LEMMA DroppedIs ==
  ASSUME NEW name
  PROVE  DroppedIn(name)
           <=> \E p \in InWindow(name) :
                 /\ p.at = NewestAt(name) /\ p.price > 0
                 /\ (p.price - current.price) * 1000 >= DropThreshold[name] * p.price
BY DEF DroppedIn, NewestAt

LEMMA FallHolds ==
  ASSUME SourceInv
  PROVE  FallIsSeen
<1> SUFFICES ASSUME VaultFreshness = "fresh", own.price > 0, NEW name \in Drawdowns,
                    \A t \in EventsIn(name) : FellBelow(t, name),
                    NEW r \in EventsIn(name), Reached(r)
             PROVE  name \in Flags
  BY DEF FallIsSeen
<1>1. /\ Missing \in Int /\ Missing < 0 /\ Unreadable \in Int /\ Unreadable < 0
  BY RiskAssumption DEF RiskAssumption
<1>2. own.price \in Int
  BY RecordedIs, ChainTyped DEF own
<1>3. own.price # Missing /\ own.price # Unreadable
  BY <1>1, <1>2
<1>4. current.price = own.price
  BY <1>3, CurrentPrice
<1>5. ASSUME NEW p \in InWindow(name)
      PROVE  p.at \in EventsIn(name) /\ p.price = chain[p.at].price /\ FellBelow(p.at, name)
  <2>1. p.at \in Recorded /\ p.price = PriceAt(p.at)
    BY HistoryShows DEF InWindow
  <2>2. p.at \in EventsIn(name)
    BY <2>1 DEF InWindow, EventsIn
  <2>3. chain[p.at].price > 0 /\ FellBelow(p.at, name)
    BY <2>2 DEF FellBelow
  <2>4. chain[p.at].price \in Int
    BY <2>1, RecordedIs, ChainTyped
  <2>5. chain[p.at].price # Missing
    BY <1>1, <2>3, <2>4
  <2> QED BY <2>1, <2>2, <2>3, <2>5, PriceIs
<1> DEFINE ticks == {p.at : p \in InWindow(name)}
<1>6. ticks \in SUBSET (1 .. indexed)
  <2>1. \A p \in InWindow(name) : p.at \in 1 .. indexed
    BY <1>5, RecordedIs DEF EventsIn
  <2> QED BY <2>1
<1>7. ticks # {}
  <2>1. PICK p \in History : p.at = r
    BY ReachedIsShown DEF EventsIn
  <2>2. p \in InWindow(name)
    BY <2>1 DEF InWindow, EventsIn
  <2> QED BY <2>2
<1>8. Max(ticks) \in ticks
  <2> HIDE DEF ticks
  <2> QED BY <1>6, <1>7, ChainTyped, MaxIs
<1>9. PICK p \in InWindow(name) : p.at = Max(ticks)
  BY <1>8
<1>10. /\ p.price > 0
       /\ (p.price - current.price) * 1000 >= DropThreshold[name] * p.price
  <2>1. p.price = chain[p.at].price /\ FellBelow(p.at, name)
    BY <1>5
  <2> QED BY <1>4, <2>1 DEF FellBelow
<1>11. DroppedIn(name)
  <2>1. p.at = NewestAt(name)
    BY <1>9 DEF NewestAt
  <2> QED BY <1>10, <2>1, DroppedIs
<1>12. ~BadData
  BY <1>3, <1>4 DEF BadData
<1> QED BY <1>11, <1>12 DEF Flags

\* A fall is flagged by every window that an event within the queries' reach
\* shows it to (computeRisk over the points of the templates and the sink).
THEOREM FallsAreSeen == Spec => []FallIsSeen
BY FallHolds, SourceSound, PTL

-----------------------------------------------------------------------------
(* An outflow happened                                                      *)

\* A known point of the last day.
Recent(points) == {p \in points : now - p.at <= Day /\ p.known}

FlowOf(flows) == [p \in flows |-> p.flow]

\* The flows add up to what the vault moved from one tick to a later one.
Spanned(flows, step) ==
    \E g, t \in 1 .. indexed :
      g <= t /\ now - g <= Day + step /\ SumFunction(FlowOf(flows)) = Moved(g, t)

\* Once a tick of a series has a known flow, the later ones have.
KnownOn(points, S) ==
    \A p \in points, t \in S : p.known /\ p.at < t => \E q \in points : q.at = t /\ q.known

LEMMA RecentIs ==
  ASSUME NEW points
  PROVE  \A p : p \in Recent(points) <=> p \in points /\ now - p.at <= Day /\ p.known
BY DEF Recent

\* Where a tick's interval starts, and how far that is.
LEMMA StartIsNear ==
  ASSUME SourceInv, NEW length \in Nat \ {0}, NEW t \in 1 .. indexed
  PROVE  /\ StartOf(t, length) \in 1 .. indexed
         /\ StartOf(t, length) <= t /\ t - StartOf(t, length) <= length
<1> DEFINE s == Period(t, length) * length
<1>1. indexed \in Nat /\ t \in Nat /\ t >= 1 /\ t <= indexed
  BY ChainTyped
<1>2. s \in Int /\ s < t /\ t - s <= length
  BY <1>1, PeriodIs
<1>3. StartOf(t, length) = IF s < 1 THEN 1 ELSE s
  BY DEF StartOf, FirstTick
<1> HIDE DEF s
<1> QED BY <1>1, <1>2, <1>3

\* The flows of a series' last day add up: each starts where the one before it
\* ends, and the oldest at most an interval before its tick.
LEMMA FlowsSpan ==
  ASSUME SourceInv, NEW length \in Nat \ {0}, NEW S, Spread(S, length), NEW series,
         NEW points, Shows(points, S, series, length), KnownOn(points, S),
         Recent(points) # {}
  PROVE  Spanned(Recent(points), length)
<1> DEFINE flows == Recent(points)
           T == {p.at : p \in flows}
           f == [t \in T |-> CHOOSE p \in flows : p.at = t]
           prev == [t \in T |-> IF \E g \in T : g < t THEN Max(Before(S, t))
                                ELSE StartOf(t, length)]
           w == [t \in T |-> f[t].flow]
           v == FlowOf(flows)
           b == [t \in 1 .. indexed |-> chain[t].balance]
<1>1. /\ now \in Nat /\ indexed \in Nat /\ indexed <= now /\ Day \in Nat
      /\ \A t \in 1 .. indexed : chain[t].balance \in Int
      /\ Recorded \in SUBSET (1 .. indexed) /\ S \in SUBSET Recorded
  BY ChainTyped, RecordedIs, RiskAssumption DEF RiskAssumption, Spread
<1>2. \A p : p \in flows <=> p \in points /\ now - p.at <= Day /\ p.known
  BY RecentIs
<1>3. /\ \A p \in flows : p.at \in S /\ p.flow = Moved(StartOf(p.at, length), p.at)
      /\ \A p, q \in flows : p.at = q.at => p = q
  BY <1>2 DEF Shows
<1> HIDE DEF flows
<1>4. /\ T \in SUBSET S /\ T \subseteq 1 .. indexed /\ \A t \in T : now - t <= Day
  BY <1>1, <1>2, <1>3
<1>5. \A t \in T : \E p \in flows : p.at = t
  OBVIOUS
<1>6. \A p \in flows : p.at \in T
  OBVIOUS
<1> HIDE DEF T
<1>7. \A t \in T : f[t] \in flows /\ f[t].at = t /\ w[t] = f[t].flow
  BY <1>5
<1>8. \A p \in flows : p = f[p.at]
  BY <1>3, <1>6, <1>7
<1>9. flows = {f[t] : t \in T}
  BY <1>6, <1>7, <1>8
<1>10. \A t \in T, u \in S : t < u => u \in T
  <2> SUFFICES ASSUME NEW t \in T, NEW u \in S, t < u PROVE u \in T
    OBVIOUS
  <2>1. PICK p \in flows : p.at = t
    BY <1>5
  <2>2. PICK q \in points : q.at = u /\ q.known
    BY <1>2, <2>1 DEF KnownOn
  <2>3. now - u <= Day
    <3>1. t \in Int /\ u \in Int /\ now - t <= Day
      BY <1>1, <1>4
    <3> HIDE DEF now
    <3> QED BY <1>1, <3>1
  <2>4. q \in flows
    BY <1>2, <2>2, <2>3
  <2> QED BY <1>6, <2>2, <2>4
<1>11. \A t \in T : (\E g \in T : g < t) =>
         /\ Max(Before(S, t)) \in T /\ Max(Before(S, t)) < t
         /\ \A g \in T : g < t => g <= Max(Before(S, t))
         /\ Moved(StartOf(t, length), t) = Moved(Max(Before(S, t)), t)
  <2> SUFFICES ASSUME NEW t \in T, NEW g \in T, g < t
               PROVE  /\ Max(Before(S, t)) \in T /\ Max(Before(S, t)) < t
                      /\ \A x \in T : x < t => x <= Max(Before(S, t))
                      /\ Moved(StartOf(t, length), t) = Moved(Max(Before(S, t)), t)
    OBVIOUS
  <2> DEFINE m == Max(Before(S, t))
  <2>1. g \in Before(S, t) /\ t \in S
    BY <1>4 DEF Before
  <2>2. /\ m \in S /\ m < t /\ \A x \in S : x < t => x <= m
        /\ Moved(StartOf(t, length), t) = Moved(m, t)
    BY <2>1, StartIsOlder
  <2> HIDE DEF m
  <2>3. g <= m /\ g \in Int /\ m \in Int
    BY <1>1, <1>4, <2>2
  <2>4. m \in T
    BY <1>10, <2>2, <2>3
  <2>5. \A x \in T : x < t => x <= m
    BY <1>4, <2>2
  <2> QED BY <2>2, <2>4, <2>5 DEF m
<1>12. \A t \in T : /\ StartOf(t, length) \in 1 .. indexed /\ StartOf(t, length) <= t
                    /\ t - StartOf(t, length) <= length
  BY <1>4, StartIsNear
<1>13. /\ \A t \in T : prev[t] \in 1 .. indexed
       /\ \A t \in T : (\E g \in T : g < t) => prev[t] = Max(Before(S, t))
       /\ \A t \in T : ~(\E g \in T : g < t) => prev[t] = StartOf(t, length)
       /\ prev \in [T -> 1 .. indexed]
  <2>1. \A t \in T : prev[t] = IF \E g \in T : g < t THEN Max(Before(S, t))
                                ELSE StartOf(t, length)
    OBVIOUS
  <2>2. \A t \in T : prev[t] \in 1 .. indexed
    BY <1>4, <1>11, <1>12, <2>1
  <2>3. prev = [t \in T |-> prev[t]]
    OBVIOUS
  <2> HIDE DEF prev
  <2>4. prev \in [T -> 1 .. indexed]
    BY <2>2, <2>3
  <2> QED BY <2>1, <2>2, <2>4
<1>14. \A t \in 1 .. indexed : b[t] = chain[t].balance /\ b[t] \in Int
  BY <1>1
<1>15. b \in [1 .. indexed -> Int]
  BY <1>1
<1>16. \A p \in flows : v[p] = p.flow
  BY DEF FlowOf
<1>17. SumFunction(v) = SumFunctionOnSet(v, flows)
  BY DEF SumFunction, FlowOf
<1>18. IsFiniteSet(T)
  <2>1. IsFiniteSet(1 .. indexed)
    BY <1>1, FS_Interval
  <2> QED BY <1>4, <2>1, FS_Subset
<1> HIDE DEF f, prev, w, v, b
<1>19. \A t \in T : w[t] = Moved(prev[t], t)
  <2> TAKE t \in T
  <2>1. w[t] = Moved(StartOf(t, length), t)
    BY <1>3, <1>7
  <2> QED BY <1>11, <1>13, <2>1
<1>20. \A t \in T : w[t] = b[t] - b[prev[t]] /\ w[t] \in Int
  <2> TAKE t \in T
  <2>1. t \in 1 .. indexed /\ prev[t] \in 1 .. indexed
    BY <1>4, <1>13
  <2> QED BY <1>14, <1>19, <2>1 DEF Moved
<1>21. \A t \in T : w[t] \in Int /\ v[f[t]] = w[t]
  BY <1>7, <1>16, <1>20
<1>22. \A x, y \in T : f[x] = f[y] => x = y
  <2> TAKE x, y \in T
  <2>1. f[x].at = x /\ f[y].at = y
    BY <1>7
  <2> QED BY <2>1
<1>23. SumFunctionOnSet(v, {f[t] : t \in T}) = SumFunctionOnSet(w, T)
  BY <1>18, <1>21, <1>22, SumImage
<1>24. T # {}
  BY <1>6 DEF flows
<1>25. Linked(T, prev)
  <2> SUFFICES ASSUME NEW g \in T, NEW h \in T, g < h
               PROVE  prev[h] \in T /\ g <= prev[h] /\ prev[h] < h
    BY DEF Linked
  <2> QED BY <1>11, <1>13
<1>26. PICK a, c \in T : /\ \A x \in T : a <= x /\ x <= c
                         /\ SumFunctionOnSet(w, T) = b[c] - b[prev[a]]
  <2>1. Differences(w, b, prev, T)
    BY <1>20 DEF Differences
  <2>2. Telescoped(w, b, prev, T)
    BY <1>1, <1>4, <1>13, <1>15, <1>24, <1>25, <2>1, Telescope
  <2> QED BY <2>2 DEF Telescoped
<1>27. a \in 1 .. indexed /\ c \in 1 .. indexed /\ prev[a] \in 1 .. indexed
  BY <1>4, <1>13
<1>28. SumFunction(v) = Moved(prev[a], c)
  <2>1. b[c] - b[prev[a]] = Moved(prev[a], c)
    BY <1>14, <1>27 DEF Moved
  <2> QED BY <1>9, <1>17, <1>23, <1>26, <2>1
<1>29. prev[a] <= c /\ now - prev[a] <= Day + length
  <2>1. a <= c /\ now - a <= Day
    BY <1>4, <1>26
  <2>2. ~(\E g \in T : g < a)
    <3> SUFFICES ASSUME NEW g \in T, g < a PROVE FALSE
      OBVIOUS
    <3>1. a <= g /\ a \in Int /\ g \in Int
      BY <1>4, <1>26
    <3> QED BY <3>1
  <2>3. prev[a] = StartOf(a, length)
    BY <1>13, <2>2
  <2>4. prev[a] <= a /\ a - prev[a] <= length
    BY <1>12, <2>3
  <2> HIDE DEF now
  <2> QED BY <1>1, <1>27, <2>1, <2>4
<1> QED BY <1>27, <1>28, <1>29 DEF Spanned, v, flows

\* The finest series with a flow in the last day is taken, whole.
LEMMA FinestWins ==
  ASSUME NEW A, NEW B, History = A \cup B,
         \A p \in A : p.series = "hourly", \A p \in B : p.series = "daily"
  PROVE  Flows24h = IF Recent(A) # {} THEN Recent(A) ELSE Recent(B)
<1> DEFINE all == Recent(History)
           has(x) == \E p \in all : p.series = x
<1>1. Flows24h = {p \in all : p.series = IF has("hourly") THEN "hourly"
                                         ELSE IF has("daily") THEN "daily" ELSE "block"}
  BY DEF Flows24h, Recent
<1>2. all = Recent(A) \cup Recent(B)
  BY DEF Recent
<1>3. (\A p \in Recent(A) : p.series = "hourly") /\ (\A p \in Recent(B) : p.series = "daily")
  BY DEF Recent
<1> HIDE DEF all
<1>4. CASE Recent(A) # {}
  BY <1>1, <1>2, <1>3, <1>4
<1>5. CASE Recent(A) = {}
  BY <1>1, <1>2, <1>3, <1>5
<1> QED BY <1>4, <1>5

LEMMA BlocksOnly ==
  ASSUME NEW C, History = C, \A p \in C : p.series = "block"
  PROVE  Flows24h = Recent(C)
<1> DEFINE all == Recent(History)
           has(x) == \E p \in all : p.series = x
<1>1. Flows24h = {p \in all : p.series = IF has("hourly") THEN "hourly"
                                         ELSE IF has("daily") THEN "daily" ELSE "block"}
  BY DEF Flows24h, Recent
<1>2. \A p \in all : p.series = "block"
  BY DEF Recent
<1> QED BY <1>1, <1>2

\* Every recorded balance was told.
Told == \A t \in Recorded : chain[t].told

LEMMA ToldIsKnown ==
  ASSUME SourceInv, Told, NEW S, S \subseteq Recorded, NEW t \in S
  PROVE  YieldKnown(S, t) <=> \E g \in S : g < t
<1>1. Before(S, t) \in SUBSET (1 .. indexed) /\ indexed \in Nat
  BY RecordedIs, ChainTyped DEF Before
<1>2. Before(S, t) # {} => Max(Before(S, t)) \in Before(S, t)
  BY <1>1, MaxIs
<1>3. \A g \in S : chain[g].told
  BY DEF Told
<1>4. Before(S, t) # {} <=> \E g \in S : g < t
  BY DEF Before
<1>5. \A g \in Before(S, t) : g \in S
  BY DEF Before
<1> QED BY <1>2, <1>3, <1>4, <1>5 DEF YieldKnown

LEMMA YieldKnownOn ==
  ASSUME SourceInv, kind = "yield-vault", Told, NEW length \in Nat \ {0}, NEW S,
         Spread(S, length), NEW series
  PROVE  KnownOn(YieldSeriesHistory(S, series), S)
<1> DEFINE points == YieldSeriesHistory(S, series)
<1>1. /\ Shows(points, S, series, length)
      /\ \A p \in points : p.known = YieldKnown(S, p.at)
  BY YieldShows
<1>2. S \subseteq Recorded
  BY DEF Spread
<1> HIDE DEF points
<1>3. ASSUME NEW p \in points, NEW t \in S, p.known, p.at < t
      PROVE  \E q \in points : q.at = t /\ q.known
  <2>1. p.at \in S
    BY <1>1 DEF Shows
  <2>2. YieldKnown(S, t)
    BY <1>2, <1>3, <2>1, ToldIsKnown
  <2>3. PICK q \in points : q.at = t
    BY <1>1 DEF Shows
  <2> QED BY <1>1, <2>2, <2>3
<1> QED BY <1>3 DEF KnownOn, points

LEMMA TotalsKnownOn ==
  ASSUME NEW points, NEW S, NEW series, NEW length, Shows(points, S, series, length),
         \A p \in points : p.known
  PROVE  KnownOn(points, S)
BY DEF KnownOn, Shows

\* With hourly snapshots the newest event has one, with the one before it.
LEMMA NewestHour ==
  ASSUME SourceInv, hourly
  PROVE  Max(Recorded) \in HourlyAt
<1> DEFINE M == Max(Recorded)
<1>1. M \in Recorded /\ \A t \in Recorded : t <= M
  BY RecordedIs
<1>2. Recorded \in SUBSET (1 .. indexed) /\ indexed \in Nat
  BY RecordedIs, ChainTyped
<1> HIDE DEF M
<1>3. \A x \in Recorded : ~(x > M)
  BY <1>1, <1>2
<1>4. Later(M, Hour) = {}
  BY <1>3 DEF Later
<1>5. Cardinality(Later(M, Hour)) = 0
  BY <1>4, FS_EmptySet
<1>6. 0 < HourlyFirst
  BY LengthsAre
<1>7. M \in Snapshots(Hour, HourlyFirst)
  BY <1>1, <1>4, <1>5, <1>6, SnapshotsAre
<1> QED BY <1>7 DEF HourlyAt, M

LEMMA HourBefore ==
  ASSUME SourceInv, hourly, NEW g \in Recorded,
         Period(g, Hour) < Period(Max(Recorded), Hour)
  PROVE  \E y \in HourlyAt : y < Max(Recorded)
<1> DEFINE M == Max(Recorded)
           P == {x \in Recorded : Period(x, Hour) < Period(M, Hour)}
           y == Max(P)
<1>1. M \in Recorded /\ \A t \in Recorded : t <= M
  BY RecordedIs
<1>2. Recorded \in SUBSET (1 .. indexed) /\ indexed \in Nat
  BY RecordedIs, ChainTyped
<1>3. P \in SUBSET (1 .. indexed) /\ g \in P
  BY <1>2
<1>4. y \in P /\ \A x \in P : x <= y
  BY <1>2, <1>3, MaxIs
<1>5. y \in Recorded /\ Period(y, Hour) < Period(M, Hour)
  BY <1>4
<1>6. \A x \in Recorded : Period(x, Hour) < Period(M, Hour) => x <= y
  BY <1>4
<1> HIDE DEF M, P, y
<1>7. \A x \in Recorded : x \in Nat /\ x >= 1 /\ Period(x, Hour) \in Int
  BY <1>2, LengthsAre, PeriodIs
<1>8. \A x \in Recorded : Period(x, Hour) <= Period(M, Hour)
  BY <1>1, <1>7, LengthsAre, PeriodOrder
<1>9. \A x \in Recorded : x > y => Period(x, Hour) = Period(M, Hour)
  <2> SUFFICES ASSUME NEW x \in Recorded, x > y
               PROVE  Period(x, Hour) = Period(M, Hour)
    OBVIOUS
  <2>1. ~(x <= y)
    BY <1>5, <1>7
  <2>2. ~(Period(x, Hour) < Period(M, Hour))
    BY <1>6, <2>1
  <2>3. Period(x, Hour) \in Int /\ Period(M, Hour) \in Int
    BY <1>1, <1>7
  <2> QED BY <1>8, <2>2, <2>3
<1>10. Later(y, Hour) \subseteq {Period(M, Hour)}
  BY <1>9 DEF Later
<1>11. Period(y, Hour) \notin Later(y, Hour)
  BY <1>1, <1>5, <1>7, <1>10
<1>12. Cardinality({Period(M, Hour)}) = 1 /\ IsFiniteSet({Period(M, Hour)})
  BY FS_Singleton
<1>13. Cardinality(Later(y, Hour)) <= 1 /\ Cardinality(Later(y, Hour)) \in Nat
  BY <1>10, <1>12, FS_Subset, LaterFinite
<1>14. Cardinality(Later(y, Hour)) < HourlyFirst
  BY <1>13, LengthsAre
<1>15. y \in HourlyAt
  BY <1>5, <1>11, <1>14, SnapshotsAre DEF HourlyAt
<1>16. y < M
  <2>1. y <= M /\ y # M /\ y \in Int /\ M \in Int
    BY <1>1, <1>5, <1>7
  <2> QED BY <2>1
<1>17. M = Max(Recorded)
  BY DEF M
<1> QED BY <1>15, <1>16, <1>17

\* So the hourly series has a flow in the last day whenever the daily one has.
LEMMA HourlyIsTaken ==
  ASSUME SourceInv, hourly, NEW x \in DailyAt, now - x <= Day
  PROVE  /\ now - Max(Recorded) <= Day /\ Max(Recorded) \in HourlyAt
         /\ (\E g \in DailyAt : g < x) => \E y \in HourlyAt : y < Max(Recorded)
<1> DEFINE M == Max(Recorded)
<1>1. M \in Recorded /\ \A t \in Recorded : t <= M
  BY RecordedIs
<1>2. Recorded \in SUBSET (1 .. indexed) /\ indexed \in Nat /\ now \in Nat /\ indexed <= now
  BY RecordedIs, ChainTyped
<1>3. M \in HourlyAt
  BY NewestHour
<1> HIDE DEF M
<1>4. x \in Recorded /\ DailyAt \subseteq Recorded
  BY SeriesRecorded
<1>5. now - M <= Day
  <2>1. x <= M /\ x \in Int /\ M \in Int /\ Day \in Int
    BY <1>1, <1>2, <1>4, LengthsAre
  <2> HIDE DEF now
  <2> QED BY <1>2, <2>1
<1>6. ASSUME NEW g \in DailyAt, g < x PROVE \E y \in HourlyAt : y < M
  <2>1. /\ g \in Recorded /\ g \in Nat /\ g >= 1 /\ x \in Nat /\ x >= 1
        /\ M \in Nat /\ M >= 1 /\ x <= M
    BY <1>1, <1>2, <1>4
  <2>2. Period(g, Day) # Period(x, Day)
    BY <1>6, SeriesSpread DEF Spread
  <2>3. Period(g, Day) <= Period(x, Day) /\ Period(x, Day) <= Period(M, Day)
    BY <1>6, <2>1, LengthsAre, PeriodOrder
  <2>4. Period(g, Day) \in Int /\ Period(x, Day) \in Int /\ Period(M, Day) \in Int
    BY <2>1, LengthsAre, PeriodIs
  <2>5. Period(g, Day) < Period(M, Day)
    BY <2>2, <2>3, <2>4
  <2>6. Period(g, Hour) < Period(M, Hour)
    <3>1. (g - 1) \div Day < (M - 1) \div Day
      BY <2>5 DEF Period
    <3>2. g - 1 \in Int /\ M - 1 \in Int
      BY <2>1
    <3>3. Hour \in Int /\ Hour > 0 /\ Day \in Int /\ Day > 0 /\ Day % Hour = 0
      BY LengthsAre
    <3>4. \A b, c \in Int : b \div Day < c \div Day => b \div Hour < c \div Hour
      BY <3>3, DivNested
    <3>5. (g - 1) \div Hour < (M - 1) \div Hour
      BY <3>1, <3>2, <3>4
    <3> QED BY <3>5 DEF Period
  <2>7. Period(g, Hour) < Period(Max(Recorded), Hour)
    BY <2>6 DEF M
  <2>8. \E y \in HourlyAt : y < Max(Recorded)
    BY <2>1, <2>7, HourBefore
  <2> QED BY <2>8 DEF M
<1> QED BY <1>3, <1>5, <1>6 DEF M

LEMMA NoHourly ==
  ASSUME NEW points, Shows(points, {}, "hourly", Hour)
  PROVE  Recent(points) = {}
BY DEF Recent, Shows

\* Two series of a subgraph: with hourly snapshots the flows are theirs.
LEMMA SubgraphSpan ==
  ASSUME SourceInv, kind # "erc4626", NEW A, NEW B, History = A \cup B,
         Shows(A, HourlyAt, "hourly", Hour), Shows(B, DailyAt, "daily", Day),
         KnownOn(A, HourlyAt), KnownOn(B, DailyAt),
         hourly /\ Recent(B) # {} => Recent(A) # {},
         Flows24h # {}
  PROVE  Spanned(Flows24h, Interval)
<1>1. Flows24h = IF Recent(A) # {} THEN Recent(A) ELSE Recent(B)
  <2>1. (\A p \in A : p.series = "hourly") /\ (\A p \in B : p.series = "daily")
    BY DEF Shows
  <2> QED BY <2>1, FinestWins
<1>2. hourly \in BOOLEAN
  BY DEF SourceInv, TypeOK
<1>3. CASE hourly
  <2>1. Recent(A) # {} /\ Flows24h = Recent(A) /\ Interval = Hour
    BY <1>1, <1>3 DEF Interval
  <2>2. Spanned(Recent(A), Hour)
    BY <2>1, SeriesSpread, LengthsAre, FlowsSpan
  <2> QED BY <2>1, <2>2
<1>4. CASE ~hourly
  <2>1. Recent(A) = {}
    BY <1>4, NoHourly DEF HourlyAt
  <2>2. Flows24h = Recent(B) /\ Recent(B) # {} /\ Interval = Day
    BY <1>1, <1>4, <2>1 DEF Interval
  <2>3. Spanned(Recent(B), Day)
    BY <2>2, SeriesSpread, LengthsAre, FlowsSpan
  <2> QED BY <2>2, <2>3
<1> QED BY <1>2, <1>3, <1>4

\* A known daily point of the last day comes with an hourly one.
LEMMA YieldHourly ==
  ASSUME SourceInv, kind = "yield-vault", Told, hourly, Recent(YD) # {}
  PROVE  Recent(YH) # {}
<1>1. /\ Shows(YH, HourlyAt, "hourly", Hour) /\ Shows(YD, DailyAt, "daily", Day)
      /\ \A p \in YH : p.known = YieldKnown(HourlyAt, p.at)
      /\ \A p \in YD : p.known = YieldKnown(DailyAt, p.at)
  BY SeriesSpread, LengthsAre, YieldShows DEF YH, YD
<1>2. PICK p \in YD : now - p.at <= Day /\ p.known
  BY RecentIs
<1>3. p.at \in DailyAt /\ HourlyAt \subseteq Recorded /\ DailyAt \subseteq Recorded
  BY <1>1, SeriesRecorded DEF Shows
<1>4. \E g \in DailyAt : g < p.at
  BY <1>1, <1>2, <1>3, ToldIsKnown
<1>5. /\ now - Max(Recorded) <= Day /\ Max(Recorded) \in HourlyAt
      /\ \E y \in HourlyAt : y < Max(Recorded)
  BY <1>2, <1>3, <1>4, HourlyIsTaken
<1>6. YieldKnown(HourlyAt, Max(Recorded))
  BY <1>3, <1>5, ToldIsKnown
<1>7. PICK q \in YH : q.at = Max(Recorded)
  BY <1>1, <1>5 DEF Shows
<1>8. q.known
  BY <1>1, <1>6, <1>7
<1> QED BY <1>5, <1>7, <1>8, RecentIs

LEMMA LendingHourly ==
  ASSUME SourceInv, kind = "lending-market", hourly, Recent(LD) # {}
  PROVE  Recent(LH) # {}
<1>1. /\ Shows(LH, HourlyAt, "hourly", Hour) /\ Shows(LD, DailyAt, "daily", Day)
      /\ \A p \in LH : p.known
  BY LendingShows DEF LH, LD
<1>2. PICK p \in LD : now - p.at <= Day
  BY RecentIs
<1>3. p.at \in DailyAt
  BY <1>1 DEF Shows
<1>4. now - Max(Recorded) <= Day /\ Max(Recorded) \in HourlyAt
  BY <1>2, <1>3, HourlyIsTaken
<1>5. PICK q \in LH : q.at = Max(Recorded)
  BY <1>1, <1>4 DEF Shows
<1> QED BY <1>1, <1>4, <1>5, RecentIs

\* Whatever series is taken, its flows span the day and at most one interval.
LEMMA FlowsAreSpanned ==
  ASSUME SourceInv, kind = "yield-vault" => Told, Flows24h # {}
  PROVE  Spanned(Flows24h, Interval)
<1>1. CASE kind = "yield-vault" /\ History = YH \cup YD
             /\ Shows(YH, HourlyAt, "hourly", Hour) /\ Shows(YD, DailyAt, "daily", Day)
  <2>1. KnownOn(YH, HourlyAt)
    BY <1>1, SeriesSpread, LengthsAre, YieldKnownOn DEF YH
  <2>2. KnownOn(YD, DailyAt)
    BY <1>1, SeriesSpread, LengthsAre, YieldKnownOn DEF YD
  <2>3. hourly /\ Recent(YD) # {} => Recent(YH) # {}
    BY <1>1, YieldHourly
  <2> QED BY <1>1, <2>1, <2>2, <2>3, SubgraphSpan
<1>2. CASE kind = "lending-market" /\ History = LH \cup LD
             /\ Shows(LH, HourlyAt, "hourly", Hour) /\ Shows(LD, DailyAt, "daily", Day)
  <2>1. (\A p \in LH : p.known) /\ (\A p \in LD : p.known)
    BY <1>2, LendingShows DEF LH, LD
  <2>2. KnownOn(LH, HourlyAt) /\ KnownOn(LD, DailyAt)
    BY <1>2, <2>1, TotalsKnownOn
  <2>3. hourly /\ Recent(LD) # {} => Recent(LH) # {}
    BY <1>2, LendingHourly
  <2> QED BY <1>2, <2>2, <2>3, SubgraphSpan
<1>3. CASE kind = "erc4626" /\ History = BlockHistory
             /\ Shows(BlockHistory, AnsweredRows, "block", 1)
  <2>1. \A p \in BlockHistory : p.known
    BY <1>3, BlocksShow
  <2>2. KnownOn(BlockHistory, AnsweredRows)
    BY <1>3, <2>1, TotalsKnownOn
  <2>3. Flows24h = Recent(BlockHistory)
    <3>1. \A p \in BlockHistory : p.series = "block"
      BY <1>3 DEF Shows
    <3> QED BY <1>3, <3>1, BlocksOnly
  <2>4. Spanned(Recent(BlockHistory), 1)
    BY <1>3, <2>2, <2>3, AnsweredSpread, LengthsAre, FlowsSpan
  <2> QED BY <1>3, <2>3, <2>4 DEF Interval
<1> QED BY <1>1, <1>2, <1>3, HistoryIs

LEMMA OutflowHolds ==
  ASSUME SourceInv
  PROVE  OutflowHappened
<1> DEFINE told == {t \in Recorded : chain[t].told}
<1> SUFFICES ASSUME "tvl_outflow_24h" \in Flags, kind = "yield-vault" => Told
             PROVE  \E g, t \in 1 .. indexed :
                      /\ g <= t /\ now - g <= Day + Interval
                      /\ -5 * Moved(g, t) >= chain[Max(told)].balance
  BY DEF OutflowHappened, Told
<1>1. Outflow
  BY DEF Flags, Drawdowns
<1>2. /\ current.balance > 0 /\ Flows24h # {}
      /\ -5 * SumFunction(FlowOf(Flows24h)) >= current.balance
  BY <1>1 DEF Outflow, FlowOf
<1>3. current.balance = chain[Max(told)].balance
  <2>1. BalanceAt # {} /\ current.balance = chain[Max(BalanceAt)].balance
    BY <1>2 DEF current
  <2>2. CASE kind = "erc4626"
    <3>1. BalanceAt = told
      BY <2>2 DEF BalanceAt
    <3> QED BY <2>1, <3>1
  <2>3. CASE kind # "erc4626"
    <3> DEFINE M == Max(Recorded)
    <3>1. M \in Recorded /\ \A t \in Recorded : t <= M
      BY RecordedIs
    <3>2. /\ Recorded \in SUBSET (1 .. indexed) /\ indexed \in Nat
          /\ \A t \in Recorded : t \in Int
      BY RecordedIs, ChainTyped
    <3>3. BalanceAt = {t \in Recorded : chain[t].told /\ t = M}
      BY <2>3 DEF BalanceAt
    <3> HIDE DEF M
    <3>4. chain[M].told /\ BalanceAt = {M} /\ M \in told
      BY <2>1, <3>1, <3>3
    <3>5. /\ told \in SUBSET (1 .. indexed) /\ BalanceAt \in SUBSET (1 .. indexed)
          /\ told \subseteq Recorded
      BY <3>2, <3>4
    <3> HIDE DEF told
    <3>6. Max(told) \in told /\ \A t \in told : t <= Max(told)
      BY <3>2, <3>4, <3>5, MaxIs
    <3>7. Max(BalanceAt) = M
      BY <3>2, <3>4, <3>5, MaxIs
    <3>8. Max(told) = M
      <4>1. Max(told) \in Recorded
        BY <3>5, <3>6
      <4>2. Max(told) <= M /\ M <= Max(told)
        BY <3>1, <3>4, <3>6, <4>1
      <4>3. Max(told) \in Int /\ M \in Int
        BY <3>1, <3>2, <4>1
      <4> QED BY <4>2, <4>3
    <3> QED BY <2>1, <3>7, <3>8
  <2> QED BY <2>2, <2>3
<1>4. PICK g, t \in 1 .. indexed :
        /\ g <= t /\ now - g <= Day + Interval
        /\ SumFunction(FlowOf(Flows24h)) = Moved(g, t)
  BY <1>2, FlowsAreSpanned DEF Spanned
<1> HIDE DEF told, now
<1>5. -5 * Moved(g, t) >= chain[Max(told)].balance
  BY <1>2, <1>3, <1>4
<1> QED BY <1>4, <1>5

\* An outflow that is flagged happened, within a day and one sampling interval,
\* against the balance last told (flows24h over the histories of the mappers
\* and of the sink's reader).
THEOREM OutflowsHappened == Spec => []OutflowHappened
BY OutflowHolds, SourceSound, PTL
=============================================================================
