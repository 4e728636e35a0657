------------------------ MODULE AgentPurchase_proofs ------------------------
(* What the paying agent guarantees, for every policy, card, answer and price. *)
EXTENDS AgentPurchase, FiniteSetTheorems, FunctionTheorems, SequenceTheorems, TLAPS

-----------------------------------------------------------------------------
(* Lemmas about the operators                                               *)

\* One percent over the quote, as a multiplication.
LEMMA Ceiling ==
    ASSUME NEW q \in Nat PROVE MaxAcceptable(q) \in Nat /\ 100 * MaxAcceptable(q) <= 101 * q
BY DEF MaxAcceptable

\* A rail is chosen among the usable ones.
LEMMA ChosenIsUsable ==
    ASSUME NEW kind, NEW vaults, NEW usable \in SUBSET Rails, usable # {}, NEW prefers,
           \A r \in Rails : QuoteFor(r, kind, vaults) \in Nat
    PROVE  ChooseRail(prefers, usable, kind, vaults) \in usable
<1> DEFINE Q(r) == QuoteFor(r, kind, vaults)
           Best(r) == \A o \in usable \ {r} : Q(r) < Q(o) \/ (r = "hedera" /\ Q(r) = Q(o))
<1>1. Rails = {"hedera", "arc"} BY AgentAssumption
<1>3. \E r \in usable : Best(r)
  <2>1. Q("hedera") \in Nat /\ Q("arc") \in Nat BY <1>1
  <2> HIDE DEF Q
  <2>2. CASE "hedera" \in usable /\ ("arc" \notin usable \/ Q("hedera") <= Q("arc"))
    <3>1. Best("hedera") BY <2>1, <2>2, <1>1
    <3> QED BY <2>2, <3>1
  <2>3. CASE "arc" \in usable /\ ("hedera" \notin usable \/ ~(Q("hedera") <= Q("arc")))
    <3>1. Best("arc") BY <2>1, <2>3, <1>1
    <3> QED BY <2>3, <3>1
  <2>4. "hedera" \in usable \/ "arc" \in usable BY <1>1
  <2> HIDE DEF Best
  <2> QED BY <2>2, <2>3, <2>4
<1>2. (CHOOSE r \in usable : Best(r)) \in usable BY <1>3
<1> QED BY <1>2 DEF ChooseRail

\* A non-empty request has a price on either rail.
LEMMA Prices ==
    ASSUME NEW kind, NEW vaults \in SUBSET Vaults, vaults # {}, NEW r \in Rails
    PROVE  /\ UnitPrice(r, kind, vaults) \in Nat
           /\ IsFiniteSet(PlanChains(kind, vaults))
           /\ Cardinality(PlanChains(kind, vaults)) \in Nat
           /\ PlanChains(kind, vaults) \subseteq Chains \cup {None}
           /\ QuoteFor(r, kind, vaults) \in Nat
<1>1. IsFiniteSet(vaults) /\ Cardinality(vaults) \in 1 .. Cardinality(Vaults)
  <2>1. IsFiniteSet(vaults) /\ Cardinality(vaults) <= Cardinality(Vaults)
    BY FS_Subset, AgentAssumption
  <2>2. Cardinality(vaults) \in Nat /\ Cardinality(Vaults) \in Nat
    BY <2>1, FS_CardinalityType, AgentAssumption
  <2>3. Cardinality(vaults) # 0 BY <2>1, FS_EmptySet
  <2> QED BY <2>1, <2>2, <2>3
<1>2. UnitPrice(r, kind, vaults) \in Nat
  <2>1. ScanPrice[r] \in [1 .. Cardinality(Vaults) -> Nat] BY AgentAssumption
  <2>2. ScanPrice[r][Cardinality(vaults)] \in Nat BY <2>1, <1>1
  <2> QED BY <2>2, AgentAssumption DEF UnitPrice
<1>3. IsFiniteSet({ChainOf[v] : v \in vaults})
  <2> DEFINE f == [v \in vaults |-> ChainOf[v]]
             T == {ChainOf[v] : v \in vaults}
  <2>1. f \in [vaults -> T] /\ \A t \in T : \E v \in vaults : f[v] = t OBVIOUS
  <2>2. f \in Surjection(vaults, T) BY <2>1, Fun_IsSurj
  <2> QED BY <2>2, <1>1, FS_Surjection
<1>4. IsFiniteSet({None}) BY FS_Singleton
<1>5. IsFiniteSet(PlanChains(kind, vaults)) BY <1>3, <1>4 DEF PlanChains
<1>6. Cardinality(PlanChains(kind, vaults)) \in Nat BY <1>5, FS_CardinalityType
<1>7. PlanChains(kind, vaults) \subseteq Chains \cup {None} BY AgentAssumption DEF PlanChains
<1>8. \A m, n \in Nat : m * n \in Nat OBVIOUS
<1> QED BY <1>2, <1>5, <1>6, <1>7, <1>8 DEF QuoteFor

\* The gate lets only an anchored card through.
LEMMA GateAnchors ==
    ASSUME NEW c \in Cards, ~IdentityRefused(c) PROVE Anchored(c)
BY CardAssumption DEF IdentityRefused, Anchored

\* What is kept of an answer is a body.
LEMMA NarrowedType ==
    ASSUME NEW a \in Answers, NEW kind, NEW vaults \in SUBSET Vaults
    PROVE  Narrowed(a, kind, vaults) \in Body
<1>1. a.vaults \in SUBSET Vaults /\ a.reports \in [DOMAIN a.reports -> Verdicts]
      /\ DOMAIN a.reports \in SUBSET Vaults
  BY AnswerAssumption
<1>2. a.atts \in SUBSET UNION {b.atts : b \in Answers} OBVIOUS
<1>3. [v \in DOMAIN a.reports \cap vaults |-> a.reports[v]]
        \in [DOMAIN a.reports \cap vaults -> Verdicts]
  BY <1>1
<1>4. {t \in a.atts : t.vault \in vaults} \in SUBSET UNION {b.atts : b \in Answers}
  BY <1>2
<1>5. \A S \in SUBSET Vaults : \A f : f \in [S -> Verdicts] =>
        f \in UNION {[known -> Verdicts] : known \in SUBSET Vaults}
  OBVIOUS
<1>6. a.reports \in UNION {[known -> Verdicts] : known \in SUBSET Vaults}
  BY <1>1, <1>5
<1>7. [v \in DOMAIN a.reports \cap vaults |-> a.reports[v]]
        \in UNION {[known -> Verdicts] : known \in SUBSET Vaults}
  <2>1. DOMAIN a.reports \cap vaults \in SUBSET Vaults OBVIOUS
  <2> QED BY <1>3, <1>5, <2>1
<1> QED BY <1>1, <1>2, <1>4, <1>6, <1>7 DEF Narrowed, Body

\* A body's reports yield decisions.
LEMMA DecideType ==
    ASSUME NEW body \in Body, NEW cites \in Receipts
    PROVE  Decide(body, cites) \subseteq Decision
<1>1. PICK known \in SUBSET Vaults : body.reports \in [known -> Verdicts] BY DEF Body
<1>2. ActionFor["ok"] \in Actions /\ ActionFor["watch"] \in Actions
      /\ ActionFor["alert"] \in Actions
  BY DEF ActionFor, Actions
<1> DEFINE Verdict(v) == body.reports[v]
           Act(v) == IF Actionable(body, v) THEN ActionFor[Verdict(v)]
                     ELSE "insufficient data"
           Made(v) == [vault |-> v, action |-> Act(v), cites |-> cites]
<1>3. \A v \in known : Act(v) \in Actions
  <2> SUFFICES ASSUME NEW v \in known PROVE Act(v) \in Actions OBVIOUS
  <2>1. Verdict(v) \in Verdicts BY <1>1
  <2>2. Actionable(body, v) => Verdict(v) # "unavailable" BY DEF Actionable
  <2> HIDE DEF Verdict
  <2>3. Actionable(body, v) => Verdict(v) \in {"ok", "watch", "alert"}
    BY <2>1, <2>2 DEF Verdicts
  <2> QED BY <1>2, <2>3 DEF Actions
<1> HIDE DEF Act
<1>4. \A v \in known : Made(v) \in Decision BY <1>3 DEF Decision
<1>5. DOMAIN body.reports = known BY <1>1
<1>6. Decide(body, cites) = {Made(v) : v \in DOMAIN body.reports} BY DEF Decide, Act
<1> QED BY <1>4, <1>5, <1>6

\* A vault that is missing is answered by citing a purchase that was made.
LEMMA MissingType ==
    ASSUME TypeOK, NEW bought \in Seq(Bought), bought # <<>>
    PROVE  /\ MissingVaultDecisions(bought) \subseteq Decision
           /\ \A d \in MissingVaultDecisions(bought) : d.action = "insufficient data"
           /\ \A v \in call.vaults :
                 \/ \E i \in 1 .. Len(bought) : v \in DOMAIN bought[i].body.reports
                 \/ \E d \in MissingVaultDecisions(bought) : d.vault = v
<1> DEFINE Covered == UNION {DOMAIN bought[i].body.reports : i \in 1 .. Len(bought)}
           At(v, i) == bought[i].chain = ChainOf[v]
           Source(v) == IF \E i \in 1 .. Len(bought) : At(v, i)
                        THEN CHOOSE i \in 1 .. Len(bought) : At(v, i) ELSE 1
           Made(v) == [vault |-> v, action |-> "insufficient data",
                       cites |-> <<calls, Source(v)>>]
<1>1. MissingVaultDecisions(bought) = {Made(v) : v \in call.vaults \ Covered}
  BY DEF MissingVaultDecisions
<1>2. Len(bought) \in Nat OBVIOUS
<1>3. ASSUME NEW v PROVE Source(v) \in Nat
  <2> HIDE DEF At
  <2> QED BY <1>2
<1>4. call.vaults \subseteq Vaults /\ calls \in Nat BY DEF TypeOK, Call
<1>5. \A v \in call.vaults : Made(v) \in Decision
  <2> SUFFICES ASSUME NEW v \in call.vaults PROVE Made(v) \in Decision OBVIOUS
  <2>1. Source(v) \in Nat BY <1>3
  <2> HIDE DEF Source
  <2> QED BY <1>4, <2>1 DEF Decision, Actions, Receipts
<1>6. \A v : Made(v).vault = v /\ Made(v).action = "insufficient data" OBVIOUS
<1> HIDE DEF Made
<1>7. \A v \in call.vaults \ Covered : \E d \in MissingVaultDecisions(bought) : d.vault = v
  BY <1>1, <1>6
<1>8. \A d \in MissingVaultDecisions(bought) : \E v \in call.vaults : d = Made(v)
  BY <1>1
<1>9. MissingVaultDecisions(bought) \subseteq Decision BY <1>5, <1>8
<1>10. \A d \in MissingVaultDecisions(bought) : d.action = "insufficient data"
  BY <1>6, <1>8
<1> QED BY <1>7, <1>9, <1>10

\* A served request is a purchase.
LEMMA PurchaseType ==
    ASSUME TypeOK, disc # None, NEW a \in Answers
    PROVE  Purchase(a) \in Bought
<1>1. Narrowed(a, call.kind, call.vaults) \in Body
  BY NarrowedType DEF TypeOK, Call
<1>2. disc \in Cards /\ call.chain \in Chains \cup {None} BY DEF TypeOK, Call
<1>3. Purchase(a).valid \in BOOLEAN BY DEF Purchase
<1> QED BY <1>1, <1>2, <1>3 DEF Purchase, Bought

-----------------------------------------------------------------------------
(* Types, and which stage of a call knows what                              *)

Engaged == {"buying", "sent", "signed", "ok", "failed"}
Before == {"idle", "opened", "trusted", "refused"}

\* A request has vaults, a rail and an anchored card before it is sent, and a call
\* has nothing to show before it picked a rail.
Ready ==
    /\ call.stage # "idle" => call.vaults # {}
    /\ call.stage \in Engaged => call.rail # None
    /\ call.stage \in Before => call.rail = None
    /\ call.stage \in {"trusted", "buying", "sent", "signed"} =>
          disc # None /\ Anchored(disc)
    /\ call.stage \in Before =>
          /\ purchases = <<>> /\ decisions = {}
          /\ spent = [r \in Rails |-> 0] /\ signings = 0

Typed == TypeOK /\ Ready

\* A record that gains the call's purchases is a record.
LEMMA RecordType ==
    ASSUME TypeOK, NEW record \in Record PROVE Recorded(record) \in Record
<1>1. Cited \subseteq Receipts BY DEF Cited, Receipts, TypeOK
<1> QED BY <1>1 DEF Recorded, Record, TypeOK

LEMMA EmptyType ==
    /\ Empty \in Record
    /\ \A card \in Cards : [Empty EXCEPT !.discovery = card] \in Record
BY DEF Empty, Record

\* The price of a request that can be sent.
LEMMA QuoteType ==
    ASSUME Typed, call.rail # None, call.stage # "idle" PROVE Quote \in Nat
<1>1. call.rail \in Rails /\ call.vaults \in SUBSET Vaults /\ call.vaults # {}
  BY DEF Typed, TypeOK, Ready, Call
<1> QED BY <1>1, Prices DEF Quote

\* The initial state and every step respect the types of the variables; a request is
\* only ever sent for a card, on a rail and at a price.
LEMMA TypedInit == Init => Typed
<1> SUFFICES ASSUME Init PROVE Typed OBVIOUS
<1>1. purchases \in Seq(Bought) BY DEF Init
<1>2. run \in Record /\ file \in Record \cup {None} BY EmptyType DEF Init
<1>3. call \in Call BY DEF Init, Call, Stages
<1>4. calls \in Nat /\ signings \in Nat /\ spent \in [Rails -> Nat] BY DEF Init
<1> QED BY <1>1, <1>2, <1>3, <1>4 DEF Init, Typed, TypeOK, Ready, Engaged, Before

LEMMA TypedStep == Typed /\ [Next]_vars => Typed'
<1> SUFFICES ASSUME Typed, [Next]_vars PROVE Typed' OBVIOUS
<1> USE DEF Typed, books, results, wallet
<1>1. ASSUME Start PROVE Typed'
  <2>1. PICK kind \in {"policy", "table"}, vaults \in (SUBSET Vaults) \ {{}},
             forced \in Rails \cup {None} :
           call' = [kind |-> kind, vaults |-> vaults, forced |-> forced,
                    todo |-> PlanChains(kind, vaults), rail |-> None, price |-> 0,
                    chain |-> None, moved |-> 0, stage |-> "opened"]
    BY <1>1 DEF Start
  <2>2. PlanChains(kind, vaults) \subseteq Chains \cup {None}
    BY AgentAssumption DEF PlanChains
  <2>3. call' \in Call BY <2>1, <2>2 DEF Call, Stages
  <2>4. /\ purchases' = <<>> /\ decisions' = {} /\ calls' = calls + 1
        /\ spent' = [r \in Rails |-> 0] /\ signings' = 0
        /\ UNCHANGED <<mode, policy, disc, quoteAtomic, run, file>>
    BY <1>1 DEF Start
  <2>5. call'.stage = "opened" /\ call'.rail = None /\ call'.vaults # {}
    BY <2>1
  <2> QED BY <2>3, <2>4, <2>5 DEF TypeOK, Ready, Engaged, Before
<1>2. ASSUME DiscoverFails PROVE Typed'
  BY <1>2 DEF DiscoverFails, Throw, TypeOK, Ready, Engaged, Before, Call, Stages, Anchored
<1>3. ASSUME NEW card \in Cards, Discover(card) PROVE Typed'
  <2>1. ~IdentityRefused(card) => Anchored(card) /\ card # None
    BY GateAnchors, AgentAssumption
  <2>2. Anchored(card)' = Anchored(card) BY <1>3 DEF Discover, Anchored
  <2>3. run' \in Record BY <1>3 DEF Discover, TypeOK, Record
  <2>4. call' \in Call BY <1>3 DEF Discover, TypeOK, Call, Stages
  <2>5. call.stage = "opened" BY <1>3 DEF Discover
  <2> QED BY <1>3, <2>1, <2>2, <2>3, <2>4, <2>5
        DEF Discover, TypeOK, Ready, Engaged, Before, Call
<1>4. ASSUME PickRail PROVE Typed'
  <2>1. call' \in Call /\ call'.vaults = call.vaults
        /\ (call'.stage = "refused" \/ (call'.stage = "buying" /\ call'.rail # None))
        /\ (call'.stage = "refused" => call'.rail = call.rail)
    <3>1. PICK balance \in [Rails -> Balances], up \in [Rails -> BOOLEAN] :
          LET prefers == IF call.forced = None THEN policy.prefers ELSE call.forced
              usable == Usable(call.kind, call.vaults, balance, up)
              rail == ChooseRail(prefers, usable, call.kind, call.vaults)
          IN  call' = IF usable = {} \/ call.forced \notin {None, rail}
                      THEN [call EXCEPT !.stage = "refused"]
                      ELSE [call EXCEPT !.rail = rail, !.stage = "buying",
                                        !.price = QuoteFor(rail, call.kind, call.vaults)]
      BY <1>4 DEF PickRail
    <3> DEFINE prefers == IF call.forced = None THEN policy.prefers ELSE call.forced
               usable == Usable(call.kind, call.vaults, balance, up)
               rail == ChooseRail(prefers, usable, call.kind, call.vaults)
               price == QuoteFor(rail, call.kind, call.vaults)
    <3>2. call.vaults \in SUBSET Vaults /\ call.vaults # {} BY <1>4 DEF PickRail, TypeOK, Ready, Call
    <3>3. usable \subseteq Rails BY DEF Usable
    <3>4. usable # {} => rail \in usable
      <4>1. \A r \in Rails : QuoteFor(r, call.kind, call.vaults) \in Nat BY <3>2, Prices
      <4> QED BY <3>3, <4>1, ChosenIsUsable
    <3>5. usable # {} => price \in Nat /\ rail \in Rails BY <3>2, <3>3, <3>4, Prices
    <3>6. \/ call' = [call EXCEPT !.stage = "refused"]
          \/ usable # {} /\ call' = [call EXCEPT !.rail = rail, !.stage = "buying",
                                                 !.price = price]
      BY <3>1
    <3> HIDE DEF rail, price, usable, prefers
    <3>7. call \in Call /\ None \notin Rails BY AgentAssumption DEF TypeOK
    <3> QED BY <3>5, <3>6, <3>7 DEF Call, Stages
  <2>2. call.stage = "trusted" BY <1>4 DEF PickRail
  <2>3. UNCHANGED <<mode, policy, disc, quoteAtomic, calls, purchases, decisions, spent,
                    signings, run, file>>
    BY <1>4 DEF PickRail
  <2>4. Anchored(disc)' = Anchored(disc) BY <2>3 DEF Anchored
  <2> QED BY <2>1, <2>2, <2>3, <2>4 DEF TypeOK, Ready, Engaged, Before
<1>5. ASSUME NEW chain \in Chains \cup {None}, Send(chain) PROVE Typed'
  <2>1. Quote \in Nat BY <1>5, QuoteType DEF Send, Ready, Engaged
  <2>2. call' \in Call BY <1>5 DEF Send, TypeOK, Call, Stages
  <2>3. Anchored(disc)' = Anchored(disc) BY <1>5 DEF Send, Anchored
  <2>4. quoteAtomic' \in Nat \cup {None} BY <1>5, <2>1 DEF Send, TypeOK
  <2> QED BY <1>5, <2>2, <2>3, <2>4 DEF Send, TypeOK, Ready, Engaged, Before, Call
<1>6. ASSUME NEW s \in Surcharges, Sign(Quote + s) PROVE Typed'
  <2>1. Quote + s \in Nat
    <3>1. Quote \in Nat BY <1>6, QuoteType DEF Sign, Ready, Engaged
    <3> QED BY <1>6, <3>1, AgentAssumption DEF Sign
  <2> DEFINE amount == Quote + s
  <2> HIDE DEF amount
  <2>2. Sign(amount) /\ amount \in Nat BY <1>6, <2>1 DEF amount
  <2>3. call' \in Call BY <2>2 DEF Sign, TypeOK, Call, Stages
  <2>4. spent' \in [Rails -> Nat]
    <3>1. call.rail \in Rails BY <2>2 DEF Sign, Ready, Engaged, TypeOK, Call
    <3>2. spent[call.rail] + amount \in Nat BY <2>2, <3>1 DEF TypeOK
    <3>3. spent' = [spent EXCEPT ![call.rail] = spent[call.rail] + amount] BY <2>2 DEF Sign
    <3> QED BY <3>1, <3>2, <3>3 DEF TypeOK
  <2>5. Anchored(disc)' = Anchored(disc) BY <2>2 DEF Sign, Anchored
  <2>6. TypeOK' BY <2>2, <2>3, <2>4 DEF Sign, TypeOK
  <2> QED BY <2>2, <2>3, <2>5, <2>6 DEF Sign, TypeOK, Ready, Engaged, Before, Call
<1>7. ASSUME NotSigned \/ NotServed PROVE Typed'
  <2>1. call' = [call EXCEPT !.stage = "threw"] BY <1>7 DEF NotSigned, NotServed, Throw
  <2>2. call' \in Call BY <2>1 DEF TypeOK, Call, Stages
  <2>3. call'.stage = "threw" /\ call'.vaults = call.vaults /\ call.stage # "idle"
    BY <1>7, <2>1 DEF NotSigned, NotServed, TypeOK, Call
  <2>4. quoteAtomic' \in Nat \cup {None} BY <1>7 DEF NotSigned, NotServed, ClearQuote, TypeOK
  <2> QED BY <1>7, <2>2, <2>3, <2>4
        DEF NotSigned, NotServed, Throw, TypeOK, Ready, Engaged, Before
<1>8. ASSUME NEW a \in Answers, Served(a) PROVE Typed'
  <2>1. Purchase(a) \in Bought
    BY <1>8, PurchaseType DEF Served, Ready
  <2> DEFINE p == Purchase(a)
             bought == Append(purchases, p)
  <2>2. purchases' = bought /\ bought \in Seq(Bought) /\ bought # <<>>
        /\ Len(bought) = Len(purchases) + 1
    BY <1>8, <2>1 DEF Served, Buy, TypeOK
  <2>3. <<calls, Len(bought)>> \in Receipts BY <2>2 DEF TypeOK, Receipts
  <2>4. p.body \in Body BY <2>1 DEF Bought
  <2>5. Decide(p.body, <<calls, Len(bought)>>) \subseteq Decision BY <2>3, <2>4, DecideType
  <2>6. MissingVaultDecisions(bought) \subseteq Decision BY <2>2, MissingType
  <2>7. decisions' \subseteq Decision BY <1>8, <2>5, <2>6 DEF Served, Buy, TypeOK
  <2>8. call' \in Call /\ call'.stage \in {"failed", "ok", "buying"}
        /\ call'.vaults = call.vaults /\ call'.rail = call.rail
    BY <1>8 DEF Served, Buy, TypeOK, Call, Stages
  <2>9. Anchored(disc)' = Anchored(disc) BY <1>8 DEF Served, Anchored
  <2>10. quoteAtomic' \in Nat \cup {None} BY <1>8 DEF Served, ClearQuote, TypeOK
  <2>11. call.stage = "signed" BY <1>8 DEF Served
  <2> HIDE DEF p, bought
  <2> QED BY <1>8, <2>2, <2>7, <2>8, <2>9, <2>10, <2>11
        DEF Served, TypeOK, Ready, Engaged, Before
<1>9. ASSUME FinishWatch PROVE Typed'
  <2>1. Cited \subseteq Receipts BY DEF Cited, Receipts, TypeOK
  <2>2. [run EXCEPT !.requests = Cited, !.decisions = decisions] \in Record
    BY <2>1 DEF Record, TypeOK
  <2>3. run' \in Record /\ file' \in Record \cup {None} BY <1>9, <2>2 DEF FinishWatch, Save, TypeOK
  <2>4. call' \in Call /\ call'.stage = "returned" /\ call'.vaults = call.vaults
    BY <1>9 DEF FinishWatch, TypeOK, Call, Stages
  <2> QED BY <1>9, <2>3, <2>4 DEF FinishWatch, TypeOK, Ready, Engaged, Before
<1>10. ASSUME ReturnEmpty PROVE Typed'
  <2>4. call' \in Call /\ call'.stage = "returned" /\ call'.vaults = call.vaults
    BY <1>10 DEF ReturnEmpty, TypeOK, Call, Stages
  <2> QED BY <1>10, <2>4 DEF ReturnEmpty, TypeOK, Ready, Engaged, Before
<1>11. ASSUME AppendToRun PROVE Typed'
  <2>3. run' \in Record /\ file' \in Record \cup {None}
    BY <1>11, RecordType DEF AppendToRun, Save, TypeOK
  <2>4. call' \in Call /\ call'.stage = "returned" /\ call'.vaults = call.vaults
    BY <1>11 DEF AppendToRun, TypeOK, Call, Stages
  <2> QED BY <1>11, <2>3, <2>4 DEF AppendToRun, TypeOK, Ready, Engaged, Before
<1>12. ASSUME NEW card \in Cards, OpenRun(card) PROVE Typed'
  <2>3. run' \in Record /\ file' \in Record \cup {None}
    BY <1>12, RecordType, EmptyType DEF OpenRun, Save, TypeOK
  <2>4. call' \in Call /\ call'.stage = "returned" /\ call'.vaults = call.vaults
    BY <1>12 DEF OpenRun, TypeOK, Call, Stages
  <2> QED BY <1>12, <2>3, <2>4 DEF OpenRun, TypeOK, Ready, Engaged, Before
<1>13. ASSUME OpenRunFails PROVE Typed'
  <2>4. call' \in Call /\ call'.stage = "threw" /\ call'.vaults = call.vaults
    BY <1>13 DEF OpenRunFails, Throw, TypeOK, Call, Stages
  <2> QED BY <1>13, <2>4 DEF OpenRunFails, Throw, TypeOK, Ready, Engaged, Before
<1>14. ASSUME UNCHANGED vars PROVE Typed'
  BY <1>14 DEF vars, TypeOK, Ready, Anchored
<1> QED BY <1>1, <1>2, <1>3, <1>4, <1>5, <1>6, <1>7, <1>8, <1>9, <1>10, <1>11, <1>12,
           <1>13, <1>14 DEF Next

\* Every variable keeps its type, whatever the service answers.
THEOREM TypeCorrect == Spec => []TypeOK
<1>1. Typed => TypeOK BY DEF Typed
<1> QED BY <1>1, TypedInit, TypedStep, PTL DEF Spec

-----------------------------------------------------------------------------
(* What a purchase is worth                                                 *)

\* Only a new call and a served request change the purchases and the decisions.
LEMMA ResultsFrame ==
    ASSUME [Next]_vars
    PROVE  /\ policy' = policy
           /\ \/ Start
              \/ \E a \in Answers : Served(a)
              \/ UNCHANGED <<calls, purchases, decisions>>
BY DEF Next, vars, results, books, wallet, Start, DiscoverFails, Throw, Discover, PickRail,
       Send, NotSigned, Sign, NotServed, Served, FinishWatch, ReturnEmpty, AppendToRun,
       OpenRun, OpenRunFails

\* Reading a list of purchases that grew by one.
LEMMA GrownList ==
    ASSUME purchases \in Seq(Bought), NEW p \in Bought
    PROVE  LET bought == Append(purchases, p) IN
           /\ Len(bought) = Len(purchases) + 1 /\ Len(purchases) \in Nat
           /\ \A i \in 1 .. Len(purchases) : bought[i] = purchases[i]
           /\ bought[Len(purchases) + 1] = p
           /\ 1 .. Len(bought) = (1 .. Len(purchases)) \cup {Len(bought)}
OBVIOUS

\* What Served does, in the terms of Purchase.
LEMMA ServedPurchase ==
    ASSUME Typed, NEW a \in Answers, Served(a)
    PROVE  LET p == Purchase(a)
               bought == Append(purchases, p)
           IN  /\ p \in Bought /\ bought \in Seq(Bought) /\ bought # <<>>
               /\ purchases' = bought
               /\ decisions' = decisions
                    \cup (IF p.valid THEN Decide(p.body, <<calls, Len(bought)>>) ELSE {})
                    \cup (IF p.valid /\ call.todo = {} /\ call.kind = "policy"
                          THEN MissingVaultDecisions(bought) ELSE {})
               /\ call'.stage = IF ~p.valid THEN "failed"
                                ELSE IF call.todo = {} THEN "ok" ELSE "buying"
               /\ call'.kind = call.kind /\ call'.vaults = call.vaults
               /\ call.stage = "signed" /\ signings' = signings
               /\ p.card = disc /\ Anchored(disc)
               /\ p.valid => \A t \in p.body.atts : t.by = disc.key
<1> DEFINE p == Purchase(a)
           bought == Append(purchases, p)
<1>1. call.stage = "signed" /\ disc # None /\ Anchored(disc)
  BY DEF Served, Typed, Ready
<1>2. p \in Bought BY <1>1, PurchaseType DEF Typed
<1>3. bought \in Seq(Bought) /\ bought # <<>> BY <1>2 DEF Typed, TypeOK
<1>4. p.card = disc BY DEF Purchase
<1>5. p.valid => \A t \in p.body.atts : t.by = disc.key
  <2>1. p.body.atts \subseteq a.atts BY DEF Purchase, Narrowed
  <2>2. p.valid => \A t \in a.atts : t.by = disc.key BY DEF Purchase, AttestationsValid
  <2> QED BY <2>1, <2>2
<1>6. call' = [call EXCEPT !.stage = IF ~p.valid THEN "failed"
                                     ELSE IF call.todo = {} THEN "ok" ELSE "buying"]
      /\ purchases' = bought
      /\ decisions' = decisions
           \cup (IF p.valid THEN Decide(p.body, <<calls, Len(bought)>>) ELSE {})
           \cup (IF p.valid /\ call.todo = {} /\ call.kind = "policy"
                 THEN MissingVaultDecisions(bought) ELSE {})
  BY DEF Served, Buy
<1>7. call \in Call /\ signings' = signings BY DEF Served, wallet, Typed, TypeOK
<1> HIDE DEF p, bought
<1>8. call'.stage = (IF ~p.valid THEN "failed"
                     ELSE IF call.todo = {} THEN "ok" ELSE "buying")
      /\ call'.kind = call.kind /\ call'.vaults = call.vaults
  BY <1>6, <1>7 DEF Call
<1> QED BY <1>1, <1>2, <1>3, <1>4, <1>5, <1>6, <1>7, <1>8 DEF p, bought

CardsAnchored == \A i \in 1 .. Len(purchases) : Anchored(purchases[i].card)

LEMMA CardsAnchoredStep ==
    ASSUME Typed, CardsAnchored, [Next]_vars PROVE CardsAnchored'
<1>1. policy' = policy BY ResultsFrame
<1>2. CASE Start BY <1>2 DEF Start, CardsAnchored
<1>3. ASSUME NEW a \in Answers, Served(a) PROVE CardsAnchored'
  <2> DEFINE p == Purchase(a)
  <2>1. p \in Bought /\ purchases' = Append(purchases, p) /\ Anchored(p.card)
    BY <1>3, ServedPurchase
  <2> HIDE DEF p
  <2> QED BY <1>1, <2>1, GrownList DEF CardsAnchored, Anchored, Typed, TypeOK
<1>4. CASE UNCHANGED <<calls, purchases, decisions>>
  BY <1>1, <1>4 DEF CardsAnchored, Anchored
<1> QED BY <1>2, <1>3, <1>4, ResultsFrame

\* A request goes out, and a reply is verified, only under a card whose key the chain
\* confirms, for every sequence of cards the service shows.
THEOREM AnchoredPayments == Spec => []PaysOnlyAnchored
<1>1. Init => CardsAnchored BY DEF Init, CardsAnchored
<1>2. Typed /\ CardsAnchored /\ [Next]_vars => CardsAnchored' BY CardsAnchoredStep
<1>3. Typed /\ CardsAnchored => PaysOnlyAnchored
  BY DEF Typed, Ready, CardsAnchored, PaysOnlyAnchored
<1> QED BY <1>1, <1>2, <1>3, TypedInit, TypedStep, PTL DEF Spec

LEMMA DecideActs ==
    ASSUME NEW body, NEW cites, NEW d \in Decide(body, cites), d.action # "insufficient data"
    PROVE  d.cites = cites /\ Actionable(body, d.vault)
<1>1. PICK v \in DOMAIN body.reports :
         d = [vault |-> v,
              action |-> IF Actionable(body, v) THEN ActionFor[body.reports[v]]
                         ELSE "insufficient data",
              cites |-> cites]
  BY DEF Decide
<1>2. d.vault = v /\ d.cites = cites BY <1>1
<1>3. Actionable(body, v) BY <1>1
<1> QED BY <1>2, <1>3

\* An acted-on vault is attested, in time and under the card's key, by a purchase
\* that verified.
Rests(d) ==
    /\ d.cites[2] \in 1 .. Len(purchases)
    /\ purchases[d.cites[2]].valid /\ Anchored(purchases[d.cites[2]].card)
    /\ \E t \in purchases[d.cites[2]].body.atts : t.vault = d.vault
    /\ \A t \in purchases[d.cites[2]].body.atts : t.vault = d.vault =>
          t.by = purchases[d.cites[2]].card.key /\ t.age \in -ClockSkew .. policy.maxAge

AllRest == \A d \in decisions : d.action # "insufficient data" => Rests(d)

LEMMA AllRestStep ==
    ASSUME Typed, AllRest, [Next]_vars PROVE AllRest'
<1>1. policy' = policy BY ResultsFrame
<1>2. CASE Start BY <1>2 DEF Start, AllRest
<1>3. ASSUME NEW a \in Answers, Served(a) PROVE AllRest'
  <2> DEFINE p == Purchase(a)
             n == Len(purchases) + 1
             bought == Append(purchases, p)
  <2>1. /\ p \in Bought /\ bought \in Seq(Bought) /\ bought # <<>> /\ purchases' = bought
        /\ decisions' \subseteq decisions
              \cup (IF p.valid THEN Decide(p.body, <<calls, Len(bought)>>) ELSE {})
              \cup MissingVaultDecisions(bought)
        /\ p.card = disc /\ Anchored(disc)
        /\ p.valid => \A t \in p.body.atts : t.by = disc.key
    BY <1>3, ServedPurchase
  <2>2. /\ Len(bought) = n /\ bought[n] = p /\ n \in 1 .. Len(bought)
        /\ \A i \in 1 .. Len(purchases) : bought[i] = purchases[i] /\ i \in 1 .. Len(bought)
    BY <2>1, GrownList DEF Typed, TypeOK
  <2>3. \A d \in MissingVaultDecisions(bought) : d.action = "insufficient data"
    BY <2>1, MissingType DEF Typed
  <2>4. ASSUME NEW d \in Decide(p.body, <<calls, n>>), d.action # "insufficient data", p.valid
        PROVE  Rests(d)'
    <3>1. d.cites = <<calls, n>> /\ Actionable(p.body, d.vault) BY <2>4, DecideActs
    <3>2. \A t \in p.body.atts : t.age \in Int
      BY <2>1, AnswerAssumption DEF Bought, Body
    <3>3. policy.maxAge \in Nat /\ ClockSkew \in Nat
      BY AgentAssumption DEF Typed, TypeOK, PolicySet
    <3>4. \A t \in p.body.atts : t.vault = d.vault => t.age \in -ClockSkew .. policy.maxAge
      BY <3>1, <3>2, <3>3 DEF Actionable, Timely
    <3>5. \E t \in p.body.atts : t.vault = d.vault BY <3>1 DEF Actionable
    <3>7. d.cites[2] = n /\ purchases'[n] = p BY <2>1, <2>2, <3>1
    <3> HIDE DEF p, n, bought
    <3>8. purchases'[d.cites[2]] = p /\ d.cites[2] \in 1 .. Len(purchases') BY <3>7, <2>1, <2>2
    <3> QED BY <1>1, <2>1, <2>4, <3>4, <3>5, <3>8 DEF Rests, Anchored
  <2>5. ASSUME NEW d \in decisions, d.action # "insufficient data" PROVE Rests(d)'
    <3>1. Rests(d) BY <2>5 DEF AllRest
    <3>2. purchases'[d.cites[2]] = purchases[d.cites[2]] /\ d.cites[2] \in 1 .. Len(purchases')
      BY <2>1, <2>2, <3>1 DEF Rests
    <3> QED BY <1>1, <3>1, <3>2 DEF Rests, Anchored
  <2> HIDE DEF p, n, bought
  <2> QED BY <2>1, <2>2, <2>3, <2>4, <2>5 DEF AllRest
<1>4. CASE UNCHANGED <<calls, purchases, decisions>>
  BY <1>1, <1>4 DEF AllRest, Rests, Anchored
<1> QED BY <1>2, <1>3, <1>4, ResultsFrame

\* No vault is acted on without timely evidence that verified under an anchored key.
THEOREM Evidence == Spec => []ActionsRestOnEvidence
<1>1. Init => AllRest BY DEF Init, AllRest
<1>2. Typed /\ AllRest /\ [Next]_vars => AllRest' BY AllRestStep
<1>3. AllRest => ActionsRestOnEvidence BY DEF AllRest, Rests, ActionsRestOnEvidence
<1> QED BY <1>1, <1>2, <1>3, TypedInit, TypedStep, PTL DEF Spec

-----------------------------------------------------------------------------
(* One payment per purchase, and none after a failure                       *)

AllValid == \A i \in 1 .. Len(purchases) : purchases[i].valid

Counted ==
    /\ call.stage \in Before \cup {"buying", "sent", "ok", "failed"} =>
          signings = Len(purchases)
    /\ call.stage = "signed" => signings = Len(purchases) + 1
    /\ call.stage \in Before \cup {"buying", "sent", "signed"} => AllValid
    /\ StopsAtFailure

LEMMA CountedStep ==
    ASSUME Typed, Counted, [Next]_vars PROVE Counted'
<1> USE DEF books, results, wallet
<1>0. call \in Call /\ signings \in Nat BY DEF Typed, TypeOK
<1>1. CASE Start
  <2>1. purchases' = <<>> /\ signings' = 0 /\ call'.stage = "opened"
    BY <1>1 DEF Start
  <2> QED BY <2>1 DEF Counted, AllValid, StopsAtFailure, Before
<1>2. ASSUME NEW a \in Answers, Served(a) PROVE Counted'
  <2> DEFINE p == Purchase(a)
             n == Len(purchases) + 1
  <2>1. /\ p \in Bought /\ purchases' = Append(purchases, p) /\ signings' = signings
        /\ call.stage = "signed"
        /\ call'.stage = IF ~p.valid THEN "failed"
                         ELSE IF call.todo = {} THEN "ok" ELSE "buying"
    BY <1>2, ServedPurchase
  <2> HIDE DEF p
  <2>2. /\ Len(purchases') = n /\ purchases'[n] = p
        /\ \A i \in 1 .. Len(purchases) : purchases'[i] = purchases[i]
        /\ 1 .. Len(purchases') = (1 .. Len(purchases)) \cup {n}
    BY <2>1, GrownList DEF Typed, TypeOK
  <2>3. signings' = n /\ AllValid BY <2>1 DEF Counted
  <2>4. p.valid => AllValid' BY <2>2, <2>3 DEF AllValid
  <2>5. StopsAtFailure' BY <2>2, <2>3 DEF AllValid, StopsAtFailure
  <2> QED BY <2>1, <2>2, <2>3, <2>4, <2>5 DEF Counted, Before
<1>3. ASSUME UNCHANGED <<purchases, signings>>,
             \/ call'.stage \in {"returned", "threw"}
             \/ call'.stage = call.stage
             \/ call.stage \in Before \cup {"buying"} /\ call'.stage \in Before \cup {"buying", "sent"}
      PROVE  Counted'
  BY <1>3 DEF Counted, AllValid, StopsAtFailure, Before
<1>4. ASSUME NEW amount, Sign(amount) PROVE Counted'
  <2>1. call.stage = "sent" /\ call'.stage = "signed" /\ purchases' = purchases
        /\ signings' = signings + 1
    BY <1>0, <1>4 DEF Sign, Call
  <2> QED BY <2>1 DEF Counted, AllValid, StopsAtFailure, Before
<1>5. CASE DiscoverFails \/ NotSigned \/ NotServed \/ OpenRunFails
  BY <1>0, <1>3, <1>5 DEF DiscoverFails, NotSigned, NotServed, OpenRunFails, Throw, Call
<1>6. ASSUME NEW card \in Cards, Discover(card) PROVE Counted'
  BY <1>0, <1>3, <1>6 DEF Discover, Before, Call
<1>7. CASE PickRail
  <2>1. call.stage = "trusted" /\ call'.stage \in {"refused", "buying"}
        /\ UNCHANGED <<purchases, signings>>
    BY <1>0, <1>7 DEF PickRail, Call
  <2> QED BY <2>1, <1>3 DEF Before
<1>8. ASSUME NEW chain \in Chains \cup {None}, Send(chain) PROVE Counted'
  BY <1>0, <1>3, <1>8 DEF Send, Call
<1>9. ASSUME FinishWatch \/ ReturnEmpty \/ AppendToRun \/ (\E card \in Cards : OpenRun(card))
      PROVE Counted'
  BY <1>0, <1>3, <1>9 DEF FinishWatch, ReturnEmpty, AppendToRun, OpenRun, Call
<1>10. CASE UNCHANGED vars
  BY <1>3, <1>10 DEF vars
<1> QED BY <1>1, <1>2, <1>4, <1>5, <1>6, <1>7, <1>8, <1>9, <1>10 DEF Next

\* The purchase that fails a check is the last thing the call pays for.
THEOREM FailureStopsSpending == Spec => []StopsAtFailure
<1>1. Init => Counted
  BY DEF Init, Counted, AllValid, StopsAtFailure, Before
<1>2. Typed /\ Counted /\ [Next]_vars => Counted' BY CountedStep
<1>3. Counted => StopsAtFailure BY DEF Counted
<1> QED BY <1>1, <1>2, <1>3, TypedInit, TypedStep, PTL DEF Spec

-----------------------------------------------------------------------------
(* What a call spends                                                       *)

\* The requests of the plan that are not signed for yet.
Left == Cardinality(call.todo) + (IF call.stage = "sent" THEN 1 ELSE 0)

\* What was signed and what the rest of the plan may still cost stay within the quote
\* of the plan and one percent; the plan is within the budget; the quote the Hedera
\* policy reads is that of the request in flight.
Afforded ==
    /\ IsFiniteSet(call.todo)
    /\ call.stage \in {"opened", "trusted"} => call.todo = PlanChains(call.kind, call.vaults)
    /\ \A r \in Rails : r # call.rail => spent[r] = 0
    /\ call.rail # None =>
          /\ call.forced \in {None, call.rail}
          /\ call.price <= policy.budget[call.rail]
          /\ 100 * spent[call.rail] + 101 * (Quote * Left) <= 101 * call.price
    /\ call.stage = "sent" /\ call.rail = "hedera" => quoteAtomic = Quote

LEMMA Times ==
    ASSUME NEW q \in Nat, NEW n \in Nat
    PROVE  q * n \in Nat /\ q * (n + 1) = q * n + q /\ q * (n + 0) = q * n
OBVIOUS

LEMMA AffordedStep ==
    ASSUME Typed, Afforded, [Next]_vars PROVE Afforded'
<1> USE DEF books, results, wallet
<1>0. /\ call \in Call /\ call.vaults \in SUBSET Vaults /\ spent \in [Rails -> Nat]
      /\ policy' = policy /\ policy.budget \in [Rails -> Nat]
      /\ Cardinality(call.todo) \in Nat /\ None \notin Rails
  BY ResultsFrame, FS_CardinalityType, AgentAssumption
     DEF Typed, TypeOK, Afforded, Call, PolicySet
\* A step that leaves the plan and the wallet alone.
<1>1. ASSUME call'.kind = call.kind, call'.vaults = call.vaults, call'.forced = call.forced,
             call'.todo = call.todo, call'.rail = call.rail, call'.price = call.price,
             spent' = spent, call'.stage # "sent" \/ UNCHANGED <<call, quoteAtomic>>,
             call.stage = "opened" \/ call'.stage \notin {"opened", "trusted"}
               \/ call'.stage = call.stage
      PROVE  Afforded'
  <2>1. Quote' = Quote /\ PlanChains(call.kind, call.vaults)' = PlanChains(call.kind, call.vaults)
    BY <1>0, <1>1 DEF Quote, UnitPrice, PlanChains, Tier
  <2>2. CASE call.rail = None
    BY <1>0, <1>1, <2>1, <2>2 DEF Afforded
  <2>3. CASE call.rail # None
    <3>1. Quote \in Nat BY <2>3, QuoteType DEF Typed, Ready, Before
    <3>2. Left \in Nat /\ Left' \in Nat /\ Left' <= Left BY <1>0, <1>1 DEF Left
    <3>3. Quote * Left' <= Quote * Left
      <4>1. \A q, m, n \in Nat : m <= n => q * m <= q * n OBVIOUS
      <4> QED BY <3>1, <3>2, <4>1
    <3>4. Quote * Left \in Nat /\ Quote * Left' \in Nat BY <3>1, <3>2, Times
    <3> DEFINE now == Quote * Left
               later == Quote * Left'
    <3> HIDE DEF now, later
    <3>5. 100 * spent[call.rail] + 101 * now <= 101 * call.price
          /\ now \in Nat /\ later \in Nat /\ later <= now
      BY <2>3, <3>3, <3>4 DEF Afforded, now, later
    <3>6. call.rail \in Rails /\ spent[call.rail] \in Nat /\ call.price \in Nat
      BY <1>0, <2>3 DEF Call
    <3>7. 100 * spent[call.rail] + 101 * later <= 101 * call.price BY <3>5, <3>6
    <3>8. 100 * spent'[call'.rail] + 101 * (Quote' * Left') <= 101 * call'.price
      BY <1>1, <2>1, <3>7 DEF later
    <3> QED BY <1>0, <1>1, <2>1, <2>3, <3>8 DEF Afforded
  <2> QED BY <2>2, <2>3
<1>2. CASE Start
  <2>1. PICK kind \in {"policy", "table"}, vaults \in (SUBSET Vaults) \ {{}},
             forced \in Rails \cup {None} :
           call' = [kind |-> kind, vaults |-> vaults, forced |-> forced,
                    todo |-> PlanChains(kind, vaults), rail |-> None, price |-> 0,
                    chain |-> None, moved |-> 0, stage |-> "opened"]
    BY <1>2 DEF Start
  <2>2. IsFiniteSet(PlanChains(kind, vaults))
    <3>1. "hedera" \in Rails BY AgentAssumption
    <3> QED BY <3>1, Prices
  <2>3. PlanChains(kind, vaults)' = PlanChains(kind, vaults) BY <1>0 DEF PlanChains, Tier
  <2>4. spent' = [r \in Rails |-> 0] BY <1>2 DEF Start
  <2>5. /\ call'.kind = kind /\ call'.vaults = vaults /\ call'.rail = None
        /\ call'.todo = PlanChains(kind, vaults) /\ call'.stage = "opened"
    BY <2>1
  <2>6. PlanChains(call.kind, call.vaults)' = PlanChains(kind, vaults)
    BY <1>0, <2>5 DEF PlanChains, Tier
  <2> QED BY <1>0, <2>2, <2>4, <2>5, <2>6 DEF Afforded
<1>3. ASSUME NEW card \in Cards, Discover(card) PROVE Afforded'
  BY <1>0, <1>1, <1>3 DEF Discover, Call
<1>4. CASE PickRail
  <2>1. PICK balance \in [Rails -> Balances], up \in [Rails -> BOOLEAN] :
          LET prefers == IF call.forced = None THEN policy.prefers ELSE call.forced
              usable == Usable(call.kind, call.vaults, balance, up)
              rail == ChooseRail(prefers, usable, call.kind, call.vaults)
          IN  call' = IF usable = {} \/ call.forced \notin {None, rail}
                      THEN [call EXCEPT !.stage = "refused"]
                      ELSE [call EXCEPT !.rail = rail, !.stage = "buying",
                                        !.price = QuoteFor(rail, call.kind, call.vaults)]
    BY <1>4 DEF PickRail
  <2> DEFINE prefers == IF call.forced = None THEN policy.prefers ELSE call.forced
             usable == Usable(call.kind, call.vaults, balance, up)
             rail == ChooseRail(prefers, usable, call.kind, call.vaults)
             unit == UnitPrice(rail, call.kind, call.vaults)
             count == Cardinality(call.todo)
             price == QuoteFor(rail, call.kind, call.vaults)
  <2>2. call.stage = "trusted" /\ call.rail = None /\ spent' = spent
        /\ spent = [r \in Rails |-> 0] /\ call.vaults # {}
        /\ call.todo = PlanChains(call.kind, call.vaults)
    BY <1>4 DEF PickRail, Typed, Ready, Before, Afforded
  <2>3. usable # {} => rail \in usable /\ rail \in Rails
    <3>1. \A r \in Rails : QuoteFor(r, call.kind, call.vaults) \in Nat
      BY <1>0, <2>2, Prices
    <3>2. usable \subseteq Rails BY DEF Usable
    <3> QED BY <3>1, <3>2, ChosenIsUsable
  <2>4. usable # {} => price <= policy.budget[rail] /\ price \in Nat
                       /\ price = unit * count /\ unit \in Nat
    <3>1. usable # {} => policy.budget[rail] >= price BY <2>3 DEF Usable
    <3>2. usable # {} => price \in Nat /\ unit \in Nat BY <1>0, <2>2, <2>3, Prices
    <3>3. price = unit * count BY <2>2 DEF QuoteFor
    <3> HIDE DEF price, unit, count, usable, rail
    <3> QED BY <1>0, <2>3, <3>1, <3>2, <3>3
  <2>5. \/ call' = [call EXCEPT !.stage = "refused"]
        \/ /\ usable # {} /\ call.forced \in {None, rail}
           /\ call' = [call EXCEPT !.rail = rail, !.stage = "buying", !.price = price]
    BY <2>1
  <2> HIDE DEF price, count, usable, rail, prefers, unit
  <2>6. CASE call' = [call EXCEPT !.stage = "refused"]
    BY <1>0, <1>1, <2>2, <2>6 DEF Call
  <2>7. CASE /\ usable # {} /\ call.forced \in {None, rail}
             /\ call' = [call EXCEPT !.rail = rail, !.stage = "buying", !.price = price]
    <3>1. /\ call'.rail = rail /\ call'.stage = "buying" /\ call'.price = price
          /\ call'.todo = call.todo /\ call'.forced = call.forced
          /\ call'.kind = call.kind /\ call'.vaults = call.vaults
      BY <1>0, <2>7 DEF Call
    <3>2. Quote' = unit BY <1>0, <3>1 DEF Quote, UnitPrice, Tier, unit
    <3>3. Left' = count BY <1>0, <3>1 DEF Left, count
    <3>4. spent'[rail] = 0 /\ rail # None BY <1>0, <2>2, <2>3, <2>7
    <3>5. 100 * spent'[call'.rail] + 101 * (Quote' * Left') <= 101 * call'.price
      BY <2>4, <2>7, <3>1, <3>2, <3>3, <3>4
    <3> QED BY <1>0, <2>2, <2>4, <2>7, <3>1, <3>4, <3>5 DEF Afforded
  <2> QED BY <2>5, <2>6, <2>7
<1>5. ASSUME NEW chain \in Chains \cup {None}, Send(chain) PROVE Afforded'
  <2>1. /\ call.stage = "buying" /\ chain \in call.todo /\ spent' = spent
        /\ call' = [call EXCEPT !.todo = @ \ {chain}, !.chain = chain, !.stage = "sent"]
        /\ quoteAtomic' = IF call.rail = "hedera" THEN Quote ELSE quoteAtomic
    BY <1>5 DEF Send
  <2>2. /\ call'.rail = call.rail /\ call'.stage = "sent" /\ call'.price = call.price
        /\ call'.todo = call.todo \ {chain} /\ call'.forced = call.forced
        /\ call'.kind = call.kind /\ call'.vaults = call.vaults
    BY <1>0, <2>1 DEF Call
  <2>3. Quote' = Quote BY <1>0, <2>2 DEF Quote, UnitPrice, Tier
  <2>4. IsFiniteSet(call'.todo) /\ Cardinality(call'.todo) = Cardinality(call.todo) - 1
    BY <2>1, <2>2, FS_RemoveElement DEF Afforded
  <2>5. Left' = Left BY <1>0, <2>1, <2>2, <2>4 DEF Left
  <2> QED BY <1>0, <2>1, <2>2, <2>3, <2>4, <2>5 DEF Afforded
<1>6. ASSUME NEW amount \in Int, Sign(amount) PROVE Afforded'
  <2>1. /\ call.stage = "sent" /\ amount >= 0 /\ ~OverQuote(amount)
        /\ spent' = [spent EXCEPT ![call.rail] = @ + amount]
        /\ call' = [call EXCEPT !.moved = amount, !.stage = "signed"]
    BY <1>6 DEF Sign
  <2>2. /\ call'.rail = call.rail /\ call'.stage = "signed" /\ call'.price = call.price
        /\ call'.todo = call.todo /\ call'.forced = call.forced
        /\ call'.kind = call.kind /\ call'.vaults = call.vaults
    BY <1>0, <2>1 DEF Call
  <2>3. Quote' = Quote BY <1>0, <2>2 DEF Quote, UnitPrice, Tier
  <2>4. call.rail \in Rails /\ call.rail # None BY <1>0, <2>1 DEF Typed, Ready, Engaged, Call
  <2>5. Quote \in Nat BY <2>1, <2>4, QuoteType
  <2>6. amount <= MaxAcceptable(Quote)
    <3>1. MaxAcceptable(Quote) \in Nat /\ Quote # None BY <2>5, Ceiling, AgentAssumption
    <3> QED BY <2>1, <3>1 DEF OverQuote, Afforded
  <2>7. 100 * amount <= 101 * Quote
    <3>1. MaxAcceptable(Quote) \in Nat /\ 100 * MaxAcceptable(Quote) <= 101 * Quote
      BY <2>5, Ceiling
    <3> QED BY <2>5, <2>6, <3>1
  <2>8. Left' \in Nat /\ Left = Left' + 1 BY <1>0, <2>1, <2>2 DEF Left
  <2>9. Quote * Left = Quote * Left' + Quote /\ Quote * Left' \in Nat
    BY <2>5, <2>8, Times
  <2>10. spent'[call.rail] = spent[call.rail] + amount /\ spent[call.rail] \in Nat
    BY <1>0, <2>1, <2>4
  <2>11. \A r \in Rails : r # call'.rail => spent'[r] = 0
    BY <1>0, <2>1, <2>2 DEF Afforded
  <2>12. 100 * spent'[call.rail] + 101 * (Quote * Left') <= 101 * call.price
    <3> DEFINE rest == Quote * Left'
               all == Quote * Left
               q == Quote
               had == spent[call.rail]
               has == spent'[call.rail]
    <3>1. 100 * had + 101 * all <= 101 * call.price BY <2>4 DEF Afforded
    <3>2. all = rest + q /\ rest \in Nat /\ q \in Nat /\ has = had + amount /\ had \in Nat
          /\ 100 * amount <= 101 * q /\ call.price \in Nat
      BY <1>0, <2>5, <2>7, <2>9, <2>10 DEF Call
    <3> HIDE DEF rest, all, q, had, has
    <3>3. 100 * has + 101 * rest <= 101 * call.price BY <3>1, <3>2
    <3> QED BY <3>3 DEF rest, has
  <2> QED BY <1>0, <2>2, <2>3, <2>4, <2>11, <2>12 DEF Afforded
<1>7. ASSUME NEW a \in Answers, Served(a) PROVE Afforded'
  <2>1. \E stage \in {"failed", "ok", "buying"} : call' = [call EXCEPT !.stage = stage]
    BY <1>7 DEF Served, Buy
  <2> QED BY <1>0, <1>1, <1>7, <2>1 DEF Served, Call
<1>8. CASE DiscoverFails \/ NotSigned \/ NotServed \/ OpenRunFails
  BY <1>0, <1>1, <1>8 DEF DiscoverFails, NotSigned, NotServed, OpenRunFails, Throw, Call
<1>9. ASSUME FinishWatch \/ ReturnEmpty \/ AppendToRun \/ (\E card \in Cards : OpenRun(card))
      PROVE Afforded'
  BY <1>0, <1>1, <1>9 DEF FinishWatch, ReturnEmpty, AppendToRun, OpenRun, Call
<1>10. CASE UNCHANGED vars
  BY <1>1, <1>10 DEF vars
<1>11. ASSUME NEW s \in Surcharges, Sign(Quote + s) PROVE Afforded'
  <2>1. Quote \in Nat
    BY <1>11, QuoteType DEF Sign, Typed, Ready, Engaged
  <2>2. Quote + s \in Int BY <2>1, AgentAssumption
  <2> QED BY <1>6, <1>11, <2>2
<1> QED BY <1>2, <1>3, <1>4, <1>5, <1>7, <1>8, <1>9, <1>10, <1>11 DEF Next

LEMMA AffordedInit == Init => Afforded
<1> SUFFICES ASSUME Init PROVE Afforded OBVIOUS
<1> QED BY FS_EmptySet DEF Init, Afforded

\* What the invariant says of the money already signed for.
LEMMA AffordedSpending ==
    ASSUME Typed, Afforded PROVE SpendWithinQuote /\ SpendWithinBudget
<1>1. /\ call \in Call /\ spent \in [Rails -> Nat] /\ policy.budget \in [Rails -> Nat]
      /\ Cardinality(call.todo) \in Nat
  BY FS_CardinalityType, AgentAssumption DEF Typed, TypeOK, Afforded, PolicySet
<1>2. CASE call.rail = None
  BY <1>1, <1>2, AgentAssumption DEF Afforded, SpendWithinQuote, SpendWithinBudget
<1>3. CASE call.rail # None
  <2>1. Quote \in Nat BY <1>3, QuoteType DEF Typed, Ready, Before
  <2>2. Quote * Left \in Nat BY <1>1, <2>1, Times DEF Left
  <2> DEFINE rest == Quote * Left
  <2>3. 100 * spent[call.rail] + 101 * rest <= 101 * call.price BY <1>3 DEF Afforded
  <2> HIDE DEF rest
  <2>4. call.rail \in Rails /\ spent[call.rail] \in Nat /\ call.price \in Nat
        /\ policy.budget[call.rail] \in Nat /\ call.price <= policy.budget[call.rail]
    BY <1>1, <1>3 DEF Call, Afforded
  <2>5. 100 * spent[call.rail] <= 101 * call.price BY <2>2, <2>3, <2>4 DEF rest
  <2>6. 100 * spent[call.rail] <= 101 * policy.budget[call.rail] BY <2>4, <2>5
  <2>7. \A r \in Rails : r # call.rail => spent[r] = 0 /\ policy.budget[r] \in Nat
    BY <1>1 DEF Afforded
  <2>8. call.forced \in {None, call.rail} BY <1>3 DEF Afforded
  <2> QED BY <1>1, <2>5, <2>6, <2>7, <2>8 DEF SpendWithinQuote, SpendWithinBudget
<1> QED BY <1>2, <1>3

\* Whatever each 402 demands, a call signs for at most the quote of its plan and one
\* percent ...
THEOREM QuoteBinds == Spec => []SpendWithinQuote
<1> QED BY TypedInit, TypedStep, AffordedInit, AffordedStep, AffordedSpending, PTL DEF Spec

\* ... and so for at most the rail's budget and one percent, on the named rail only.
THEOREM BudgetBinds == Spec => []SpendWithinBudget
<1> QED BY TypedInit, TypedStep, AffordedInit, AffordedStep, AffordedSpending, PTL DEF Spec

-----------------------------------------------------------------------------
(* Nothing asked for, bought or decided goes missing                        *)

Reported(v) == \E i \in 1 .. Len(purchases) : v \in DOMAIN purchases[i].body.reports

\* While the plan goes on, each reported vault is decided on.
Answered ==
    /\ call.stage \in Before \cup {"buying", "sent", "signed"} =>
          \A v \in Vaults : Reported(v) => \E d \in decisions : d.vault = v
    /\ EveryVaultAnswered

LEMMA AnsweredStep ==
    ASSUME Typed, Answered, [Next]_vars PROVE Answered'
<1> USE DEF books, results, wallet
<1>0. call \in Call BY DEF Typed, TypeOK
<1>1. CASE Start
  <2>1. purchases' = <<>> /\ call'.stage = "opened" BY <1>1 DEF Start
  <2> QED BY <2>1 DEF Answered, Reported, EveryVaultAnswered
<1>2. ASSUME NEW a \in Answers, Served(a) PROVE Answered'
  <2> DEFINE p == Purchase(a)
             n == Len(purchases) + 1
             bought == Append(purchases, p)
  <2>1. /\ p \in Bought /\ bought \in Seq(Bought) /\ bought # <<>> /\ purchases' = bought
        /\ decisions' = decisions
             \cup (IF p.valid THEN Decide(p.body, <<calls, Len(bought)>>) ELSE {})
             \cup (IF p.valid /\ call.todo = {} /\ call.kind = "policy"
                   THEN MissingVaultDecisions(bought) ELSE {})
        /\ call.stage = "signed"
        /\ call'.stage = IF ~p.valid THEN "failed"
                         ELSE IF call.todo = {} THEN "ok" ELSE "buying"
        /\ call'.kind = call.kind /\ call'.vaults = call.vaults
    BY <1>2, ServedPurchase
  <2>2. /\ Len(bought) = n /\ bought[n] = p
        /\ \A i \in 1 .. Len(purchases) : bought[i] = purchases[i]
        /\ 1 .. Len(bought) = (1 .. Len(purchases)) \cup {n}
    BY <2>1, GrownList DEF Typed, TypeOK
  <2>3. \A v \in DOMAIN p.body.reports :
           \E d \in Decide(p.body, <<calls, Len(bought)>>) : d.vault = v
    <3> DEFINE D(v) == [vault |-> v,
                        action |-> IF Actionable(p.body, v) THEN ActionFor[p.body.reports[v]]
                                   ELSE "insufficient data",
                        cites |-> <<calls, Len(bought)>>]
    <3>1. Decide(p.body, <<calls, Len(bought)>>) = {D(v) : v \in DOMAIN p.body.reports}
      BY DEF Decide
    <3>2. \A v : D(v).vault = v OBVIOUS
    <3> HIDE DEF D, p
    <3> QED BY <3>1, <3>2
  <2>4. \A v \in call.vaults :
           \/ \E i \in 1 .. Len(bought) : v \in DOMAIN bought[i].body.reports
           \/ \E d \in MissingVaultDecisions(bought) : d.vault = v
    BY <2>1, MissingType DEF Typed
  <2> HIDE DEF p, n, bought
  <2>5. p.valid => \A v \in Vaults : Reported(v)' => \E d \in decisions' : d.vault = v
    <3> SUFFICES ASSUME p.valid, NEW v \in Vaults, Reported(v)'
                 PROVE  \E d \in decisions' : d.vault = v
      OBVIOUS
    <3>1. PICK i \in 1 .. Len(bought) : v \in DOMAIN bought[i].body.reports
      BY <2>1 DEF Reported
    <3>2. CASE i = n BY <2>1, <2>2, <2>3, <3>1, <3>2
    <3>3. CASE i \in 1 .. Len(purchases)
      <4>1. Reported(v) BY <2>2, <3>1, <3>3 DEF Reported
      <4>2. \E d \in decisions : d.vault = v BY <2>1, <4>1 DEF Answered
      <4> QED BY <2>1, <4>2
    <3> QED BY <2>2, <3>2, <3>3
  <2>6. EveryVaultAnswered'
    <3> SUFFICES ASSUME call'.stage = "ok", call'.kind = "policy", NEW v \in call'.vaults
                 PROVE  \E d \in decisions' : d.vault = v
      BY DEF EveryVaultAnswered
    <3>1. p.valid /\ call.todo = {} /\ call.kind = "policy" /\ v \in call.vaults
      BY <2>1
    <3>2. v \in Vaults BY <1>0, <3>1 DEF Call
    <3>3. CASE \E i \in 1 .. Len(bought) : v \in DOMAIN bought[i].body.reports
      <4>1. Reported(v)' BY <2>1, <3>3 DEF Reported
      <4> QED BY <2>5, <3>1, <3>2, <4>1
    <3>4. CASE \E d \in MissingVaultDecisions(bought) : d.vault = v
      BY <2>1, <3>1, <3>4
    <3> QED BY <2>4, <3>1, <3>3, <3>4
  <2> QED BY <2>1, <2>5, <2>6 DEF Answered, Before
<1>3. ASSUME UNCHANGED <<purchases, decisions>>, call'.stage # "ok",
             \/ call'.stage \notin Before \cup {"buying", "sent", "signed"}
             \/ call.stage \in Before \cup {"buying", "sent", "signed"}
      PROVE  Answered'
  BY <1>3 DEF Answered, Reported, EveryVaultAnswered
<1>4. CASE DiscoverFails \/ NotSigned \/ NotServed \/ OpenRunFails
  BY <1>0, <1>3, <1>4
     DEF DiscoverFails, NotSigned, NotServed, OpenRunFails, Throw, Call, Before
<1>5. ASSUME NEW card \in Cards, Discover(card) PROVE Answered'
  BY <1>0, <1>3, <1>5 DEF Discover, Before, Call
<1>6. CASE PickRail
  <2>1. call.stage = "trusted" /\ call'.stage \in {"refused", "buying"}
        /\ UNCHANGED <<purchases, decisions>>
    BY <1>0, <1>6 DEF PickRail, Call
  <2> QED BY <2>1, <1>3 DEF Before
<1>7. ASSUME NEW chain \in Chains \cup {None}, Send(chain) PROVE Answered'
  BY <1>0, <1>3, <1>7 DEF Send, Call
<1>8. ASSUME NEW amount, Sign(amount) PROVE Answered'
  BY <1>0, <1>3, <1>8 DEF Sign, Call
<1>9. ASSUME FinishWatch \/ ReturnEmpty \/ AppendToRun \/ (\E card \in Cards : OpenRun(card))
      PROVE Answered'
  BY <1>0, <1>3, <1>9 DEF FinishWatch, ReturnEmpty, AppendToRun, OpenRun, Call, Before
<1>10. CASE UNCHANGED vars
  BY <1>10 DEF vars, Answered, Reported, EveryVaultAnswered
<1> QED BY <1>1, <1>2, <1>4, <1>5, <1>6, <1>7, <1>8, <1>9, <1>10 DEF Next

\* A successful watch or scan leaves no requested vault without a decision.
THEOREM Complete == Spec => []EveryVaultAnswered
<1>1. Init => Answered
  BY DEF Init, Answered, Reported, EveryVaultAnswered
<1>2. Typed /\ Answered /\ [Next]_vars => Answered' BY AnsweredStep
<1>3. Answered => EveryVaultAnswered BY DEF Answered
<1> QED BY <1>1, <1>2, <1>3, TypedInit, TypedStep, PTL DEF Spec

\* A call that returns left its purchases and decisions in the record.
THEOREM RecordKept == Spec => []ReturnedIsRecorded
<1>1. Init => ReturnedIsRecorded BY DEF Init, ReturnedIsRecorded
<1>2. Typed /\ ReturnedIsRecorded /\ [Next]_vars => ReturnedIsRecorded'
  <2> SUFFICES ASSUME Typed, ReturnedIsRecorded, [Next]_vars PROVE ReturnedIsRecorded'
    OBVIOUS
  <2> USE DEF books, results, wallet
  <2>0. call \in Call /\ run \in Record BY DEF Typed, TypeOK
  <2>1. CASE call'.stage # "returned" BY <2>1 DEF ReturnedIsRecorded
  <2>2. CASE UNCHANGED vars BY <2>2 DEF vars, ReturnedIsRecorded, Cited
  <2>3. ASSUME FinishWatch \/ AppendToRun \/ (\E card \in Cards : OpenRun(card))
        PROVE ReturnedIsRecorded'
    <3>1. UNCHANGED <<calls, purchases, decisions>>
      BY <2>3 DEF FinishWatch, AppendToRun, OpenRun
    <3>2. Cited \subseteq run'.requests /\ decisions \subseteq run'.decisions
      <4>1. CASE FinishWatch BY <2>0, <4>1 DEF FinishWatch, Save, Record
      <4>2. CASE AppendToRun BY <2>0, <4>2 DEF AppendToRun, Save, Recorded, Record
      <4>3. ASSUME NEW card \in Cards, OpenRun(card)
            PROVE  Cited \subseteq run'.requests /\ decisions \subseteq run'.decisions
        BY <4>3 DEF OpenRun, Save, Recorded, Empty
      <4> QED BY <2>3, <4>1, <4>2, <4>3
    <3> QED BY <3>1, <3>2 DEF ReturnedIsRecorded, Cited
  <2>4. CASE ReturnEmpty
    <3>1. purchases' = <<>> /\ decisions' = {}
      BY <2>4 DEF ReturnEmpty, Typed, Ready, Before
    <3> QED BY <3>1 DEF ReturnedIsRecorded, Cited
  <2>5. ASSUME Start \/ DiscoverFails \/ (\E card \in Cards : Discover(card)) \/ PickRail
               \/ (\E chain \in Chains \cup {None} : Send(chain))
               \/ (\E s \in Surcharges : Sign(Quote + s)) \/ NotSigned \/ NotServed
               \/ (\E a \in Answers : Served(a)) \/ OpenRunFails
        PROVE  call'.stage # "returned"
    <3>1. CASE Start BY <3>1 DEF Start
    <3>2. CASE DiscoverFails \/ NotSigned \/ NotServed \/ OpenRunFails
      BY <2>0, <3>2 DEF DiscoverFails, NotSigned, NotServed, OpenRunFails, Throw, Call
    <3>3. CASE \E card \in Cards : Discover(card) BY <2>0, <3>3 DEF Discover, Call
    <3>4. CASE PickRail BY <2>0, <3>4 DEF PickRail, Call
    <3>5. CASE \E chain \in Chains \cup {None} : Send(chain) BY <2>0, <3>5 DEF Send, Call
    <3>6. CASE \E s \in Surcharges : Sign(Quote + s) BY <2>0, <3>6 DEF Sign, Call
    <3>7. CASE \E a \in Answers : Served(a) BY <2>0, <3>7 DEF Served, Buy, Call
    <3> QED BY <2>5, <3>1, <3>2, <3>3, <3>4, <3>5, <3>6, <3>7
  <2> QED BY <2>1, <2>2, <2>3, <2>4, <2>5 DEF Next
<1>3. QED BY <1>1, <1>2, TypedInit, TypedStep, PTL DEF Spec

\* The file holds no more than the record; a watch has one call, which writes it when
\* it ends.
Filed ==
    /\ Within(file, run)
    /\ mode = "watch" =>
          /\ call.stage # "returned" => run.requests = {} /\ run.decisions = {} /\ file = None
          /\ call.stage # "idle" => calls > 0
    /\ mode = "chat" /\ run.discovery = None =>
          run.requests = {} /\ run.decisions = {} /\ file = None

FileGrows == /\ Within(run, run') /\ Within(file', run')
             /\ file' \notin {file, None} => Within(run, file')

LEMMA FiledStep ==
    ASSUME Typed, Filed, [Next]_vars PROVE Filed' /\ FileGrows
<1> USE DEF books, results, wallet, Within
<1>0. call \in Call /\ run \in Record /\ calls \in Nat
      /\ mode \in {"watch", "chat"}
  BY DEF Typed, TypeOK
<1>1. CASE Start
  BY <1>0, <1>1 DEF Start, Filed, FileGrows
<1>2. ASSUME NEW card \in Cards, Discover(card) PROVE Filed' /\ FileGrows
  <2>1. run'.requests = run.requests /\ run'.decisions = run.decisions
        /\ (mode = "chat" => run' = run) /\ UNCHANGED <<mode, calls, file>>
        /\ call.stage = "opened" /\ call'.stage \in {"refused", "trusted"}
    BY <1>0, <1>2 DEF Discover, Record, Call
  <2> QED BY <2>1 DEF Filed, FileGrows
<1>3. ASSUME UNCHANGED <<mode, calls, run, file>>, call.stage # "idle",
             mode = "watch" => call.stage # "returned" /\ call'.stage # "returned"
      PROVE  Filed' /\ FileGrows
  BY <1>3 DEF Filed, FileGrows
<1>4. CASE DiscoverFails \/ NotSigned \/ NotServed \/ OpenRunFails
  BY <1>0, <1>3, <1>4 DEF DiscoverFails, NotSigned, NotServed, OpenRunFails, Throw, Call
<1>5. CASE PickRail
  BY <1>0, <1>3, <1>5 DEF PickRail, Call
<1>6. ASSUME NEW chain \in Chains \cup {None}, Send(chain) PROVE Filed' /\ FileGrows
  BY <1>0, <1>3, <1>6 DEF Send, Call
<1>7. ASSUME NEW amount, Sign(amount) PROVE Filed' /\ FileGrows
  BY <1>0, <1>3, <1>7 DEF Sign, Call
<1>8. ASSUME NEW a \in Answers, Served(a) PROVE Filed' /\ FileGrows
  BY <1>0, <1>3, <1>8 DEF Served, Buy, Call
<1>9. CASE ReturnEmpty
  BY <1>0, <1>3, <1>9 DEF ReturnEmpty, Call
<1>10. CASE FinishWatch
  <2>1. /\ mode = "watch" /\ mode' = mode /\ calls' = calls /\ file = None
        /\ run.requests = {} /\ run.decisions = {}
        /\ calls > 0 /\ file' \in {run', file, None} /\ call'.stage = "returned"
    BY <1>0, <1>10 DEF FinishWatch, Save, Filed, Call
  <2> QED BY <2>1 DEF Filed, FileGrows
<1>11. CASE AppendToRun
  <2>1. /\ mode = "chat" /\ mode' = mode /\ file' \in {run', file, None}
        /\ run.discovery # None /\ run' = Recorded(run)
    BY <1>11 DEF AppendToRun, Save
  <2>2. run'.discovery = run.discovery /\ run.requests \subseteq run'.requests
        /\ run.decisions \subseteq run'.decisions
    BY <1>0, <2>1 DEF Recorded, Record
  <2> QED BY <2>1, <2>2 DEF Filed, FileGrows
<1>12. ASSUME NEW card \in Cards, OpenRun(card) PROVE Filed' /\ FileGrows
  <2>1. /\ mode = "chat" /\ mode' = mode /\ file' \in {run', file, None} /\ file = None
        /\ run.requests = {} /\ run.decisions = {}
        /\ run' = Recorded([Empty EXCEPT !.discovery = card])
    BY <1>12 DEF OpenRun, Save, Filed
  <2>2. run'.discovery = card /\ card # None
    BY <2>1, AgentAssumption DEF Recorded, Empty
  <2> QED BY <2>1, <2>2 DEF Filed, FileGrows
<1>13. CASE UNCHANGED vars
  BY <1>13 DEF vars, Filed, FileGrows
<1> QED BY <1>1, <1>2, <1>4, <1>5, <1>6, <1>7, <1>8, <1>9, <1>10, <1>11, <1>12, <1>13 DEF Next

\* The record only grows, the file is never ahead of it, and every rewrite that succeeds
\* holds all the record held, whatever writes failed, or tore the file, before it.
THEOREM FileKept == Spec => FileNeverForgets
<1>1. Init => Filed BY DEF Init, Filed, Empty, Within
<1>2. Typed /\ Filed /\ [Next]_vars => Filed' BY FiledStep
<1>3. Typed /\ Filed /\ [Next]_vars => [FileGrows]_vars BY FiledStep
<1> QED BY <1>1, <1>2, <1>3, TypedInit, TypedStep, PTL DEF Spec, FileNeverForgets, FileGrows
=============================================================================
