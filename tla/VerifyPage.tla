----------------------------- MODULE VerifyPage -----------------------------
(***************************************************************************)
(* /verify (dashboard/app/verify/page.tsx): a pasted receipt is checked in *)
(* the browser against the key of the agent card, the hash pinned for the  *)
(* identities it names in the ERC-8004 registry (lib/onchain.ts) and the   *)
(* operator's own pin (core/src/identity.ts).                              *)
(*                                                                         *)
(* A check awaits the card, one registry read for each identity and the    *)
(* pin; the registry and the pin may change meanwhile.  Loading an example *)
(* makes the button usable again, so two checks may run at once.           *)
(* Signatures are ideal: one verifies under the key that made it, over the *)
(* body it was made for.                                                   *)
(***************************************************************************)
EXTENDS Integers, FiniteSets

CONSTANTS
    Keys, Identities,
    Unset,          \* a registry entry without a readable hash
    Receipts,       \* [signer, names, intact, claims]
    Cards,          \* [key, hash, intact, identities]: what answers for the URL
    Example,        \* example-receipt.json
    Pins,           \* values of EXPECTED_ERC8004, Mistyped among them
    Mistyped, NoReceipt, Nothing,
    Registries,     \* what the registry may hold at first
    Checks,         \* bound: checks running at once
    MaxChanges      \* bound: changes of the registry and of the pin

ASSUME VerifyAssumption ==
    /\ Receipts \subseteq [signer: Keys, names: Keys, intact: BOOLEAN, claims: SUBSET Identities]
    /\ Example \in Receipts /\ Nothing # NoReceipt /\ Receipts \cap {Nothing, NoReceipt} = {}
    /\ Cards \subseteq [key: Keys, hash: Keys, intact: BOOLEAN, identities: SUBSET Identities]
    /\ Nothing \notin Cards
    /\ Registries \subseteq [Identities -> Keys \cup {Unset}]

VARIABLES
    registry,   \* registry[i]: the hash pinned for i
    expected,   \* EXPECTED_ERC8004 of the dashboard
    box,        \* text: a receipt, NoReceipt, or Nothing
    shown,      \* result
    checks,     \* the checks running, by their number
    changes     \* bound: how often the registry or the pin has changed

verifyVars == <<registry, expected, box, shown, checks, changes>>

Status(s) == [status |-> s]
Entries == {<<i, registry[i]>> : i \in Identities}

VerifyInit ==
    /\ registry \in Registries
    /\ expected \in Pins
    /\ box = Nothing
    /\ shown = Status("idle")
    /\ checks = << >> /\ changes = 0

-----------------------------------------------------------------------------
(* The world                                                                *)

\* An agent re-registers.  entries: history, what was registered during a check.
Register(i, hash) ==
    /\ changes < MaxChanges /\ changes' = changes + 1
    /\ registry' = [registry EXCEPT ![i] = hash]
    /\ checks' = [c \in DOMAIN checks |-> [checks[c] EXCEPT !.entries = @ \cup {<<i, hash>>}]]
    /\ UNCHANGED <<expected, box, shown>>

Reconfigure(pins) ==
    /\ changes < MaxChanges /\ changes' = changes + 1
    /\ expected' = pins
    /\ UNCHANGED <<registry, box, shown, checks>>

-----------------------------------------------------------------------------
(* The page                                                                 *)

EditBox(text) ==
    /\ box' = text
    /\ UNCHANGED <<registry, expected, changes, shown, checks>>

\* The example has arrived: the page is idle again, also while a check runs.
loadExample ==
    /\ box' = Example
    /\ shown' = Status("idle")
    /\ UNCHANGED <<registry, expected, changes, checks>>

onVerify(c) ==
    /\ box # Nothing /\ shown.status # "checking"
    /\ IF box = NoReceipt
       THEN shown' = Status("error") /\ UNCHANGED checks
       ELSE /\ c \notin DOMAIN checks
            /\ shown' = Status("checking")
            /\ checks' = [d \in DOMAIN checks \cup {c} |->
                   IF d # c THEN checks[d]
                   ELSE [receipt |-> box, card |-> Nothing, anchors |-> << >>, entries |-> Entries]]
    /\ UNCHANGED <<registry, expected, changes, box>>

Without(c) == [d \in DOMAIN checks \ {c} |-> checks[d]]
With(c, check) == [checks EXCEPT ![c] = check]

\* The card or the pin cannot be had, or what came is no card.  A registry read
\* that fails is an answer of its own.
CheckFails(c) ==
    /\ c \in DOMAIN checks
    /\ shown' = Status("error")
    /\ checks' = Without(c)
    /\ UNCHANGED <<registry, expected, changes, box>>

CardArrives(c, card) ==
    /\ c \in DOMAIN checks /\ checks[c].card = Nothing
    /\ checks' = With(c, [checks[c] EXCEPT !.card = card])
    /\ UNCHANGED <<registry, expected, changes, box, shown>>

\* checkAnchor, or a read that fails: never a mismatch when nothing could be read.
AnchorState(i, hash, readable) ==
    IF ~readable \/ registry[i] = Unset THEN "unavailable"
    ELSE IF registry[i] = hash THEN "matches" ELSE "mismatch"

AnchorRead(c, i, readable) ==
    /\ c \in DOMAIN checks /\ checks[c].card # Nothing
    /\ i \in checks[c].receipt.claims \ DOMAIN checks[c].anchors
    /\ checks' = With(c, [checks[c] EXCEPT !.anchors =
           [j \in DOMAIN @ \cup {i} |-> IF j = i THEN AnchorState(i, checks[c].card.key, readable)
                                                 ELSE @[j]]])
    /\ UNCHANGED <<registry, expected, changes, box, shown>>

verifyReceipt(receipt, key) == receipt.intact /\ receipt.signer = key /\ receipt.names = key
matchesIdentityPin(claimed, pins) == pins = {} \/ claimed \cap pins # {}

\* parseIdentityPin: a malformed entry is refused, never dropped.
Parses(pins) == pins # Mistyped

Done(check, pins) ==
    LET receipt == check.receipt
        card == check.card
    IN  [status |-> "done",
         signatureValid |-> verifyReceipt(receipt, card.key),
         cardSignatureValid |-> card.intact,
         keyMatchesCard |-> card.hash = card.key /\ receipt.names = card.key,
         identitiesInCard |-> receipt.claims \subseteq card.identities,
         anchors |-> check.anchors,
         pins |-> pins,
         pinMatched |-> matchesIdentityPin(receipt.claims, pins),
         about |-> receipt, during |-> check.entries,   \* history: of what receipt, over
         operator |-> expected]                         \* what entries and what setting

\* The pin arrives last, and the result is whole.
PinsArrive(c) ==
    /\ c \in DOMAIN checks /\ checks[c].card # Nothing
    /\ DOMAIN checks[c].anchors = checks[c].receipt.claims
    /\ Parses(expected)
    /\ shown' = Done(checks[c], expected)
    /\ checks' = Without(c)
    /\ UNCHANGED <<registry, expected, changes, box>>

VerifyNext ==
    \/ \E i \in Identities, hash \in Keys \cup {Unset} : Register(i, hash)
    \/ \E pins \in Pins : Reconfigure(pins)
    \/ \E text \in Receipts \cup {NoReceipt, Nothing} : EditBox(text)
    \/ loadExample
    \/ \E c \in Checks :
          \/ onVerify(c)
          \/ CheckFails(c)
          \/ \E card \in Cards : CardArrives(c, card)
          \/ \E i \in Identities, readable \in BOOLEAN : AnchorRead(c, i, readable)
          \/ PinsArrive(c)

-----------------------------------------------------------------------------
(* What is on the page                                                      *)

States(r) == {r.anchors[i] : i \in DOMAIN r.anchors}

\* Faulty variant: a receipt that names no identity passes.
isVerifiedUnanchored(r) ==
    /\ r.signatureValid /\ r.cardSignatureValid /\ r.keyMatchesCard /\ r.identitiesInCard
    /\ States(r) \subseteq {"matches"}
    /\ r.pins = {} \/ r.pinMatched

isVerified(r) ==
    /\ r.signatureValid /\ r.cardSignatureValid /\ r.keyMatchesCard /\ r.identitiesInCard
    /\ States(r) = {"matches"}
    /\ r.pins = {} \/ r.pinMatched

\* The first thing that failed.
headline(r) ==
    IF isVerified(r) THEN "verified"
    ELSE IF ~r.signatureValid THEN "signature"
    ELSE IF ~r.cardSignatureValid THEN "card"
    ELSE IF ~r.keyMatchesCard THEN "key"
    ELSE IF ~r.identitiesInCard THEN "identities"
    ELSE IF States(r) = {} THEN "unanchored"
    ELSE IF "mismatch" \in States(r) THEN "mismatch"
    ELSE IF r.pins # {} /\ ~r.pinMatched THEN "pin"
    ELSE "unread"

\* The lines under the headline.
Verdict(r) ==
    [says |-> headline(r),
     lines |-> {r.signatureValid, r.cardSignatureValid, r.keyMatchesCard, r.identitiesInCard},
     anchors |-> r.anchors,
     expected |-> IF r.pins = {} THEN "none" ELSE IF r.pinMatched THEN "matches" ELSE "not",
     unread |-> "unavailable" \in States(r)]

Satisfies(claims, operator) ==
    operator # Mistyped /\ (operator = {} \/ claims \cap operator # {})

\* "Verified." is shown only of a receipt nobody edited, whose signer's key was
\* registered, during the check, for every identity the receipt names, one of them
\* an identity the operator expects when any is expected: whatever card answered,
\* whichever reads failed, and however the checks overlapped.  And "unproven" for
\* want of a read is never said of a receipt that a registry read, or the pin, refuses.
VerifiedMeansAnchored ==
    shown.status = "done" =>
        LET receipt == shown.about
            registered == shown.during
            verdict == Verdict(shown)
        IN  /\ verdict.says = "verified" =>
                   /\ verdict.lines = {TRUE} /\ ~verdict.unread
                   /\ receipt.intact /\ receipt.claims # {}
                   /\ \A i \in receipt.claims : <<i, receipt.signer>> \in registered
                   /\ Satisfies(receipt.claims, shown.operator)
            /\ verdict.says = "unread" =>
                   /\ verdict.unread /\ verdict.lines = {TRUE}
                   /\ \A i \in DOMAIN verdict.anchors : verdict.anchors[i] # "mismatch"
                   /\ Satisfies(receipt.claims, shown.operator)
=============================================================================
