----------------------------- MODULE HederaRail -----------------------------
(***************************************************************************)
(* How the Hedera rail (service/src/rails/hedera.ts) finds the receipt of  *)
(* a settled payment.                                                      *)
(*                                                                         *)
(* The x402 hooks see a payment, the handler sees a request; the two meet  *)
(* in two maps keyed by the signed transaction of the payment header.      *)
(* onAfterVerify writes the payer, the route wrapper the receipt once its  *)
(* handler has resolved, and the settle hooks read and delete both.  The   *)
(* handler's answer unblocks the wrapper and the middleware that calls     *)
(* /settle in the same turn: `micro` holds those queued continuations, and *)
(* an answer from the network is only looked at when none is left.         *)
(***************************************************************************)
EXTENDS Naturals, Sequences

CONSTANTS
    Requests,   \* paid requests with a clear body (a sealed one has a nonce)
    Txs,        \* signed payment transactions
    TxOf,       \* TxOf[r]: the one in r's payment header
    NoOne,
    Ttl,        \* ENTRY_TTL_MS
    SettleMax,  \* the longest /settle call the facilitator makes us wait for
    MaxTime     \* bound: the clock

ASSUME RailAssumption ==
    /\ TxOf \in [Requests -> Txs]
    /\ NoOne \notin Requests
    /\ Ttl \in Nat /\ SettleMax \in Nat
    /\ SettleMax < Ttl
    /\ MaxTime \in Nat

VARIABLES
    stage,     \* stage[r]: how far the middleware and the handler are with r
    since,     \* since[r]: when the handler of r answered
    micro,     \* queued continuations: the wrapper's "store", the "send" to /settle
    payers,    \* verifiedPayerByTxKey
    receipts,  \* receiptByTxKey
    settled,   \* the transactions the network has executed
    handed,    \* history: the calls of onSettled
    written,   \* history: when each map was last inserted into
    now

railVars == <<stage, since, micro, payers, receipts, settled, handed, written, now>>

Gone == [owner |-> NoOne, until |-> 0]

Entry == [owner: Requests \cup {NoOne}, until: Nat]

Stages == {"new", "working", "answered", "refused", "served", "unpaid"}

RailTypeOK ==
    /\ stage \in [Requests -> Stages]
    /\ since \in [Requests -> Nat]
    /\ micro \subseteq Requests \X {"store", "send"}
    /\ payers \in [Txs -> Entry] /\ receipts \in [Txs -> Entry]
    /\ settled \subseteq Txs
    /\ handed \in Seq([receipt: Requests, tx: Txs])
    /\ written \in [payers: Nat, receipts: Nat]
    /\ now \in Nat

RailInit ==
    /\ stage = [r \in Requests |-> "new"]
    /\ since = [r \in Requests |-> 0]
    /\ micro = {}
    /\ payers = [t \in Txs |-> Gone] /\ receipts = [t \in Txs |-> Gone]
    /\ settled = {}
    /\ handed = <<>>
    /\ written = [payers |-> 0, receipts |-> 0]
    /\ now = 0

-----------------------------------------------------------------------------
(* The maps                                                                 *)

\* putWithTtl: what has expired goes, the new entry has a full life.
Put(map, t, r) ==
    [x \in Txs |->
        IF x = t THEN [owner |-> r, until |-> now + Ttl]
        ELSE IF map[x].until <= now THEN Gone ELSE map[x]]

Delete(map, t) == [map EXCEPT ![t] = Gone]

\* getFresh: an expired entry reads as absent even before it is swept.
IsFresh(map, t) == map[t].until > now

-----------------------------------------------------------------------------
(* Actions.  Each runs when the event loop is free: nothing is in micro.    *)

\* The facilitator verified r's payment (naming the payer, or not): the hook
\* stores it and the handler runs up to its data call, or refuses the body.
Verified(r) ==
    /\ stage[r] = "new" /\ micro = {} /\ TxOf[r] \notin settled
    /\ \/ /\ payers' = Put(payers, TxOf[r], r)
          /\ written' = [written EXCEPT !.payers = now]
       \/ UNCHANGED <<payers, written>>
    /\ \E s \in {"working", "refused"} : stage' = [stage EXCEPT ![r] = s]
    /\ UNCHANGED <<since, micro, receipts, settled, handed, now>>

\* The data call failed or ran into its cap: 502 or 504, and no hook will run.
WorkFails(r) ==
    /\ stage[r] = "working" /\ micro = {}
    /\ stage' = [stage EXCEPT ![r] = "refused"]
    /\ UNCHANGED <<since, micro, payers, receipts, settled, handed, written, now>>

\* The handler answers 200: res.end is buffered, and both the wrapper and the
\* middleware go on before anything else arrives.
Answers(r) ==
    /\ stage[r] = "working" /\ micro = {}
    /\ stage' = [stage EXCEPT ![r] = "answered"]
    /\ since' = [since EXCEPT ![r] = now]
    /\ micro' = {r} \X {"store", "send"}
    /\ UNCHANGED <<payers, receipts, settled, handed, written, now>>

\* The route wrapper's continuation.
StoreReceipt(r) ==
    /\ <<r, "store">> \in micro
    /\ micro' = micro \ {<<r, "store">>}
    /\ receipts' = Put(receipts, TxOf[r], r)
    /\ written' = [written EXCEPT !.receipts = now]
    /\ UNCHANGED <<stage, since, payers, settled, handed, now>>

\* The middleware's continuation calls the facilitator's /settle.
SendSettle(r) ==
    /\ <<r, "send">> \in micro
    /\ micro' = micro \ {<<r, "send">>}
    /\ UNCHANGED <<stage, since, payers, receipts, settled, handed, written, now>>

Settling(r) == stage[r] = "answered" /\ <<r, "send">> \notin micro

\* Both hooks delete both entries, whoever wrote them.
Cleanup(t) ==
    /\ payers' = Delete(payers, t)
    /\ receipts' = Delete(receipts, t)

\* Faulty variant: the entries are deleted before the receipt is read.
SettleOkDeletesFirst(r) ==
    /\ Settling(r) /\ micro = {} /\ TxOf[r] \notin settled
    /\ stage' = [stage EXCEPT ![r] = "served"]
    /\ settled' = settled \cup {TxOf[r]}
    /\ Cleanup(TxOf[r])
    /\ UNCHANGED <<since, micro, handed, written, now>>

\* onAfterSettle: the payment is executed, once; the receipt found under its
\* transaction goes to onSettled, and the buffered 200 is released.
SettleOk(r) ==
    /\ Settling(r) /\ micro = {} /\ TxOf[r] \notin settled
    /\ stage' = [stage EXCEPT ![r] = "served"]
    /\ settled' = settled \cup {TxOf[r]}
    /\ handed' = IF IsFresh(receipts, TxOf[r])
                 THEN Append(handed, [receipt |-> receipts[TxOf[r]].owner, tx |-> TxOf[r]])
                 ELSE handed
    /\ Cleanup(TxOf[r])
    /\ UNCHANGED <<since, micro, written, now>>

\* Faulty variants: a failed settle keeps its entries; it calls onSettled too.
SettleFailsKeeps(r) ==
    /\ Settling(r) /\ micro = {}
    /\ stage' = [stage EXCEPT ![r] = "unpaid"]
    /\ UNCHANGED <<since, micro, payers, receipts, settled, handed, written, now>>

SettleFailsAnchors(r) ==
    /\ Settling(r) /\ micro = {}
    /\ stage' = [stage EXCEPT ![r] = "unpaid"]
    /\ handed' = IF IsFresh(receipts, TxOf[r])
                 THEN Append(handed, [receipt |-> receipts[TxOf[r]].owner, tx |-> TxOf[r]])
                 ELSE handed
    /\ Cleanup(TxOf[r])
    /\ UNCHANGED <<since, micro, settled, written, now>>

\* onSettleFailure: refused, or executed and the answer lost; r becomes a 402.
SettleFails(r) ==
    /\ Settling(r) /\ micro = {}
    /\ stage' = [stage EXCEPT ![r] = "unpaid"]
    /\ settled' \in {settled, settled \cup {TxOf[r]}}
    /\ Cleanup(TxOf[r])
    /\ UNCHANGED <<since, micro, handed, written, now>>

\* Time passes, but a /settle call is answered within SettleMax.
Tick ==
    /\ micro = {} /\ now < MaxTime
    /\ \A r \in Requests : stage[r] = "answered" => now < since[r] + SettleMax
    /\ now' = now + 1
    /\ UNCHANGED <<stage, since, micro, payers, receipts, settled, handed, written>>

RailNext ==
    \/ \E r \in Requests :
          \/ Verified(r) \/ WorkFails(r) \/ Answers(r)
          \/ StoreReceipt(r) \/ SendSettle(r)
          \/ SettleOk(r) \/ SettleFails(r)
    \/ Tick

RailSpec == RailInit /\ [][RailNext]_railVars

-----------------------------------------------------------------------------
(* Properties                                                               *)

\* No other request carries r's transaction.
Unshared(r) == \A c \in Requests : TxOf[c] = TxOf[r] => c = r

HandedFor(r) == {i \in 1 .. Len(handed) : handed[i].receipt = r}

\* However the continuations and the answers of the facilitator interleave, the
\* receipt of a request with a payment of its own is handed to onSettled exactly
\* when that request is answered 200, and under its own transaction.
ServedIsAnchored ==
    \A r \in Requests : Unshared(r) =>
        /\ stage[r] = "served" <=> HandedFor(r) # {}
        /\ \A i \in HandedFor(r) : handed[i].tx = TxOf[r]

\* One payment anchors one receipt, even when two requests carry it.
OneReceiptPerPayment ==
    \A i, j \in 1 .. Len(handed) : handed[i].tx = handed[j].tx => i = j

\* A settle hook, of either kind, leaves no entry of its request behind.
SettledLeavesNothing ==
    \A r \in Requests : Unshared(r) /\ stage[r] \in {"served", "unpaid"} =>
        payers[TxOf[r]] = Gone /\ receipts[TxOf[r]] = Gone

\* The entries no hook removes (a refused request's payer) do not pile up: after
\* an insertion, its map holds nothing that had expired by then.
InsertionSweeps ==
    \A t \in Txs :
        /\ payers[t] # Gone => payers[t].until > written.payers
        /\ receipts[t] # Gone => receipts[t].until > written.receipts

\* The rail's doc comment on onSettled: it "fires once settlement completes for a
\* request this rail already answered 200 for".  When two requests carry one
\* payment, the receipt of the one that ends as a 402 can be handed over.
AnchorsOnlyServed ==
    \A r \in Requests : stage[r] = "unpaid" => HandedFor(r) = {}
=============================================================================
