--------------------------- MODULE SealedExchange ---------------------------
(***************************************************************************)
(* One paid request from its arrival at the service to its response, on    *)
(* both payment rails, and the replay store the rails share.               *)
(*                                                                         *)
(* The two rails run the same checks in opposite orders.  On "hedera" the  *)
(* facilitator verifies the payment, the handler runs and only a buffered  *)
(* 200 is settled (rails/hedera.ts).  On "arc" whatever can be checked     *)
(* without the payer runs first, Circle then verifies AND settles, and the *)
(* handler's remaining checks come after the money moved (rails/arc.ts).   *)
(* Both write one MemoryNonceStore (main.ts), so their interleaving is the *)
(* subject here.  Every action runs from one await to the next: JavaScript *)
(* interleaves nothing in between.                                         *)
(***************************************************************************)
EXTENDS Integers

CONSTANTS
    Requests,    \* HTTP requests, each made once
    Envelopes,   \* sealed envelopes; each has its own random req_nonce
    Clear,       \* stands in for the envelope of a clear (unsealed) body
    Payers,      \* payer identities
    NoPayer,     \* the rail observed no payer
    PayersOn,    \* [Rails -> SUBSET Payers]: account ids or EVM addresses
    PayerOf,     \* [Envelopes -> Payers]: the payer sealed in the envelope
    Stamps,      \* the timestamps a client's clock may seal
    TsWindow,    \* TS_WINDOW_S
    NonceTtl,    \* NONCE_TTL_S
    SettleMax,   \* longest time from Arc's pre-payment check to its handler
    MaxTime,     \* bound: the clock stops here
    MaxRestarts  \* bound: how often the process restarts

Rails == {"hedera", "arc"}

\* What is wrong with a request apart from its time, nonce and payer.  "count":
\* found before the nonce is committed (envelope does not open, vault count is
\* not X-VR-Count).  "body": a bad vault list or table request.
Faults == {"none", "count", "body"}

ASSUME ConstantsAssumption ==
    /\ Clear \notin Envelopes
    /\ NoPayer \notin Payers
    /\ PayersOn \in [Rails -> SUBSET Payers]
    /\ PayerOf \in [Envelopes -> Payers]
    /\ Stamps \subseteq Int
    /\ TsWindow \in Nat /\ NonceTtl \in Nat \ {0} /\ SettleMax \in Nat
    /\ MaxTime \in Nat /\ MaxRestarts \in Nat

\* 600 > 2 * 120 + SettleMax holds in production for SettleMax below 360 s.
ASSUME WindowAssumption == NonceTtl > 2 * TsWindow + SettleMax

Submission ==
    [rail: Rails, env: Envelopes \cup {Clear},
     payer: Payers \cup {NoPayer}, fault: Faults]

\* What clients may send: the payer a rail observes is one of that rail's.
Sendable == {s \in Submission : s.payer \in PayersOn[s.rail] \cup {NoPayer}}

Refusals  == {"ts_window", "nonce_replay", "payer_mismatch", "bad_request"}
InFlight  == {"verifying", "paying", "paid", "working", "buffered", "settled"}
Terminal  == Refusals \cup {"upstream_failed", "payment_failed", "answered", "lost"}

VARIABLES
    clock,      \* the service's clock, in seconds
    ts,         \* ts[e]: the timestamp sealed in e
    nonces,     \* MemoryNonceStore: nonces[e] is the expiry, Absent if not held
    pc,         \* pc[r]: where request r stands, or how it ended
    sub,        \* sub[r]: what r submitted (Nothing before it arrives)
    startedAt,  \* startedAt[r]: when Arc's pre-payment check of r ran
    charged,    \* the requests whose payment has moved money
    boot,       \* how many times the process has started
    admit       \* admit[r]: the boot in which r committed its nonce, or 0

vars == <<clock, ts, nonces, pc, sub, startedAt, charged, boot, admit>>

Absent  == 0
Nothing == [rail |-> "hedera", env |-> Clear, payer |-> NoPayer, fault |-> "none"]

TypeOK ==
    /\ clock \in Nat
    /\ ts \in [Envelopes -> Int]
    /\ nonces \in [Envelopes -> Nat]
    /\ pc \in [Requests -> {"idle"} \cup InFlight \cup Terminal]
    /\ sub \in [Requests -> Submission]
    /\ startedAt \in [Requests -> Nat]
    /\ charged \subseteq Requests
    /\ boot \in Nat \ {0}
    /\ admit \in [Requests -> Nat]

Init ==
    /\ clock = 0
    /\ ts \in [Envelopes -> Stamps]
    /\ nonces = [e \in Envelopes |-> Absent]
    /\ pc = [r \in Requests |-> "idle"]
    /\ sub = [r \in Requests |-> Nothing]
    /\ startedAt = [r \in Requests |-> 0]
    /\ charged = {}
    /\ boot = 1
    /\ admit = [r \in Requests |-> 0]

-----------------------------------------------------------------------------
(* core/envelope.ts                                                         *)

\* MemoryNonceStore.has does not look at the expiry; only sweep does.
Has(e) == nonces[e] # Absent

Swept == [e \in Envelopes |-> IF nonces[e] <= clock THEN Absent ELSE nonces[e]]

Fresh(e) == clock - ts[e] <= TsWindow /\ ts[e] - clock <= TsWindow

\* checkSealedRequestPrePayment: the first check that fails, or "ok".
PrePaymentCheck(s) ==
    IF ~Fresh(s.env) THEN "ts_window"
    ELSE IF Has(s.env) THEN "nonce_replay"
    ELSE IF s.fault = "count" THEN "bad_request"
    ELSE "ok"

\* checkSealedRequestPayer, and the payer_unknown refusal in front of it.
PayerMatches(s) == s.payer = PayerOf[s.env]

\* checkSealedRequest: the pre-payment check, then the payer.
FullCheck(s) ==
    IF PrePaymentCheck(s) # "ok" THEN PrePaymentCheck(s)
    ELSE IF ~PayerMatches(s) THEN "payer_mismatch"
    ELSE "ok"

\* Faulty variant of CommitNonce: the wrong constant.
CommitNonceForWindow(r, e) ==
    /\ nonces' = [Swept EXCEPT ![e] = clock + TsWindow]
    /\ admit' = [admit EXCEPT ![r] = boot]

\* The writing half of commitNonce: the store is swept, then e is added.
CommitNonce(r, e) ==
    /\ nonces' = [Swept EXCEPT ![e] = clock + NonceTtl]
    /\ admit' = [admit EXCEPT ![r] = boot]

NonceUntouched == UNCHANGED <<nonces, admit>>

Goto(r, there) == pc' = [pc EXCEPT ![r] = there]

\* The handler's own body checks, which every mount gets: on to the data call,
\* or a refusal.
AfterBodyCheck(s) == IF s.fault = "none" THEN "working" ELSE "bad_request"

-----------------------------------------------------------------------------
(* The Hedera rail                                                          *)

\* Faulty variant: the payment is settled before the handler runs.
HederaArriveSettled(r, s) ==
    /\ pc[r] = "idle" /\ s.rail = "hedera"
    /\ sub' = [sub EXCEPT ![r] = s]
    /\ charged' = charged \cup {r}
    /\ Goto(r, "verifying")
    /\ UNCHANGED <<clock, ts, startedAt, boot>> /\ NonceUntouched

HederaArrive(r, s) ==
    /\ pc[r] = "idle" /\ s.rail = "hedera"
    /\ sub' = [sub EXCEPT ![r] = s]
    /\ Goto(r, "verifying")
    /\ UNCHANGED <<clock, ts, startedAt, charged, boot>> /\ NonceUntouched

HederaVerifyFails(r) ==
    /\ pc[r] = "verifying"
    /\ Goto(r, "payment_failed")
    /\ UNCHANGED <<clock, ts, sub, startedAt, charged, boot>> /\ NonceUntouched

\* The handler after a verified payment, up to its data call, for a clear body.
HederaHandleClear(r) ==
    /\ pc[r] = "verifying" /\ sub[r].env = Clear
    /\ Goto(r, AfterBodyCheck(sub[r]))
    /\ UNCHANGED <<clock, ts, sub, startedAt, charged, boot>> /\ NonceUntouched

HederaRefuseSealed(r) ==
    /\ pc[r] = "verifying" /\ sub[r].env # Clear
    /\ FullCheck(sub[r]) # "ok"
    /\ Goto(r, FullCheck(sub[r]))
    /\ UNCHANGED <<clock, ts, sub, startedAt, charged, boot>> /\ NonceUntouched

\* The nonce is committed before the body is looked at, so a bad body burns it.
HederaAdmitSealed(r) ==
    /\ pc[r] = "verifying" /\ sub[r].env # Clear
    /\ FullCheck(sub[r]) = "ok"
    /\ CommitNonce(r, sub[r].env)
    /\ Goto(r, AfterBodyCheck(sub[r]))
    /\ UNCHANGED <<clock, ts, sub, startedAt, charged, boot>>

\* The middleware settles a buffered 200; the money moves at the facilitator
\* before its answer reaches the service.
HederaSettle(r) ==
    /\ pc[r] = "buffered"
    /\ charged' = charged \cup {r}
    /\ Goto(r, "settled")
    /\ UNCHANGED <<clock, ts, sub, startedAt, boot>> /\ NonceUntouched

\* Faulty variant: the buffered 200 is flushed without waiting for settlement.
HederaDeliverEarly(r) ==
    /\ pc[r] \in {"buffered", "settled"}
    /\ Goto(r, "answered")
    /\ UNCHANGED <<clock, ts, sub, startedAt, charged, boot>> /\ NonceUntouched

HederaDeliver(r) ==
    /\ pc[r] = "settled"
    /\ Goto(r, "answered")
    /\ UNCHANGED <<clock, ts, sub, startedAt, charged, boot>> /\ NonceUntouched

\* A settle call that fails, or whose answer is lost, replaces the 200 by a 402.
HederaSettleFails(r) ==
    /\ pc[r] \in {"buffered", "settled"}
    /\ Goto(r, "payment_failed")
    /\ UNCHANGED <<clock, ts, sub, startedAt, charged, boot>> /\ NonceUntouched

-----------------------------------------------------------------------------
(* The Arc rail                                                             *)

\* Faulty variant: the body is left to the handler, after the money moved.
ArcPreValidationEnvelopeOnly(s) ==
    IF s.env # Clear /\ PrePaymentCheck(s) # "ok" THEN PrePaymentCheck(s)
    ELSE "paying"

\* The middlewares in front of gateway.require, which run synchronously.
ArcPreValidation(s) ==
    IF s.env # Clear /\ PrePaymentCheck(s) # "ok" THEN PrePaymentCheck(s)
    ELSE IF s.fault # "none" THEN "bad_request"
    ELSE "paying"

\* Faulty variant: the nonce is committed as soon as the pre-payment check passes.
ArcArriveCommits(r, s) ==
    /\ pc[r] = "idle" /\ s.rail = "arc"
    /\ sub' = [sub EXCEPT ![r] = s]
    /\ startedAt' = [startedAt EXCEPT ![r] = clock]
    /\ Goto(r, ArcPreValidation(s))
    /\ nonces' = [e \in Envelopes |->
                    IF e = s.env /\ ArcPreValidation(s) = "paying"
                    THEN clock + NonceTtl ELSE nonces[e]]
    /\ UNCHANGED <<clock, ts, charged, boot, admit>>

ArcArrive(r, s) ==
    /\ pc[r] = "idle" /\ s.rail = "arc"
    /\ sub' = [sub EXCEPT ![r] = s]
    /\ startedAt' = [startedAt EXCEPT ![r] = clock]
    /\ Goto(r, ArcPreValidation(s))
    /\ UNCHANGED <<clock, ts, charged, boot>> /\ NonceUntouched

ArcSettle(r) ==
    /\ pc[r] = "paying"
    /\ charged' = charged \cup {r}
    /\ Goto(r, "paid")
    /\ UNCHANGED <<clock, ts, sub, startedAt, boot>> /\ NonceUntouched

\* Circle refuses the payment, or its answer is lost after the money moved.
ArcSettleFails(r) ==
    /\ pc[r] \in {"paying", "paid"}
    /\ Goto(r, "payment_failed")
    /\ UNCHANGED <<clock, ts, sub, startedAt, charged, boot>> /\ NonceUntouched

ArcHandleClear(r) ==
    /\ pc[r] = "paid" /\ sub[r].env = Clear
    /\ Goto(r, AfterBodyCheck(sub[r]))
    /\ UNCHANGED <<clock, ts, sub, startedAt, charged, boot>> /\ NonceUntouched

ArcRefusePayer(r) ==
    /\ pc[r] = "paid" /\ sub[r].env # Clear /\ ~PayerMatches(sub[r])
    /\ Goto(r, "payer_mismatch")
    /\ UNCHANGED <<clock, ts, sub, startedAt, charged, boot>> /\ NonceUntouched

\* commitNonce returned false: another submission of this envelope came first.
ArcRefuseReplay(r) ==
    /\ pc[r] = "paid" /\ sub[r].env # Clear /\ PayerMatches(sub[r])
    /\ Swept[sub[r].env] # Absent
    /\ nonces' = Swept
    /\ Goto(r, "nonce_replay")
    /\ UNCHANGED <<clock, ts, sub, startedAt, charged, boot, admit>>

\* Faulty variant: commitNonce's return value is ignored.
ArcAdmitUnchecked(r) ==
    /\ pc[r] = "paid" /\ sub[r].env # Clear /\ PayerMatches(sub[r])
    /\ CommitNonce(r, sub[r].env)
    /\ Goto(r, AfterBodyCheck(sub[r]))
    /\ UNCHANGED <<clock, ts, sub, startedAt, charged, boot>>

ArcAdmitSealed(r) ==
    /\ pc[r] = "paid" /\ sub[r].env # Clear /\ PayerMatches(sub[r])
    /\ Swept[sub[r].env] = Absent
    /\ CommitNonce(r, sub[r].env)
    /\ Goto(r, AfterBodyCheck(sub[r]))
    /\ UNCHANGED <<clock, ts, sub, startedAt, charged, boot>>

-----------------------------------------------------------------------------
(* Both rails                                                               *)

\* The data call returned in time: Arc answers, Hedera buffers until settlement.
WorkDone(r) ==
    /\ pc[r] = "working"
    /\ Goto(r, IF sub[r].rail = "arc" THEN "answered" ELSE "buffered")
    /\ UNCHANGED <<clock, ts, sub, startedAt, charged, boot>> /\ NonceUntouched

\* 502 upstream_failed, or 504 handler_cap after HANDLER_CAP_MS.
WorkFails(r) ==
    /\ pc[r] = "working"
    /\ Goto(r, "upstream_failed")
    /\ UNCHANGED <<clock, ts, sub, startedAt, charged, boot>> /\ NonceUntouched

\* Time passes, but no Arc request outlives SettleMax between check and handler.
Tick ==
    /\ clock < MaxTime
    /\ \A r \in Requests :
          pc[r] \in {"paying", "paid"} => clock < startedAt[r] + SettleMax
    /\ clock' = clock + 1
    /\ UNCHANGED <<ts, pc, sub, startedAt, charged, boot>> /\ NonceUntouched

\* The process dies and comes back: requests in flight and the store are gone.
Restart ==
    /\ boot <= MaxRestarts
    /\ boot' = boot + 1
    /\ nonces' = [e \in Envelopes |-> Absent]
    /\ pc' = [r \in Requests |-> IF pc[r] \in InFlight THEN "lost" ELSE pc[r]]
    /\ UNCHANGED <<clock, ts, sub, startedAt, charged, admit>>

HederaStep(r) ==
    \/ HederaVerifyFails(r)
    \/ HederaHandleClear(r) \/ HederaRefuseSealed(r) \/ HederaAdmitSealed(r)
    \/ HederaSettle(r) \/ HederaDeliver(r) \/ HederaSettleFails(r)

ArcStep(r) ==
    \/ ArcSettle(r) \/ ArcSettleFails(r)
    \/ ArcHandleClear(r) \/ ArcRefusePayer(r) \/ ArcRefuseReplay(r) \/ ArcAdmitSealed(r)

Next ==
    \/ \E r \in Requests, s \in Sendable : HederaArrive(r, s) \/ ArcArrive(r, s)
    \/ \E r \in Requests : HederaStep(r) \/ ArcStep(r) \/ WorkDone(r) \/ WorkFails(r)
    \/ Tick
    \/ Restart

Spec == Init /\ [][Next]_vars
-----------------------------------------------------------------------------
(* Properties                                                               *)

\* r committed the nonce of its envelope in the current process.
AdmittedNow(r) == admit[r] = boot

\* No envelope is worked on twice by one process, whichever rails its copies
\* arrive on and however they interleave with settlement (commitNonce's
\* "never answered twice", handlers/scan.ts).
AtMostOncePerBoot ==
    \A r, q \in Requests :
        r # q /\ admit[r] # 0 /\ admit[r] = admit[q] => sub[r].env # sub[q].env

\* A committed nonce is still held, and not yet due to be swept, as long as a
\* copy of its envelope can pass the timestamp check or is waiting for Circle:
\* the store's TTL outlasts the window plus the longest settlement.
NonceOutlivesReplay ==
    \A r \in Requests :
        AdmittedNow(r) /\ clock <= ts[sub[r].env] + TsWindow + SettleMax
            => nonces[sub[r].env] > clock

\* Only a request paid for by the payer sealed in an envelope burns its nonce: a
\* copy sent under another account, or one that never pays, leaves the owner's
\* request admissible (the reason commitNonce is split from the pre-payment check).
NonceBurnedByOwner ==
    \A e \in Envelopes :
        Has(e) => \E r \in Requests :
                     AdmittedNow(r) /\ sub[r].env = e /\ PayerMatches(sub[r])

\* On Hedera money moves only for a request whose 200 was produced: a refusal or
\* an upstream failure is free (settlement follows the handler, rails/hedera.ts).
HederaChargesOnlyServed ==
    \A r \in charged :
        sub[r].rail = "hedera" =>
            /\ pc[r] \in {"settled", "answered", "payment_failed", "lost"}
            /\ sub[r].env # Clear => admit[r] # 0

\* Arc takes money for a refused request in two cases only: the payment came from
\* another account than the sealed payer, or another copy of the envelope was
\* admitted while this one settled (rails/arc.ts, preValidate*).
ArcPaidRefusalExplained ==
    \A r \in charged :
        sub[r].rail = "arc" /\ pc[r] \in Refusals =>
            \/ pc[r] = "payer_mismatch" /\ ~PayerMatches(sub[r])
            \/ /\ pc[r] = "nonce_replay"
               /\ \E q \in Requests \ {r} : sub[q].env = sub[r].env /\ admit[q] # 0

\* Every 200 a client receives was paid for, and a sealed one was admitted and
\* paid by the account that sealed it.
AnswerIsEarned ==
    \A r \in Requests :
        pc[r] = "answered" =>
            /\ r \in charged /\ sub[r].fault = "none"
            /\ sub[r].env # Clear => admit[r] # 0 /\ PayerMatches(sub[r])
=============================================================================
