------------------------ MODULE SealedExchange_proofs -----------------------
(***************************************************************************)
(* Proofs about SealedExchange, for all requests, envelopes, clients'      *)
(* clocks and window sizes allowed by its assumptions.                     *)
(***************************************************************************)
EXTENDS SealedExchange, TLAPS

-----------------------------------------------------------------------------
(* Type correctness                                                         *)

LEMMA CheckTypes ==
    ASSUME NEW s \in Submission
    PROVE  /\ PrePaymentCheck(s) \in {"ts_window", "nonce_replay", "bad_request", "ok"}
           /\ FullCheck(s) \in Refusals \cup {"ok"}
           /\ ArcPreValidation(s) \in Refusals \cup {"paying"}
           /\ AfterBodyCheck(s) \in {"working", "bad_request"}
BY DEF PrePaymentCheck, FullCheck, ArcPreValidation, AfterBodyCheck, Refusals

LEMMA SweptType ==
    ASSUME nonces \in [Envelopes -> Nat]
    PROVE  Swept \in [Envelopes -> Nat]
BY DEF Swept, Absent

LEMMA CommitType ==
    ASSUME TypeOK, NEW r \in Requests, NEW e \in Envelopes, CommitNonce(r, e)
    PROVE  /\ nonces' \in [Envelopes -> Nat]
           /\ admit' \in [Requests -> Nat]
BY SweptType, ConstantsAssumption DEF CommitNonce, TypeOK

\* The initial state and every step respect the types of the variables.
THEOREM TypeCorrect == Spec => []TypeOK
<1>1. Init => TypeOK
  <2> SUFFICES ASSUME Init PROVE TypeOK
    OBVIOUS
  <2>1. Nothing \in Submission
    BY DEF Nothing, Submission, Rails, Faults
  <2>2. ts \in [Envelopes -> Int]
    BY ConstantsAssumption DEF Init
  <2> QED BY <2>1, <2>2 DEF Init, TypeOK, Absent
<1>2. TypeOK /\ [Next]_vars => TypeOK'
  <2> SUFFICES ASSUME TypeOK, [Next]_vars PROVE TypeOK'
    OBVIOUS
  <2> USE DEF TypeOK, Goto, NonceUntouched, InFlight, Terminal, Refusals
  <2>1. ASSUME NEW r \in Requests, NEW s \in Sendable, HederaArrive(r, s)
        PROVE  TypeOK'
    BY <2>1 DEF HederaArrive, Sendable
  <2>2. ASSUME NEW r \in Requests, NEW s \in Sendable, ArcArrive(r, s)
        PROVE  TypeOK'
    BY <2>2, CheckTypes DEF ArcArrive, Sendable
  <2>3. ASSUME NEW r \in Requests, HederaStep(r) PROVE TypeOK'
    <3>1. CASE HederaVerifyFails(r)  BY <3>1 DEF HederaVerifyFails
    <3>2. CASE HederaHandleClear(r)  BY <3>2, CheckTypes DEF HederaHandleClear
    <3>3. CASE HederaRefuseSealed(r) BY <3>3, CheckTypes DEF HederaRefuseSealed
    <3>4. CASE HederaAdmitSealed(r)
      <4>1. sub[r].env \in Envelopes
        BY <3>4 DEF HederaAdmitSealed, Submission
      <4> QED BY <3>4, <4>1, CommitType, CheckTypes DEF HederaAdmitSealed
    <3>5. CASE HederaSettle(r)       BY <3>5 DEF HederaSettle
    <3>6. CASE HederaDeliver(r)      BY <3>6 DEF HederaDeliver
    <3>7. CASE HederaSettleFails(r)  BY <3>7 DEF HederaSettleFails
    <3> QED BY <2>3, <3>1, <3>2, <3>3, <3>4, <3>5, <3>6, <3>7 DEF HederaStep
  <2>4. ASSUME NEW r \in Requests, ArcStep(r) PROVE TypeOK'
    <3>1. CASE ArcSettle(r)       BY <3>1 DEF ArcSettle
    <3>2. CASE ArcSettleFails(r)  BY <3>2 DEF ArcSettleFails
    <3>3. CASE ArcHandleClear(r)  BY <3>3, CheckTypes DEF ArcHandleClear
    <3>4. CASE ArcRefusePayer(r)  BY <3>4 DEF ArcRefusePayer
    <3>5. CASE ArcRefuseReplay(r) BY <3>5, SweptType DEF ArcRefuseReplay
    <3>6. CASE ArcAdmitSealed(r)
      <4>1. sub[r].env \in Envelopes
        BY <3>6 DEF ArcAdmitSealed, Submission
      <4> QED BY <3>6, <4>1, CommitType, CheckTypes DEF ArcAdmitSealed
    <3> QED BY <2>4, <3>1, <3>2, <3>3, <3>4, <3>5, <3>6 DEF ArcStep
  <2>5. ASSUME NEW r \in Requests, WorkDone(r) PROVE TypeOK'
    BY <2>5 DEF WorkDone
  <2>6. ASSUME NEW r \in Requests, WorkFails(r) PROVE TypeOK'
    BY <2>6 DEF WorkFails
  <2>7. CASE Tick    BY <2>7 DEF Tick
  <2>8. CASE Restart BY <2>8 DEF Restart, Absent
  <2>9. CASE UNCHANGED vars BY <2>9 DEF vars
  <2> QED BY <2>1, <2>2, <2>3, <2>4, <2>5, <2>6, <2>7, <2>8, <2>9 DEF Next
<1> QED BY <1>1, <1>2, PTL DEF Spec

-----------------------------------------------------------------------------
(* At most one admission per process, and a nonce that outlives its window  *)

\* How far a request can be with or without an admission.
StageInv ==
    \A r \in Requests :
        /\ admit[r] <= boot
        /\ pc[r] \in {"idle", "verifying", "paying", "paid"} => admit[r] = 0
        /\ admit[r] # 0 => sub[r].env \in Envelopes

\* A nonce committed by this process is held until the earliest instant at which
\* an expiry counted from an admissible commit can fall due.
HeldOrExpired ==
    \A r \in Requests :
        AdmittedNow(r) =>
            \/ nonces[sub[r].env] >= ts[sub[r].env] - TsWindow + NonceTtl
            \/ clock >= ts[sub[r].env] - TsWindow + NonceTtl

\* A request waiting for Circle passed the timestamp check at most SettleMax ago.
SettleWindow ==
    \A r \in Requests :
        pc[r] \in {"paying", "paid"} =>
            /\ startedAt[r] <= clock /\ clock <= startedAt[r] + SettleMax
            /\ sub[r].env # Clear =>
                  /\ startedAt[r] <= ts[sub[r].env] + TsWindow
                  /\ ts[sub[r].env] - TsWindow <= startedAt[r]

ReplayInv == TypeOK /\ StageInv /\ HeldOrExpired /\ SettleWindow /\ AtMostOncePerBoot

\* Whoever is admitted finds the nonce neither held nor committed earlier by
\* this process: the earlier commit would still be held.
LEMMA AdmittedOnce ==
    ASSUME ReplayInv, NEW r \in Requests, NEW q \in Requests,
           sub[r].env \in Envelopes, AdmittedNow(q), sub[q].env = sub[r].env,
           clock <= ts[sub[r].env] + TsWindow + SettleMax
    PROVE  nonces[sub[r].env] > clock
<1> DEFINE e == sub[r].env
<1>1. /\ clock \in Nat /\ ts[e] \in Int /\ nonces[e] \in Nat
      /\ TsWindow \in Nat /\ NonceTtl \in Nat /\ SettleMax \in Nat
  BY ConstantsAssumption DEF ReplayInv, TypeOK
<1>2. \/ nonces[e] >= ts[e] - TsWindow + NonceTtl
      \/ clock >= ts[e] - TsWindow + NonceTtl
  BY DEF ReplayInv, HeldOrExpired
<1>3. ts[e] + TsWindow + SettleMax < ts[e] - TsWindow + NonceTtl
  BY <1>1, WindowAssumption
<1> QED BY <1>1, <1>2, <1>3

\* A commit at an admissible time, of a nonce nobody holds, keeps the invariant.
LEMMA CommitStep ==
    ASSUME ReplayInv, NEW r \in Requests, sub[r].env \in Envelopes,
           admit[r] = 0, pc'[r] \in {"working", "bad_request"},
           pc' = [pc EXCEPT ![r] = pc'[r]],
           CommitNonce(r, sub[r].env),
           ts[sub[r].env] - TsWindow <= clock,
           clock <= ts[sub[r].env] + TsWindow + SettleMax,
           Swept[sub[r].env] = Absent,
           UNCHANGED <<clock, ts, sub, startedAt, boot>>
    PROVE  (StageInv /\ HeldOrExpired /\ SettleWindow /\ AtMostOncePerBoot)'
<1> DEFINE e == sub[r].env
<1> USE DEF ReplayInv
<1>1. /\ clock \in Nat /\ ts \in [Envelopes -> Int] /\ nonces \in [Envelopes -> Nat]
      /\ admit \in [Requests -> Nat] /\ boot \in Nat \ {0}
      /\ TsWindow \in Nat /\ NonceTtl \in Nat /\ SettleMax \in Nat
  BY ConstantsAssumption DEF TypeOK
<1>2. admit' = [admit EXCEPT ![r] = boot] /\ nonces' = [Swept EXCEPT ![e] = clock + NonceTtl]
  BY DEF CommitNonce
<1>3. \A q \in Requests : AdmittedNow(q) => sub[q].env # e
  <2> SUFFICES ASSUME NEW q \in Requests, AdmittedNow(q), sub[q].env = e PROVE FALSE
    OBVIOUS
  <2>1. nonces[e] > clock
    BY AdmittedOnce
  <2> QED BY <2>1, <1>1 DEF Swept, Absent
<1>4. StageInv'
  BY <1>1, <1>2 DEF StageInv, TypeOK
<1>5. HeldOrExpired'
  <2> SUFFICES ASSUME NEW q \in Requests, AdmittedNow(q)'
               PROVE  \/ nonces'[sub[q].env] >= ts[sub[q].env] - TsWindow + NonceTtl
                      \/ clock >= ts[sub[q].env] - TsWindow + NonceTtl
    BY DEF HeldOrExpired
  <2>1. CASE q = r
    BY <2>1, <1>1, <1>2 DEF Swept
  <2>2. CASE q # r
    <3>1. AdmittedNow(q) /\ sub[q].env \in Envelopes /\ sub[q].env # e
      BY <2>2, <1>1, <1>2, <1>3 DEF AdmittedNow, StageInv
    <3>2. nonces'[sub[q].env] = Swept[sub[q].env]
      BY <3>1, <1>2 DEF Swept
    <3>3. \/ nonces[sub[q].env] >= ts[sub[q].env] - TsWindow + NonceTtl
          \/ clock >= ts[sub[q].env] - TsWindow + NonceTtl
      BY <3>1 DEF HeldOrExpired
    <3> QED BY <3>1, <3>2, <3>3, <1>1 DEF Swept, Absent
  <2> QED BY <2>1, <2>2
<1>6. SettleWindow'
  BY <1>1 DEF SettleWindow, TypeOK
<1>7. AtMostOncePerBoot'
  BY <1>1, <1>2, <1>3 DEF AtMostOncePerBoot, AdmittedNow
<1> QED BY <1>4, <1>5, <1>6, <1>7

\* A step that leaves the store, the clock and the admissions alone, starts no
\* settlement and takes no request back to an earlier stage.
QuietStep(r) ==
    /\ pc' = [pc EXCEPT ![r] = pc'[r]]
    /\ pc'[r] \notin {"idle", "verifying", "paying"}
    /\ pc'[r] = "paid" => pc[r] = "paying"
    /\ UNCHANGED <<clock, ts, sub, startedAt, boot, nonces, admit>>

LEMMA QuietStepKeeps ==
    ASSUME ReplayInv, NEW r \in Requests, QuietStep(r)
    PROVE  (StageInv /\ HeldOrExpired /\ SettleWindow /\ AtMostOncePerBoot)'
BY DEF QuietStep, ReplayInv, TypeOK, StageInv, HeldOrExpired, SettleWindow,
       AtMostOncePerBoot, AdmittedNow

LEMMA ReplayInvariant == Spec => []ReplayInv
<1>1. Init => ReplayInv
  <2> SUFFICES ASSUME Init PROVE StageInv /\ HeldOrExpired /\ SettleWindow /\ AtMostOncePerBoot /\ TypeOK
    BY DEF ReplayInv
  <2>1. TypeOK
    <3>1. Nothing \in Submission
      BY DEF Nothing, Submission, Rails, Faults
    <3>2. ts \in [Envelopes -> Int]
      BY ConstantsAssumption DEF Init
    <3> QED BY <3>1, <3>2 DEF Init, TypeOK, Absent
  <2> QED BY <2>1 DEF Init, StageInv, HeldOrExpired, SettleWindow, AtMostOncePerBoot, AdmittedNow
<1>2. ReplayInv /\ TypeOK' /\ [Next]_vars => ReplayInv'
  <2> SUFFICES ASSUME ReplayInv, TypeOK', [Next]_vars
               PROVE  (StageInv /\ HeldOrExpired /\ SettleWindow /\ AtMostOncePerBoot)'
    BY DEF ReplayInv
  <2>t. /\ TypeOK /\ clock \in Nat /\ boot \in Nat \ {0} /\ SettleMax \in Nat
        /\ TsWindow \in Nat /\ NonceTtl \in Nat /\ \A e \in Envelopes : ts[e] \in Int
    BY ConstantsAssumption DEF ReplayInv, TypeOK
  <2>1. ASSUME NEW r \in Requests, NEW s \in Sendable, HederaArrive(r, s)
        PROVE  (StageInv /\ HeldOrExpired /\ SettleWindow /\ AtMostOncePerBoot)'
    <3>1. admit[r] = 0
      BY <2>1 DEF HederaArrive, ReplayInv, StageInv
    <3> QED BY <2>1, <3>1, <2>t
            DEF HederaArrive, Goto, NonceUntouched, ReplayInv, TypeOK, StageInv,
                HeldOrExpired, SettleWindow, AtMostOncePerBoot, AdmittedNow
  <2>2. ASSUME NEW r \in Requests, NEW s \in Sendable, ArcArrive(r, s)
        PROVE  (StageInv /\ HeldOrExpired /\ SettleWindow /\ AtMostOncePerBoot)'
    <3>1. admit[r] = 0 /\ ArcPreValidation(s) \in Refusals \cup {"paying"}
      BY <2>2, CheckTypes DEF ArcArrive, ReplayInv, StageInv, Sendable
    <3>2. ArcPreValidation(s) = "paying" /\ s.env # Clear => s.env \in Envelopes /\ Fresh(s.env)
      BY DEF ArcPreValidation, PrePaymentCheck, Sendable, Submission
    <3>3. StageInv' /\ HeldOrExpired' /\ AtMostOncePerBoot'
      BY <2>2, <3>1, <2>t
         DEF ArcArrive, Goto, NonceUntouched, ReplayInv, TypeOK, StageInv, Refusals,
             HeldOrExpired, AtMostOncePerBoot, AdmittedNow
    <3>4. SettleWindow'
      <4> SUFFICES ASSUME NEW q \in Requests, pc'[q] \in {"paying", "paid"}
                   PROVE  /\ startedAt'[q] <= clock /\ clock <= startedAt'[q] + SettleMax
                          /\ sub'[q].env # Clear =>
                                /\ startedAt'[q] <= ts[sub'[q].env] + TsWindow
                                /\ ts[sub'[q].env] - TsWindow <= startedAt'[q]
        BY <2>2 DEF SettleWindow, ArcArrive
      <4>1. CASE q = r
        <5>1. startedAt'[q] = clock /\ sub'[q] = s /\ ArcPreValidation(s) = "paying"
          BY <2>2, <3>1, <4>1, <2>t DEF ArcArrive, Goto, TypeOK, Refusals
        <5> QED BY <5>1, <3>2, <2>t DEF Fresh
      <4>2. CASE q # r
        BY <2>2, <4>2, <2>t DEF ArcArrive, Goto, TypeOK, ReplayInv, SettleWindow
      <4> QED BY <4>1, <4>2
    <3> QED BY <3>3, <3>4
  <2>3. ASSUME NEW r \in Requests, HederaAdmitSealed(r)
        PROVE  (StageInv /\ HeldOrExpired /\ SettleWindow /\ AtMostOncePerBoot)'
    <3>1. sub[r].env \in Envelopes /\ sub[r] \in Submission /\ admit[r] = 0
      BY <2>3, <2>t DEF HederaAdmitSealed, TypeOK, Submission, ReplayInv, StageInv
    <3>2. Fresh(sub[r].env) /\ ~Has(sub[r].env)
      BY <2>3 DEF HederaAdmitSealed, FullCheck, PrePaymentCheck
    <3>3. pc'[r] \in {"working", "bad_request"} /\ pc' = [pc EXCEPT ![r] = pc'[r]]
      BY <2>3, <3>1, <2>t, CheckTypes DEF HederaAdmitSealed, Goto, TypeOK
    <3>4. Swept[sub[r].env] = Absent
      BY <3>1, <3>2 DEF Swept, Has
    <3>5. ts[sub[r].env] - TsWindow <= clock /\ clock <= ts[sub[r].env] + TsWindow + SettleMax
      BY <3>1, <3>2, <2>t DEF Fresh
    <3>6. CommitNonce(r, sub[r].env) /\ UNCHANGED <<clock, ts, sub, startedAt, boot>>
      BY <2>3 DEF HederaAdmitSealed
    <3> QED BY <3>1, <3>3, <3>4, <3>5, <3>6, CommitStep
  <2>4. ASSUME NEW r \in Requests, ArcAdmitSealed(r)
        PROVE  (StageInv /\ HeldOrExpired /\ SettleWindow /\ AtMostOncePerBoot)'
    <3>1. sub[r].env \in Envelopes /\ sub[r] \in Submission /\ admit[r] = 0
      BY <2>4, <2>t DEF ArcAdmitSealed, TypeOK, Submission, ReplayInv, StageInv
    <3>2. /\ startedAt[r] <= clock /\ clock <= startedAt[r] + SettleMax
          /\ startedAt[r] <= ts[sub[r].env] + TsWindow
          /\ ts[sub[r].env] - TsWindow <= startedAt[r]
      BY <2>4 DEF ArcAdmitSealed, ReplayInv, SettleWindow
    <3>3. pc'[r] \in {"working", "bad_request"} /\ pc' = [pc EXCEPT ![r] = pc'[r]]
      BY <2>4, <3>1, <2>t, CheckTypes DEF ArcAdmitSealed, Goto, TypeOK
    <3>4. ts[sub[r].env] - TsWindow <= clock /\ clock <= ts[sub[r].env] + TsWindow + SettleMax
      BY <3>1, <3>2, <2>t DEF TypeOK
    <3>5. /\ CommitNonce(r, sub[r].env) /\ Swept[sub[r].env] = Absent
          /\ UNCHANGED <<clock, ts, sub, startedAt, boot>>
      BY <2>4 DEF ArcAdmitSealed
    <3> QED BY <3>1, <3>3, <3>4, <3>5, CommitStep
  <2>5. ASSUME NEW r \in Requests, ArcRefuseReplay(r)
        PROVE  (StageInv /\ HeldOrExpired /\ SettleWindow /\ AtMostOncePerBoot)'
    <3>1. nonces' = Swept /\ \A e \in Envelopes : nonces[e] \in Nat
      BY <2>5, <2>t DEF ArcRefuseReplay, TypeOK
    <3>2. HeldOrExpired'
      <4> SUFFICES ASSUME NEW q \in Requests, AdmittedNow(q)
                   PROVE  \/ Swept[sub[q].env] >= ts[sub[q].env] - TsWindow + NonceTtl
                          \/ clock >= ts[sub[q].env] - TsWindow + NonceTtl
        BY <2>5, <3>1 DEF ArcRefuseReplay, HeldOrExpired, AdmittedNow
      <4>1. sub[q].env \in Envelopes
        BY <2>t DEF AdmittedNow, ReplayInv, StageInv, TypeOK
      <4> QED BY <4>1, <3>1, <2>t DEF ReplayInv, HeldOrExpired, Swept, Absent
    <3> QED BY <2>5, <3>2, <2>t
            DEF ArcRefuseReplay, Goto, ReplayInv, TypeOK, StageInv, SettleWindow,
                AtMostOncePerBoot
  <2>6. ASSUME NEW r \in Requests, QuietStep(r)
        PROVE  (StageInv /\ HeldOrExpired /\ SettleWindow /\ AtMostOncePerBoot)'
    BY <2>6, QuietStepKeeps
  <2>7. ASSUME NEW r \in Requests,
               \/ HederaVerifyFails(r) \/ HederaHandleClear(r) \/ HederaRefuseSealed(r)
               \/ HederaSettle(r) \/ HederaDeliver(r) \/ HederaSettleFails(r)
               \/ WorkDone(r) \/ WorkFails(r)
        PROVE  QuietStep(r)
    <3>1. sub[r] \in Submission
      BY <2>t DEF TypeOK
    <3> QED
      BY <2>7, <2>t, <3>1, CheckTypes
         DEF HederaVerifyFails, HederaHandleClear, HederaRefuseSealed, HederaSettle,
             HederaDeliver, HederaSettleFails, WorkDone, WorkFails, QuietStep, Goto,
             NonceUntouched, TypeOK, Refusals
  <2>8. ASSUME NEW r \in Requests,
               \/ ArcSettle(r) \/ ArcSettleFails(r) \/ ArcHandleClear(r) \/ ArcRefusePayer(r)
        PROVE  QuietStep(r)
    <3>1. sub[r] \in Submission
      BY <2>t DEF TypeOK
    <3> QED
      BY <2>8, <2>t, <3>1, CheckTypes
         DEF ArcSettle, ArcSettleFails, ArcHandleClear, ArcRefusePayer, QuietStep, Goto,
             NonceUntouched, TypeOK
  <2>9. CASE Tick
    <3>1. HeldOrExpired'
      BY <2>9, <2>t DEF Tick, NonceUntouched, ReplayInv, HeldOrExpired, AdmittedNow,
                        StageInv, TypeOK
    <3>2. SettleWindow'
      BY <2>9, <2>t DEF Tick, ReplayInv, SettleWindow, TypeOK
    <3> QED BY <2>9, <3>1, <3>2 DEF Tick, NonceUntouched, ReplayInv, StageInv, AtMostOncePerBoot
  <2>10. CASE Restart
    <3>1. \A q \in Requests : admit'[q] <= boot /\ ~AdmittedNow(q)'
      BY <2>10, <2>t DEF Restart, ReplayInv, StageInv, AdmittedNow, TypeOK
    <3>2. \A q \in Requests : /\ pc'[q] \notin {"verifying", "paying", "paid"}
                              /\ pc'[q] = "idle" => pc[q] = "idle"
      BY <2>10, <2>t DEF Restart, TypeOK, InFlight
    <3> QED BY <2>10, <3>1, <3>2, <2>t
            DEF Restart, ReplayInv, StageInv, HeldOrExpired, SettleWindow,
                AtMostOncePerBoot, TypeOK
  <2>11. CASE UNCHANGED vars
    BY <2>11 DEF vars, ReplayInv, StageInv, HeldOrExpired, SettleWindow,
                 AtMostOncePerBoot, AdmittedNow
  <2> QED
    BY <2>1, <2>2, <2>3, <2>4, <2>5, <2>6, <2>7, <2>8, <2>9, <2>10, <2>11
       DEF Next, HederaStep, ArcStep
<1> QED BY <1>1, <1>2, TypeCorrect, PTL DEF Spec

\* No envelope is worked on twice by one process, on whichever rails and however
\* long (up to SettleMax) Circle takes to settle.
THEOREM AtMostOnce == Spec => []AtMostOncePerBoot
<1>1. ReplayInv => AtMostOncePerBoot
  BY DEF ReplayInv
<1> QED BY <1>1, ReplayInvariant, PTL

\* A committed nonce is held as long as its envelope could still be admitted.
THEOREM NonceHeld == Spec => []NonceOutlivesReplay
<1>1. ReplayInv => NonceOutlivesReplay
  <2> SUFFICES ASSUME ReplayInv, NEW r \in Requests, AdmittedNow(r),
                      clock <= ts[sub[r].env] + TsWindow + SettleMax
               PROVE  nonces[sub[r].env] > clock
    BY DEF NonceOutlivesReplay
  <2>1. sub[r].env \in Envelopes
    BY DEF ReplayInv, TypeOK, StageInv, AdmittedNow
  <2> QED BY <2>1, AdmittedOnce
<1> QED BY <1>1, ReplayInvariant, PTL

-----------------------------------------------------------------------------
(* Who pays for what                                                        *)

\* Where a request of each rail can stand, and what has been paid by then.
StandingInv ==
    \A r \in Requests :
        /\ pc[r] \in {"verifying", "buffered", "settled"} => sub[r].rail = "hedera"
        /\ pc[r] \in {"paying", "paid"} => sub[r].rail = "arc" /\ sub[r].fault = "none"
        /\ pc[r] \in {"idle", "verifying", "paying", "buffered"} => r \notin charged
        /\ pc[r] \in {"paid", "settled", "answered"} => r \in charged
        /\ pc[r] = "working" => (r \in charged <=> sub[r].rail = "arc")
        /\ pc[r] \in {"working", "buffered", "settled", "answered"} =>
              /\ sub[r].fault = "none"
              /\ sub[r].env # Clear => admit[r] # 0 /\ PayerMatches(sub[r])

MoneyInv ==
    /\ StandingInv
    /\ NonceBurnedByOwner
    /\ HederaChargesOnlyServed
    /\ ArcPaidRefusalExplained

\* A request keeps what it submitted once it has arrived, and its admission.
LEMMA StepFrame ==
    ASSUME ReplayInv, [Next]_vars
    PROVE  \A q \in Requests : admit[q] # 0 => sub'[q] = sub[q] /\ admit'[q] = admit[q]
<1> USE DEF ReplayInv
<1>1. ASSUME NEW r \in Requests, NEW s \in Sendable, HederaArrive(r, s) \/ ArcArrive(r, s)
      PROVE  \A q \in Requests : admit[q] # 0 => sub'[q] = sub[q] /\ admit'[q] = admit[q]
  <2>1. admit[r] = 0
    BY <1>1 DEF HederaArrive, ArcArrive, StageInv
  <2> QED BY <1>1, <2>1 DEF HederaArrive, ArcArrive, NonceUntouched, TypeOK
<1>2. ASSUME NEW r \in Requests, HederaAdmitSealed(r) \/ ArcAdmitSealed(r)
      PROVE  \A q \in Requests : admit[q] # 0 => sub'[q] = sub[q] /\ admit'[q] = admit[q]
  <2>1. admit[r] = 0
    BY <1>2 DEF HederaAdmitSealed, ArcAdmitSealed, StageInv
  <2> QED BY <1>2, <2>1 DEF HederaAdmitSealed, ArcAdmitSealed, CommitNonce, TypeOK
<1>3. ASSUME NEW r \in Requests,
             \/ HederaVerifyFails(r) \/ HederaHandleClear(r) \/ HederaRefuseSealed(r)
             \/ HederaSettle(r) \/ HederaDeliver(r) \/ HederaSettleFails(r)
             \/ ArcSettle(r) \/ ArcSettleFails(r) \/ ArcHandleClear(r) \/ ArcRefusePayer(r)
             \/ ArcRefuseReplay(r) \/ WorkDone(r) \/ WorkFails(r)
      PROVE  UNCHANGED <<sub, admit>>
  BY <1>3 DEF HederaVerifyFails, HederaHandleClear, HederaRefuseSealed, HederaSettle,
              HederaDeliver, HederaSettleFails, ArcSettle, ArcSettleFails, ArcHandleClear,
              ArcRefusePayer, ArcRefuseReplay, WorkDone, WorkFails, NonceUntouched
<1>4. Tick \/ Restart \/ UNCHANGED vars => UNCHANGED <<sub, admit>>
  BY DEF Tick, Restart, vars, NonceUntouched
<1> QED BY <1>1, <1>2, <1>3, <1>4 DEF Next, HederaStep, ArcStep

\* Only a commit adds to the store, and only a restart begins another process.
LEMMA OwnerKept ==
    ASSUME ReplayInv, NonceBurnedByOwner, [Next]_vars, boot' = boot,
           NEW e \in Envelopes, nonces'[e] # Absent => nonces[e] # Absent
    PROVE  Has(e)' => \E r \in Requests :
                         AdmittedNow(r)' /\ sub'[r].env = e /\ PayerMatches(sub'[r])
<1> SUFFICES ASSUME Has(e)'
             PROVE  \E r \in Requests :
                        AdmittedNow(r)' /\ sub'[r].env = e /\ PayerMatches(sub'[r])
  OBVIOUS
<1>1. PICK r \in Requests : AdmittedNow(r) /\ sub[r].env = e /\ PayerMatches(sub[r])
  BY DEF NonceBurnedByOwner, Has
<1>2. admit[r] # 0
  BY <1>1 DEF AdmittedNow, ReplayInv, TypeOK
<1>3. sub'[r] = sub[r] /\ admit'[r] = admit[r]
  BY <1>2, StepFrame
<1>4. AdmittedNow(r)'
  BY <1>1, <1>3 DEF AdmittedNow
<1> QED BY <1>1, <1>3, <1>4

LEMMA OwnerStep ==
    ASSUME ReplayInv, NonceBurnedByOwner, [Next]_vars
    PROVE  NonceBurnedByOwner'
<1> SUFFICES ASSUME NEW e \in Envelopes, Has(e)'
             PROVE  \E r \in Requests :
                        AdmittedNow(r)' /\ sub'[r].env = e /\ PayerMatches(sub'[r])
  BY DEF NonceBurnedByOwner
<1>t. /\ nonces \in [Envelopes -> Nat] /\ admit \in [Requests -> Nat]
      /\ sub \in [Requests -> Submission]
  BY DEF ReplayInv, TypeOK
<1>1. CASE boot' = boot /\ nonces[e] # Absent
  BY <1>1, OwnerKept
<1>2. ASSUME NEW r \in Requests, HederaAdmitSealed(r) \/ ArcAdmitSealed(r), nonces[e] = Absent
      PROVE  AdmittedNow(r)' /\ sub'[r].env = e /\ PayerMatches(sub'[r])
  <2>1. /\ CommitNonce(r, sub[r].env) /\ UNCHANGED <<sub, boot>>
        /\ PayerMatches(sub[r])
    BY <1>2 DEF HederaAdmitSealed, ArcAdmitSealed, FullCheck
  <2>2. Swept[e] = Absent /\ Swept \in [Envelopes -> Nat]
    BY <1>2, <1>t, SweptType DEF Swept
  <2>3. sub[r].env = e
    BY <2>1, <2>2 DEF CommitNonce, Has
  <2>4. AdmittedNow(r)'
    BY <2>1, <1>t DEF CommitNonce, AdmittedNow
  <2> QED BY <2>1, <2>3, <2>4
<1>3. CASE Restart
  BY <1>3 DEF Restart, Has
<1>4. ASSUME NEW r \in Requests, ArcRefuseReplay(r) PROVE boot' = boot /\ nonces[e] # Absent
  BY <1>4, <1>t DEF ArcRefuseReplay, Swept, Has
<1>5. ASSUME NEW r \in Requests,
             \/ HederaVerifyFails(r) \/ HederaHandleClear(r) \/ HederaRefuseSealed(r)
             \/ HederaSettle(r) \/ HederaDeliver(r) \/ HederaSettleFails(r)
             \/ ArcSettle(r) \/ ArcSettleFails(r) \/ ArcHandleClear(r) \/ ArcRefusePayer(r)
             \/ WorkDone(r) \/ WorkFails(r)
      PROVE  UNCHANGED <<boot, nonces>>
  BY <1>5 DEF HederaVerifyFails, HederaHandleClear, HederaRefuseSealed, HederaSettle,
              HederaDeliver, HederaSettleFails, ArcSettle, ArcSettleFails, ArcHandleClear,
              ArcRefusePayer, WorkDone, WorkFails, NonceUntouched
<1>6. Tick \/ UNCHANGED vars => UNCHANGED <<boot, nonces>>
  BY DEF Tick, vars, NonceUntouched
<1>7. ASSUME NEW r \in Requests, NEW s \in Sendable, HederaArrive(r, s) \/ ArcArrive(r, s)
      PROVE  UNCHANGED <<boot, nonces>>
  BY <1>7 DEF HederaArrive, ArcArrive, NonceUntouched
<1>8. ASSUME NEW r \in Requests, HederaAdmitSealed(r) \/ ArcAdmitSealed(r) PROVE boot' = boot
  BY <1>8 DEF HederaAdmitSealed, ArcAdmitSealed
<1> QED
  BY <1>1, <1>2, <1>3, <1>4, <1>5, <1>6, <1>7, <1>8 DEF Next, HederaStep, ArcStep, Has

\* Arc admits or refuses on the nonce only what its owner paid for; the copy that
\* made it refuse was admitted by another request.
LEMMA MoneyStep ==
    ASSUME ReplayInv, MoneyInv, TypeOK', [Next]_vars
    PROVE  (StandingInv /\ HederaChargesOnlyServed /\ ArcPaidRefusalExplained)'
<1> DEFINE Goal == StandingInv /\ HederaChargesOnlyServed /\ ArcPaidRefusalExplained
<1> USE DEF ReplayInv, MoneyInv
<1>t. /\ pc \in [Requests -> {"idle"} \cup InFlight \cup Terminal]
      /\ sub \in [Requests -> Submission] /\ charged \subseteq Requests
      /\ admit \in [Requests -> Nat] /\ boot \in Nat \ {0}
  BY DEF TypeOK
<1>f. \A q \in Requests : admit[q] # 0 => sub'[q] = sub[q] /\ admit'[q] = admit[q]
  BY StepFrame
<1>1. ASSUME NEW r \in Requests, NEW s \in Sendable, HederaArrive(r, s) \/ ArcArrive(r, s)
      PROVE  Goal'
  <2>1. r \notin charged /\ admit[r] = 0
    BY <1>1 DEF HederaArrive, ArcArrive, StandingInv, StageInv
  <2>2. ArcPreValidation(s) \in Refusals \cup {"paying"} /\ s \in Submission
    BY CheckTypes DEF Sendable
  <2>3. ArcPreValidation(s) = "paying" => s.fault = "none"
    BY DEF ArcPreValidation, PrePaymentCheck
  <2>4. /\ \A q \in Requests \ {r} : pc'[q] = pc[q] /\ sub'[q] = sub[q]
        /\ sub'[r] = s /\ charged' = charged /\ admit' = admit
        /\ \/ pc'[r] = "verifying" /\ s.rail = "hedera"
           \/ pc'[r] \in Refusals
           \/ pc'[r] = "paying" /\ s.rail = "arc" /\ s.fault = "none"
    BY <1>1, <1>t, <2>2, <2>3 DEF HederaArrive, ArcArrive, Goto, NonceUntouched
  <2>5. StandingInv'
    BY <2>1, <2>4 DEF StandingInv, Refusals, PayerMatches
  <2>6. HederaChargesOnlyServed'
    BY <2>1, <2>4, <1>t DEF HederaChargesOnlyServed
  <2>7. ArcPaidRefusalExplained'
    BY <2>1, <2>4, <1>t DEF ArcPaidRefusalExplained, PayerMatches
  <2> QED BY <2>5, <2>6, <2>7
<1>2. ASSUME NEW r \in Requests, HederaAdmitSealed(r) \/ ArcAdmitSealed(r)
      PROVE  Goal'
  <2>1. PayerMatches(sub[r]) /\ sub[r].env # Clear /\ pc[r] \in {"verifying", "paid"}
    BY <1>2 DEF HederaAdmitSealed, ArcAdmitSealed, FullCheck
  <2>2. admit'[r] # 0 /\ admit' = [admit EXCEPT ![r] = boot]
    BY <1>2, <1>t DEF HederaAdmitSealed, ArcAdmitSealed, CommitNonce
  <2>3. UNCHANGED <<sub, charged>> /\ pc' = [pc EXCEPT ![r] = AfterBodyCheck(sub[r])]
    BY <1>2 DEF HederaAdmitSealed, ArcAdmitSealed, Goto
  <2>4. /\ pc[r] = "verifying" => sub[r].rail = "hedera" /\ r \notin charged
        /\ pc[r] = "paid" => sub[r].rail = "arc" /\ sub[r].fault = "none" /\ r \in charged
    BY DEF StandingInv
  <2>5. StandingInv'
    BY <2>1, <2>2, <2>3, <2>4, <1>t, <1>f DEF StandingInv, AfterBodyCheck
  <2>6. HederaChargesOnlyServed'
    BY <2>1, <2>2, <2>3, <2>4, <1>t, <1>f DEF HederaChargesOnlyServed
  <2>7. ArcPaidRefusalExplained'
    BY <2>1, <2>2, <2>3, <2>4, <1>t, <1>f DEF ArcPaidRefusalExplained, AfterBodyCheck, Refusals
  <2> QED BY <2>5, <2>6, <2>7
<1>3. ASSUME NEW r \in Requests, ArcRefuseReplay(r) PROVE Goal'
  <2>1. admit[r] = 0 /\ sub[r].env \in Envelopes
    BY <1>3, <1>t DEF ArcRefuseReplay, StageInv, Submission
  <2>2. Has(sub[r].env)
    BY <1>3, <2>1 DEF ArcRefuseReplay, Swept, Has
  <2>3. PICK q \in Requests : AdmittedNow(q) /\ sub[q].env = sub[r].env
    BY <2>1, <2>2 DEF NonceBurnedByOwner
  <2>4. q # r /\ admit[q] # 0
    BY <2>1, <2>3, <1>t DEF AdmittedNow
  <2>5. UNCHANGED <<sub, charged, admit>> /\ pc' = [pc EXCEPT ![r] = "nonce_replay"]
    BY <1>3 DEF ArcRefuseReplay, Goto
  <2>6. sub[r].rail = "arc"
    BY <1>3 DEF ArcRefuseReplay, StandingInv
  <2>7. StandingInv' /\ HederaChargesOnlyServed'
    BY <2>5, <2>6, <1>t DEF StandingInv, HederaChargesOnlyServed
  <2>8. ArcPaidRefusalExplained'
    BY <2>3, <2>4, <2>5, <1>t DEF ArcPaidRefusalExplained
  <2> QED BY <2>7, <2>8
<1>4. ASSUME NEW r \in Requests, HederaSettle(r) \/ ArcSettle(r) PROVE Goal'
  <2>1. /\ UNCHANGED <<sub, admit>> /\ charged' = charged \cup {r}
        /\ \/ pc[r] = "buffered" /\ pc' = [pc EXCEPT ![r] = "settled"]
           \/ pc[r] = "paying" /\ pc' = [pc EXCEPT ![r] = "paid"]
    BY <1>4 DEF HederaSettle, ArcSettle, Goto, NonceUntouched
  <2> QED
    BY <2>1, <1>t DEF StandingInv, HederaChargesOnlyServed, ArcPaidRefusalExplained, Refusals
<1>5. ASSUME NEW r \in Requests,
             \/ HederaVerifyFails(r) \/ HederaSettleFails(r) \/ ArcSettleFails(r)
             \/ WorkFails(r) \/ WorkDone(r) \/ HederaDeliver(r)
      PROVE  Goal'
  <2>1. /\ UNCHANGED <<sub, admit, charged>> /\ pc' = [pc EXCEPT ![r] = pc'[r]]
        /\ \/ /\ pc[r] \in {"verifying", "buffered", "settled", "paying", "paid"}
              /\ pc'[r] = "payment_failed"
           \/ pc[r] = "working" /\ pc'[r] = "upstream_failed"
           \/ pc[r] = "working" /\ sub[r].rail = "arc" /\ pc'[r] = "answered"
           \/ pc[r] = "working" /\ sub[r].rail = "hedera" /\ pc'[r] = "buffered"
           \/ pc[r] = "settled" /\ pc'[r] = "answered"
    BY <1>5, <1>t DEF HederaVerifyFails, HederaSettleFails, ArcSettleFails, WorkFails,
                      WorkDone, HederaDeliver, Goto, NonceUntouched, Submission, Rails
  <2>2. StandingInv'
    BY <2>1, <1>t DEF StandingInv
  <2>3. HederaChargesOnlyServed'
    BY <2>1, <1>t DEF StandingInv, HederaChargesOnlyServed
  <2>4. ArcPaidRefusalExplained'
    BY <2>1, <1>t DEF ArcPaidRefusalExplained, Refusals
  <2> QED BY <2>2, <2>3, <2>4
<1>6. ASSUME NEW r \in Requests,
             \/ HederaHandleClear(r) \/ HederaRefuseSealed(r) \/ ArcHandleClear(r)
             \/ ArcRefusePayer(r)
      PROVE  Goal'
  <2>1. /\ FullCheck(sub[r]) \in Refusals \cup {"ok"}
        /\ AfterBodyCheck(sub[r]) = "working" => sub[r].fault = "none"
        /\ AfterBodyCheck(sub[r]) = "bad_request" => sub[r].fault # "none"
        /\ AfterBodyCheck(sub[r]) \in {"working", "bad_request"}
    BY <1>t, CheckTypes DEF AfterBodyCheck
  <2>2. /\ UNCHANGED <<sub, admit, charged>> /\ pc' = [pc EXCEPT ![r] = pc'[r]]
        /\ \/ pc[r] = "verifying" /\ pc'[r] \in Refusals
           \/ /\ pc[r] \in {"verifying", "paid"} /\ pc'[r] = "working"
              /\ sub[r].fault = "none" /\ sub[r].env = Clear
           \/ pc[r] = "paid" /\ pc'[r] = "bad_request" /\ sub[r].fault # "none"
           \/ pc[r] = "paid" /\ pc'[r] = "payer_mismatch" /\ ~PayerMatches(sub[r])
    BY <1>6, <1>t, <2>1 DEF HederaHandleClear, HederaRefuseSealed, ArcHandleClear,
                            ArcRefusePayer, Goto, NonceUntouched, Refusals
  <2>3. /\ pc[r] = "verifying" => sub[r].rail = "hedera" /\ r \notin charged
        /\ pc[r] = "paid" => sub[r].rail = "arc" /\ sub[r].fault = "none" /\ r \in charged
    BY DEF StandingInv
  <2>4. StandingInv'
    BY <2>2, <2>3, <1>t DEF StandingInv, Refusals
  <2>5. HederaChargesOnlyServed'
    BY <2>2, <2>3, <1>t DEF HederaChargesOnlyServed
  <2>6. ArcPaidRefusalExplained'
    BY <2>2, <2>3, <1>t DEF ArcPaidRefusalExplained, Refusals
  <2> QED BY <2>4, <2>5, <2>6
<1>7. CASE Tick \/ UNCHANGED vars
  <2>1. UNCHANGED <<pc, sub, charged, admit>>
    BY <1>7 DEF Tick, vars, NonceUntouched
  <2> QED BY <2>1 DEF StandingInv, HederaChargesOnlyServed, ArcPaidRefusalExplained
<1>8. CASE Restart
  <2>1. /\ UNCHANGED <<sub, charged, admit>>
        /\ \A q \in Requests :
              \/ pc'[q] = pc[q] /\ pc[q] \notin InFlight
              \/ pc'[q] = "lost"
    BY <1>8, <1>t DEF Restart
  <2> QED
    BY <2>1, <1>t DEF StandingInv, HederaChargesOnlyServed, ArcPaidRefusalExplained,
                      Refusals, InFlight
<1> QED
  BY <1>1, <1>2, <1>3, <1>4, <1>5, <1>6, <1>7, <1>8 DEF Next, HederaStep, ArcStep

LEMMA MoneyInvariant == Spec => []MoneyInv
<1>1. Init => MoneyInv
  BY DEF Init, MoneyInv, StandingInv, NonceBurnedByOwner, HederaChargesOnlyServed,
         ArcPaidRefusalExplained, Has
<1>2. ReplayInv /\ TypeOK' /\ MoneyInv /\ [Next]_vars => MoneyInv'
  <2> SUFFICES ASSUME ReplayInv, TypeOK', MoneyInv, [Next]_vars PROVE MoneyInv'
    OBVIOUS
  <2>1. NonceBurnedByOwner'
    BY OwnerStep DEF MoneyInv
  <2>2. (StandingInv /\ HederaChargesOnlyServed /\ ArcPaidRefusalExplained)'
    BY MoneyStep
  <2> QED BY <2>1, <2>2 DEF MoneyInv
<1> QED BY <1>1, <1>2, TypeCorrect, ReplayInvariant, PTL DEF Spec

\* A nonce is burned only by a request its sealed payer paid for, on either rail.
THEOREM BurnedByOwner == Spec => []NonceBurnedByOwner
<1>1. MoneyInv => NonceBurnedByOwner
  BY DEF MoneyInv
<1> QED BY <1>1, MoneyInvariant, PTL

\* Hedera moves money only for a request that produced its 200.
THEOREM HederaFreeRefusal == Spec => []HederaChargesOnlyServed
<1>1. MoneyInv => HederaChargesOnlyServed
  BY DEF MoneyInv
<1> QED BY <1>1, MoneyInvariant, PTL

\* The two ways Arc can take money for a request it refuses are the only ones.
THEOREM ArcPaidRefusals == Spec => []ArcPaidRefusalExplained
<1>1. MoneyInv => ArcPaidRefusalExplained
  BY DEF MoneyInv
<1> QED BY <1>1, MoneyInvariant, PTL

\* Every delivered answer was paid for, and a sealed one by the payer it names.
THEOREM EarnedAnswers == Spec => []AnswerIsEarned
<1>1. MoneyInv => AnswerIsEarned
  BY DEF MoneyInv, StandingInv, AnswerIsEarned
<1> QED BY <1>1, MoneyInvariant, PTL
=============================================================================
