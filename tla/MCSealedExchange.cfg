\* Two requests, one envelope per rail: every interleaving of
\* copies of the envelope, clear requests, settlement, restarts and the clock.
SPECIFICATION Spec
CONSTANTS
    r1 = r1
    r2 = r2
    eHedera = eHedera
    eArc = eArc
    hAcct = hAcct
    aAcct = aAcct
    Clear = Clear
    NoPayer = NoPayer
    Requests <- MCRequests
    Envelopes <- MCEnvelopes
    Payers <- MCPayers
    PayersOn <- MCPayersOn
    PayerOf <- MCPayerOf
    Stamps = {1, 3}
    TsWindow = 1
    NonceTtl = 4
    SettleMax = 1
    MaxTime = 5
    MaxRestarts = 1
SYMMETRY Symmetry
INVARIANTS
    AtMostOncePerBoot
    NonceOutlivesReplay
    NonceBurnedByOwner
    HederaChargesOnlyServed
    ArcPaidRefusalExplained
    AnswerIsEarned
\* The requests are finitely many and the clock is bounded: the model does stop.
CHECK_DEADLOCK FALSE
