SPECIFICATION RailSpec
CONSTANTS
    r1 = r1
    r2 = r2
    r3 = r3
    t1 = t1
    t2 = t2
    Requests = {r1, r2, r3}
    Txs = {t1, t2}
    TxOf <- MCTxOf
    NoOne = NoOne
    Ttl = 2
    SettleMax = 1
    MaxTime = 5
INVARIANTS
    ServedIsAnchored
    OneReceiptPerPayment
    SettledLeavesNothing
CHECK_DEADLOCK FALSE
