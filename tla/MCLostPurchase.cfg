SPECIFICATION Spec
CONSTANTS
    v1 = v1
    v2 = v2
    c1 = c1
    c2 = c2
    good = good
    rogue = rogue
    ours = ours
    other = other
    None = None
    Rails = {"hedera", "arc"}
    Vaults = {v1, v2}
    Chains = {c1, c2}
    ChainOf <- MCChainOf
    Policies <- MCPolicies
    Cards <- MCCards
    Answers <- MCAnswers
    Balances = {60000, 200000}
    Surcharges = {0, 16, 601}
    ScanPrice <- MCScanPrice
    TablePrice = 60000
    ClockSkew = 120
    MaxCalls = 2
INVARIANT
    PurchaseNotLost
CHECK_DEADLOCK FALSE
