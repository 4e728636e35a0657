\* Safety, the refinement of CommitLog and, with the fairness of the runtime,
\* that a receipt that can never be submitted does not block the others.
SPECIFICATION TopicSpec
CONSTANTS
    good1 = good1
    good2 = good2
    poison = poison
    d1 = d1
    d2 = d2
    NoReceipt = NoReceipt
    Receipts <- MCReceipts
    Poison <- MCPoison
    Drains <- MCDrains
    MaxFailures = 2
    DoneMax = 1
    Chunks = 2
    PageSize = 1
    MaxPages = 4
    MaxForeign = 1
    MaxWasted = 2
    MaxRestarts = 1
INVARIANTS
    OneDrainOwnsTheHead
    NothingDropped
    DoneIsLatest
    LookupTellsTheTruth
PROPERTIES
    ImplementsCommitLog
    PoisonDoesNotBlock
\* Every receipt may be committed before the bounded model runs out of them.
CHECK_DEADLOCK FALSE
