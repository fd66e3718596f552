SPECIFICATION Spec
CONSTANTS
    Price = {1, 2}
    Amount = {1, 3}
    Nonce = {n1, n2, n3, n4}
    n1 = n1
    n2 = n2
    n3 = n3
    n4 = n4
    MaxElem = 4
    MaxInt64 = 5
    QuotePow = 1
    BasePow = 1
    NoOrder = NoOrder
    UniqueNonces = TRUE
SYMMETRY NonceSymmetry
INVARIANTS
    TypeOK
    LevelsAgree
    TotalsExact
    IndexExact
    SnapshotFaithful
    EventsNeverRejected
    EventsChain
    EventsExplainBook
    LogsExplainFills
PROPERTIES
    PriceTimePriority
CHECK_DEADLOCK FALSE
