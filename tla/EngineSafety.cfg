SPECIFICATION Spec
CONSTANTS
    Price = {1}
    Amount = {1, 2}
    Nonce = {n1, n2}
    n1 = n1
    n2 = n2
    MaxElem = 4
    MaxInt64 = 100
    QuotePow = 1
    BasePow = 1
    NoOrder = NoOrder
    Ticker <- MCTicker
    CommandID <- MCCommandID
    Payload <- MCPayload
    Request <- MCRequest
    Empty <- MCEmpty
    Apply <- MCApply
    Books <- MCBooks
    Batches <- MCBatches
    NoBatch = NoBatch
    NoRequest = NoRequest
    NoOutcome = NoOutcome
    QueueCap = 1
    MaxSequence = 3
    MaxFaults = 1
    MaxCrashes = 1
INVARIANTS
    AnsweredDurable
    OnlyLastPending
    OnlyReplayableEffects
    BookIsReplayOfJournal
    JournalOrdered
    ReplayAgreesWithStore
PROPERTIES
    HaltedAdmitsNoCommand
    SnapshotsShowDurable
CHECK_DEADLOCK FALSE
