SPECIFICATION FairSpec
CONSTANTS
    Price = {1}
    Amount = {1, 2}
    Nonce = {n1, n2}
    n1 = n1
    n2 = n2
    MaxElem = 2
    MaxInt64 = 100
    QuotePow = 200
    BasePow = 1
    NoOrder = NoOrder
    Ticker <- MCTicker
    CommandID <- MCCommandID
    Payload <- MCPayload
    Request <- RetryRequest
    Empty <- MCEmpty
    Apply <- MCApply
    Books <- MCBooks
    Batches <- MCBatches
    NoBatch = NoBatch
    NoRequest = NoRequest
    NoOutcome = NoOutcome
    QueueCap = 1
    MaxSequence = 2
    MaxFaults = 0
    MaxCrashes = 0
PROPERTIES
    RestartServes
CHECK_DEADLOCK FALSE
