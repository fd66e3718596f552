SPECIFICATION FairSpec
CONSTANTS
    Ticker <- MCTicker
    CommandID <- MCCommandID
    Payload <- MCPayload
    Request <- MCRequest
    Empty <- MCEmpty
    Apply <- MCApply
    Books <- MCBooks
    Batches <- MCBatches
    NoBatch = NoBatch
    NoRequest = NoRequest
    NoOutcome = NoOutcome
    QueueCap = 1
    MaxSequence = 2
    MaxFaults = 1
    MaxCrashes = 1
PROPERTIES
    EffectsEventuallyDurable
    RestartServes
    ImplementsLedger
CHECK_DEADLOCK FALSE
