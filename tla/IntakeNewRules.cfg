SPECIFICATION Spec
CONSTANTS
    MaxInt64 = 127
    MaxScale = 2
    DefaultScale = 2
    Request <- MCRequest
    Contracts <- MCContracts
    Ticker <- MCTicker
INVARIANTS StartsUnderNewRules
