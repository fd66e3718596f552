SPECIFICATION Spec
CONSTANTS
    Price = {1, 2}
    Amount = {1, 3}
    Nonce = {n1}
    n1 = n1
    MaxElem = 2
    MaxInt64 = 1000
    QuotePow = 1
    BasePow = 1
    NoOrder = NoOrder
    UniqueNonces = FALSE
INVARIANTS
    IndexExact
CHECK_DEADLOCK FALSE
