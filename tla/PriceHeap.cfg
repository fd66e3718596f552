SPECIFICATION Spec
CONSTANTS
    Price <- MCPrice
INVARIANTS
    IndexesExact
    HeapHoldsLevels
    PeekIsBest
