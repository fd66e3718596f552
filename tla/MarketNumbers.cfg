SPECIFICATION Spec
CONSTANTS
    MaxInt64 = 127
    MaxScale = 2
    DefaultScale = 1
    Contract <- FineContract
    RawText <- MCRawText
INVARIANTS NothingRounded SignAgrees ShownMeansTheSame RoundedDown StoredFillsReplay
CHECK_DEADLOCK FALSE
