SPECIFICATION Spec
CONSTANTS
    MaxInt64 = 127
    MaxScale = 2
    DefaultScale = 1
    Contract <- CoarseContract
    RawText <- ShortText
INVARIANTS RoundedDown
CHECK_DEADLOCK FALSE
