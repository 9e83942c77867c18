SPECIFICATION ContextSpec
CONSTANTS
    Word = 16
    Radix = 4
    Start <- Starts
    Byte <- Bytes
    MaxMore = 4
    Initial = 6
    Margin = 3
    MaxBuffer = 28
INVARIANTS
    RequestsMatchSyntax
    RecordedInBounds
CHECK_DEADLOCK FALSE
