SPECIFICATION MCSpec
CONSTANTS
    Depth = 3
    Inside = 1
    AddrBytes = 2
    PageBytes = 2
    Pages = 3
    BlockPages = 2
    Ranges <- MCRanges
INVARIANTS
    FlashTypeOK
    RxNeverOverflows
PROPERTIES
    AnswersMatch
    RangeWritten
    CallsEnd
