SPECIFICATION FairSpec
CONSTANTS
    Units <- MCUnits
    Numeral <- MCNumeral
    Streams <- MCStreams
    MAX_REQUEST_LINE = 6
    MAX_HEADER_SIZE = 4
    MAX_TOTAL_HEADERS = 10
    MAX_HEADER_COUNT = 2
    MAX_BODY_SIZE = 3
INVARIANTS
    TypeOK
    MemoryBounded
    VerdictIsMeaning
PROPERTY FeedReturns
\* A connection on which the client sends nothing more stays as it is.
CHECK_DEADLOCK FALSE
