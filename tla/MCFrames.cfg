\* Two frames on each of two connections; bytes of 12 values.
SPECIFICATION FairSpec
CONSTANTS
    Radix = 12
    START = 6
    START2 = 7
    CR = 11
    LF = 10
    serverCommand = 8
    MinPayload <- MinPayloads
    Message <- Messages
    BufLen = 18
    MaxSent = 2
    MaxConn = 2
INVARIANTS
    TypeOK
    InOrder
    ErrorsExplained
PROPERTIES
    RepeatsLast
    Delivered
\* The last connection ends.
CHECK_DEADLOCK FALSE
