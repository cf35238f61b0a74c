\* The configuration of cmd/brokertest, which has no BufSize: two records in one
\* buffer or in two, and two connections.
SPECIFICATION FairSpec
CONSTANTS
    BufSize = 0
    Conn = {c1, c2}
    Size = 3
    MaxRec = 2
INVARIANTS
    InOrder
    WrittenOrLeft
PROPERTIES
    Published
\* Nobody has to call Broadcast, and a connection may end.
CHECK_DEADLOCK FALSE
