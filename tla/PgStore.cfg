\* Eight records in buffers of two.  When nobody puts a record and handle
\* waits, the store really stops.
SPECIFICATION FairSpec
CONSTANTS
    BufSize = 2
    MaxPut = 8
INVARIANTS
    TypeOK
    NothingDropped
PROPERTIES
    ImplementsLocationLog
    Published
CHECK_DEADLOCK FALSE
