\* Three connections of the same or of different terminals, one old row; 1 and 3
\* are cut to the same serial number, and only SimpleJSON can send 3. When all
\* logins have ended, or one has ended the server, nothing is left to do.
SPECIFICATION FairSpec
CONSTANTS
    Conn = {k1, k2, k3}
    Sn = {1, 3}
    JsonSnType = {1}
    SnMod = 2
    Old = {o1}
    nil = nil
INVARIANTS
    MapsAgree
    TwinsRaced
    OwnTerminal
    ClosedOrServed
PROPERTIES
    LoginEnds
CHECK_DEADLOCK FALSE
