\* The login that makes the device and two later ones; Stop may come at any time.
SPECIFICATION FairSpec
CONSTANTS
    Conn = {first, k2, k3}
    first = first
    MaxBuffer = 1
    nil = nil
INVARIANTS
    ReadsCurrent
    OrphansSuperseded
    NeverPausesAgain
PROPERTIES
    StoredForward
    HandedTaken
