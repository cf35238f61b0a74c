\* Two later logins, a caller of the API and a purge.
SPECIFICATION FairSpec
CONSTANTS
    nil = nil
    Conn = {d1, k1, k2}
    Device = {d1}
    Api = {a1}
INVARIANTS
    LeakOnlyBeforeStart
    BlockedOnlyAfterOverlap
PROPERTIES
    ConnStable
    ReplaceReturns
    PendingTaken
