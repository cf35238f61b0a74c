\* Three devices, two of them of one tracker, publish once each. When the bounds
\* are reached, nothing is left to do.
SPECIFICATION FairSpec
CONSTANTS
    t1 = t1
    t2 = t2
    f1 = f1
    f2 = f2
    f3 = f3
    r1 = r1
    r2 = r2
    r3 = r3
    Torn = Torn
    nil = nil
    Tracker = {t1, t2}
    Feed = {f1, f2, f3}
    trk <- TwinTrackers
    Run = {r1, r2, r3}
    feeds <- TwinFields
    Client = {c1}
    Limit = 1
    MaxPub = 1
    MaxMsg = 2
PROPERTY
    PublishReturns
CHECK_DEADLOCK FALSE
