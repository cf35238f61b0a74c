\* Two devices, one with two goroutines; a client may hold one subscription, a
\* second closes it. When the bounds are reached, nothing is left to do.
SPECIFICATION Spec
CONSTANTS
    t1 = t1
    t2 = t2
    f1 = f1
    f2 = f2
    f3 = f3
    r1 = r1
    r2 = r2
    r3 = r3
    Torn = Torn
    nil = nil
    Tracker = {t1, t2}
    Feed = {f1, f2}
    trk <- Trackers
    Run = {r1, r2, r3}
    feeds <- Fields
    Client = {c1}
    Limit = 1
    MaxPub = 2
    MaxMsg = 3
SYMMETRY SameDevice
INVARIANTS
    ListsAgree
    StuckOnAnother
PROPERTY
    NoGap
CHECK_DEADLOCK FALSE
