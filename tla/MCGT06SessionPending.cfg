SPECIFICATION Spec
SYMMETRY Callers
CONSTANTS
    Api = {a1, a2}
    Attr = {VERSION}
    Other = {WHERE}
    Status = STATUS
    Kind = {}
    Info = {zero}
    Zero = zero
    Short = short
    Mixed = mixed
    MaxCmd = 2
    MaxConn = 2
    nil = nil
PROPERTY PendingMeansUnanswered
CHECK_DEADLOCK FALSE
