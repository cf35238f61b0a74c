SPECIFICATION Spec
SYMMETRY Callers
CONSTRAINT Relevant
CONSTANTS
    Api = {a1, a2}
    Attr = {VERSION}
    Other = {}
    Status = STATUS
    Kind = {}
    Info = {zero}
    Zero = zero
    Short = short
    Mixed = mixed
    MaxCmd = 3
    MaxConn = 2
    nil = nil
INVARIANTS
    AttributeMatches
PROPERTIES
    AnsweredOnce
    SavedUnlessSubmitted
CHECK_DEADLOCK FALSE
