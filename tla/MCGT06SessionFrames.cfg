SPECIFICATION FairSpec
CONSTANTS
    Api = {}
    Attr = {VERSION}
    Other = {WHERE}
    Status = STATUS
    Kind = {"time", "heartbeat", "location", "alarm", "info"}
    Info = {zero, one}
    Zero = zero
    Short = short
    Mixed = mixed
    MaxCmd = 0
    MaxConn = 2
    nil = nil
INVARIANTS EventsTell AnnouncedUnlessReplyFailed
PROPERTY SilentIsClosed
CHECK_DEADLOCK FALSE
