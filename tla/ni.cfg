SPECIFICATION NiFairSpec
CONSTANTS
    SuplRequests = {s1, s2}
    EsRequests = {e1}
    Replies = {"accept"}
    MaxChanges = 1
    None = None
CHECK_DEADLOCK FALSE
INVARIANTS OwnedOnce ThreadPerSession EndsForAReason
PROPERTIES ShownRequestEnds PromiseKept
