CONSTANTS
    Clients = {c1}
    MaxId = 2
    StartOptions <- FastAndSlow
    UpdateOptions <- FastOrUnset
    TrackingCbs = {TRUE}
    SharedEngine = FALSE
    EngineMayFail = TRUE
    ControlApi = FALSE
    MinInterval = 2
    DistanceSupported = TRUE
    MaxCrashes = 0
    MaxCalls = 5
    MaxNHz = 0
    NoCallback = NoCallback
SPECIFICATION FairSpec
CHECK_DEADLOCK FALSE
INVARIANTS AnsweredAtMostOnce
PROPERTIES Answered
