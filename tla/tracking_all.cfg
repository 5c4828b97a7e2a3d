CONSTANTS
    Clients = {c1}
    MaxId = 2
    StartOptions <- SlowAndFar
    UpdateOptions <- FastAndFar
    TrackingCbs = {TRUE, FALSE}
    SharedEngine = FALSE
    EngineMayFail = FALSE
    ControlApi = FALSE
    MinInterval = 2
    DistanceSupported = TRUE
    MaxCrashes = 1
    MaxCalls = 4
    MaxNHz = 1
    NoCallback = NoCallback
SPECIFICATION FairSpec
CHECK_DEADLOCK FALSE
INVARIANTS EngineServes DistanceServed StopIsFinal
PROPERTIES EngineRecovers
