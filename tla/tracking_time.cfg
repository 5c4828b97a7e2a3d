CONSTANTS
    Clients = {c1, c2}
    MaxId = 2
    StartOptions <- FastAndSlow
    UpdateOptions <- FastAndSlow
    TrackingCbs = {TRUE}
    SharedEngine = TRUE
    EngineMayFail = FALSE
    ControlApi = TRUE
    MinInterval = 2
    DistanceSupported = TRUE
    MaxCrashes = 0
    MaxCalls = 5
    MaxNHz = 2
    NoCallback = NoCallback
SPECIFICATION Spec
CHECK_DEADLOCK FALSE
SYMMETRY ClientSymmetry
INVARIANTS EngineFits SessionsAreOwned
