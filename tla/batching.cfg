SPECIFICATION Spec
CONSTANTS
    Clients = {c1}
    MaxSessions = 2
    MaxCalls = 4
    MaxWaiting = 1
    MaxReports = 1
    MaxFaults = 2
CHECK_DEADLOCK FALSE
INVARIANTS TypeOK EngineAgrees FullAsNeeded ClientAgrees
