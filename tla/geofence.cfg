SPECIFICATION Spec
CONSTANTS
    Clients = {c1}
    AddOptions = {o1, NoOptions}
    ModifyOptions = {o2, NoOptions}
    NoOptions = NoOptions
    Nobody = Nobody
    MaxFences = 2
    MaxItems = 2
    MaxCalls = 3
    MaxWaiting = 2
    MaxBreaches = 1
    MaxFaults = 1
    MaxCrashes = 1
CHECK_DEADLOCK FALSE
INVARIANTS MapsAgree EngineAgrees CommandsAnswered
PROPERTIES BreachIsOwn
