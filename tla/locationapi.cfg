SPECIFICATION Spec
CONSTANTS
    Clients = {c1, c2}
    Adapters = {"gnss", "batching"}
    MaxUpdates = 1
    MaxWaiting = 1
    MaxFailedLoads = 1
CHECK_DEADLOCK FALSE
INVARIANTS TheGoneAreForgotten ClientsAreServed
PROPERTIES DeletedInTheEnd
