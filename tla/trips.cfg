SPECIFICATION Spec
CONSTANTS
    Clients = {c1}
    Distances = {1, 3}
    Intervals = {1, 2}
    Size = 16
    MaxTrips = 3
    MaxTravel = 4
    MaxCalls = 4
    MaxFaults = 1
CHECK_DEADLOCK FALSE

CONSTRAINT Orderly
INVARIANTS TypeOK NotEarly TripsAreServed
