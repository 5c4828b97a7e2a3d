SPECIFICATION FairSpec
CONSTANTS
    Timers = {odcpi, other}
    OdcpiTimer = odcpi
    None = None
    Period = 1
    Delays = {2}
    MaxStarts = 3
    MaxTime = 3
    MaxRequests = 2
CHECK_DEADLOCK FALSE
INVARIANTS TimersAreSound RequestsAreRepeated
PROPERTIES TimersEnd
