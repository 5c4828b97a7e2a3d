SPECIFICATION FairSpec
CONSTANTS
    Handles = {h1, h2}
    WdsInstalled <- Both
    MaxRequests = 2
    MaxUpsets = 2
CHECK_DEADLOCK FALSE
INVARIANTS SubscribersFit ConnectionNeeded ModemAgrees
PROPERTIES OpenAnsweredUndisturbed
