SPECIFICATION Spec
CONSTANTS
    m1 = m1
    m2 = m2
    w1 = w1
    Networks = {m1, m2, w1}
    TypeOf <- TwoMobile
    MaxNetworks = 2
    MaxItem = 2
    Clients = {native}
    Xtra = xtra
    Items = {tac}
    Net = net
    Values = {v1}
    None = None
    Lists <- Singly
    MaxWaiting = 2
    MaxCalls = 2
    MaxNews = 4
    MaxRestarts = 1
SYMMETRY NetworkSymmetry
CHECK_DEADLOCK FALSE
INVARIANTS MapsAreInverse SubscribersAreCurrent NetworksAreCurrent
