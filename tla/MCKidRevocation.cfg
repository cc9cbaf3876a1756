CONSTANTS
    k1 = k1
    k2 = k2
    k3 = k3
    k4 = k4
    Nodes = {n1, n2}
    KeyIds = {k1, k2, k3, k4}
    Keysets <- MCKeysets
    Malformed = {k3}
    MaxEntries = 1
    MaxQueue = 2
    MaxDrops = 1
    MaxRestarts = 1
    NoRequest = NoRequest
SPECIFICATION FairKidSpec
INVARIANTS RevokedIsRejected
PROPERTIES ReceivedTakesEffect
CHECK_DEADLOCK FALSE
