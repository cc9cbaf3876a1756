CONSTANTS
    r1 = r1
    r2 = r2
    r3 = r3
    r4 = r4
    h1 = h1
    h2 = h2
    Requests = {r1, r2, r3}
    Hashes = {h1, h2}
    BodyHash <- MCBodyHash
    MaxAttempts = 2
    MaxLapses = 1
    None = None
SPECIFICATION MemorySpec
INVARIANTS RunningHoldsLease
CHECK_DEADLOCK FALSE
