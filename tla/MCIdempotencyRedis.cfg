CONSTANTS
    r1 = r1
    r2 = r2
    r3 = r3
    h1 = h1
    h2 = h2
    i1 = i1
    i2 = i2
    Requests = {r1, r2, r3}
    Hashes = {h1, h2}
    BodyHash <- MCBodyHash
    Instances = {i1, i2}
    At <- MCAt
    MaxAttempts = 2
    MaxLapses = 1
    None = None
SPECIFICATION FairRedisSpec
PROPERTIES ImplementsContract EveryRequestAnswered
CHECK_DEADLOCK FALSE
