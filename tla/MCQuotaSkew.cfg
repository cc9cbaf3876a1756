CONSTANTS
    acme = acme
    globex = globex
    Tenants = {acme, globex}
    Global <- MCGlobal
    Override <- MCOverride
    Singles = {}
    Second = 2
    KeyTtl = 4
    OpenGrace = 2
    SystemClip = 1
    Offsets <- SkewedOffsets
    MaxTime = 5
    MaxErrors = 0
    Unset = Unset
SPECIFICATION QuotaSpec
INVARIANTS SystemLimitHolds
