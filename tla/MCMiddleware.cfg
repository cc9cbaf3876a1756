CONSTANTS
    r1 = r1
    r2 = r2
    r3 = r3
    r4 = r4
    h1 = h1
    h2 = h2
    Requests = {r1, r2, r4}
    Hashes = {h1, h2}
    BodyHash <- MCBodyHash
    MaxAttempts = 2
    MaxLapses = 2
    None = None
    acme = acme
    globex = globex
    Tenants = {acme, globex}
    Global <- MCGlobal
    Override <- MCOverride
    Singles <- MCSingles
    Second = 2
    KeyTtl = 4
    OpenGrace = 2
    SystemClip = 1
    Offsets <- MCOffsets
    MaxTime = 4
    MaxErrors = 1
    Unset = Unset
SPECIFICATION MCSpec
INVARIANTS AnswersGenuine EffectOnceUntilLapse
           WithinLimit LayersChargedTogether RetryAfterSuffices
PROPERTIES ContractUntilLapse EveryRequestAnswered
CHECK_DEADLOCK FALSE
