CONSTANTS
    Rotators = {p1}
    Revokers = {q1, q2}
    MaxKeys = 7
    MaxNow = 7
    KeysUntil = 4
    TokenKids = 5
    ReadUntil = 4
    RotationPeriod = 2
    RetireWindow = 4
    TxnTime = 1
    None = None
    Tokens = {t1}
    Sessions = {s1, s2, s3}
    s1 = s1
    s2 = s2
    s3 = s3
    t1 = t1
    acme = acme
    globex = globex
    TokenTenant <- TokenTenants
    SessionTenant <- SessionTenants
    TokenWindow = 1
SPECIFICATION MCSpec
SYMMETRY InstanceSymmetry
INVARIANTS OneActiveKey NoDeadlock OutstandingTokenVerifies SpentOnceByItsTenant
PROPERTIES NoEarlyRotation RevokedForGood
CHECK_DEADLOCK FALSE
