CONSTANTS
    Registries = {p1, p2}
    Empty = Empty
    k1 = k1
    k2 = k2
    k3 = k3
    c1 = c1
    c1f = c1f
    c2 = c2
    x1 = x1
    x2 = x2
    xl = xl
    Roots <- TrustRoots
    Drafts <- DraftSet
    Names <- NameSet
    Artifacts = {x1, x2}
    TooLarge = {xl}
    Foreign <- ForeignSet
    Spelling <- Spellings
    Pin <- Pins
    Drift = 1
    Grace = 2
    MaxNow = 3
    MaxFailures = 2
SPECIFICATION RegistrySpec
SYMMETRY ProcessSymmetry
INVARIANTS ReturnedIsSigned RevokedNotReturned SavedIsReadable InstalledIsSigned
CHECK_DEADLOCK FALSE
