SPECIFICATION MCSpec
CONSTANTS
    DenoCalls <- OneToThree
    Permits = 1
    WallLimit = 2
    CpuLimit = 1
    MaxFaults = 1
    WasmCalls <- OneToTwo
    WasmLimit = 2
    Entries <- MCEntries
    Urls <- MCUrls
    Addresses <- MCAddresses
    Literals <- MCLiterals
    MaxPrevious = 3
    BodyLimit = 2
    ChunkSizes = {1, 2}
INVARIANTS
    BoundedIsolates
    CutIsNamed
    OnlyOwnTimeout
    CheckAgrees
    EveryHopSafe
PROPERTIES
    EveryScriptEnds
    EveryGuestEnds
\* The calls are bounded in number.
CHECK_DEADLOCK FALSE
