CONSTANTS
    Archivers = {a1, a2}
    MaxRecords = 4
    HistoryRecords = {1, 3, 4}
    Poison = {1}
    BatchSize = 2
    MaxFailures = 2
    MaxSignals = 1
    Clients = {c1, c2, c3}
    EntityIds = {e1}
    Contents = {x, y}
    FirstVersions = {1, 2}
    MaxVersion = 3
    MaxChanges = 3
    NoRow = NoRow
SPECIFICATION MCSpec
INVARIANTS ArchivedIsStored WrittenOncePerArchiver HistoryReplays
PROPERTIES EveryRecordArchived
CHECK_DEADLOCK FALSE
