CONSTANTS
    OrderingKeys = {k1, k2}
    OrderingKey = k1
    MaxSeq = 5
    GapTimeout = 1
    None = None
    Writers = {w1, w2}
    MaxEvents = 3
    MaxCrashes = 1
SPECIFICATION MCSpec
INVARIANTS AppliedInOrder AckedWasApplied RebuildOnlyAfterPurge
PROPERTIES RebuildOnlyAfterTimeout SequencedBetweenRestarts PublishedIsApplied
CHECK_DEADLOCK FALSE
