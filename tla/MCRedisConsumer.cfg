CONSTANTS
    ShardCount = 2
    Consumers = {c1, c2}
    MaxEntries = 2
    MaxTotal = 2
    MaxCount = 2
    MaxFaults = 1
    Poison <- MCPoison
    StartId = "0"
    None = None
SPECIFICATION FairConsumerSpec
INVARIANTS NothingLost
PROPERTIES EveryEntryProcessed
