CONSTANTS
    Clients = {c1, c2}
    EntityIds = {e1}
    Contents = {x, y}
    FirstVersions = {1, 2}
    MaxVersion = 3
    MaxChanges = 4
    NoRow = NoRow
SPECIFICATION EntitySpec
INVARIANTS DeletionAccepted
CHECK_DEADLOCK FALSE
