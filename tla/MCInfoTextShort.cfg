CONSTANTS
    Characters = {65, 32}
    Low = {90}
    High = {0, 7, 255}
    MaxParts = 4
    MaxNuls = 2
SPECIFICATION ValueSpec
INVARIANT ExpandsAsWritten
CHECK_DEADLOCK FALSE
