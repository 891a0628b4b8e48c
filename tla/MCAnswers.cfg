CONSTANTS
    Lists <- LimitLists
    Areas <- SmallAreas
    Counts <- SmallCounts
    Lengths <- SmallLengths
    ValueLengths = {0, 1, 255}
    MaxRecords = 3
    MaxCut = 20
    None = None
    Temperatures <- SomeTemperatures
    Halves <- SomeHalves
    Regimes <- SomeRegimes
    Days <- SomeDays
    Hours = {0, 9, 10, 23}
    Minutes = {0, 9, 10, 59}
SPECIFICATION MCFairSpec
INVARIANTS Tiled AcceptedIsWhole RoundTrip FoundAsSent CutIsRefused SetpointsKept RegimeKept EndTimeExact
PROPERTY DecodingEnds
CHECK_DEADLOCK FALSE
