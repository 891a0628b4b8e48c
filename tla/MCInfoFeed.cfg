CONSTANTS
    l1 = l1
    p1 = p1
    u1 = u1
    App = App
    Link = Link
    None = None
    Loops = {l1}
    Pollers = {p1}
    Stoppers = {u1}
    Controller = 0
    RowCount = 2
    MaxVersion = 1
    Lossy = {Link}
    MaxCalls = 1
    MaxPending = 2
SPECIFICATION FairSpec
INVARIANT DumpIsLastEvent
PROPERTIES MirrorsGateway FailsForAReason RowsGetThrough
CHECK_DEADLOCK FALSE
