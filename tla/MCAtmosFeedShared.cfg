CONSTANTS
    l1 = l1
    l2 = l2
    p1 = p1
    o1 = o1
    u1 = u1
    u2 = u2
    x1 = x1
    x2 = x2
    y1 = y1
    c1 = c1
    App = App
    Link = Link
    None = None
    Loops = {l1}
    Pollers = {p1}
    Others = {o1}
    Impatient = {o1}
    Stoppers = {}
    Ids = {x1}
    Foreign = {y1}
    MayHide = {x1}
    MaxVersion = 1
    Consumers = {c1}
    Lossy = {Link}
    MaxCalls = 1
    MaxPending = 2
SPECIFICATION Spec
INVARIANTS StoreIsLastEvent OnlyConfiguredUnlessAbandoned
PROPERTIES MirrorsGateway PollIsFresh
CHECK_DEADLOCK FALSE
