CONSTANTS
    l1 = l1
    l2 = l2
    p1 = p1
    o1 = o1
    u1 = u1
    u2 = u2
    x1 = x1
    x2 = x2
    y1 = y1
    c1 = c1
    App = App
    Link = Link
    None = None
    Loops = {l1, l2}
    Pollers = {}
    Others = {o1}
    Impatient = {}
    Stoppers = {u1, u2}
    Ids = {x1}
    Foreign = {y1}
    MayHide = {}
    MaxVersion = 1
    Consumers = {}
    Lossy = {Link}
    MaxCalls = 1
    MaxPending = 3
SPECIFICATION FairSpec
INVARIANTS OneLoop StopWaits
PROPERTIES ChangesGetThrough StopComesBack
CHECK_DEADLOCK FALSE
