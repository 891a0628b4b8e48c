CONSTANTS
    a = a
    b = b
    c = c
    s1 = s1
    s2 = s2
    s3 = s3
    read = read
    ok = ok
    None = None
    Tasks = {a, b, c}
    Connectors = {a}
    MayCancel = {b}
    Sockets = {s1}
    Lossy = {s1}
    Requests = {read}
    Silent = {}
    Replies = {ok}
    MaxCalls = 2
    MaxPending = 2
SPECIFICATION Spec
INVARIANT SingleInFlight
CHECK_DEADLOCK FALSE
