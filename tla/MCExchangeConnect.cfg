CONSTANTS
    a = a
    b = b
    c = c
    s1 = s1
    s2 = s2
    s3 = s3
    read = read
    ok = ok
    None = None
    Tasks = {a, b}
    Connectors = {a, b}
    MayCancel = {b}
    Sockets = {s1, s2}
    Lossy = {s1}
    Requests = {read}
    Silent = {}
    Replies = {ok}
    MaxCalls = 2
    MaxPending = 2
SPECIFICATION Spec
INVARIANT OneSession
CHECK_DEADLOCK FALSE
