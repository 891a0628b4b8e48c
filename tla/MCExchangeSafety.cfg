CONSTANTS
    a = a
    b = b
    c = c
    s1 = s1
    s2 = s2
    s3 = s3
    read = read
    ok = ok
    None = None
    Tasks = {a, b, c}
    Connectors = {a, b}
    MayCancel = {a, b, c}
    Sockets = {s1, s2}
    Lossy = {s1}
    Requests = {read}
    Silent = {read}
    Replies = {ok}
    MaxCalls = 2
    MaxPending = 2
SPECIFICATION Spec
SYMMETRY Symmetric
INVARIANTS AnswersMatch LockDiscipline SingleInFlightUnlessAbandoned
CHECK_DEADLOCK FALSE
