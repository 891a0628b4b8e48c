CONSTANTS
    t1 = t1
    t2 = t2
    t3 = t3
    App = App
    Link = Link
    None = None
    Tasks = {t1, t2, t3}
    Script <- Scripts
    Impatient = {t2}
    Lossy = {Link}
    Chunks = 2
    Looping = {}
    Contents = {0}
    Missing = {4}
    Endless = {2}
    MaxChunks = 1
    MaxCalls = 1
    MaxPending = 3
SPECIFICATION FairSpec
INVARIANTS ResultIsWhole NoSpuriousError DataLockDiscipline
PROPERTY ScriptsEnd
CHECK_DEADLOCK FALSE
