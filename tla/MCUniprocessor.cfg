CONSTANTS
    t0 = t0
    a = a
    b = b
    i0 = i0
    i1 = i1
    sem = sem
    Null = Null
    IdleRank = 3
    NCPUS = 1
    App = {t0, a, b}
    Main = t0
    Idle <- MCIdleUni
    Rank <- MCRankUni
    Ranks = {1, 2}
    Sync = {sem, d}
    Semaphores = {sem}
    Mutexes = {}
    Conditions = {d}
    Value <- MCOne
    MaxValue = 1
    Uninit <- MCNoTarget
    Calls = {"create", "create_suspended", "join", "exit", "yield", "suspend", "resume", "pass", "priority", "delete", "delete_live"}
    SyncCalls = {"p", "v", "wait", "signal", "broadcast", "destroy"}
SPECIFICATION SyncSpec
INVARIANTS LinkedOnce 
