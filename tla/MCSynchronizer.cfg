CONSTANTS
    t0 = t0
    a = a
    b = b
    i0 = i0
    i1 = i1
    sem = sem
    Null = Null
    IdleRank = 3
    NCPUS = 2
    App = {t0, a, b}
    Main = t0
    Idle <- MCIdle
    Rank <- MCRank
    Ranks = {1}
    Sync = {sem, x}
    Semaphores = {sem}
    Mutexes = {x}
    Conditions = {}
    Value <- MCOne
    MaxValue = 1
    Uninit <- MCNoTarget
    Calls = {"create", "migrate"}
    SyncCalls = {"p", "v", "lock", "unlock", "wait", "signal", "broadcast"}
SPECIFICATION SyncSpec
INVARIANTS SemaphoreExact MutualExclusion
PROPERTIES SemaphoreImplementsPermits MutexImplementsHandOver
