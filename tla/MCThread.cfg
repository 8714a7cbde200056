CONSTANTS
    t0 = t0
    a = a
    b = b
    i0 = i0
    i1 = i1
    Null = Null
    IdleRank = 3
    NCPUS = 2
    App = {t0, a, b}
    Main = t0
    Idle <- MCIdle
    Rank <- MCRank
    Ranks = {1}
    Sync = {q}
    Uninit <- MCNoTarget
    Calls = {"create", "join", "exit", "yield", "pass", "priority", "delete", "delete_live", "migrate"}
SPECIFICATION Spec
INVARIANTS  LinkedOnce ListsIntact RunningIsExecuting OneStackOneCPU NoSpinCycle CountIsExact ShutdownWhenDone ExecutingIsRunning
