CONSTANTS
    t0 = t0
    a = a
    b = b
    i0 = i0
    i1 = i1
    Null = Null
    IdleRank = 3
    NCPUS = 2
    App = {t0, a}
    Main = t0
    Idle <- MCIdle
    Rank <- MCRankTwo
    Ranks = {1, 2}
    Sync = {q}
    Uninit <- MCNoTarget
    Calls = {"create", "create_suspended", "suspend", "resume", "exit", "sleep", "wakeup", "wakeup_all", "migrate"}
SPECIFICATION FairSpec
PROPERTIES DispatchEnds TurnsAreTaken
INVARIANTS PreemptionNotified
