CONSTANTS
    a = a
    b = b
    c = c
    ThreadList <- MCThreads
    CPUS = 3
    MAX = 2
    COOLDOWN = 1
    LIMIT = 95
    STEP = 15
    FIRST = 5
    Utilizations = {30, 60}
    Activities <- MCActivities
    PROMPT = TRUE
    Nobody = Nobody
SPECIFICATION Spec
INVARIANTS RevocationsBounded
PROPERTIES OrdersRespectLocks
