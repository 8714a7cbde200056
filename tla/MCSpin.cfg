CONSTANTS
    Proc = {t1, t2, t3}
    Null = Null
    MaxDepth = 3
SPECIFICATION FairSpec
INVARIANTS Exclusion LevelCountsNesting
PROPERTIES SomeoneGetsIn
