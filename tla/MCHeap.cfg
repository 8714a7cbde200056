CONSTANTS
    Flow = {f}
    Cells = 16
    ELEMENT = 3
    WORD = 1
    Requests = {1, 3, 4}
    MULTICORE = TRUE
    Calls = {"alloc", "free", "delete"}
    NoFlow = NoFlow
SPECIFICATION Spec
INVARIANTS ListSound BlocksDisjoint ElementsInFreeMemory NothingLost Coalesced
