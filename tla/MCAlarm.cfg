CONSTANTS
    Flow = {f}
    Alarms = {a, b, c}
    Periods = {1, 3}
    Times = {1, INFINITE}
    MaxRank = 3
    SMP = FALSE
    MaxNested = 1
    Calls = {"construct", "destroy", "reset", "period"}
    INFINITE = INFINITE
    Null = Null
    Off = Off
SPECIFICATION Spec
INVARIANTS LatenessBounded QueueLocked
PROPERTY ImplementsClock
SYMMETRY Symmetry
