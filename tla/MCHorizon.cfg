CONSTANTS
    PERIOD = 2
    Relative = 0
    SPORADIC = 4
    Times = {3}
    Activations = {0}
    Off = Off
SPECIFICATION Spec
INVARIANT ReleasedInOrder
CHECK_DEADLOCK FALSE
