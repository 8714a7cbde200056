CONSTANTS
    PERIOD = 2
    Relative = 0
    SPORADIC = 100
    Times = {1, 2, 3}
    Activations = {0, 5}
    Off = Off
SPECIFICATION FairSpec
INVARIANTS NoJobAhead NoJobSkipped 
PROPERTY Ends
CHECK_DEADLOCK FALSE
