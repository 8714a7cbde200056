CONSTANTS
    Client = client
    Server = server
    ClientISN = 0
    ServerISN = 3
    WINDOW = 2
    MSS = 1
    RETRIES = 2
    Attempts = 1
    Tries = 1
    Writers = {client}
    Leavers = {}
    Size = 2
    Copies = 1
    Capacity = 2
    MaxSequence = 4
SPECIFICATION Spec
INVARIANTS InOrder WriteMeansReceived HandshakeAgreed
CHECK_DEADLOCK FALSE
