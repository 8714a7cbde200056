CONSTANTS
    Client = client
    Server = server
    ClientISN = 0
    ServerISN = 3
    WINDOW = 2
    MSS = 1
    RETRIES = 2
    Attempts = 2
    Tries = 1
    Writers = {}
    Leavers = {client, server}
    Size = 2
    Copies = 1
    Capacity = 2
    MaxSequence = 4
SPECIFICATION FairSpec
INVARIANT FinWasSent
 
CHECK_DEADLOCK FALSE
