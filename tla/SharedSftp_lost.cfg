SPECIFICATION Spec
CONSTANTS
    Clients = {c1, c2}
    ClearTasks = {k1}
    MaxTickets = 3
    MaxTransports = 2
    MaxGeneration = 2
INVARIANT NoSessionOverLostTransport
CHECK_DEADLOCK FALSE
