SPECIFICATION Spec
CONSTANTS
    Clients = {c1, c2}
    ClearTasks = {k1}
    MaxTickets = 3
    MaxTransports = 1
    MaxGeneration = 2
INVARIANT ExistingNeverSubstituted
CHECK_DEADLOCK FALSE
