SPECIFICATION FairSpec
CONSTANTS
    Clients = {c1, c2}
    ClearTasks = {k1}
    MaxTickets = 3
    MaxTransports = 2
    MaxGeneration = 1
INVARIANTS TypeOK MarkerHasCreator
PROPERTIES MarkerRemovalWakes RegisteredWaiterResumes
CHECK_DEADLOCK FALSE
