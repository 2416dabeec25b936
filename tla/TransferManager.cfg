SPECIFICATION FairSpec
CONSTANTS
    Runs = {k1, k2}
    Transfers = {t1}
    Nodes = {n1}
    Permits = 2
    DefaultLimit = 1
    None = None
    CallSets <- MCCallSets
INVARIANTS TypeOK PermitsCounted ControlsOwned SleeperHasReason ReaderHasReason LateWorkIsCancelled
PROPERTIES LifecycleKept ShutdownDrains
CHECK_DEADLOCK FALSE
