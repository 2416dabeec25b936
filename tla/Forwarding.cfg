SPECIFICATION Spec
CONSTANTS
    Tasks = {k1, k2}
    Rules = {"L", "R"}
    RemoteRules = {"R"}
    Ports = {"p"}
    PortOf <- MCPortOf
    Connections = {c1, c2}
    CallSets <- MCCallSets
    MaxManagers = 2
    MaxForwards = 3
SYMMETRY Symmetry
INVARIANTS TypeOK RunningIsOwned TargetIsLive RuleNotLost
CHECK_DEADLOCK FALSE
