SPECIFICATION Spec
CONSTANTS
    Nodes = {n}
    Conns = {c1, c2}
    Threads = {t1, t2}
    Capacity = 2
    Marks = {"Ready", "Connecting", "Error", "Disconnected"}
    MaxCalls = 2
    None = None
SYMMETRY Symmetry
INVARIANT
    GenerationsOrdered
CHECK_DEADLOCK FALSE
