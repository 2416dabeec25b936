SPECIFICATION Spec
CONSTANTS
    s1 = s1
    host = host
    Conns = {s1, d1}
    Dedicated = {d1}
    Keys = {host}
    KeyOf <- OneKey
    Hop <- HopThroughS1
    Users = {u1}
    Threads = {t1, t2}
    Monitors = {}
SYMMETRY Symmetry
CONSTRAINT FewBusy
INVARIANTS TypeOK RefCountMatchesConsumers TunnelHoldsParent RetiredChildOwnsNothing DedicatedIsRetired
CHECK_DEADLOCK FALSE
