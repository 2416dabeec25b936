SPECIFICATION Spec
CONSTANTS
    s1 = s1
    host = host
    Conns = {s1}
    Dedicated = {}
    Keys = {host}
    KeyOf <- OneKey
    Hop <- HopThroughS1
    Users = {u1}
    Threads = {t1}
    Monitors = {m1}
PROPERTY OutageAnnounced
CHECK_DEADLOCK FALSE
