SPECIFICATION Spec
CONSTANTS
    s1 = s1
    host = host
    Conns = {s1}
    Dedicated = {}
    Keys = {host}
    KeyOf <- OneKey
    Hop <- HopThroughS1
    Users = {u1, u2}
    Threads = {t1, t2}
    Monitors = {m1}
PROPERTY AddingConsumerResurrectsNothing
CHECK_DEADLOCK FALSE
