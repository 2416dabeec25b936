SPECIFICATION FairSpec
CONSTANTS
    Protocols = {"xmodem", "ymodem"}
    Files <- MCFiles
    Modulus = 4
    Retries = 3
    MaxFaults = 3
INVARIANTS
    TypeOK
    WrittenInOrder
    OkMeansComplete
    DamageIsRepaired
PROPERTY Termination
CHECK_DEADLOCK FALSE
