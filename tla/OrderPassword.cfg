SPECIFICATION FairSpec
CONSTANTS
    o1 = o1
    o2 = o2
    o3 = o3
    Orders <- TwoOrders
    MaxEntries = 3
    MaxClients = 2
    MaxMisses = 2
    Idle = 2
    Lockout = 2
    Tachibana = Tachibana
    Kabu = Kabu
INVARIANTS
    RefusedNotHeld
    MissesAreConsecutive
    DialogOnlyWithout
PROPERTY
    CommandsEnd
CHECK_DEADLOCK FALSE
