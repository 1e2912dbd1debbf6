SPECIFICATION EventsFairSpec
CONSTANTS
    o1 = o1
    o2 = o2
    Orders <- TwoOrders
    Quantity = 2
    MaxFrames = 3
    MaxRetries = 2
    MaxLogins = 3
    MaxCloses = 1
INVARIANTS
    ToldRightly
    NotOvercounted
PROPERTIES
    LoopGoesOn
CHECK_DEADLOCK FALSE
