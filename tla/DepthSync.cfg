CONSTANTS
    bid = bid
    ask = ask
    Levels <- TwoLevels
    MaxVersion = 3
    LevelOf <- ThreeVersions
    Venues = {"binance_spot", "binance_perp", "bybit", "okex", "mexc"}
    MaxPending = 1
    MaxSessions = 3
    MaxLost = 1
    MaxFailures = 1
    MaxRestarts = 1
SPECIFICATION DepthFairSpec
PROPERTIES
    FollowsMarket
    RefusedIsServed
CHECK_DEADLOCK FALSE
