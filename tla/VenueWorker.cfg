CONSTANTS
    Clients = {c1, c2}
    Tasks = {t1, t2}
    Proxies = {"direct", "p"}
    MaxPages = 2
    MaxRunning = 2
    MaxCoroutines = 3
    MaxTrades = 1
SPECIFICATION WorkerSpec
SYMMETRY Symmetric
INVARIANTS
    FetchesSound
    ProxyInUse
    TradesTold
PROPERTY StoppingEndsStream
CHECK_DEADLOCK FALSE
