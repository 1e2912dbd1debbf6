SPECIFICATION FairSpec
CONSTANTS
    c1 = c1
    c2 = c2
    s1 = s1
    s2 = s2
    depth = depth
    trade = trade
    Clients <- TwoClients
    Symbols <- TwoSymbols
    Kinds <- OneKind
    MaxSymbols = 1
    MaxAttempts = 2
    MaxSeq = 1
    NoKey = NoKey
    Loop = Loop

    
PROPERTIES
    
    HandlersEnd
