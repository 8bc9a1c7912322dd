CONSTANTS
    Calls = {c1, c2}
    NoCall = NoCall
    Conns = {k1, k2}
    NoConn = NoConn
    Addrs = {a1}
    NoAddr = NoAddr
    Vals = {v1}
    InitVal = v0
    NoVal = NoVal
    Mode = "modeTCP"
    TransMod = 2
    Policies <- MCPolicies
    InitRetries = 1
SPECIFICATION FairSpec
INVARIANT Inductive
PROPERTIES
    ImplementsService
    EveryCallReturns
