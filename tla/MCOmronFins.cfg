CONSTANTS
    Calls = {c1, c2}
    NoCall = NoCall
    Conns = {k1, k2}
    NoConn = NoConn
    Addrs = {a1}
    NoAddr = NoAddr
    Vals = {v1}
    InitVal = v0
    NoVal = NoVal
    Node = n1
    InitNode = n0
    Routes = {n0}
    Devices <- MCChecking
    Policies <- MCPolicies
    InitRetries = 1
SPECIFICATION FairSpec
INVARIANTS
    TypeOK
    ConnectionInStep
    RetryMasksFaultsUnlessStale
PROPERTIES
    ImplementsService
    EveryCallReturns
