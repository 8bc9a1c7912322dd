CONSTANTS
    Calls = {c1, c2}
    NoCall = NoCall
    Conns = {k1, k2}
    NoConn = NoConn
    Areas = {a1}
    NoArea = NoArea
    Parts = 2
    Vals = {v1}
    InitVal = v0
    NoVal = NoVal
    Policies <- MCPolicies
    InitRetries = 2
SPECIFICATION FairSpec
INVARIANTS
    TransferOfOneAttempt
    RetryMasksFaults
PROPERTIES
    ImplementsService
    EveryCallReturns
