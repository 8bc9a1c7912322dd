CONSTANTS
    Calls = {c1, c2, c3}
    NoCall = NoCall
    Conns = {k1, k2}
    NoConn = NoConn
    Addrs = {a1}
    NoAddr = NoAddr
    Vals = {v1}
    InitVal = v0
    NoVal = NoVal
    Mode = "modeRTUOverTCP"
    TransMod = 1
    Policies <- MCPolicies
    InitRetries = 1
SYMMETRY Symmetric
SPECIFICATION Spec
INVARIANTS
    TypeOK
    OneSocket
    StreamInSync
    ReadFresh
    AttemptsBounded
    OnceWithoutFaults
    RetryMasksFaults
PROPERTY LateOnlyAfterFault
