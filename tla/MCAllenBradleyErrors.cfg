CONSTANTS
    Calls = {c1, c2}
    NoCall = NoCall
    Conns = {k1, k2}
    NoConn = NoConn
    Tags = {t1}
    NoTag = NoTag
    Vals = {v1}
    InitVal = v0
    StatusVal = s0
    NoVal = NoVal
    Handles = {h1, h2}
    NoHandle = NoHandle
    Devices <- MCLenient
    Policies <- MCPolicies
    InitRetries = 1
SPECIFICATION Spec
INVARIANT ErrorsReported
