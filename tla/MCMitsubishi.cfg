CONSTANTS
    Calls = {c1, c2}
    NoCall = NoCall
    Conns = {k1, k2}
    NoConn = NoConn
    AddrMod = 1
    Words = {0, 1}
    InitWord = 0
    MaxWords = 1
    Versions = {"Qna3E"}
    Policies <- MCPolicies
    InitRetries = 1
SYMMETRY Symmetric
SPECIFICATION Spec
INVARIANTS
    TypeOK
    ConnectionInStep
    ReadFresh
    RetriesAsAllowed
PROPERTY ImplementsService
