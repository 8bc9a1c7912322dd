CONSTANTS
    Calls = {c1}
    NoCall = NoCall
    Conns = {k1, k2}
    NoConn = NoConn
    AddrMod = 2
    Words = {0, 1}
    InitWord = 0
    MaxWords = 2
    Submitted <- MCSubmitted
SPECIFICATION FairSpec
INVARIANT TypeOK
PROPERTIES
    ImplementsWordServer
    HandlersFinish
