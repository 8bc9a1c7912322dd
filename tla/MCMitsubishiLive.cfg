CONSTANTS
    Calls = {c1, c2}
    NoCall = NoCall
    Conns = {k1, k2}
    NoConn = NoConn
    AddrMod = 1
    Words = {0}
    InitWord = 0
    MaxWords = 1
    Versions = {"Qna3E", "A1E"}
    Policies <- MCNoRetry
    InitRetries = 0
SPECIFICATION FairSpec
PROPERTY EveryCallReturns
