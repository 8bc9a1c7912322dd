CONSTANTS
    Calls = {c1, c2}
    NoCall = NoCall
    Conns = {p1}
    NoConn = NoConn
    Addrs = {a1}
    NoAddr = NoAddr
    Vals = {v1}
    InitVal = v0
    NoVal = NoVal
    Mode = "modeRTU"
    TransMod = 1
    Policies <- MCPolicies
    InitRetries = 1
    MaxLine = 2
SPECIFICATION SerialFairSpec
INVARIANT InStepUntilDisturbed
PROPERTY ReturnsUnlessSilent
