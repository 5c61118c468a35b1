SPECIFICATION LimiterFairSpec
CONSTANTS
    t1 = t1
    t2 = t2
    short = short
    long = long
    Thread = {t1, t2}
    Window = {short, long}
    MaxCalls <- MCMaxCalls
    Period <- MCPeriod
    CallsPerThread = 3
    MaxIdleTime = 4
INVARIANTS LimiterTypeOK WindowRespected
PROPERTIES SleepsOnce CallsGranted
