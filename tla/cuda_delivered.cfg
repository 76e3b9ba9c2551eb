SPECIFICATION FairSpec
CONSTANTS
    t1 = t1  t2 = t2  t3 = t3
    Host = Host  Unwritten = Unwritten
    Threads <- TwoThreads
    NumNeed = 0
    MaxMatches = 2
    Wrap = 16
    Orders = {TRUE}
    MatchesEach = 1
    LastKernel = 2
PROPERTY KeysDelivered
