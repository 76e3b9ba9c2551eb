SPECIFICATION FairSpec
CONSTANTS
    t1 = t1  t2 = t2  t3 = t3
    Host = Host  Unwritten = Unwritten
    Threads <- TwoThreads
    NumNeed = 3
    MaxMatches = 2
    Wrap = 16
    Orders = {TRUE, FALSE}
    MatchesEach = 3
    LastKernel = 2
INVARIANTS
    NothingForgotten
    SearchedOnce
    EndsOnlyWhenDone
    DrainedWhole
    FewMatchesLost
PROPERTIES
    KeepsPromise
    
    EndedKeysDelivered
