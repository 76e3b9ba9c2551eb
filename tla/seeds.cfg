SPECIFICATION FairSpec
CONSTANTS
    w1 = w1  w2 = w2
    Saver = Saver
    NoOne = NoOne
    Workers <- TwoWorkers
    Base = 2
    Len = 3
    LastSeed = 2
    MaxRuns = 2
INVARIANTS
    DistinctSeeds
    FewSeedsSkipped
    NothingRepeatedAfterEnd
PROPERTIES
    OnlyForward
    EndsWhenTold
