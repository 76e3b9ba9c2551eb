SPECIFICATION Spec
CONSTANTS
    w1 = w1  w2 = w2  w3 = w3
    k1 = k1  k2 = k2  k3 = k3  k4 = k4
    NoKey = NoKey  NoOne = NoOne
    Workers <- TwoWorkers
    Keys <- TwoKeys
    NumNeed = 1
    Yaml = FALSE
    HasFout = TRUE
    KeepSeed = FALSE
    OldDirs <- NoDirs
    Faults <- DiskFaults
INVARIANT AnnouncedOnDisk
