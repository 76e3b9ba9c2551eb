SPECIFICATION Spec
CONSTANTS
    w1 = w1  w2 = w2  w3 = w3
    k1 = k1  k2 = k2  k3 = k3  k4 = k4
    NoKey = NoKey  NoOne = NoOne
    Workers <- ThreeWorkers
    Keys <- ThreeKeys
    NumNeed = 0
    Yaml = FALSE
    HasFout = FALSE
    KeepSeed = FALSE
    OldDirs <- OneOldDir
    Faults <- AllFaults
SYMMETRY WorkerSymmetry
INVARIANT
    OldKeysKept
