SPECIFICATION FairSpec
CONSTANTS
    w1 = w1  w2 = w2  w3 = w3
    k1 = k1  k2 = k2  k3 = k3  k4 = k4
    NoKey = NoKey  NoOne = NoOne
    Workers <- TwoWorkers
    Keys <- ThreeKeys
    NumNeed = 2
    Yaml = FALSE
    HasFout = TRUE
    KeepSeed = TRUE
    OldDirs <- OneOldDir
    Faults <- Crashes
INVARIANTS
    QuotaRespected
    QuotaEndsRun
    OneLateKey
    QuietTeardown
    AnnouncedOnDisk
    NoNameLostByKill
PROPERTIES
    Shutdown
    EveryKeySettled
    KeepsPromise
