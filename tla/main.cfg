SPECIFICATION Spec
CONSTANTS
    w1 = w1  w2 = w2  k1 = k1  k2 = k2  t1 = t1  t2 = t2
    F = F  HandMade = HandMade
    Unset = Unset  Passphrase = Passphrase
    NoOne = NoOne  NoKey = NoKey  Malformed = Malformed  Hand = Hand
    OnionNames <- TwoKeys
    Writers <- TwoWriters  Keys <- TwoKeys  Times <- TwoTimes
    MaxRecords = 2  MaxCuts = 1
    Counting <- OneWriter
    Kinds = {"calc", "restart"}
    Wrap32 = 3  MaxSum = 5  ReportDelay = 2  MaxCount = 4  MaxTime = 5
    CommandLines <- AllLines
    OutFile = F
    CharBits = 2  ByteBits = 3  PublicLen = 3  IntLen = 2  LineLen = 4
    Builds <- AllBuilds
    DeviceFilters = 3
    MaxRuns = 3
SYMMETRY Same
INVARIANTS
    KeysFound
    OrderIrrelevant
    StatisticsTrue
    RecordsWhole
    StampsTrue
    KeysExtracted
CHECK_DEADLOCK FALSE
