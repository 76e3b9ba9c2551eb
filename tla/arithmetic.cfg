SPECIFICATION PartsSpec
CONSTANTS
    Modes <- CpuModes
    BatchNum = 3
    Loop = 40
    SizeWrap = 128
    Top = 64
    Order = 61
    Stray <- Anything
    MaxSeeds = 2
    Base = 3
    SeedLen = 3
INVARIANTS
    KeyPairMatches
    EachPointOnce
    KeysApart
    RoundTrip
    FieldsRight
    ScalarsRight
    KeysAgree
    SignaturesVerify
    CodesInverse
