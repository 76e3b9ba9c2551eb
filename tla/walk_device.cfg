SPECIFICATION Spec
CONSTANTS
    Modes = {"cuda"}
    BatchNum = 3
    Loop = 40
    SizeWrap = 128
    Top = 64
    Order = 61
    Stray = {0, 1, 2}
    MaxSeeds = 2
INVARIANT
    KeyPairMatches
