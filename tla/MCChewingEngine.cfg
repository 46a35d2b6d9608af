CONSTANTS
    a = a
    b = b
    x = x
    y = y
    Syllable = {a, b}
    Char = {x, y}
    Dict <- MCDict
    MaxLen = 3
    MaxSel = 0
    MaxNext = 0
SPECIFICATION EngineSpec
INVARIANTS
    NextZeroAgreesWithConvert
CHECK_DEADLOCK FALSE
