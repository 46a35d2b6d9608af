CONSTANTS
    a = a
    b = b
    x = x
    y = y
    Syllable = {a, b}
    Char = {x, y}
    Dict <- MCDict
    MaxLen = 4
    MaxSel = 0
SPECIFICATION Spec
INVARIANTS
    BestPathOptimal
CHECK_DEADLOCK FALSE
