CONSTANTS
    a = a
    b = b
    x = x
    y = y
    Syllable = {a, b}
    Char = {x, y}
    Dict <- MCDict
    MaxLen = 3
    MaxSel = 1
SPECIFICATION Spec
INVARIANTS
    TypeOK
    ResultChain
    CoverWhenSingletons
    ResultRespectsUserConstraints
CHECK_DEADLOCK FALSE
