CONSTANTS
    a = a
    b = b
    x = x
    y = y
    Syllable = {a, b}
    Char = {x, y}
    Dict <- MCDict
    MaxLen = 3
    MaxSel = 1
    MaxNext = 1
SPECIFICATION Spec
INVARIANTS
    TypeOK
    StackBounded
    PathsSound
    SearchComplete
    PathContainsMatchesSpec
    TrimmedAreMaximal
PROPERTIES
    Termination
    NextRefinesAbstract
    TrimDropsOnlyContained
CHECK_DEADLOCK FALSE
