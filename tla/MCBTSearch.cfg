CONSTANTS
    a = a
    b = b
    c = c
    nl = nl
    MaxLen = 3
    Pcs = {0, 1, 2, 3, 4, 5, 6, 7, 8, 9}
    Programs <- Patterns
    Bytes = {a, b, c, nl}
    Word = {a, b, c}
    NewLine = nl
    Texts <- PatternTexts
    Rate = 2
    Modes <- PatternModes
SPECIFICATION FairSpec
INVARIANTS
    TypeOK
    MarksFail
    SearchLinear
PROPERTIES
    DrivesLeftmost
    SearchEnds
CHECK_DEADLOCK FALSE
