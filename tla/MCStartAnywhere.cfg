CONSTANTS
    a = a
    b = b
    dash = dash
    nl = nl
    x = x
    y = y
    MaxLen = 3
    MaxStates = 12
    Pcs = {0, 1, 2, 3, 4, 5, 6, 7, 8}
    Bytes = {a, b, dash, nl, x, y}
    Word = {a, b}
    NewLine = nl
    States = {1, 2, 3, 4, 5, 6, 7, 8, 9, 10, 11, 12}
    Dead = 0
    Lead = {x}
    Cont = {y}
    Patterns <- AllPatterns
    Texts <- AllTexts
    Modes = {"none", "match", "noMatch"}
    Common = {{a, b}, {a, dash, nl, x, y}}
    Space = dash
    SwitchN = 1
    Slack = 1
    ShortWalk = 1
SPECIFICATION Spec
INVARIANTS
    TypeOK
    FindLinear
PROPERTIES
    DrivesLeftmost
