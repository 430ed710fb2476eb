CONSTANTS
    a = a
    b = b
    dash = dash
    nl = nl
    MaxLen = 3
    Pcs = {0, 1, 2, 3, 4, 5}
    Bytes = {a, b, dash, nl}
    Word = {a, b}
    NewLine = nl
    Chunk = 2
    Period = 2
    Reprobe = 2
    DominantMin = 3
    DominantExits = 1
    MemberMax = 2
    MemberStatesMax = 2
    Sets <- BodySets
    Ids = {0, 1, 2, 3}
    Longest = 7
    Texts <- BodyTexts
    MaxCap = 1
    Offers <- BodyOffers
    TriggerDiv = 16
    SetupBytes = 0
SPECIFICATION CachedSpec
INVARIANTS
    CachedTypeOK
    ScratchClear
    AnswersOwed
    NothingLeftBehind
    DriveLinear
CHECK_DEADLOCK FALSE
