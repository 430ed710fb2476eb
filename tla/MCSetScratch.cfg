CONSTANTS
    i1 = i1
    i2 = i2
    Iters = {i1, i2}
    Members = {1, 2}
    Texts <- TheTexts
    Openings <- TheOpenings
    MaxOpens = 3
    Caches = {0, 2}
    StaticTop = 1
    Page = 3
    MaxWords = 17
    Half = 64
    Unit = 2
    Uses = {1}
    Factor = 1
    Charge <- TheCharge
    Chunk = 1
    MaxEpoch = 3
SYMMETRY Symmetric
SPECIFICATION Spec
INVARIANTS
    TypeOK
    RegionsIntact
    ReadsItsOwn
    MarksAreFailures
    SaidTrue
    MembersLinear
CHECK_DEADLOCK FALSE
