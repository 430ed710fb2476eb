CONSTANTS
    Kept = {0, 2}
    Split = {1, 3}
    Backtracked = {2, 3}
    Length = 3
    Origins = {0, 1}
    Tables <- SmallTables
    Shapes <- AllShapes
    MaxCap = 2
SPECIFICATION FairSpec
INVARIANTS
    TypeOK
    GatesHonest
    RetryAnswersTheSame
PROPERTIES
    DrivesSet
    NoGroundTwice
    DriveEnds
CHECK_DEADLOCK FALSE
