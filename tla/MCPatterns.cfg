CONSTANTS
    q0 = q0
    q1 = q1
    q2 = q2
    q3 = q3
    q4 = q4
    a = a
    b = b
    x = x
    y = y
    dead = dead
    MaxLen = 5
    States = {q0, q1, q2, q3, q4}
    Dead = dead
    Bytes = {a, b, x, y}
    Lead = {x}
    Cont = {y}
    Automata <- Patterns
    Texts <- PatternTexts
    Mult = 1
    Slack = 1
    ShortWalk = 2
    Reuse = FALSE
    Upfront = TRUE
    MaxWasted = 0
SPECIFICATION Spec
INVARIANTS
    TypeOK
    NotesClosed
    NotesComplete
    MarkedLinear
PROPERTIES
    DrivesLeftmost
    NotesKept
CHECK_DEADLOCK FALSE
