CONSTANTS
    q0 = q0
    q1 = q1
    q2 = q2
    q3 = q3
    q4 = q4
    a = a
    b = b
    x = x
    y = y
    dead = dead
    MaxLen = 3
    States = {q0, q1, q2, q3, q4}
    Dead = dead
    Bytes = {a, b, x, y}
    Lead = {x}
    Cont = {y}
    Automata <- ReusePatterns
    Texts <- ReuseTexts
    Mult = 0
    Slack = 0
    ShortWalk = 1
    Reuse = TRUE
    Upfront = TRUE
    MaxWasted = 4
SPECIFICATION FairSpec
INVARIANTS
    NotesTrue
    NotesInBuffer
PROPERTIES
    SearchEnds
CHECK_DEADLOCK FALSE
