CONSTANTS
    findMemo = findMemo
    findNotes = findNotes
    batchNotes = batchNotes
    batchMemo = batchMemo
    d1 = d1
    d2 = d2
    Exports = {findMemo, findNotes, batchNotes, batchMemo}
    NoBlock = NoBlock
    Handed = Handed
    Keeps <- LongExports
    Drives = {d1, d2}
    Buffers <- LongBuffers
    Contents <- LongTexts
    OutCap = 2
    Page = 2
    AreaBytes = 2
    StackBytes = 3
    StartPages = 2
    MaxPages = 20
    EndPages = 19
    Modes <- RewriteModes
SPECIFICATION Spec
INVARIANTS
    MarksOfThisText
