--------------------------- MODULE DefaultSearch ---------------------------
(***************************************************************************)
(* The search state a standalone module keeps of its own, one per pattern  *)
(* export, for a caller that drives the raw exports and hands no search    *)
(* block over (compile/default_search.go and the wrappers that call it).   *)
(*                                                                         *)
(* Several drives share one instance and interleave between their calls.   *)
(* The find itself is taken at its word, which SearchNotes and BTSearch    *)
(* check: on marks that are failures of its text it answers right, and it  *)
(* adds only such marks; on others it may answer anything.                 *)
(***************************************************************************)
EXTENDS Integers, Sequences, FiniteSets

CONSTANTS
    Exports,    \* the pattern exports of the module that keep state
    NoBlock,    \* the search global's 0
    Handed,     \* the search global naming a block of a caller's own
    Keeps,      \* export -> what it keeps, see Kind
    Drives,     \* the callers' drives
    Buffers,    \* where the callers put their texts, as [ptr, len]
    Contents,   \* what a buffer may hold, see Content
    OutCap,     \* the matches a caller's batch buffer holds
    Page, AreaBytes, StackBytes,   \* sizes, in bytes
    StartPages, MaxPages,          \* memory at the start, and its maximum
    EndPages,   \* defMaxGrowEnd, in pages
    Modes       \* what the host may do, see Mode

NoMatch == -1
\* Bytes kept per position, whether one call runs many finds, and the length
\* no match is shorter than.
Kind == [keeps : {"notes", "memo"}, per : Nat \ {0}, batch : BOOLEAN, minLen : Nat]
Buffer == [ptr : Nat, len : Nat]
\* A text, as its matches and the positions from which the one automaton state
\* or instruction that is ever marked leads to no match.
Content == [len : Nat, ends : UNION {[0..k -> -1..k] : k \in {b.len : b \in Buffers}},
            fails : SUBSET Nat]
\* The exports that are driven, over texts in which buffers; the drives that hand
\* a block of their own; whether the others write 0 to the search global before
\* each call; whether memory may be refused below the maximum; and what the host
\* set its scratch base to, 0 for nothing.
Mode == [uses : SUBSET Exports, buffers : SUBSET Buffers, hands : SUBSET Drives,
         zeroes : BOOLEAN, refuse : BOOLEAN, base : Nat]

ASSUME ExportAssumption ==
    /\ NoBlock \notin Exports /\ Handed \notin Exports /\ NoBlock # Handed
    /\ Keeps \in [Exports -> Kind]
ASSUME TextAssumption ==
    /\ Buffers \subseteq Buffer /\ Contents \subseteq Content
    /\ \A c \in Contents : /\ DOMAIN c.ends = 0..c.len /\ c.fails \subseteq 0..c.len
                           /\ \A s \in 0..c.len : c.ends[s] = NoMatch \/ c.ends[s] >= s
    \* There is one empty text.
    /\ \A b, c \in Contents : b.len = 0 /\ c.len = 0 => b = c
ASSUME SizeAssumption ==
    /\ {Page, AreaBytes, StackBytes, StartPages, OutCap} \subseteq Nat \ {0}
    /\ MaxPages \in Nat /\ EndPages \in Nat
    /\ StartPages <= EndPages /\ StartPages <= MaxPages
ASSUME ModeAssumption == Drives # {} /\ Modes \subseteq Mode

VARIABLES
    mode,     \* fixed
    held,     \* what each buffer holds
    drive,    \* each drive: export, buffer, text, from, prevEnd, answers, status
    search,   \* the search global: NoBlock, Handed, or the export whose area it names
    pages,    \* the size of memory
    floor,    \* the fallback scratch's floor
    area,     \* export -> its area's address, 0 until first use
    blk,      \* export -> the block in its area
    rec,      \* export -> the record after it: the window and the text
    region,   \* export -> its notes or memo region
    pc,       \* where the running call is, "host" between calls
    call,     \* its locals
    scratch,  \* the frame stack of the running find, <<first, past the last>>
    asked,    \* ghost: export -> bytes of the regions grown for it, ever
    largest,  \* ghost: export -> the most bytes a call has needed
    last      \* ghost: export -> the drive whose call used the default last

vars == <<mode, held, drive, search, pages, floor, area, blk, rec, region,
          pc, call, scratch, asked, largest, last>>
memory == <<pages, floor, area, region, asked, largest>>

Larger(x, y) == IF x > y THEN x ELSE y
Smaller(x, y) == IF x < y THEN x ELSE y

d == call.drive
e == drive[d].export
text == drive[d].text
at == drive[d].buf
\* A default's block is named, rightly or not.
Named == search \in Exports
-----------------------------------------------------------------------------
(* The host. *)

ZeroBlock == [armed |-> FALSE, seen |-> FALSE, ptr |-> 0, len |-> 0, resume |-> 0,
              high |-> 0, tripped |-> FALSE, memo |-> FALSE]
NoRecord == [live |-> FALSE, ptr |-> 0, len |-> 0, lo |-> 0, hi |-> 0]
NoRegion == [ptr |-> 0, cap |-> 0, marks |-> {}]
NoScratch == <<0, 0>>

ContentsOf(b) == {c \in Contents : c.len = b.len}
\* What an export finds in a text: nothing shorter than its minimal length.
FoundBy(x, c) ==
    [c EXCEPT !.ends = [s \in DOMAIN c.ends |-> IF c.ends[s] - s >= Keeps[x].minLen
                                               THEN c.ends[s] ELSE NoMatch]]
DriveOf(x, b, c) ==
    [export |-> x, buf |-> b, text |-> FoundBy(x, c), from |-> 0, prevEnd |-> NoMatch,
     answers |-> << >>, status |-> "driving"]
NoCall == [drive |-> CHOOSE k \in Drives : TRUE, mine |-> FALSE, pos |-> 0, count |-> 0,
           prev |-> NoMatch]

Init ==
    /\ mode \in Modes
    /\ held \in {h \in [Buffers -> Contents] : \A b \in Buffers : h[b].len = b.len}
    /\ drive \in {f \in [Drives -> {DriveOf(x, b, held[b]) : x \in mode.uses, b \in mode.buffers}] :
                    TRUE}
    /\ search = NoBlock
    /\ pages = StartPages /\ floor = StartPages * Page
    /\ area = [x \in Exports |-> 0] /\ blk = [x \in Exports |-> ZeroBlock]
    /\ rec = [x \in Exports |-> NoRecord] /\ region = [x \in Exports |-> NoRegion]
    /\ pc = "host" /\ call = NoCall /\ scratch = NoScratch
    /\ asked = [x \in Exports |-> 0] /\ largest = [x \in Exports |-> 0]
    /\ last = [x \in Exports |-> << >>]

\* Mutant: an empty match does not move the drive on.
ResumeAtEnd(start, end) == end
ResumeAfter(start, end) == IF end > start THEN end ELSE start + 1

\* A find export answers -1 before it looks at its default: nothing is left to
\* search, or less than any match.
TooShort(k) ==
    /\ ~Keeps[drive[k].export].batch
    /\ \/ drive[k].from > drive[k].text.len
       \/ /\ Keeps[drive[k].export].minLen > 1
          /\ drive[k].text.len - drive[k].from < Keeps[drive[k].export].minLen

GlobalFor(k) == IF k \in mode.hands THEN Handed
                ELSE IF mode.zeroes THEN NoBlock ELSE search

AnswerAtOnce(k) ==
    /\ pc = "host" /\ drive[k].status = "driving" /\ TooShort(k)
    /\ drive' = [drive EXCEPT ![k].status = "done"]
    /\ search' = GlobalFor(k)
    /\ UNCHANGED <<mode, held, blk, rec, pc, call, scratch, last, memory>>

Call(k) ==
    /\ pc = "host" /\ drive[k].status = "driving" /\ ~TooShort(k)
    /\ call' = [NoCall EXCEPT !.drive = k, !.pos = drive[k].from]
    /\ search' = GlobalFor(k)
    /\ pc' = "enter"
    /\ UNCHANGED <<mode, held, drive, blk, rec, scratch, last, memory>>

Free(b) == \A k \in Drives : drive[k].buf = b => drive[k].status # "driving"

\* A drive that has ended is followed by another, over a buffer the caller may
\* rewrite once no drive over it is under way.
Begin(k) ==
    /\ pc = "host" /\ drive[k].status # "driving"
    /\ \E x \in mode.uses, b \in mode.buffers :
          \E c \in (IF Free(b) THEN ContentsOf(b) ELSE {held[b]}) :
              /\ held' = [held EXCEPT ![b] = c]
              /\ drive' = [drive EXCEPT ![k] = DriveOf(x, b, c)]
    /\ last' = [x \in Exports |-> IF last[x] = <<k>> THEN << >> ELSE last[x]]
    /\ UNCHANGED <<mode, search, blk, rec, pc, call, scratch, memory>>
-----------------------------------------------------------------------------
(* Memory. *)

PagesFor(bytes) == (bytes + Page - 1) \div Page

\* Mutant: the floor stays at the end of the tables.
FloorStays == floor
\* emitGrow: past everything grown so far.
FloorRaised == Smaller(pages', EndPages) * Page

\* emitGrow: the first new byte, or refused.
CanGrow(bytes) == /\ bytes <= EndPages * Page
                  /\ pages + PagesFor(bytes) <= MaxPages
MayRefuse(bytes) == mode.refuse \/ ~CanGrow(bytes)
Grow(bytes) == /\ CanGrow(bytes)
               /\ pages' = pages + PagesFor(bytes)
               /\ floor' = FloorRaised
GrownAt == pages * Page

\* emitNeed.
Need == (text.len + 1) * Keeps[e].per

\* Mutant: the new capacity is not stored.
CapacityForgotten(bytes) == region[e].cap
\* emitRegion stores what it asked for.
Capacity(bytes) == bytes
NewSize == Larger(Need, 2 * region[e].cap)

\* emitRegion, for a region that is too small; fresh pages are zero.
GrowRegion ==
    /\ Grow(NewSize)
    /\ region' = [region EXCEPT ![e] = [ptr |-> GrownAt, cap |-> Capacity(NewSize),
                                        marks |-> {}]]
    /\ asked' = [asked EXCEPT ![e] = @ + NewSize]
    /\ largest' = [largest EXCEPT ![e] = Larger(@, Need)]
-----------------------------------------------------------------------------
(* Entering a call: emitEnter. *)

\* The search global names a block, a caller's as far as the module knows.
EnterNamed ==
    /\ pc = "enter" /\ search # NoBlock
    /\ pc' = "loop"
    /\ UNCHANGED <<mode, held, drive, search, blk, rec, call, scratch, last, memory>>

EnterDefault ==
    /\ pc = "enter" /\ search = NoBlock /\ area[e] # 0
    /\ call' = [call EXCEPT !.mine = TRUE]
    /\ pc' = "continue"
    /\ UNCHANGED <<mode, held, drive, search, blk, rec, scratch, last, memory>>

GrowArea ==
    /\ pc = "enter" /\ search = NoBlock /\ area[e] = 0
    /\ Grow(AreaBytes)
    /\ area' = [area EXCEPT ![e] = GrownAt]
    /\ call' = [call EXCEPT !.mine = TRUE]
    /\ pc' = "continue"
    /\ UNCHANGED <<mode, held, drive, search, blk, rec, region, scratch, asked,
                   largest, last>>

\* No memory for a default: the call runs without a block.
AreaRefused ==
    /\ pc = "enter" /\ search = NoBlock /\ area[e] = 0 /\ MayRefuse(AreaBytes)
    /\ pc' = "loop"
    /\ UNCHANGED <<mode, held, drive, search, blk, rec, call, scratch, last, memory>>

InWindow(r) == r.lo <= call.pos /\ call.pos <= r.hi

Continues == /\ rec[e].live /\ rec[e].ptr = at.ptr /\ rec[e].len = at.len
             /\ InWindow(rec[e])

\* Mutant: the high-water mark goes too.
ResetAll(b) == ZeroBlock
\* emitResetBlock: all but the notes region and what has to be cleared of it.
Reset(b) == [ZeroBlock EXCEPT !.high = b.high]

Continue ==
    /\ pc = "continue"
    /\ IF Continues THEN UNCHANGED <<blk, rec>>
       ELSE /\ blk' = [blk EXCEPT ![e] = Reset(@)]
            /\ rec' = [rec EXCEPT ![e] = [@ EXCEPT !.ptr = at.ptr, !.len = at.len]]
    /\ pc' = "give"
    /\ UNCHANGED <<mode, held, drive, search, call, scratch, last, memory>>

WantsRegion ==
    IF Keeps[e].keeps = "notes" THEN Keeps[e].batch \/ blk[e].armed
                                ELSE blk[e].tripped /\ ~blk[e].memo

\* emitNotesAndMemo, the region: kept when it holds enough, grown, or refused.
GetRegion ==
    /\ pc = "give" /\ WantsRegion
    /\ \/ region[e].cap >= Need
          /\ largest' = [largest EXCEPT ![e] = Larger(@, Need)]
          /\ UNCHANGED <<pages, floor, region, asked>>
       \/ region[e].cap < Need /\ GrowRegion
       \/ region[e].cap < Need /\ MayRefuse(NewSize)
          /\ UNCHANGED <<pages, floor, region, asked, largest>>
    /\ pc' = "hand"
    /\ UNCHANGED <<mode, held, drive, search, area, blk, rec, call, scratch, last>>

NeedsNoRegion ==
    /\ pc = "give" /\ ~WantsRegion
    /\ pc' = "hand"
    /\ UNCHANGED <<mode, held, drive, search, blk, rec, call, scratch, last, memory>>

\* memory.fill over this text's rows.
Zeroed(r) == {m \in r.marks : m > text.len}

HandsMemo == /\ Keeps[e].keeps = "memo" /\ blk[e].tripped /\ ~blk[e].memo
             /\ region[e].cap >= Need

\* The memo, if there is one to hand over, and then the block itself.
HandOver ==
    /\ pc = "hand"
    /\ IF HandsMemo
       THEN /\ region' = [region EXCEPT ![e].marks = Zeroed(region[e])]
            /\ blk' = [blk EXCEPT ![e].memo = TRUE]
       ELSE UNCHANGED <<region, blk>>
    /\ search' = e
    /\ pc' = "loop"
    /\ UNCHANGED <<mode, held, drive, pages, floor, area, rec, call, scratch, asked,
                   largest, last>>
-----------------------------------------------------------------------------
(* The finds of a call: one, or as many as the batch buffer takes. *)

Full == Keeps[e].batch /\ (call.count >= OutCap \/ call.pos > text.len)

NextFind ==
    /\ pc = "loop"
    /\ pc' = IF Full THEN "leave"
             ELSE IF Keeps[e].keeps = "memo" THEN "place" ELSE "find"
    /\ UNCHANGED <<mode, held, drive, search, blk, rec, call, scratch, last, memory>>

\* The default a find works on: the one the global names, whoever's it is.  On a
\* block handed over, or none, it has no marks to read here.
Block == blk[search]
Marks == region[search].marks

UsesNotes == /\ Named /\ Keeps[e].keeps = "notes" /\ Keeps[search].keeps = "notes"
             /\ Block.armed /\ region[search].cap >= Need
UsesMemo == /\ Named /\ Keeps[e].keeps = "memo" /\ Block.tripped /\ Block.memo
            /\ region[search].cap >= Need

\* emitBTScratchBaseFree, and never below the memo in use.
ScratchBase == IF mode.base = 0 THEN pages * Page ELSE Larger(mode.base, floor)
ScratchFrom == IF UsesMemo THEN Larger(ScratchBase, region[search].ptr + Need)
                           ELSE ScratchBase
ScratchTo == ScratchFrom + StackBytes
ScratchPages == Larger(pages, PagesFor(ScratchTo))
ScratchFits == ScratchTo <= EndPages * Page /\ ScratchPages <= MaxPages

\* A Backtracking find's frame stack, above everything.
PlaceStack ==
    /\ pc = "place" /\ ScratchFits
    /\ scratch' = <<ScratchFrom, ScratchTo>>
    /\ pages' = ScratchPages
    /\ pc' = "find"
    /\ UNCHANGED <<mode, held, drive, search, floor, area, blk, rec, region, call,
                   asked, largest, last>>

SameNotes == Block.seen /\ Block.ptr = at.ptr /\ Block.len = at.len /\ Block.resume = call.pos
\* bt_text_len holds the length + 1, and 0 before the memo's first use.
SameMemo == Block.len = 0 \/ (Block.ptr = at.ptr /\ Block.len = at.len + 1)

\* The marks the find reads, once it has looked at whose they are.
Read ==
    CASE UsesNotes -> IF SameNotes THEN Marks ELSE {m \in Marks : m >= Block.high}
      [] UsesMemo  -> IF SameMemo THEN Marks ELSE {m \in Marks : m > text.len}
      [] OTHER     -> {}
ReadHere == {m \in Read : m <= text.len}

Leftmost(s) == /\ s \in call.pos..text.len /\ text.ends[s] # NoMatch
               /\ \A k \in call.pos..(s - 1) : text.ends[k] = NoMatch
\* What the find may answer: the start of a match, or NoMatch.
Answers ==
    IF ReadHere \subseteq text.fails
    THEN {s \in 0..text.len : Leftmost(s)} \union
         (IF \E s \in 0..text.len : Leftmost(s) THEN {} ELSE {NoMatch})
    ELSE {s \in call.pos..text.len : text.ends[s] # NoMatch} \union {NoMatch}

\* What the find leaves in the block and its region: an unused block may arm or
\* trip, used marks grow by failures of this text.
NotesAfter(s) ==
    IF ~UsesNotes
    THEN /\ IF Named THEN \E arms \in {Block.armed, TRUE} :
                            blk' = [blk EXCEPT ![search].armed = arms]
                     ELSE UNCHANGED blk
         /\ UNCHANGED region
    ELSE IF Block.seen /\ ~SameNotes
    THEN /\ \E arms \in BOOLEAN :
               blk' = [blk EXCEPT ![search] =
                          [@ EXCEPT !.high = 0, !.seen = FALSE, !.armed = arms]]
         /\ region' = [region EXCEPT ![search].marks = Read]
    ELSE \E h \in {0} \union {m + 1 : m \in text.fails} :
         /\ region' = [region EXCEPT ![search].marks =
                                Read \union {m \in text.fails : m < h}]
         /\ blk' = [blk EXCEPT ![search] =
                [@ EXCEPT !.ptr = at.ptr, !.len = at.len, !.seen = TRUE,
                          !.high = Larger(IF Block.seen THEN Block.high ELSE 0, h),
                          !.resume = IF s = NoMatch THEN Block.resume
                                                    ELSE ResumeAfter(s, text.ends[s])]]

Dropped(s) == IF s = NoMatch THEN {} ELSE s..text.ends[s]

MemoAfter(s) ==
    IF ~UsesMemo
    THEN /\ IF Named THEN \E trips \in {Block.tripped, TRUE} :
                            blk' = [blk EXCEPT ![search].tripped = trips]
                     ELSE UNCHANGED blk
         /\ UNCHANGED region
    ELSE \E new \in {{}, text.fails} :
         /\ region' = [region EXCEPT ![search].marks = (Read \union new) \ Dropped(s)]
         /\ blk' = [blk EXCEPT ![search] = [@ EXCEPT !.ptr = at.ptr, !.len = at.len + 1]]

After(s) == IF Keeps[e].keeps = "notes" THEN NotesAfter(s) ELSE MemoAfter(s)

\* The caller takes a match: Go's FindAllIndex rule, which the batch loop also
\* follows within one call.
Delivered(prev, start, end) == ~(start = end /\ start = prev)

Find ==
    /\ pc = "find"
    /\ \E s \in Answers \ {NoMatch} :
          LET end == text.ends[s]
              shown == Delivered(call.prev, s, end)
          IN  /\ After(s)
              /\ drive' = [drive EXCEPT ![d] =
                     [@ EXCEPT !.from = ResumeAfter(s, end), !.prevEnd = end,
                               !.answers = IF Delivered(drive[d].prevEnd, s, end)
                                           THEN Append(drive[d].answers, <<s, end>>)
                                           ELSE drive[d].answers]]
              /\ call' = [call EXCEPT
                     !.pos = IF Keeps[e].batch THEN ResumeAfter(s, end) ELSE s,
                     !.count = IF shown THEN @ + 1 ELSE @,
                     !.prev = end]
    /\ pc' = IF Keeps[e].batch THEN "loop" ELSE "leave"
    /\ scratch' = NoScratch
    /\ UNCHANGED <<mode, held, search, pages, floor, area, rec, asked, largest, last>>

FindNone ==
    /\ pc = "find" /\ NoMatch \in Answers
    /\ After(NoMatch)
    /\ pc' = "leave"
    /\ drive' = [drive EXCEPT ![d].status = "done"]
    /\ scratch' = NoScratch
    /\ UNCHANGED <<mode, held, search, pages, floor, area, rec, call, asked, largest,
                   last>>

\* -2: memory refused half-way, and a memo in use keeps the marks of the
\* unfinished path.
FindUnknown ==
    /\ \/ pc = "place" /\ ~ScratchFits
       \/ pc = "find" /\ Keeps[e].keeps = "memo" /\ mode.refuse
    /\ IF Named THEN blk' = [blk EXCEPT ![search] =
                       [@ EXCEPT !.tripped = TRUE,
                                 !.ptr = IF UsesMemo THEN at.ptr ELSE Block.ptr,
                                 !.len = IF UsesMemo THEN at.len + 1 ELSE Block.len]]
                ELSE UNCHANGED blk
    /\ region' = IF UsesMemo
                  THEN [region EXCEPT ![search].marks =
                           IF pc = "find" THEN Read \union 0..text.len ELSE Read]
                  ELSE region
    /\ drive' = [drive EXCEPT ![d].status = "unknown"]
    /\ pc' = IF Keeps[e].batch THEN "return" ELSE "leave"
    /\ scratch' = NoScratch
    /\ UNCHANGED <<mode, held, search, pages, floor, area, rec, call, asked, largest,
                   last>>
-----------------------------------------------------------------------------
(* Leaving it: emitWindow. *)

Ended == drive[d].status # "driving"

\* Mutant: the window of an answer that was not looked at.
WindowUnchecked == [live |-> TRUE, lo |-> call.pos, hi |-> call.prev]
\* Mutant: the window ends with the match, where an empty one never resumes.
WindowToEnd == [live |-> ~Ended, lo |-> call.pos, hi |-> Larger(call.prev, 0)]
\* emitFindWindow: [start, end + 1], or no drive.
FindWindow == [live |-> ~Ended, lo |-> call.pos, hi |-> call.prev + 1]
\* emitBatchWindow: the next position, or no drive when nothing was found.
BatchWindow == [live |-> call.count > 0, lo |-> call.pos, hi |-> call.pos]
Window == IF Keeps[e].batch THEN BatchWindow ELSE FindWindow

\* The caller of a batch export is done when its buffer is not full.
Drained == Keeps[e].batch /\ call.count < OutCap

Leave ==
    /\ pc = "leave"
    /\ IF call.mine
       THEN /\ search' = NoBlock
            /\ rec' = [rec EXCEPT ![e] = [@ EXCEPT !.live = Window.live, !.lo = Window.lo,
                                                   !.hi = Window.hi]]
            /\ last' = [last EXCEPT ![e] = <<d>>]
       ELSE UNCHANGED <<search, rec, last>>
    /\ drive' = IF Drained /\ ~Ended THEN [drive EXCEPT ![d].status = "done"] ELSE drive
    /\ pc' = "host" /\ call' = NoCall
    /\ UNCHANGED <<mode, held, blk, scratch, memory>>

\* The batch wrapper's early return.
Return ==
    /\ pc = "return"
    /\ pc' = "host" /\ call' = NoCall
    /\ UNCHANGED <<mode, held, drive, search, blk, rec, scratch, last, memory>>
-----------------------------------------------------------------------------
Host == \E k \in Drives : Call(k) \/ AnswerAtOnce(k)
Module == \/ EnterNamed \/ EnterDefault \/ GrowArea \/ AreaRefused
          \/ Continue \/ GetRegion \/ NeedsNoRegion \/ HandOver
          \/ NextFind \/ PlaceStack \/ Find \/ FindNone \/ FindUnknown
          \/ Leave \/ Return
Next == Host \/ Module \/ \E k \in Drives : Begin(k)

Spec == Init /\ [][Next]_vars
-----------------------------------------------------------------------------
(* Properties. *)

Interval == Nat \X Nat

\* The types.
TypeOK ==
    /\ mode \in Modes
    /\ held \in [Buffers -> Contents]
    /\ drive \in [Drives -> [export : Exports, buf : Buffers, text : Content, from : Nat,
                             prevEnd : Nat \union {NoMatch}, answers : Seq(Nat \X Nat),
                             status : {"driving", "done", "unknown"}]]
    /\ search \in Exports \union {NoBlock, Handed}
    /\ pages \in Nat /\ floor \in Nat
    /\ area \in [Exports -> Nat]
    /\ blk \in [Exports -> [armed : BOOLEAN, seen : BOOLEAN, ptr : Nat, len : Nat,
                            resume : Nat, high : Nat, tripped : BOOLEAN, memo : BOOLEAN]]
    /\ rec \in [Exports -> [live : BOOLEAN, ptr : Nat, len : Nat, lo : Nat, hi : Nat]]
    /\ region \in [Exports -> [ptr : Nat, cap : Nat, marks : SUBSET Nat]]
    /\ pc \in {"host", "enter", "continue", "give", "hand", "loop", "place", "find",
               "leave", "return"}
    /\ call \in [drive : Drives, mine : BOOLEAN, pos : Nat, count : Nat,
                 prev : Nat \union {NoMatch}]
    /\ scratch \in Interval
    /\ asked \in [Exports -> Nat] /\ largest \in [Exports -> Nat]
    /\ last \in [Exports -> {<< >>} \union {<<k>> : k \in Drives}]

\* Whatever drives came before, over whatever texts, a find reads only marks
\* that are failures of the text it searches.
MarksOfThisText == pc = "find" => ReadHere \subseteq text.fails

\* A drive that has the default to itself is never taken for a new one: its
\* next call finds the search as the last one left it.
DriveKept ==
    [][pc = "continue" /\ last[e] = <<d>> => blk' = blk]_vars

Apart(i, j) == i[1] >= i[2] \/ j[1] >= j[2] \/ i[2] <= j[1] \/ j[2] <= i[1]
AreaOf(x) == IF area[x] = 0 THEN NoScratch ELSE <<area[x], area[x] + AreaBytes>>
RegionOf(x) == <<region[x].ptr, region[x].ptr + region[x].cap>>

\* No frame stack runs over what a default keeps, wherever the host lets the
\* fallback begin, and no two defaults share memory.
MemoryApart ==
    /\ \A x \in Exports : Apart(scratch, AreaOf(x)) /\ Apart(scratch, RegionOf(x))
    /\ \A x, y \in Exports :
          /\ Apart(AreaOf(x), RegionOf(y))
          /\ x # y => Apart(AreaOf(x), AreaOf(y)) /\ Apart(RegionOf(x), RegionOf(y))

\* The regions ever grown for a default stay under four times the largest one
\* a call needed.
HeldFourTimes == \A x \in Exports : asked[x] > 0 => asked[x] < 4 * largest[x]

Drive(k) == INSTANCE MatchDrive WITH
               table <- drive[k].text.ends, from <- drive[k].from,
               prevEnd <- drive[k].prevEnd, answers <- drive[k].answers,
               status <- drive[k].status

\* However the drives interleave, each reports what it would alone.
DrivesLeftmost ==
    /\ \A k \in Drives : Drive(k)!Init
    /\ [][\A k \in Drives : [Drive(k)!Next]_(Drive(k)!vars)]_vars
=============================================================================
