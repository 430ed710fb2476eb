------------------------- MODULE DefaultSearchProofs -------------------------
(* Theorems about DefaultSearch, for every module, text and host. *)
EXTENDS DefaultSearch, NaturalsInduction, WellFoundedInduction, TLAPS

Driving == [export : Exports, buf : Buffers, text : Content, from : Nat,
            prevEnd : Nat \union {NoMatch}, answers : Seq(Nat \X Nat),
            status : {"driving", "done", "unknown"}]
Blocks == [armed : BOOLEAN, seen : BOOLEAN, ptr : Nat, len : Nat, resume : Nat,
           high : Nat, tripped : BOOLEAN, memo : BOOLEAN]
Records == [live : BOOLEAN, ptr : Nat, len : Nat, lo : Nat, hi : Nat]
Regions == [ptr : Nat, cap : Nat, marks : SUBSET Nat]
Calls == [drive : Drives, mine : BOOLEAN, pos : Nat, count : Nat,
          prev : Nat \union {NoMatch}]

\* A drive's text says of every position what is found there.
TextsWhole == \A k \in Drives : DOMAIN drive[k].text.ends = 0..drive[k].text.len

TypeInv == TypeOK /\ TextsWhole

\* Only marks change in the regions.
RegionsStay ==
    \A x \in Exports : region'[x].cap = region[x].cap /\ region'[x].ptr = region[x].ptr

\* What the sizes are.
LEMMA Sizes ==
    /\ Page \in Nat /\ AreaBytes \in Nat /\ StackBytes \in Nat /\ OutCap \in Nat
    /\ Page > 0 /\ AreaBytes > 0 /\ StackBytes > 0 /\ StartPages > 0
    /\ StartPages \in Nat /\ EndPages \in Nat /\ MaxPages \in Nat
    BY SizeAssumption

LEMMA PagesForType ==
    ASSUME NEW bytes \in Nat
    PROVE  PagesFor(bytes) \in Nat
    BY Sizes DEF PagesFor

\* The ends a whole text gives are NoMatch or positions of it.
LEMMA EndsType ==
    ASSUME NEW t \in Content, DOMAIN t.ends = 0..t.len
    PROVE  /\ t.len \in Nat /\ t.fails \subseteq Nat
           /\ \A s \in 0..t.len : t.ends[s] \in -1..t.len
<1>1. t.len \in Nat /\ t.fails \subseteq Nat
    BY DEF Content
<1>2. PICK b \in Buffers : t.ends \in [0..b.len -> -1..b.len]
    BY DEF Content
<1>3. b.len \in Nat
    BY TextAssumption DEF Buffer
<1>4. 0..b.len = 0..t.len
    BY <1>2
<1>5. b.len = t.len
    BY <1>1, <1>3, <1>4
<1> QED
    BY <1>1, <1>2, <1>5

\* What an export finds in a content is a whole text.
LEMMA FoundType ==
    ASSUME NEW x \in Exports, NEW c \in Contents
    PROVE  /\ FoundBy(x, c) \in Content
           /\ DOMAIN FoundBy(x, c).ends = 0..FoundBy(x, c).len
<1> DEFINE ends == [s \in DOMAIN c.ends |-> IF c.ends[s] - s >= Keeps[x].minLen
                                            THEN c.ends[s] ELSE NoMatch]
<1>1. c \in Content /\ DOMAIN c.ends = 0..c.len
    BY TextAssumption
<1>2. PICK b \in Buffers : c.ends \in [0..b.len -> -1..b.len]
    BY <1>1 DEF Content
<1>3. b.len \in Nat
    BY TextAssumption DEF Buffer
<1>4. ends \in [0..b.len -> -1..b.len]
    BY <1>2, <1>3 DEF NoMatch
<1>5. ends \in UNION {[0..k -> -1..k] : k \in {u.len : u \in Buffers}}
    BY <1>4
<1>6. FoundBy(x, c) = [c EXCEPT !.ends = ends]
    BY DEF FoundBy
<1> HIDE DEF ends
<1>7. DOMAIN ends = 0..c.len
    BY <1>1, <1>2, <1>4
<1> QED
    BY <1>1, <1>5, <1>6, <1>7 DEF Content

LEMMA DriveOfType ==
    ASSUME NEW x \in Exports, NEW b \in Buffers, NEW c \in Contents
    PROVE  /\ DriveOf(x, b, c) \in Driving
           /\ DriveOf(x, b, c).text = FoundBy(x, c)
<1>1. FoundBy(x, c) \in Content
    BY FoundType
<1>2. << >> \in Seq(Nat \X Nat)
    OBVIOUS
<1> QED
    BY <1>1, <1>2 DEF DriveOf, Driving

LEMMA NoCallType == NoCall \in Calls
    BY ModeAssumption DEF NoCall, Calls, NoMatch

LEMMA InitTypes == Init => TypeInv
<1> SUFFICES ASSUME Init PROVE TypeInv
    OBVIOUS
<1> USE DEF Init
<1>1. mode \in Modes /\ held \in [Buffers -> Contents]
    OBVIOUS
<1>2. \A k \in Drives : drive[k] \in Driving
                         /\ DOMAIN drive[k].text.ends = 0..drive[k].text.len
  <2> SUFFICES ASSUME NEW k \in Drives
               PROVE  drive[k] \in Driving
                         /\ DOMAIN drive[k].text.ends = 0..drive[k].text.len
      OBVIOUS
  <2>1. PICK x \in mode.uses, b \in mode.buffers : drive[k] = DriveOf(x, b, held[b])
      OBVIOUS
  <2>2. x \in Exports /\ b \in Buffers
      BY <1>1, ModeAssumption DEF Mode
  <2>3. held[b] \in Contents
      BY <1>1, <2>2
  <2> QED
      BY <2>1, <2>2, <2>3, DriveOfType, FoundType
<1>3. drive \in [Drives -> Driving]
  <2>1. DOMAIN drive = Drives
      OBVIOUS
  <2>2. drive = [k \in Drives |-> drive[k]]
      BY <2>1
  <2> QED
      BY <1>2, <2>2
<1>4. pages \in Nat /\ floor \in Nat
    BY Sizes
<1>5. blk \in [Exports -> Blocks] /\ rec \in [Exports -> Records]
      /\ region \in [Exports -> Regions]
    BY DEF ZeroBlock, NoRecord, NoRegion, Blocks, Records, Regions
<1>6. call \in Calls
    BY NoCallType
<1>7. /\ area \in [Exports -> Nat] /\ asked \in [Exports -> Nat]
      /\ largest \in [Exports -> Nat] /\ scratch \in Interval
      /\ last \in [Exports -> {<< >>} \union {<<k>> : k \in Drives}]
      /\ search \in Exports \union {NoBlock, Handed} /\ pc = "host"
    BY DEF NoScratch, Interval
<1> QED
    BY <1>1, <1>2, <1>3, <1>4, <1>5, <1>6, <1>7
    DEF TypeInv, TypeOK, TextsWhole, Driving, Blocks, Records, Regions, Calls

\* What a running call works with.
LEMMA Here ==
    ASSUME TypeInv
    PROVE  /\ call \in Calls /\ d \in Drives /\ drive[d] \in Driving
           /\ e \in Exports /\ at \in Buffer
           /\ text \in Content /\ text.len \in Nat /\ text.fails \subseteq Nat
           /\ \A s \in 0..text.len : text.ends[s] \in -1..text.len
           /\ Keeps[e] \in Kind
           /\ Need \in Nat /\ Need > 0
           /\ mode \in Mode
<1>1. call \in Calls /\ d \in Drives /\ drive[d] \in Driving
    BY DEF TypeInv, TypeOK, Calls, Driving, d
<1>2. e \in Exports /\ at \in Buffer /\ text \in Content
    BY <1>1, TextAssumption DEF e, at, text, Driving
<1>3. DOMAIN text.ends = 0..text.len
    BY <1>1 DEF TypeInv, TextsWhole, text
<1>4. /\ text.len \in Nat /\ text.fails \subseteq Nat
      /\ \A s \in 0..text.len : text.ends[s] \in -1..text.len
    BY <1>2, <1>3, EndsType
<1>5. Keeps[e] \in Kind
    BY <1>2, ExportAssumption
<1>6. Keeps[e].per \in Nat /\ Keeps[e].per > 0
    BY <1>5 DEF Kind
<1>7. \A m, n \in Nat : m > 0 /\ n > 0 => m * n \in Nat /\ m * n > 0
    OBVIOUS
<1>8. Need \in Nat /\ Need > 0
    BY <1>4, <1>6, <1>7 DEF Need
<1>9. mode \in Mode
    BY ModeAssumption DEF TypeInv, TypeOK
<1> QED
    BY <1>1, <1>2, <1>4, <1>5, <1>8, <1>9

\* A growth keeps sizes and addresses natural.
LEMMA GrowTypes ==
    ASSUME TypeInv, NEW bytes \in Nat, Grow(bytes)
    PROVE  /\ pages' \in Nat /\ floor' \in Nat /\ GrownAt \in Nat
<1>1. pages \in Nat /\ Page \in Nat /\ EndPages \in Nat /\ PagesFor(bytes) \in Nat
    BY Sizes, PagesForType DEF TypeInv, TypeOK
<1>2. pages' \in Nat
    BY <1>1 DEF Grow
<1>3. Smaller(pages', EndPages) \in Nat
    BY <1>1, <1>2 DEF Smaller
<1>4. \A m, n \in Nat : m * n \in Nat
    OBVIOUS
<1> QED
    BY <1>1, <1>2, <1>3, <1>4 DEF Grow, FloorRaised, GrownAt

\* What a find reads and answers.
LEMMA AnswersType ==
    ASSUME TypeInv, NEW s \in Answers
    PROVE  /\ s \in Nat \union {NoMatch}
           /\ s # NoMatch => s \in 0..text.len /\ text.ends[s] \in Nat
<1>1. call.pos \in Nat /\ text.len \in Nat
      /\ \A k \in 0..text.len : text.ends[k] \in -1..text.len
    BY Here DEF Calls
<1>2. ASSUME s # NoMatch
      PROVE  s \in 0..text.len /\ text.ends[s] # NoMatch
    BY <1>1, <1>2 DEF Answers, Leftmost
<1> QED
    BY <1>1, <1>2 DEF NoMatch

LEMMA ReadType ==
    ASSUME TypeInv
    PROVE  Read \subseteq Nat
<1>1. CASE search \in Exports
  <2>1. Marks \subseteq Nat
      BY <1>1 DEF TypeInv, TypeOK, Marks
  <2> QED
      BY <2>1 DEF Read
<1>2. CASE search \notin Exports
    BY <1>2 DEF Read, UsesNotes, UsesMemo, Named
<1> QED
    BY <1>1, <1>2

\* A block set anew is a block.
LEMMA BlockSet ==
    ASSUME blk \in [Exports -> Blocks], NEW x \in Exports, NEW b \in Blocks
    PROVE  [blk EXCEPT ![x] = b] \in [Exports -> Blocks]
    OBVIOUS

LEMMA TextSet ==
    ASSUME NEW b \in Blocks, NEW m \in Nat, NEW n \in Nat
    PROVE  [b EXCEPT !.ptr = m, !.len = n] \in Blocks
    BY DEF Blocks

\* A find leaves block and region of their types, and sizes no region.
LEMMA AfterTypes ==
    ASSUME TypeInv, NEW s \in Answers, After(s)
    PROVE  /\ blk' \in [Exports -> Blocks] /\ region' \in [Exports -> Regions]
           /\ RegionsStay
<1>1. /\ blk \in [Exports -> Blocks] /\ region \in [Exports -> Regions]
    BY DEF TypeInv, TypeOK, Blocks, Regions
<1>2. /\ Read \subseteq Nat /\ text.fails \subseteq Nat
      /\ at.ptr \in Nat /\ at.len \in Nat
    BY ReadType, Here DEF Buffer
<1>3. /\ s \in Nat \union {NoMatch}
      /\ s # NoMatch => s \in Nat /\ text.ends[s] \in Nat
    BY AnswersType, Here
<1>4. CASE NotesAfter(s)
  <2>1. CASE ~UsesNotes
    <3>1. region' = region
        BY <1>4, <2>1 DEF NotesAfter
    <3>2. CASE Named
      <4>1. search \in Exports /\ Block \in Blocks
          BY <1>1, <3>2 DEF Named, Block
      <4>2. PICK arms \in {Block.armed, TRUE} : blk' = [blk EXCEPT ![search].armed = arms]
          BY <1>4, <2>1, <3>2 DEF NotesAfter
      <4>3. [Block EXCEPT !.armed = arms] \in Blocks
          BY <4>1 DEF Blocks
      <4> QED
          BY <1>1, <3>1, <4>1, <4>2, <4>3, BlockSet DEF Block, RegionsStay
    <3>3. CASE ~Named
        BY <1>1, <1>4, <2>1, <3>1, <3>3 DEF NotesAfter, RegionsStay
    <3> QED
        BY <3>2, <3>3
  <2>2. CASE UsesNotes /\ Block.seen /\ ~SameNotes
    <3>1. search \in Exports /\ Block \in Blocks
        BY <1>1, <2>2 DEF UsesNotes, Named, Block
    <3>2. PICK arms \in BOOLEAN : blk' = [blk EXCEPT ![search] =
                          [@ EXCEPT !.high = 0, !.seen = FALSE, !.armed = arms]]
        BY <1>4, <2>2 DEF NotesAfter
    <3>3. region' = [region EXCEPT ![search].marks = Read]
        BY <1>4, <2>2 DEF NotesAfter
    <3>4. [Block EXCEPT !.high = 0, !.seen = FALSE, !.armed = arms] \in Blocks
        BY <3>1 DEF Blocks
    <3>5. blk' \in [Exports -> Blocks]
        BY <1>1, <3>1, <3>2, <3>4, BlockSet DEF Block
    <3>6. region' \in [Exports -> Regions]
          /\ RegionsStay
        BY <1>1, <1>2, <3>1, <3>3 DEF Regions, RegionsStay
    <3> QED
        BY <3>5, <3>6
  <2>3. CASE UsesNotes /\ ~(Block.seen /\ ~SameNotes)
    <3>1. search \in Exports /\ Block \in Blocks
        BY <1>1, <2>3 DEF UsesNotes, Named, Block
    <3>2. PICK h \in {0} \union {m + 1 : m \in text.fails} :
            /\ region' = [region EXCEPT ![search].marks =
                                Read \union {m \in text.fails : m < h}]
            /\ blk' = [blk EXCEPT ![search] =
                [@ EXCEPT !.ptr = at.ptr, !.len = at.len, !.seen = TRUE,
                          !.high = Larger(IF Block.seen THEN Block.high ELSE 0, h),
                          !.resume = IF s = NoMatch THEN Block.resume
                                                    ELSE ResumeAfter(s, text.ends[s])]]
        BY <1>4, <2>3 DEF NotesAfter
    <3>3. h \in Nat
        BY <1>2
    <3>4. Larger(IF Block.seen THEN Block.high ELSE 0, h) \in Nat
        BY <3>1, <3>3 DEF Blocks, Larger
    <3>5. s # NoMatch => ResumeAfter(s, text.ends[s]) \in Nat
        BY <1>3 DEF ResumeAfter
    <3>6. blk' \in [Exports -> Blocks]
        BY <1>1, <1>2, <3>1, <3>2, <3>4, <3>5 DEF Blocks
    <3>7. region' \in [Exports -> Regions]
          /\ RegionsStay
        BY <1>1, <1>2, <3>1, <3>2 DEF Regions, RegionsStay
    <3> QED
        BY <3>6, <3>7
  <2> QED
      BY <2>1, <2>2, <2>3
<1>5. CASE MemoAfter(s)
  <2>1. CASE ~UsesMemo
    <3>1. region' = region
        BY <1>5, <2>1 DEF MemoAfter
    <3>2. CASE Named
      <4>1. search \in Exports /\ Block \in Blocks
          BY <1>1, <3>2 DEF Named, Block
      <4>2. PICK trips \in {Block.tripped, TRUE} : blk' = [blk EXCEPT ![search].tripped = trips]
          BY <1>5, <2>1, <3>2 DEF MemoAfter
      <4>3. [Block EXCEPT !.tripped = trips] \in Blocks
          BY <4>1 DEF Blocks
      <4> QED
          BY <1>1, <3>1, <4>1, <4>2, <4>3, BlockSet DEF Block, RegionsStay
    <3>3. CASE ~Named
        BY <1>1, <1>5, <2>1, <3>1, <3>3 DEF MemoAfter, RegionsStay
    <3> QED
        BY <3>2, <3>3
  <2>2. CASE UsesMemo
    <3>1. search \in Exports
        BY <2>2 DEF UsesMemo, Named
    <3>2. PICK new \in {{}, text.fails} :
            /\ region' = [region EXCEPT ![search].marks = (Read \union new) \ Dropped(s)]
            /\ blk' = [blk EXCEPT ![search] = [@ EXCEPT !.ptr = at.ptr, !.len = at.len + 1]]
        BY <1>5, <2>2 DEF MemoAfter
    <3>3. (Read \union new) \ Dropped(s) \in SUBSET Nat
        BY <1>2
    <3>4. region' \in [Exports -> Regions]
          /\ RegionsStay
        BY <1>1, <3>1, <3>2, <3>3 DEF Regions, RegionsStay
    <3>5. Block \in Blocks
        BY <1>1, <3>1 DEF Block
    <3>6. [Block EXCEPT !.ptr = at.ptr, !.len = at.len + 1] \in Blocks
        BY <1>2, <3>5, at.len + 1 \in Nat, TextSet
    <3>7. blk' \in [Exports -> Blocks]
        BY <1>1, <3>1, <3>2, <3>6, BlockSet DEF Block
    <3> QED
        BY <3>4, <3>7
  <2> QED
      BY <2>1, <2>2
<1> QED
    BY <1>4, <1>5 DEF After

\* A drive whose record changes but not its text keeps the types.
LEMMA DriveSet ==
    ASSUME TypeInv, NEW k \in Drives, NEW r \in Driving, r.text = drive[k].text,
           drive' = [drive EXCEPT ![k] = r]
    PROVE  drive' \in [Drives -> Driving] /\ TextsWhole'
<1>1. drive \in [Drives -> Driving]
    BY DEF TypeInv, TypeOK, Driving
<1>2. drive' \in [Drives -> Driving]
    BY <1>1
<1>3. \A j \in Drives : drive'[j].text = drive[j].text
    BY <1>1
<1> QED
    BY <1>2, <1>3 DEF TypeInv, TextsWhole

LEMMA StatusSet ==
    ASSUME TypeInv, NEW k \in Drives, NEW st \in {"driving", "done", "unknown"},
           drive' = [drive EXCEPT ![k].status = st]
    PROVE  drive' \in [Drives -> Driving] /\ TextsWhole'
<1>1. drive[k] \in Driving
    BY DEF TypeInv, TypeOK, Driving
<1>2. [drive[k] EXCEPT !.status = st] \in Driving
    BY <1>1 DEF Driving
<1>3. [drive[k] EXCEPT !.status = st].text = drive[k].text
    BY <1>1 DEF Driving
<1>4. drive' = [drive EXCEPT ![k] = [drive[k] EXCEPT !.status = st]]
    OBVIOUS
<1> QED
    BY <1>2, <1>3, <1>4, DriveSet

\* What the host is about to name.
LEMMA GlobalType ==
    ASSUME TypeInv, NEW k \in Drives
    PROVE  GlobalFor(k) \in Exports \union {NoBlock, Handed}
    BY DEF GlobalFor, TypeInv, TypeOK

\* Every step of the host keeps the types.
LEMMA HostTypes ==
    ASSUME TypeInv, NEW k \in Drives, Call(k) \/ AnswerAtOnce(k) \/ Begin(k)
    PROVE  TypeInv'
<1> USE DEF TypeInv, TypeOK
<1>1. CASE Call(k)
  <2>1. GlobalFor(k) \in Exports \union {NoBlock, Handed}
      BY GlobalType
  <2>2. drive[k].from \in Nat
      OBVIOUS
  <2>3. call' \in Calls
      BY <1>1, <2>2, NoCallType DEF Call, Calls
  <2> QED
      BY <1>1, <2>1, <2>3 DEF Call, Calls, memory, TextsWhole
<1>2. CASE AnswerAtOnce(k)
  <2>1. GlobalFor(k) \in Exports \union {NoBlock, Handed}
      BY GlobalType
  <2>2. drive' \in [Drives -> Driving] /\ TextsWhole'
      BY <1>2, StatusSet DEF AnswerAtOnce
  <2> QED
      BY <1>2, <2>1, <2>2 DEF AnswerAtOnce, memory, Driving
<1>3. CASE Begin(k)
  <2>1. PICK x \in mode.uses, b \in mode.buffers :
          \E c \in (IF Free(b) THEN ContentsOf(b) ELSE {held[b]}) :
              /\ held' = [held EXCEPT ![b] = c]
              /\ drive' = [drive EXCEPT ![k] = DriveOf(x, b, c)]
      BY <1>3 DEF Begin
  <2>2. PICK c \in (IF Free(b) THEN ContentsOf(b) ELSE {held[b]}) :
              /\ held' = [held EXCEPT ![b] = c]
              /\ drive' = [drive EXCEPT ![k] = DriveOf(x, b, c)]
      BY <2>1
  <2>3. x \in Exports /\ b \in Buffers
      BY <2>1, ModeAssumption DEF Mode
  <2>4. c \in Contents
      BY <2>2, <2>3 DEF ContentsOf
  <2>5. held' \in [Buffers -> Contents]
      BY <2>2, <2>3, <2>4
  <2>6. DriveOf(x, b, c) \in Driving /\ DriveOf(x, b, c).text = FoundBy(x, c)
      BY <2>3, <2>4, DriveOfType
  <2>7. drive \in [Drives -> Driving]
      BY DEF Driving
  <2>8. drive' \in [Drives -> Driving]
      BY <2>2, <2>6, <2>7
  <2>9. TextsWhole'
    <3>1. \A j \in Drives : drive'[j] = IF j = k THEN DriveOf(x, b, c) ELSE drive[j]
        BY <2>2, <2>7
    <3>2. DOMAIN FoundBy(x, c).ends = 0..FoundBy(x, c).len
        BY <2>3, <2>4, FoundType
    <3> QED
        BY <2>6, <3>1, <3>2 DEF TextsWhole
  <2>10. last' \in [Exports -> {<< >>} \union {<<j>> : j \in Drives}]
      BY <1>3 DEF Begin
  <2> QED
      BY <1>3, <2>5, <2>8, <2>9, <2>10 DEF Begin, memory, Driving
<1> QED
    BY <1>1, <1>2, <1>3

LEMMA NewSizeType ==
    ASSUME Need \in Nat, region[e].cap \in Nat
    PROVE  /\ NewSize \in Nat /\ NewSize >= Need /\ NewSize >= 2 * region[e].cap
           /\ NewSize = Need \/ NewSize = 2 * region[e].cap
    BY DEF NewSize, Larger

\* Entering a call keeps the types.
LEMMA EnterTypes ==
    ASSUME TypeInv,
           EnterNamed \/ EnterDefault \/ GrowArea \/ AreaRefused \/ Continue
           \/ GetRegion \/ NeedsNoRegion \/ HandOver
    PROVE  TypeInv'
<1> USE DEF TypeInv, TypeOK
<1>1. CASE EnterNamed \/ AreaRefused \/ NeedsNoRegion
    BY <1>1 DEF EnterNamed, AreaRefused, NeedsNoRegion, memory, TextsWhole
<1>2. CASE EnterDefault
  <2>1. call' \in Calls
      BY <1>2 DEF EnterDefault, Calls
  <2> QED
      BY <1>2, <2>1 DEF EnterDefault, memory, TextsWhole, Calls
<1>3. CASE GrowArea
  <2>1. pages' \in Nat /\ floor' \in Nat /\ GrownAt \in Nat
      BY <1>3, GrowTypes, Sizes DEF GrowArea
  <2>2. call' \in Calls
      BY <1>3 DEF GrowArea, Calls
  <2>3. area' \in [Exports -> Nat]
      BY <1>3, <2>1 DEF GrowArea
  <2> QED
      BY <1>3, <2>1, <2>2, <2>3 DEF GrowArea, TextsWhole, Calls
<1>4. CASE Continue
  <2>1. e \in Exports /\ at.ptr \in Nat /\ at.len \in Nat
      BY Here DEF Buffer
  <2>2. blk \in [Exports -> Blocks] /\ blk[e] \in Blocks
      BY <2>1 DEF Blocks
  <2>3. Reset(blk[e]) \in Blocks
      BY <2>2 DEF Reset, ZeroBlock, Blocks
  <2>4. blk' \in [Exports -> Blocks]
      BY <1>4, <2>1, <2>2, <2>3, BlockSet DEF Continue
  <2>5. rec[e] \in Records
      BY <2>1 DEF Records
  <2>6. [rec[e] EXCEPT !.ptr = at.ptr, !.len = at.len] \in Records
      BY <2>1, <2>5 DEF Records
  <2>7. rec' \in [Exports -> Records]
      BY <1>4, <2>1, <2>6 DEF Continue, Records
  <2> QED
      BY <1>4, <2>4, <2>7 DEF Continue, memory, TextsWhole, Blocks, Records
<1>5. CASE GetRegion
  <2>1. e \in Exports /\ Need \in Nat
      BY Here
  <2>2. largest[e] \in Nat /\ region[e].cap \in Nat /\ asked[e] \in Nat
      BY <2>1
  <2>3. Larger(largest[e], Need) \in Nat
      BY <2>1, <2>2 DEF Larger
  <2>4. CASE /\ largest' = [largest EXCEPT ![e] = Larger(@, Need)]
             /\ UNCHANGED <<pages, floor, region, asked>>
    <3>1. largest' \in [Exports -> Nat]
        BY <2>1, <2>3, <2>4
    <3> QED
        BY <1>5, <2>4, <3>1 DEF GetRegion, TextsWhole
  <2>5. CASE GrowRegion
    <3>1. NewSize \in Nat
        BY <2>1, <2>2, NewSizeType
    <3>2. pages' \in Nat /\ floor' \in Nat /\ GrownAt \in Nat
        BY <2>5, <3>1, GrowTypes DEF GrowRegion
    <3>3. Capacity(NewSize) \in Nat
        BY <3>1 DEF Capacity
    <3>4. [ptr |-> GrownAt, cap |-> Capacity(NewSize), marks |-> {}] \in Regions
        BY <3>2, <3>3 DEF Regions
    <3>5. region' \in [Exports -> Regions]
        BY <2>5, <3>4 DEF GrowRegion, Regions
    <3>6. asked' \in [Exports -> Nat] /\ largest' \in [Exports -> Nat]
      <4>1. asked[e] + NewSize \in Nat
          BY <2>2, <3>1, \A m, n \in Nat : m + n \in Nat
      <4>2. /\ asked' = [asked EXCEPT ![e] = asked[e] + NewSize]
            /\ largest' = [largest EXCEPT ![e] = Larger(largest[e], Need)]
          BY <2>5 DEF GrowRegion
      <4>3. asked \in [Exports -> Nat] /\ largest \in [Exports -> Nat]
          OBVIOUS
      <4> QED
          BY <2>1, <2>3, <4>1, <4>2, <4>3
    <3> QED
        BY <1>5, <3>2, <3>5, <3>6 DEF GetRegion, TextsWhole, Regions
  <2>6. CASE UNCHANGED <<pages, floor, region, asked, largest>>
      BY <1>5, <2>6 DEF GetRegion, TextsWhole
  <2> QED
      BY <1>5, <2>4, <2>5, <2>6 DEF GetRegion
<1>6. CASE HandOver
  <2>1. e \in Exports
      BY Here
  <2>2. region[e] \in Regions /\ blk[e] \in Blocks
      BY <2>1 DEF Regions, Blocks
  <2>3. [blk[e] EXCEPT !.memo = TRUE] \in Blocks
      BY <2>2 DEF Blocks
  <2>4. blk' \in [Exports -> Blocks]
      BY <1>6, <2>1, <2>3, BlockSet DEF HandOver, Blocks
  <2>5. [region[e] EXCEPT !.marks = Zeroed(region[e])] \in Regions
      BY <2>2 DEF Zeroed, Regions
  <2>6. region' \in [Exports -> Regions]
      BY <1>6, <2>1, <2>5 DEF HandOver, Regions
  <2> QED
      BY <1>6, <2>1, <2>4, <2>6 DEF HandOver, TextsWhole, Blocks, Regions
<1> QED
    BY <1>1, <1>2, <1>3, <1>4, <1>5, <1>6

\* Where a frame stack goes.
LEMMA ScratchTypes ==
    ASSUME TypeInv
    PROVE  ScratchFrom \in Nat /\ ScratchTo \in Nat /\ ScratchPages \in Nat
<1>1. mode.base \in Nat /\ Need \in Nat
    BY Here DEF Mode
<1>2. pages \in Nat /\ floor \in Nat /\ Page \in Nat /\ StackBytes \in Nat
    BY Sizes DEF TypeInv, TypeOK
<1>3. \A m, n \in Nat : m * n \in Nat /\ m + n \in Nat /\ Larger(m, n) \in Nat
    BY DEF Larger
<1>4. ScratchBase \in Nat
    BY <1>1, <1>2, <1>3 DEF ScratchBase
<1>5. UsesMemo => region[search].ptr \in Nat
    BY DEF UsesMemo, Named, TypeInv, TypeOK
<1>6. ScratchFrom \in Nat
    BY <1>1, <1>3, <1>4, <1>5 DEF ScratchFrom
<1>7. ScratchTo \in Nat
    BY <1>2, <1>3, <1>6 DEF ScratchTo
<1>8. PagesFor(ScratchTo) \in Nat
    BY <1>7, PagesForType
<1> QED
    BY <1>2, <1>3, <1>6, <1>7, <1>8 DEF ScratchPages

\* The finds of a call, and leaving it, keep the types.
LEMMA FindTypes ==
    ASSUME TypeInv, Find
    PROVE  TypeInv'
<1>1. PICK s \in Answers \ {NoMatch} :
          LET end == text.ends[s]
              shown == Delivered(call.prev, s, end)
          IN  /\ After(s)
              /\ drive' = [drive EXCEPT ![d] =
                     [@ EXCEPT !.from = ResumeAfter(s, end), !.prevEnd = end,
                               !.answers = IF Delivered(drive[d].prevEnd, s, end)
                                           THEN Append(drive[d].answers, <<s, end>>)
                                           ELSE drive[d].answers]]
              /\ call' = [call EXCEPT
                     !.pos = IF Keeps[e].batch THEN ResumeAfter(s, end) ELSE s,
                     !.count = IF shown THEN @ + 1 ELSE @,
                     !.prev = end]
    BY DEF Find
<1> DEFINE end == text.ends[s]
           next == ResumeAfter(s, end)
           got == IF Delivered(drive[d].prevEnd, s, end)
                  THEN Append(drive[d].answers, <<s, end>>) ELSE drive[d].answers
<1>2. s \in Nat /\ end \in Nat /\ next \in Nat
    BY <1>1, AnswersType, Here DEF ResumeAfter
<1>3. drive[d] \in Driving /\ d \in Drives /\ call \in Calls
    BY Here
<1>4. got \in Seq(Nat \X Nat)
    BY <1>2, <1>3 DEF Driving
<1>5. drive' = [drive EXCEPT ![d] = [drive[d] EXCEPT !.from = next, !.prevEnd = end,
                                                     !.answers = got]]
    BY <1>1
<1> DEFINE pos == IF Keeps[e].batch THEN ResumeAfter(s, end) ELSE s
           count == IF Delivered(call.prev, s, end) THEN call.count + 1 ELSE call.count
<1>6. call' \in Calls
  <2>1. pos \in Nat /\ count \in Nat
      BY <1>2, <1>3 DEF Calls
  <2>2. call' = [call EXCEPT !.pos = pos, !.count = count, !.prev = end]
      BY <1>1
  <2> HIDE DEF pos, count, end
  <2> QED
      BY <1>2, <1>3, <2>1, <2>2 DEF Calls
<1> HIDE DEF end, next, got
<1>7. [drive[d] EXCEPT !.from = next, !.prevEnd = end, !.answers = got] \in Driving
    BY <1>2, <1>3, <1>4 DEF Driving
<1>8. [drive[d] EXCEPT !.from = next, !.prevEnd = end, !.answers = got].text = drive[d].text
    BY <1>3 DEF Driving
<1>9. drive' \in [Drives -> Driving] /\ TextsWhole'
    BY <1>3, <1>5, <1>7, <1>8, DriveSet
<1>10. blk' \in [Exports -> Blocks] /\ region' \in [Exports -> Regions]
    BY <1>1, AfterTypes
<1>11. pc' \in {"loop", "leave"} /\ scratch' \in Interval
    BY DEF Find, NoScratch, Interval
<1> QED
    BY <1>6, <1>9, <1>10, <1>11
    DEF Find, TypeInv, TypeOK, Driving, Blocks, Regions, Calls

LEMMA FindNoneTypes ==
    ASSUME TypeInv, FindNone
    PROVE  TypeInv'
<1>1. NoMatch \in Answers /\ After(NoMatch)
    BY DEF FindNone
<1>2. blk' \in [Exports -> Blocks] /\ region' \in [Exports -> Regions]
    BY <1>1, AfterTypes
<1>3. drive' \in [Drives -> Driving] /\ TextsWhole'
    BY StatusSet, Here DEF FindNone
<1>4. scratch' \in Interval
    BY DEF FindNone, NoScratch, Interval
<1> QED
    BY <1>2, <1>3, <1>4 DEF FindNone, TypeInv, TypeOK, Driving, Blocks, Regions

\* A call that gives up leaves block and region of their types, and sizes none.
LEMMA UnknownTypes ==
    ASSUME TypeInv, FindUnknown
    PROVE  /\ TypeInv'
           /\ RegionsStay
<1>1. /\ blk \in [Exports -> Blocks] /\ region \in [Exports -> Regions]
    BY DEF TypeInv, TypeOK, Blocks, Regions
<1>2. at.ptr \in Nat /\ at.len + 1 \in Nat /\ text.len \in Nat /\ Read \subseteq Nat
    BY Here, ReadType DEF Buffer
<1>3. blk' \in [Exports -> Blocks]
  <2>1. CASE Named
    <3>1. search \in Exports /\ Block \in Blocks
        BY <1>1, <2>1 DEF Named, Block
    <3>2. [Block EXCEPT !.tripped = TRUE,
                        !.ptr = IF UsesMemo THEN at.ptr ELSE Block.ptr,
                        !.len = IF UsesMemo THEN at.len + 1 ELSE Block.len] \in Blocks
        BY <1>2, <3>1 DEF Blocks
    <3> QED
        BY <1>1, <2>1, <3>1, <3>2, BlockSet DEF FindUnknown, Block
  <2>2. CASE ~Named
      BY <1>1, <2>2 DEF FindUnknown
  <2> QED
      BY <2>1, <2>2
<1>4. /\ region' \in [Exports -> Regions]
      /\ RegionsStay
  <2>1. CASE UsesMemo
    <3>1. search \in Exports
        BY <2>1 DEF UsesMemo, Named
    <3>2. (IF pc = "find" THEN Read \union 0..text.len ELSE Read) \in SUBSET Nat
        BY <1>2, 0..text.len \subseteq Nat
    <3>3. region' = [region EXCEPT ![search].marks =
                           IF pc = "find" THEN Read \union 0..text.len ELSE Read]
        BY <2>1 DEF FindUnknown
    <3> QED
        BY <1>1, <3>1, <3>2, <3>3 DEF Regions, RegionsStay
  <2>2. CASE ~UsesMemo
      BY <1>1, <2>2 DEF FindUnknown, RegionsStay
  <2> QED
      BY <2>1, <2>2
<1>5. drive' \in [Drives -> Driving] /\ TextsWhole'
    BY StatusSet, Here DEF FindUnknown
<1>6. pc' \in {"return", "leave"} /\ scratch' \in Interval
    BY DEF FindUnknown, NoScratch, Interval
<1> QED
    BY <1>3, <1>4, <1>5, <1>6 DEF FindUnknown, TypeInv, TypeOK, Driving, Blocks, Regions

LEMMA LeaveTypes ==
    ASSUME TypeInv, Leave
    PROVE  TypeInv'
<1>1. call \in Calls /\ d \in Drives /\ e \in Exports
    BY Here
<1>2. Window.live \in BOOLEAN /\ Window.lo \in Nat /\ Window.hi \in Nat
  <2>1. call.pos \in Nat /\ call.prev + 1 \in Nat
      BY <1>1 DEF Calls, NoMatch
  <2>2. BatchWindow.live \in BOOLEAN /\ BatchWindow.lo \in Nat /\ BatchWindow.hi \in Nat
      BY <2>1 DEF BatchWindow
  <2>3. FindWindow.live \in BOOLEAN /\ FindWindow.lo \in Nat /\ FindWindow.hi \in Nat
      BY <2>1 DEF FindWindow
  <2> QED
      BY <2>2, <2>3 DEF Window
<1>3. rec \in [Exports -> Records] /\ rec[e] \in Records
    BY <1>1 DEF TypeInv, TypeOK, Records
<1>4. [rec[e] EXCEPT !.live = Window.live, !.lo = Window.lo, !.hi = Window.hi] \in Records
    BY <1>2, <1>3 DEF Records
<1>5. rec' \in [Exports -> Records]
    BY <1>1, <1>3, <1>4 DEF Leave
<1>6. drive' \in [Drives -> Driving] /\ TextsWhole'
  <2>1. CASE drive' = [drive EXCEPT ![d].status = "done"]
      BY <1>1, <2>1, StatusSet
  <2>2. CASE drive' = drive
      BY <2>2 DEF TypeInv, TypeOK, TextsWhole, Driving
  <2> QED
      BY <2>1, <2>2 DEF Leave
<1>7. call' \in Calls
    BY NoCallType DEF Leave
<1>8. /\ search' \in Exports \union {NoBlock, Handed}
      /\ last' \in [Exports -> {<< >>} \union {<<k>> : k \in Drives}]
  <2>1. <<d>> \in {<< >>} \union {<<k>> : k \in Drives}
      BY <1>1
  <2>2. /\ search' = NoBlock \/ search' = search
        /\ last' = [last EXCEPT ![e] = <<d>>] \/ last' = last
      BY DEF Leave
  <2>3. /\ search \in Exports \union {NoBlock, Handed}
        /\ last \in [Exports -> {<< >>} \union {<<k>> : k \in Drives}]
      BY DEF TypeInv, TypeOK
  <2> QED
      BY <1>1, <2>1, <2>2, <2>3
<1> QED
    BY <1>5, <1>6, <1>7, <1>8 DEF Leave, memory, TypeInv, TypeOK, Driving, Records, Calls

LEMMA OtherTypes ==
    ASSUME TypeInv, NextFind \/ PlaceStack \/ Return
    PROVE  TypeInv'
<1>1. CASE NextFind
    BY <1>1 DEF NextFind, memory, TypeInv, TypeOK, TextsWhole
<1>2. CASE PlaceStack
    BY <1>2, ScratchTypes DEF PlaceStack, TypeInv, TypeOK, TextsWhole, Interval
<1>3. CASE Return
    BY <1>3, NoCallType DEF Return, memory, TypeInv, TypeOK, TextsWhole, Calls
<1> QED
    BY <1>1, <1>2, <1>3

LEMMA StutterTypes ==
    ASSUME TypeInv, UNCHANGED vars
    PROVE  TypeInv'
    BY DEF vars, memory, TypeInv, TypeOK, TextsWhole

LEMMA StepTypes == TypeInv /\ [Next]_vars => TypeInv'
    BY HostTypes, EnterTypes, FindTypes, FindNoneTypes, UnknownTypes, LeaveTypes,
       OtherTypes, StutterTypes DEF Next, Host, Module

LEMMA Typed == Spec => []TypeInv
<1> QED
    BY InitTypes, StepTypes, PTL DEF Spec

\* The types, for every module, text and host.
THEOREM TypeCorrect == Spec => []TypeOK
<1>1. TypeInv => TypeOK
    BY DEF TypeInv
<1> QED
    BY Typed, <1>1, PTL
-----------------------------------------------------------------------------
(* What is held. *)

\* A region is less than twice the largest need, and all before it together are
\* no more than it is.
HeldInv ==
    \A x \in Exports : /\ asked[x] <= 2 * region[x].cap
                       /\ region[x].cap > 0 => region[x].cap < 2 * largest[x]

\* No step but the growth of a region touches what the invariant is about,
\* save that a call may need more than any before.
LEMMA HeldOf ==
    ASSUME TypeInv, TypeInv', HeldInv,
           \A x \in Exports : /\ region'[x].cap = region[x].cap
                              /\ asked'[x] = asked[x] /\ largest'[x] >= largest[x]
    PROVE  HeldInv'
<1> SUFFICES ASSUME NEW x \in Exports
             PROVE  /\ asked'[x] <= 2 * region'[x].cap
                    /\ region'[x].cap > 0 => region'[x].cap < 2 * largest'[x]
    BY DEF HeldInv
<1>1. /\ region[x].cap \in Nat /\ largest[x] \in Nat /\ largest'[x] \in Nat
      /\ asked[x] \in Nat
    BY DEF TypeInv, TypeOK
<1>2. /\ asked[x] <= 2 * region[x].cap
      /\ region[x].cap > 0 => region[x].cap < 2 * largest[x]
    BY DEF HeldInv
<1> QED
    BY <1>1, <1>2

LEMMA GrowHeld ==
    ASSUME TypeInv, HeldInv, region[e].cap < Need, GrowRegion
    PROVE  HeldInv'
<1>1. e \in Exports /\ Need \in Nat /\ Need > 0
    BY Here
<1>2. /\ region \in [Exports -> Regions] /\ asked \in [Exports -> Nat]
      /\ largest \in [Exports -> Nat]
    BY DEF TypeInv, TypeOK, Regions
<1> SUFFICES ASSUME NEW x \in Exports
             PROVE  /\ asked'[x] <= 2 * region'[x].cap
                    /\ region'[x].cap > 0 => region'[x].cap < 2 * largest'[x]
    BY DEF HeldInv
<1>3. /\ asked[x] <= 2 * region[x].cap
      /\ region[x].cap > 0 => region[x].cap < 2 * largest[x]
    BY DEF HeldInv
<1>4. CASE x # e
  <2>1. region'[x] = region[x] /\ asked'[x] = asked[x] /\ largest'[x] = largest[x]
      BY <1>1, <1>2, <1>4 DEF GrowRegion
  <2> QED
      BY <1>3, <2>1
<1>5. CASE x = e
  <2>1. region[e].cap \in Nat /\ asked[e] \in Nat /\ largest[e] \in Nat
      BY <1>1, <1>2 DEF Regions
  <2>2. /\ region'[e].cap = NewSize
        /\ asked'[e] = asked[e] + NewSize
        /\ largest'[e] = Larger(largest[e], Need)
      BY <1>1, <1>2 DEF GrowRegion, Capacity
  <2>3. /\ NewSize \in Nat /\ NewSize >= 2 * region[e].cap
        /\ NewSize = Need \/ NewSize = 2 * region[e].cap
      BY <1>1, <2>1, NewSizeType
  <2>4. Larger(largest[e], Need) \in Nat /\ Larger(largest[e], Need) >= Need
      BY <1>1, <2>1 DEF Larger
  <2>5. NewSize < 2 * Need
      BY <1>1, <2>1, <2>3
  <2> QED
      BY <1>1, <1>3, <1>5, <2>1, <2>2, <2>3, <2>4, <2>5
<1> QED
    BY <1>4, <1>5

LEMMA HeldStep == TypeInv /\ HeldInv /\ [Next]_vars => HeldInv'
<1> SUFFICES ASSUME TypeInv, HeldInv, [Next]_vars
             PROVE  HeldInv'
    OBVIOUS
<1>1. TypeInv'
    BY StepTypes
<1>2. ASSUME region' = region, asked' = asked, largest' = largest
      PROVE  HeldInv'
    BY <1>2 DEF HeldInv
<1>3. ASSUME NEW k \in Drives, Call(k) \/ AnswerAtOnce(k) \/ Begin(k)
      PROVE  HeldInv'
    BY <1>2, <1>3 DEF Call, AnswerAtOnce, Begin, memory
<1>4. CASE EnterNamed \/ EnterDefault \/ GrowArea \/ AreaRefused \/ Continue
           \/ NeedsNoRegion \/ NextFind \/ PlaceStack \/ Leave \/ Return
    BY <1>2, <1>4 DEF EnterNamed, EnterDefault, GrowArea, AreaRefused, Continue,
       NeedsNoRegion, NextFind, PlaceStack, Leave, Return, memory
<1>5. CASE GetRegion
  <2>1. CASE region[e].cap < Need /\ GrowRegion
      BY <2>1, GrowHeld
  <2>2. CASE UNCHANGED <<pages, floor, region, asked, largest>>
      BY <1>2, <2>2
  <2>3. CASE /\ largest' = [largest EXCEPT ![e] = Larger(@, Need)]
             /\ UNCHANGED <<pages, floor, region, asked>>
    <3>1. e \in Exports /\ Need \in Nat /\ largest \in [Exports -> Nat]
        BY Here DEF TypeInv, TypeOK
    <3>2. \A x \in Exports : largest'[x] >= largest[x]
        BY <2>3, <3>1 DEF Larger
    <3> QED
        BY <1>1, <2>3, <3>2, HeldOf
  <2> QED
      BY <1>5, <2>1, <2>2, <2>3 DEF GetRegion
<1>6. CASE HandOver
  <2>1. e \in Exports /\ region \in [Exports -> Regions] /\ largest \in [Exports -> Nat]
      BY Here DEF TypeInv, TypeOK, Regions
  <2>2. \A x \in Exports : region'[x].cap = region[x].cap
      BY <1>6, <2>1 DEF HandOver, Regions
  <2>3. asked' = asked /\ largest' = largest /\ \A x \in Exports : largest[x] >= largest[x]
      BY <1>6, <2>1 DEF HandOver
  <2> QED
      BY <1>1, <2>2, <2>3, HeldOf
<1>7. CASE Find \/ FindNone \/ FindUnknown
  <2>1. \A x \in Exports : region'[x].cap = region[x].cap
      BY <1>7, AfterTypes, UnknownTypes DEF Find, FindNone, RegionsStay
  <2>2. asked' = asked /\ largest' = largest
      BY <1>7 DEF Find, FindNone, FindUnknown
  <2>3. \A x \in Exports : largest[x] >= largest[x]
      BY DEF TypeInv, TypeOK
  <2> QED
      BY <1>1, <2>1, <2>2, <2>3, HeldOf
<1>8. CASE UNCHANGED vars
    BY <1>2, <1>8 DEF vars, memory
<1> QED
    BY <1>3, <1>4, <1>5, <1>6, <1>7, <1>8 DEF Next, Host, Module

\* However many drives, of whatever length and in whatever order, the regions
\* ever grown for a default stay under four times the largest need.
THEOREM HeldBounded == Spec => []HeldFourTimes
<1>1. Init => HeldInv
    BY DEF Init, HeldInv, NoRegion
<1>2. TypeInv /\ HeldInv => HeldFourTimes
  <2> SUFFICES ASSUME TypeInv, HeldInv, NEW x \in Exports, asked[x] > 0
               PROVE  asked[x] < 4 * largest[x]
      BY DEF HeldFourTimes
  <2>1. region[x].cap \in Nat /\ largest[x] \in Nat /\ asked[x] \in Nat
      BY DEF TypeInv, TypeOK
  <2>2. /\ asked[x] <= 2 * region[x].cap
        /\ region[x].cap > 0 => region[x].cap < 2 * largest[x]
      BY DEF HeldInv
  <2> QED
      BY <2>1, <2>2
<1> QED
    BY <1>1, <1>2, HeldStep, Typed, PTL DEF Spec
-----------------------------------------------------------------------------
(* What the module keeps and what a fallback uses never overlap, for every  *)
(* page size, floor, scratch base and limit.                                *)

\* Pages hold the bytes they were grown for.
LEMMA PagesHold ==
    ASSUME NEW bytes \in Nat
    PROVE  PagesFor(bytes) * Page >= bytes
<1>1. Page \in Nat /\ Page > 0
    BY Sizes
<1>2. \A a \in Nat, b \in Nat : b > 0 => a \div b \in Nat /\ a < b * (a \div b) + b
    OBVIOUS
<1>3. bytes + Page - 1 \in Nat
    BY <1>1
<1>4. /\ PagesFor(bytes) \in Nat
      /\ bytes + Page - 1 < Page * PagesFor(bytes) + Page
    BY <1>1, <1>2, <1>3 DEF PagesFor
<1>5. \A m, n \in Nat : m * n \in Nat /\ m * n = n * m
    OBVIOUS
<1> QED
    BY <1>1, <1>4, <1>5

\* What a default keeps ends by n.
Below(n) == \A x \in Exports : AreaOf(x)[2] <= n /\ RegionOf(x)[2] <= n

\* Two defaults share nothing.
KeptApart ==
    \A x, y \in Exports :
       /\ Apart(AreaOf(x), RegionOf(y))
       /\ x # y => Apart(AreaOf(x), AreaOf(y)) /\ Apart(RegionOf(x), RegionOf(y))

\* Everything kept lies in memory, and under the floor unless that is as high as
\* it goes; a frame stack lies above it all, and only while a find runs.
LayoutInv ==
    /\ Below(pages * Page)
    /\ Below(floor) \/ floor = EndPages * Page
    /\ pc # "find" => scratch = NoScratch
    /\ scratch = NoScratch \/ Below(scratch[1])
    /\ KeptApart

\* Places and ends are natural.
LEMMA Ends ==
    ASSUME TypeInv, NEW x \in Exports
    PROVE  /\ AreaOf(x) \in Nat \X Nat /\ RegionOf(x) \in Nat \X Nat
           /\ pages * Page \in Nat /\ EndPages * Page \in Nat
<1>1. area[x] \in Nat /\ region[x].ptr \in Nat /\ region[x].cap \in Nat /\ pages \in Nat
    BY DEF TypeInv, TypeOK
<1>2. AreaBytes \in Nat /\ Page \in Nat /\ EndPages \in Nat
    BY Sizes
<1>3. \A m, n \in Nat : m * n \in Nat /\ m + n \in Nat
    OBVIOUS
<1>4. AreaOf(x) \in Nat \X Nat
    BY <1>1, <1>2, <1>3 DEF AreaOf, NoScratch
<1>5. RegionOf(x) \in Nat \X Nat
    BY <1>1, <1>3 DEF RegionOf
<1> QED
    BY <1>1, <1>2, <1>3, <1>4, <1>5

\* A growth puts its bytes after all that was there, and lifts the floor past them.
LEMMA GrowRoom ==
    ASSUME TypeInv, NEW bytes \in Nat, Grow(bytes)
    PROVE  /\ GrownAt + bytes <= pages' * Page
           /\ pages' * Page \in Nat /\ GrownAt \in Nat /\ GrownAt <= pages' * Page
           /\ floor' = pages' * Page \/ floor' = EndPages * Page
<1>1. pages \in Nat /\ Page \in Nat /\ EndPages \in Nat /\ PagesFor(bytes) \in Nat
    BY Sizes, PagesForType DEF TypeInv, TypeOK
<1>2. pages' = pages + PagesFor(bytes)
    BY DEF Grow
<1>3. PagesFor(bytes) * Page >= bytes
    BY PagesHold
<1>4. \A m, n, k \in Nat : m * n \in Nat /\ (m + k) * n = m * n + k * n
    OBVIOUS
<1>5. pages' * Page = GrownAt + PagesFor(bytes) * Page
    BY <1>1, <1>2, <1>4 DEF GrownAt
<1>6. GrownAt \in Nat /\ PagesFor(bytes) * Page \in Nat
    BY <1>1, <1>4 DEF GrownAt
<1>7. floor' = pages' * Page \/ floor' = EndPages * Page
    BY DEF Grow, FloorRaised, Smaller
<1> QED
    BY <1>3, <1>5, <1>6, <1>7

\* A step that moves nothing kept.
LEMMA LayoutOf ==
    ASSUME TypeInv, TypeInv', LayoutInv, area' = area, RegionsStay,
           pages' = pages, floor' = floor, scratch' = NoScratch \/ scratch' = scratch,
           pc' # "find" => scratch' = NoScratch
    PROVE  LayoutInv'
<1>1. \A x \in Exports : AreaOf(x)' = AreaOf(x) /\ RegionOf(x)' = RegionOf(x)
    BY DEF AreaOf, RegionOf, RegionsStay
<1>2. KeptApart'
    BY <1>1 DEF LayoutInv, KeptApart, Apart
<1>3. Below(pages * Page)'
    BY <1>1 DEF LayoutInv, Below
<1>4. Below(floor)' \/ floor' = EndPages * Page
    BY <1>1 DEF LayoutInv, Below
<1>5. scratch' = NoScratch \/ Below(scratch[1])'
    BY <1>1 DEF LayoutInv, Below
<1> QED
    BY <1>2, <1>3, <1>4, <1>5 DEF LayoutInv

\* The first use of a default.
LEMMA GrowAreaLayout ==
    ASSUME TypeInv, TypeInv', LayoutInv, GrowArea
    PROVE  LayoutInv'
<1>1. PICK o \in Exports : o = e
    BY Here
<1>2. /\ Grow(AreaBytes) /\ area' = [area EXCEPT ![o] = GrownAt]
      /\ region' = region /\ scratch' = scratch /\ pc' = "continue" /\ pc = "enter"
    BY <1>1 DEF GrowArea
<1>3. /\ GrownAt + AreaBytes <= pages' * Page /\ pages' * Page \in Nat
      /\ GrownAt \in Nat /\ GrownAt <= pages' * Page
      /\ floor' = pages' * Page \/ floor' = EndPages * Page
    BY <1>2, GrowRoom, Sizes
<1>4. area \in [Exports -> Nat]
    BY DEF TypeInv, TypeOK
<1>5. \A x \in Exports : /\ RegionOf(x)' = RegionOf(x)
                         /\ x # o => AreaOf(x)' = AreaOf(x)
    BY <1>2, <1>4 DEF RegionOf, AreaOf
<1>6. AreaOf(o)' = NoScratch \/ AreaOf(o)' = <<GrownAt, GrownAt + AreaBytes>>
    BY <1>2, <1>4 DEF AreaOf
<1>7. \A x \in Exports : AreaOf(x)[2] <= GrownAt /\ RegionOf(x)[2] <= GrownAt
    BY DEF LayoutInv, Below, GrownAt
<1>8. \A x \in Exports : AreaOf(x) \in Nat \X Nat /\ RegionOf(x) \in Nat \X Nat
    BY Ends
<1>9. AreaOf(o)'[2] <= pages' * Page /\ (AreaOf(o)' = NoScratch \/ AreaOf(o)'[1] = GrownAt)
    BY <1>3, <1>6 DEF NoScratch
<1>10. \A x \in Exports : AreaOf(x)'[2] <= pages' * Page /\ RegionOf(x)'[2] <= pages' * Page
    BY <1>3, <1>5, <1>7, <1>8, <1>9
<1>11. Below(pages * Page)'
    BY <1>10 DEF Below
<1>12. Below(floor)' \/ floor' = EndPages * Page
    BY <1>3, <1>10 DEF Below
<1>13. scratch' = NoScratch
    BY <1>2 DEF LayoutInv
<1>14. \A x \in Exports : Apart(AreaOf(o)', RegionOf(x)) /\ Apart(AreaOf(o)', AreaOf(x))
                          /\ Apart(AreaOf(x), AreaOf(o)')
    BY <1>7, <1>9 DEF Apart, NoScratch
<1>15. \A x, y \in Exports :
          /\ Apart(AreaOf(x)', RegionOf(y)')
          /\ x # y => Apart(AreaOf(x)', AreaOf(y)') /\ Apart(RegionOf(x)', RegionOf(y)')
    BY <1>5, <1>14 DEF LayoutInv, KeptApart
<1>16. KeptApart'
    BY <1>15 DEF KeptApart, Apart
<1> QED
    BY <1>2, <1>11, <1>12, <1>13, <1>16 DEF LayoutInv

\* A region that is too small.
LEMMA GrowRegionLayout ==
    ASSUME TypeInv, TypeInv', LayoutInv, GrowRegion, area' = area, scratch' = scratch,
           pc = "give", pc' = "hand"
    PROVE  LayoutInv'
<1>1. PICK o \in Exports : o = e
    BY Here
<1>2. PICK size \in Nat : size = NewSize
    BY <1>1, NewSizeType, Here DEF TypeInv, TypeOK
<1>3. /\ Grow(size)
      /\ region' = [region EXCEPT ![o] = [ptr |-> GrownAt, cap |-> size, marks |-> {}]]
    BY <1>1, <1>2 DEF GrowRegion, Capacity
<1>4. /\ GrownAt + size <= pages' * Page /\ pages' * Page \in Nat
      /\ GrownAt \in Nat /\ GrownAt <= pages' * Page
      /\ floor' = pages' * Page \/ floor' = EndPages * Page
    BY <1>3, GrowRoom
<1>5. region \in [Exports -> Regions]
    BY DEF TypeInv, TypeOK, Regions
<1>6. \A x \in Exports : /\ AreaOf(x)' = AreaOf(x)
                         /\ x # o => RegionOf(x)' = RegionOf(x)
    BY <1>3, <1>5 DEF RegionOf, AreaOf
<1>7. RegionOf(o)' = <<GrownAt, GrownAt + size>>
    BY <1>3, <1>5 DEF RegionOf
<1>8. \A x \in Exports : AreaOf(x)[2] <= GrownAt /\ RegionOf(x)[2] <= GrownAt
    BY DEF LayoutInv, Below, GrownAt
<1>9. \A x \in Exports : AreaOf(x) \in Nat \X Nat /\ RegionOf(x) \in Nat \X Nat
    BY Ends
<1>10. RegionOf(o)'[2] <= pages' * Page /\ RegionOf(o)'[1] = GrownAt
    BY <1>4, <1>7
<1>11. \A x \in Exports : AreaOf(x)'[2] <= pages' * Page /\ RegionOf(x)'[2] <= pages' * Page
    BY <1>4, <1>6, <1>8, <1>9, <1>10
<1>12. Below(pages * Page)'
    BY <1>11 DEF Below
<1>13. Below(floor)' \/ floor' = EndPages * Page
    BY <1>4, <1>11 DEF Below
<1>14. scratch' = NoScratch
    BY DEF LayoutInv
<1>15. \A x \in Exports : Apart(AreaOf(x), RegionOf(o)') /\ Apart(RegionOf(x), RegionOf(o)')
                          /\ Apart(RegionOf(o)', RegionOf(x))
    BY <1>8, <1>10 DEF Apart
<1>16. \A x, y \in Exports :
          /\ Apart(AreaOf(x)', RegionOf(y)')
          /\ x # y => Apart(AreaOf(x)', AreaOf(y)') /\ Apart(RegionOf(x)', RegionOf(y)')
    BY <1>6, <1>15 DEF LayoutInv, KeptApart
<1>17. KeptApart'
    BY <1>16 DEF KeptApart, Apart
<1> QED
    BY <1>12, <1>13, <1>14, <1>17 DEF LayoutInv

\* A frame stack is placed.
LEMMA PlaceLayout ==
    ASSUME TypeInv, TypeInv', LayoutInv, PlaceStack
    PROVE  LayoutInv'
<1>1. /\ ScratchFits /\ scratch' = <<ScratchFrom, ScratchTo>> /\ pages' = ScratchPages
      /\ area' = area /\ region' = region /\ floor' = floor /\ pc' = "find"
    BY DEF PlaceStack
<1>2. \A x \in Exports : AreaOf(x)' = AreaOf(x) /\ RegionOf(x)' = RegionOf(x)
    BY <1>1 DEF AreaOf, RegionOf
<1>3. \A x \in Exports : AreaOf(x) \in Nat \X Nat /\ RegionOf(x) \in Nat \X Nat
                         /\ pages * Page \in Nat /\ EndPages * Page \in Nat
    BY Ends
<1>4. ScratchFrom \in Nat /\ ScratchTo = ScratchFrom + StackBytes /\ ScratchPages \in Nat
      /\ StackBytes \in Nat /\ StackBytes > 0 /\ floor \in Nat /\ mode.base \in Nat
    BY ScratchTypes, Sizes, Here DEF ScratchTo, TypeInv, TypeOK, Mode
<1>5. ScratchBase \in Nat /\ ScratchBase <= ScratchFrom
  <2>1. \A m, n \in Nat : m * n \in Nat /\ Larger(m, n) \in Nat /\ m <= Larger(m, n)
      BY DEF Larger
  <2>2. pages \in Nat /\ Page \in Nat
      BY Sizes DEF TypeInv, TypeOK
  <2>3. ScratchBase \in Nat
      BY <1>4, <2>1, <2>2 DEF ScratchBase
  <2>4. CASE UsesMemo
    <3>1. region[search].ptr \in Nat /\ Need \in Nat
        BY <2>4, Here DEF UsesMemo, Named, TypeInv, TypeOK
    <3>2. PICK m \in Nat : m = region[search].ptr + Need
        BY <3>1, \A m, n \in Nat : m + n \in Nat
    <3> QED
        BY <2>1, <2>3, <2>4, <3>2 DEF ScratchFrom
  <2>5. CASE ~UsesMemo
      BY <2>3, <2>5 DEF ScratchFrom
  <2> QED
      BY <2>3, <2>4, <2>5
<1>6. Below(ScratchFrom)
  <2>1. CASE mode.base = 0
      BY <1>3, <1>4, <1>5, <2>1 DEF ScratchBase, LayoutInv, Below
  <2>2. CASE mode.base # 0
    <3>1. ScratchBase >= floor
        BY <1>4, <2>2 DEF ScratchBase, Larger
    <3>2. EndPages * Page \in Nat
      <4>1. EndPages \in Nat /\ Page \in Nat
          BY Sizes
      <4>2. \A m, n \in Nat : m * n \in Nat
          OBVIOUS
      <4> QED
          BY <4>1, <4>2
    <3>3. floor # EndPages * Page
        BY <1>1, <1>4, <1>5, <3>1, <3>2 DEF ScratchFits
    <3>4. Below(floor)
        BY <3>3 DEF LayoutInv
    <3> QED
        BY <1>3, <1>4, <1>5, <3>1, <3>4 DEF Below
  <2> QED
      BY <2>1, <2>2
<1>7. pages' * Page >= pages * Page /\ pages' * Page \in Nat
  <2>1. pages \in Nat /\ Page \in Nat /\ pages' \in Nat /\ pages' >= pages
      BY <1>1, <1>4, Sizes, PagesForType, ScratchTypes
      DEF TypeInv, TypeOK, ScratchPages, Larger
  <2>2. \A m, n, k \in Nat : m >= n => m * k >= n * k /\ m * k \in Nat
      OBVIOUS
  <2> QED
      BY <2>1, <2>2
<1>8. Below(pages * Page)'
    BY <1>2, <1>3, <1>7 DEF LayoutInv, Below
<1>9. Below(floor)' \/ floor' = EndPages * Page
    BY <1>1, <1>2 DEF LayoutInv, Below
<1>10. Below(scratch[1])'
    BY <1>1, <1>2, <1>6 DEF Below
<1>11. KeptApart'
    BY <1>2 DEF LayoutInv, KeptApart, Apart
<1> QED
    BY <1>1, <1>8, <1>9, <1>10, <1>11 DEF LayoutInv

LEMMA LayoutStep == TypeInv /\ LayoutInv /\ [Next]_vars => LayoutInv'
<1> SUFFICES ASSUME TypeInv, LayoutInv, [Next]_vars
             PROVE  LayoutInv'
    OBVIOUS
<1>1. TypeInv'
    BY StepTypes
<1>2. ASSUME UNCHANGED <<pages, floor, area, region, scratch>>,
             pc' # "find" => scratch' = NoScratch
      PROVE  LayoutInv'
  <2>1. RegionsStay
      BY <1>2 DEF RegionsStay
  <2> QED
      BY <1>1, <1>2, <2>1, LayoutOf
<1>3. ASSUME NEW k \in Drives, Call(k) \/ AnswerAtOnce(k) \/ Begin(k)
      PROVE  LayoutInv'
    BY <1>2, <1>3 DEF Call, AnswerAtOnce, Begin, memory, LayoutInv
<1>4. CASE EnterNamed \/ EnterDefault \/ AreaRefused \/ Continue \/ NeedsNoRegion
           \/ NextFind \/ Leave \/ Return
    BY <1>2, <1>4 DEF EnterNamed, EnterDefault, AreaRefused, Continue,
       NeedsNoRegion, NextFind, Leave, Return, memory, LayoutInv
<1>5. CASE GrowArea
    BY <1>1, <1>5, GrowAreaLayout
<1>6. CASE GetRegion
  <2>1. CASE GrowRegion
      BY <1>1, <1>6, <2>1, GrowRegionLayout DEF GetRegion
  <2>2. CASE UNCHANGED <<pages, floor, region, asked>>
      BY <1>2, <1>6, <2>2 DEF GetRegion, LayoutInv
  <2> QED
      BY <1>6, <2>1, <2>2 DEF GetRegion
<1>7. CASE HandOver
  <2>1. e \in Exports /\ region \in [Exports -> Regions]
      BY Here DEF TypeInv, TypeOK, Regions
  <2>2. RegionsStay
      BY <1>7, <2>1 DEF HandOver, Regions, RegionsStay
  <2>3. scratch' = NoScratch /\ area' = area /\ pages' = pages /\ floor' = floor
      BY <1>7 DEF HandOver, LayoutInv
  <2> QED
      BY <1>1, <2>2, <2>3, LayoutOf
<1>8. CASE PlaceStack
    BY <1>1, <1>8, PlaceLayout
<1>9. CASE Find \/ FindNone \/ FindUnknown
  <2>1. RegionsStay
      BY <1>9, AfterTypes, UnknownTypes DEF Find, FindNone
  <2>2. scratch' = NoScratch /\ area' = area /\ pages' = pages /\ floor' = floor
      BY <1>9 DEF Find, FindNone, FindUnknown
  <2> QED
      BY <1>1, <2>1, <2>2, LayoutOf
<1>10. CASE UNCHANGED vars
    BY <1>2, <1>10 DEF vars, memory, LayoutInv
<1> QED
    BY <1>3, <1>4, <1>5, <1>6, <1>7, <1>8, <1>9, <1>10 DEF Next, Host, Module

\* Whatever is grown when, wherever the host says its scratch begins, and though
\* the floor stops rising at the top of memory: no frame stack runs over what a
\* default keeps, and no two defaults share memory.
THEOREM MemoryKeptApart == Spec => []MemoryApart
<1>1. Init => LayoutInv
  <2> SUFFICES ASSUME Init PROVE LayoutInv
      OBVIOUS
  <2>1. \A x \in Exports : AreaOf(x) = NoScratch /\ RegionOf(x) = <<0, 0>>
      BY DEF Init, AreaOf, RegionOf, NoRegion
  <2>2. pages * Page \in Nat /\ floor \in Nat
      BY Sizes DEF Init
  <2>3. KeptApart
      BY <2>1 DEF KeptApart, Apart, NoScratch
  <2> QED
      BY <2>1, <2>2, <2>3 DEF Init, LayoutInv, Below, NoScratch
<1>2. TypeInv /\ LayoutInv => MemoryApart
  <2> SUFFICES ASSUME TypeInv, LayoutInv, NEW x \in Exports
               PROVE  Apart(scratch, AreaOf(x)) /\ Apart(scratch, RegionOf(x))
      BY DEF MemoryApart, LayoutInv, KeptApart
  <2>1. CASE scratch = NoScratch
      BY <2>1 DEF Apart, NoScratch
  <2>2. CASE Below(scratch[1])
      BY <2>2 DEF Below, Apart
  <2> QED
      BY <2>1, <2>2 DEF LayoutInv
<1> QED
    BY <1>1, <1>2, LayoutStep, Typed, PTL DEF Spec
-----------------------------------------------------------------------------
(* What a default keeps is true of the text it is used on next.              *)

\* The text of a drive that is under way is what its buffer holds.
Active(k) == drive[k].status = "driving" \/ (pc # "host" /\ k = d)
TextsHeld ==
    /\ \A b \in Buffers : held[b].len = b.len
    /\ \A k \in Drives :
          /\ \E c \in Contents : /\ c.len = drive[k].buf.len
                                 /\ drive[k].text = FoundBy(drive[k].export, c)
          /\ Active(k) => drive[k].text = FoundBy(drive[k].export, held[drive[k].buf])

\* A drive that leaves the global to the module; and the module left for good,
\* once a caller that keeps naming its own block is not followed by a 0.
Own(k) == k \notin mode.hands
Lost == search = Handed /\ ~mode.zeroes

\* A call has the default in its hands: what it keeps is settled when it leaves.
InUse == call.mine /\ pc \in {"give", "hand", "loop", "place", "find", "leave", "return"}

\* Marks that may be read, and their being failures of the text in a buffer.
Marked(x) == IF Keeps[x].keeps = "notes" THEN blk[x].seen ELSE blk[x].memo
Right(x, b) == \A m \in region[x].marks : m <= b.len => m \in held[b].fails
Same(x, b) == rec[x].ptr = b.ptr /\ rec[x].len = b.len
Within(x, p) == rec[x].lo <= p /\ p <= rec[x].hi

\* How block, record and region of a default fit each other.
NotesFit(x) ==
    /\ ~blk[x].memo
    /\ \A m \in region[x].marks : m < blk[x].high
    /\ blk[x].seen => /\ blk[x].armed /\ blk[x].ptr = rec[x].ptr /\ blk[x].len = rec[x].len
                      /\ (rec[x].len + 1) * Keeps[x].per <= region[x].cap
MemoFits(x) ==
    IF ~blk[x].memo THEN blk[x].len = 0
    ELSE /\ blk[x].tripped
         /\ (rec[x].len + 1) * Keeps[x].per <= region[x].cap
         /\ IF blk[x].len = 0 THEN \A m \in region[x].marks : m > rec[x].len
            ELSE blk[x].ptr = rec[x].ptr /\ blk[x].len = rec[x].len + 1
FitsAt(x) ==
    /\ IF Keeps[x].keeps = "notes" THEN NotesFit(x) ELSE MemoFits(x)
    /\ area[x] = 0 => ~rec[x].live /\ last[x] = << >>
    /\ Keeps[x].batch /\ rec[x].live => rec[x].lo >= 1
Fits == \A x \in Exports : FitsAt(x)

\* The drive whose call used a default last will find it as it was.
LastKept(x) ==
    \A k \in Drives : last[x] = <<k>> =>
        /\ Own(k)
        /\ drive[k].status = "driving" =>
              /\ drive[k].export = x /\ rec[x].live
              /\ Same(x, drive[k].buf) /\ Within(x, drive[k].from)

\* A drive that would be taken to continue reads marks of its own text; notes,
\* which name the position they go on from, unless it is another's.
DriveReady(x) ==
    \A k \in Drives :
        (/\ Own(k) /\ drive[k].status = "driving" /\ drive[k].export = x
         /\ rec[x].live /\ Same(x, drive[k].buf) /\ Within(x, drive[k].from) /\ Marked(x))
        => \/ Right(x, drive[k].buf)
           \/ Keeps[x].keeps = "notes" /\ blk[x].resume # drive[k].from

\* So does one that begins, at 0: a window that reaches there is of notes that go
\* on later, or of a drive not done with its buffer, or of the empty text.
StartReady(x) ==
    rec[x].live /\ rec[x].lo = 0 =>
        IF Keeps[x].keeps = "notes" THEN blk[x].seen => blk[x].resume >= 1
        ELSE /\ \/ rec[x].len = 0
                \/ \E k \in Drives : /\ last[x] = <<k>> /\ drive[k].status = "driving"
                                     /\ drive[k].from <= rec[x].len
             /\ \A b \in Buffers : b.len = 0 /\ Same(x, b) /\ Marked(x) => Right(x, b)

ReadyAt(x) == LastKept(x) /\ DriveReady(x) /\ StartReady(x)
Ready == ~Lost => \A x \in Exports : ~(InUse /\ x = e) => ReadyAt(x)

\* A running call: where it is, whether it has a default, and what it has found.
Before == {"enter", "continue", "give", "hand", "loop", "place", "find"}
CallHolds ==
    /\ pc = "host" /\ search \in Exports => mode.zeroes
    /\ pc = "enter" => ~call.mine /\ search \notin Exports
    /\ pc \in {"continue", "give", "hand"} => call.mine /\ search = NoBlock
    /\ pc \in {"loop", "place", "find", "leave", "return"} =>
          IF call.mine THEN search = e ELSE search \notin Exports
    /\ pc # "host" /\ call.mine => Own(d) /\ area[e] # 0
    /\ pc = "enter" /\ search = NoBlock => Own(d)
    /\ pc \in {"loop", "place", "find", "leave", "return"} /\ search = NoBlock => area[e] = 0
    /\ pc # "host" /\ search = Handed => d \in mode.hands \/ ~mode.zeroes
    /\ pc \in Before => drive[d].status = "driving" /\ call.pos = drive[d].from
    /\ pc \in Before /\ (~Keeps[e].batch \/ pc \in {"enter", "continue", "give", "hand"}) => call.count = 0
    /\ pc \in {"enter", "continue", "give", "hand"} => call.prev = NoMatch
    /\ pc # "host" /\ call.count > 0 /\ Keeps[e].batch => call.pos >= 1
    /\ pc = "leave" /\ drive[d].status = "driving" =>
          IF Keeps[e].batch
          THEN call.pos = drive[d].from /\ (call.count < OutCap => call.pos > text.len)
          ELSE /\ call.prev >= call.pos /\ call.prev <= text.len
               /\ drive[d].from = ResumeAfter(call.pos, call.prev)
    /\ pc = "leave" /\ Keeps[e].batch => drive[d].status # "unknown"
    /\ pc = "return" => Keeps[e].batch /\ drive[d].status = "unknown"

\* What the default in its hands holds is this text's.
CallReads ==
    InUse =>
        /\ Same(e, at)
        /\ Marked(e) => \/ Right(e, at)
                        \/ pc \in {"leave", "return"} /\ drive[d].status = "unknown"
                        \/ /\ Keeps[e].keeps = "notes" /\ blk[e].resume # call.pos
                           /\ pc \in Before \/ Keeps[e].batch
                           /\ call.count = 0
        /\ pc = "leave" /\ Keeps[e].keeps = "notes" /\ ~Keeps[e].batch /\ blk[e].seen
              /\ drive[d].status = "driving" => blk[e].resume >= 1
        /\ \A x \in Exports \ {e} : last[x] # <<d>>
        /\ \A k \in Drives : last[e] = <<k>> => Own(k)

KeptInv == TextsHeld /\ Fits /\ Ready /\ CallHolds /\ CallReads /\ pages > 0

\* No export that keeps a memo answers early but at the end of the text.
ShortMatches ==
    \A x \in Exports : Keeps[x].keeps = "memo" /\ ~Keeps[x].batch => Keeps[x].minLen <= 1
\* A batch call that gives up has the module to itself, and its caller writes 0.
CutShortAlone ==
    pc = "return" /\ call.mine => mode.zeroes /\ \A k \in Drives \ {d} : ~Own(k)
-----------------------------------------------------------------------------
\* The text of the call, and what its buffer holds.
LEMMA TextHere ==
    ASSUME TypeInv, TextsHeld, pc # "host"
    PROVE  /\ at \in Buffers /\ at.len \in Nat /\ at.ptr \in Nat
           /\ text.len = at.len /\ text.fails = held[at].fails
           /\ text = FoundBy(e, held[at]) /\ held[at] \in Contents
           /\ Need = (at.len + 1) * Keeps[e].per
<1>1. d \in Drives /\ drive[d] \in Driving /\ at = drive[d].buf /\ at \in Buffers
    BY Here DEF Driving, at
<1>2. text = FoundBy(e, held[at])
    BY <1>1 DEF TextsHeld, Active, text, e, at
<1>3. held[at] \in Contents /\ held[at].len = at.len
    BY <1>1 DEF TypeInv, TypeOK, TextsHeld
<1>4. held[at] \in Content
    BY <1>3, TextAssumption
<1>5. text.len = held[at].len /\ text.fails = held[at].fails
    BY <1>2, <1>4 DEF FoundBy, Content
<1>6. at \in Buffer
    BY <1>1, TextAssumption
<1> QED BY <1>1, <1>2, <1>3, <1>5, <1>6 DEF Need, Buffer

\* What holds of a default holds on while neither it nor the drives that would
\* go on with it move.
Unmoved(k) ==
    /\ drive'[k].export = drive[k].export /\ drive'[k].buf = drive[k].buf
    /\ drive'[k].from = drive[k].from
    /\ drive'[k].status = "driving" <=> drive[k].status = "driving"
Unseen(k, x) ==
    last[x] # <<k>> /\ (~Own(k) \/ drive'[k].export # x \/ ~rec[x].live)
\* A drive that ends, but not one a window from 0 waits for.
Spent(k, x) ==
    /\ drive'[k].status # "driving"
    /\ last[x] = <<k>> /\ rec[x].live /\ Keeps[x].keeps # "notes" => ~(drive[k].from <= rec[x].len)
Still(x) ==
    /\ blk'[x] = blk[x] /\ rec'[x] = rec[x] /\ region'[x].marks = region[x].marks
    /\ last'[x] = last[x]

LEMMA ReadyAtKept ==
    ASSUME NEW x \in Exports, ReadyAt(x), mode' = mode, held' = held, Still(x),
           \A k \in Drives : Unmoved(k) \/ Unseen(k, x) \/ Spent(k, x)
    PROVE  ReadyAt(x)'
<1>1. /\ Marked(x)' = Marked(x) /\ rec'[x] = rec[x] /\ last'[x] = last[x]
      /\ \A b : Right(x, b)' = Right(x, b) /\ Same(x, b)' = Same(x, b)
      /\ \A p : Within(x, p)' = Within(x, p)
      /\ \A k : Own(k)' = Own(k)
    BY DEF Still, Marked, Right, Same, Within, Own
<1>2. LastKept(x)'
  <2> SUFFICES ASSUME NEW k \in Drives, last'[x] = <<k>>
               PROVE  /\ Own(k)'
                      /\ drive'[k].status = "driving" =>
                            /\ drive'[k].export = x /\ rec'[x].live
                            /\ Same(x, drive[k].buf)' /\ Within(x, drive[k].from)'
      BY DEF LastKept
  <2>1. last[x] = <<k>> /\ (Unmoved(k) \/ drive'[k].status # "driving")
      BY <1>1 DEF Unseen, Spent
  <2>2. /\ Own(k)
        /\ drive[k].status = "driving" =>
              /\ drive[k].export = x /\ rec[x].live
              /\ Same(x, drive[k].buf) /\ Within(x, drive[k].from)
      BY <2>1 DEF ReadyAt, LastKept
  <2> QED BY <1>1, <2>1, <2>2 DEF Unmoved, Same, Within, Own
<1>3. DriveReady(x)'
  <2> SUFFICES ASSUME NEW k \in Drives, Own(k), drive'[k].status = "driving", drive'[k].export = x,
                      rec[x].live, rec[x].ptr = drive'[k].buf.ptr, rec[x].len = drive'[k].buf.len,
                      rec[x].lo <= drive'[k].from, drive'[k].from <= rec[x].hi, Marked(x)
               PROVE  \/ \A m \in region[x].marks : m <= drive'[k].buf.len => m \in held[drive'[k].buf].fails
                      \/ Keeps[x].keeps = "notes" /\ blk[x].resume # drive'[k].from
      BY <1>1 DEF DriveReady, Right, Same, Within, Still, Own
  <2>1. Unmoved(k)
      BY DEF Unseen, Spent
  <2> QED BY <2>1 DEF Unmoved, ReadyAt, DriveReady, Right, Same, Within
<1>4. StartReady(x)'
  <2> SUFFICES ASSUME rec[x].live, rec[x].lo = 0
               PROVE  IF Keeps[x].keeps = "notes" THEN blk[x].seen => blk[x].resume >= 1
                      ELSE /\ \/ rec[x].len = 0
                              \/ \E k \in Drives : /\ last[x] = <<k>> /\ drive'[k].status = "driving"
                                                   /\ drive'[k].from <= rec[x].len
                           /\ \A b \in Buffers : b.len = 0 /\ Same(x, b) /\ Marked(x) => Right(x, b)
      BY <1>1 DEF StartReady, Still
  <2>1. IF Keeps[x].keeps = "notes" THEN blk[x].seen => blk[x].resume >= 1
        ELSE /\ \/ rec[x].len = 0
                \/ \E k \in Drives : /\ last[x] = <<k>> /\ drive[k].status = "driving"
                                     /\ drive[k].from <= rec[x].len
             /\ \A b \in Buffers : b.len = 0 /\ Same(x, b) /\ Marked(x) => Right(x, b)
      BY DEF ReadyAt, StartReady
  <2>2. ASSUME NEW k \in Drives, last[x] = <<k>>, Keeps[x].keeps # "notes", drive[k].from <= rec[x].len
        PROVE  Unmoved(k)
      BY <2>2 DEF Unseen, Spent
  <2> QED BY <2>1, <2>2 DEF Unmoved
<1> QED BY <1>2, <1>3, <1>4 DEF ReadyAt

LEMMA FitsAtKept ==
    ASSUME NEW x \in Exports, FitsAt(x), Still(x), region'[x].cap = region[x].cap,
           area[x] # 0 => area'[x] # 0
    PROVE  FitsAt(x)'
    BY DEF FitsAt, NotesFit, MemoFits, Still

LEMMA TextsKept ==
    ASSUME TextsHeld, held' = held,
           \A k \in Drives : /\ drive'[k].export = drive[k].export /\ drive'[k].buf = drive[k].buf
                             /\ drive'[k].text = drive[k].text
                             /\ Active(k)' => Active(k)
    PROVE  TextsHeld'
<1>1. \A b \in Buffers : held'[b].len = b.len
    BY DEF TextsHeld
<1>2. ASSUME NEW k \in Drives
      PROVE  /\ \E c \in Contents : /\ c.len = drive'[k].buf.len
                                    /\ drive'[k].text = FoundBy(drive'[k].export, c)
             /\ Active(k)' => drive'[k].text = FoundBy(drive'[k].export, held'[drive'[k].buf])
  <2>1. /\ \E c \in Contents : /\ c.len = drive[k].buf.len
                               /\ drive[k].text = FoundBy(drive[k].export, c)
        /\ Active(k) => drive[k].text = FoundBy(drive[k].export, held[drive[k].buf])
      BY DEF TextsHeld
  <2> QED BY <2>1
<1> QED BY <1>1, <1>2 DEF TextsHeld

LEMMA InitKept == Init => KeptInv
<1> SUFFICES ASSUME Init PROVE KeptInv
    OBVIOUS
<1>1. TypeInv
    BY InitTypes
<1>2. pc = "host" /\ search = NoBlock /\ NoBlock \notin Exports /\ NoBlock # Handed
    BY ExportAssumption DEF Init
<1>3. TextsHeld
  <2>1. \A b \in Buffers : held[b].len = b.len
      BY DEF Init
  <2>2. ASSUME NEW k \in Drives
        PROVE  /\ \E c \in Contents : /\ c.len = drive[k].buf.len
                                      /\ drive[k].text = FoundBy(drive[k].export, c)
               /\ drive[k].text = FoundBy(drive[k].export, held[drive[k].buf])
    <3>1. PICK x \in mode.uses, b \in mode.buffers : drive[k] = DriveOf(x, b, held[b])
        BY DEF Init
    <3>2. b \in Buffers /\ held[b] \in Contents
        BY <1>1, ModeAssumption DEF Mode, TypeInv, TypeOK
    <3>3. drive[k].export = x /\ drive[k].buf = b /\ drive[k].text = FoundBy(x, held[b])
        BY <3>1 DEF DriveOf
    <3> QED BY <2>1, <3>2, <3>3
  <2> QED BY <2>1, <2>2 DEF TextsHeld
<1>4. ASSUME NEW x \in Exports
      PROVE  FitsAt(x) /\ ReadyAt(x)
  <2>1. blk[x] = ZeroBlock /\ rec[x] = NoRecord /\ region[x] = NoRegion /\ last[x] = << >> /\ area[x] = 0
      BY DEF Init
  <2>2. ~blk[x].memo /\ ~blk[x].seen /\ ~rec[x].live /\ region[x].marks = {} /\ blk[x].len = 0
      BY <2>1 DEF ZeroBlock, NoRecord, NoRegion
  <2>3. FitsAt(x)
      BY <2>1, <2>2 DEF FitsAt, NotesFit, MemoFits
  <2>4. ReadyAt(x)
      BY <2>1, <2>2 DEF ReadyAt, LastKept, DriveReady, StartReady
  <2> QED BY <2>3, <2>4
<1>5. CallHolds /\ CallReads
  <2>1. ~InUse
      BY <1>2 DEF InUse
  <2>2. call.count = 0
      BY DEF Init, NoCall
  <2> QED BY <1>2, <2>1, <2>2 DEF CallHolds, CallReads, Before
<1>6. pages > 0
    BY Sizes DEF Init
<1> QED BY <1>3, <1>4, <1>5, <1>6 DEF KeptInv, Fits, Ready
-----------------------------------------------------------------------------
\* Between calls.
LEMMA Idle == ASSUME pc = "host" PROVE ~InUse
    BY DEF InUse

\* The global a caller leaves to the module.
LEMMA GlobalKept ==
    ASSUME TypeInv, CallHolds, pc = "host", NEW k \in Drives, search' = GlobalFor(k), mode' = mode
    PROVE  /\ search' \notin Exports
           /\ search' = Handed => k \in mode.hands \/ ~mode.zeroes
           /\ search' # Handed => k \notin mode.hands
           /\ Lost => Lost'
<1>1. search \in Exports => mode.zeroes
    BY DEF CallHolds
<1> QED BY <1>1, ExportAssumption DEF GlobalFor, Lost

LEMMA TextOfDrive ==
    ASSUME TypeInv, TextsHeld, NEW k \in Drives
    PROVE  /\ drive[k] \in Driving /\ drive[k].text.len = drive[k].buf.len /\ drive[k].text.len \in Nat
           /\ drive[k].from \in Nat /\ drive[k].export \in Exports
<1>1. drive[k] \in Driving
    BY DEF TypeInv, TypeOK, Driving
<1>2. PICK c \in Contents : c.len = drive[k].buf.len /\ drive[k].text = FoundBy(drive[k].export, c)
    BY DEF TextsHeld
<1>3. c \in Content
    BY TextAssumption
<1>4. drive[k].text.len = c.len /\ c.len \in Nat
    BY <1>2, <1>3 DEF FoundBy, Content
<1> QED BY <1>1, <1>2, <1>4 DEF Driving

LEMMA AnswerKept ==
    ASSUME ShortMatches, TypeInv, KeptInv, NEW k \in Drives, AnswerAtOnce(k)
    PROVE  KeptInv'
<1>1. /\ pc = "host" /\ pc' = "host" /\ ~InUse /\ ~InUse' /\ mode' = mode /\ held' = held
      /\ \A x \in Exports : Still(x) /\ region'[x].cap = region[x].cap /\ area'[x] = area[x]
      /\ call' = call /\ search' = GlobalFor(k)
    BY Idle DEF AnswerAtOnce, memory, Still, InUse
<1>2. drive' = [drive EXCEPT ![k].status = "done"] /\ drive[k].status = "driving" /\ TooShort(k)
    BY DEF AnswerAtOnce
<1>3. drive \in [Drives -> Driving]
    BY DEF TypeInv, TypeOK, Driving
<1>4. \A j \in Drives : /\ drive'[j].export = drive[j].export /\ drive'[j].buf = drive[j].buf
                        /\ drive'[j].text = drive[j].text /\ drive'[j].from = drive[j].from
                        /\ j # k => drive'[j] = drive[j]
    BY <1>2, <1>3 DEF Driving
<1>5. drive'[k].status = "done"
    BY <1>2, <1>3 DEF Driving
<1>6. TextsHeld'
  <2>1. \A j \in Drives : Active(j)' => Active(j)
      BY <1>1, <1>4, <1>5 DEF Active
  <2> QED BY <1>1, <1>4, <2>1, TextsKept DEF KeptInv
<1>7. Fits'
    BY <1>1, FitsAtKept DEF KeptInv, Fits
<1>8. (Lost => Lost') /\ search' \notin Exports
    BY <1>1, GlobalKept DEF KeptInv
<1>9. ASSUME ~Lost', NEW x \in Exports
      PROVE  ReadyAt(x)'
  <2>1. ReadyAt(x)
      BY <1>1, <1>8, <1>9 DEF KeptInv, Ready
  <2>2. \A j \in Drives : j # k => Unmoved(j)
      BY <1>4 DEF Unmoved
  <2>3. Spent(k, x)
    <3> SUFFICES ASSUME last[x] = <<k>>, rec[x].live, Keeps[x].keeps # "notes"
                 PROVE  ~(drive[k].from <= rec[x].len)
        BY <1>5 DEF Spent
    <3>1. drive[k].export = x /\ rec[x].len = drive[k].buf.len
        BY <1>2, <2>1 DEF ReadyAt, LastKept, Same
    <3>2. Keeps[x].keeps = "memo" /\ Keeps[x].minLen \in Nat
        BY ExportAssumption DEF Kind
    <3>3. ~Keeps[x].batch /\ Keeps[x].minLen <= 1
        BY <1>2, <3>1, <3>2 DEF TooShort, ShortMatches
    <3>4. drive[k].from > drive[k].text.len
        BY <1>2, <3>1, <3>2, <3>3 DEF TooShort
    <3> QED BY <3>1, <3>4, TextOfDrive DEF KeptInv
  <2> QED BY <1>1, <2>1, <2>2, <2>3, ReadyAtKept
<1>10. CallHolds' /\ CallReads'
    BY <1>1, <1>8 DEF KeptInv, CallHolds, CallReads, Before
<1> QED BY <1>6, <1>7, <1>9, <1>10 DEF KeptInv, Ready, AnswerAtOnce, memory

LEMMA CallKept ==
    ASSUME TypeInv, KeptInv, NEW k \in Drives, Call(k)
    PROVE  KeptInv'
<1>1. /\ pc = "host" /\ pc' = "enter" /\ ~InUse /\ ~InUse' /\ mode' = mode /\ held' = held /\ drive' = drive
      /\ \A x \in Exports : Still(x) /\ region'[x].cap = region[x].cap /\ area'[x] = area[x]
      /\ search' = GlobalFor(k) /\ drive[k].status = "driving"
    BY Idle DEF Call, memory, Still, InUse
<1>2. /\ call'.drive = k /\ call'.pos = drive[k].from /\ ~call'.mine /\ call'.count = 0
      /\ call'.prev = NoMatch
    BY DEF Call, NoCall
<1>3. TextsHeld'
  <2>1. \A j \in Drives : Active(j)' => Active(j)
      BY <1>1, <1>2 DEF Active, d
  <2> QED BY <1>1, <2>1, TextsKept DEF KeptInv
<1>4. Fits'
    BY <1>1, FitsAtKept DEF KeptInv, Fits
<1>5. /\ Lost => Lost'
      /\ search' \notin Exports
      /\ search' = Handed => k \in mode.hands \/ ~mode.zeroes
      /\ search' # Handed => k \notin mode.hands
    BY <1>1, GlobalKept DEF KeptInv
<1>6. ASSUME ~Lost', NEW x \in Exports
      PROVE  ReadyAt(x)'
  <2>1. ReadyAt(x)
      BY <1>1, <1>5, <1>6 DEF KeptInv, Ready
  <2>2. \A j \in Drives : Unmoved(j)
      BY <1>1 DEF Unmoved
  <2> QED BY <1>1, <2>1, <2>2, ReadyAtKept
<1>7. CallHolds'
    BY <1>1, <1>2, <1>5, ExportAssumption DEF CallHolds, Before, Own, d, e
<1> QED BY <1>1, <1>3, <1>4, <1>6, <1>7 DEF KeptInv, Ready, CallReads, Call, memory

LEMMA BeginKept ==
    ASSUME TypeInv, KeptInv, NEW k \in Drives, Begin(k)
    PROVE  KeptInv'
<1>1. /\ pc = "host" /\ pc' = "host" /\ ~InUse /\ ~InUse' /\ mode' = mode /\ call' = call
      /\ search' = search /\ drive[k].status # "driving"
      /\ blk' = blk /\ rec' = rec /\ region' = region /\ area' = area
      /\ last' = [x \in Exports |-> IF last[x] = <<k>> THEN << >> ELSE last[x]]
    BY Idle DEF Begin, memory, InUse
<1>2. PICK y \in mode.uses, b \in mode.buffers :
          \E c \in (IF Free(b) THEN ContentsOf(b) ELSE {held[b]}) :
              /\ held' = [held EXCEPT ![b] = c]
              /\ drive' = [drive EXCEPT ![k] = DriveOf(y, b, c)]
    BY DEF Begin
<1>3. PICK c \in (IF Free(b) THEN ContentsOf(b) ELSE {held[b]}) :
              /\ held' = [held EXCEPT ![b] = c]
              /\ drive' = [drive EXCEPT ![k] = DriveOf(y, b, c)]
    BY <1>2
<1>4. y \in Exports /\ b \in Buffers /\ b \in Buffer
    BY <1>2, ModeAssumption, TextAssumption DEF Mode, TypeInv, TypeOK
<1>5. /\ held \in [Buffers -> Contents] /\ drive \in [Drives -> Driving]
      /\ held[b].len = b.len
    BY <1>4 DEF TypeInv, TypeOK, KeptInv, TextsHeld, Driving
<1>6. c \in Contents /\ c.len = b.len
    BY <1>4, <1>5 DEF ContentsOf
<1>7. /\ \A q \in Buffers : held'[q] = IF q = b THEN c ELSE held[q]
      /\ \A j \in Drives : drive'[j] = IF j = k THEN DriveOf(y, b, c) ELSE drive[j]
    BY <1>3, <1>4, <1>5
<1>8. /\ drive'[k].export = y /\ drive'[k].buf = b /\ drive'[k].text = FoundBy(y, c)
      /\ drive'[k].from = 0 /\ drive'[k].status = "driving"
    BY <1>7 DEF DriveOf
<1>9. \A j \in Drives : drive[j].status = "driving" => drive[j].buf \in Buffers /\ held'[drive[j].buf] = held[drive[j].buf]
  <2> SUFFICES ASSUME NEW j \in Drives, drive[j].status = "driving"
               PROVE  drive[j].buf \in Buffers /\ held'[drive[j].buf] = held[drive[j].buf]
      OBVIOUS
  <2>1. drive[j].buf \in Buffers
      BY <1>5 DEF Driving
  <2>2. CASE drive[j].buf = b
    <3>1. ~Free(b)
        BY <2>2 DEF Free
    <3>2. c = held[b]
        BY <1>3, <3>1
    <3> QED BY <1>7, <2>1, <2>2, <3>2
  <2> QED BY <1>7, <2>1, <2>2
<1>10. TextsHeld'
  <2>1. \A q \in Buffers : held'[q].len = q.len
      BY <1>6, <1>7 DEF KeptInv, TextsHeld
  <2>2. ASSUME NEW j \in Drives
        PROVE  /\ \E u \in Contents : /\ u.len = drive'[j].buf.len
                                      /\ drive'[j].text = FoundBy(drive'[j].export, u)
               /\ Active(j)' => drive'[j].text = FoundBy(drive'[j].export, held'[drive'[j].buf])
    <3>1. CASE j = k
        BY <1>4, <1>6, <1>7, <1>8, <3>1
    <3>2. CASE j # k
      <4>1. drive'[j] = drive[j]
          BY <1>7, <3>2
      <4>2. \E u \in Contents : /\ u.len = drive[j].buf.len
                                /\ drive[j].text = FoundBy(drive[j].export, u)
          BY DEF KeptInv, TextsHeld
      <4>3. Active(j)' => drive[j].status = "driving"
          BY <1>1, <4>1 DEF Active
      <4>4. drive[j].status = "driving" => drive[j].text = FoundBy(drive[j].export, held[drive[j].buf])
          BY DEF KeptInv, TextsHeld, Active
      <4> QED BY <1>9, <4>1, <4>2, <4>3, <4>4
    <3> QED BY <3>1, <3>2
  <2> QED BY <2>1, <2>2 DEF TextsHeld
<1>11. Fits'
  <2> SUFFICES ASSUME NEW x \in Exports PROVE FitsAt(x)'
      BY DEF Fits
  <2>1. FitsAt(x) /\ (last[x] = << >> => last'[x] = << >>)
      BY <1>1 DEF KeptInv, Fits
  <2> QED BY <1>1, <2>1 DEF FitsAt, NotesFit, MemoFits
<1>12. ASSUME ~Lost', NEW x \in Exports
      PROVE  ReadyAt(x)'
  <2>1. ReadyAt(x)
      BY <1>1, <1>12 DEF KeptInv, Ready, Lost
  <2>2. /\ Marked(x)' = Marked(x) /\ \A q : Same(x, q)' = Same(x, q)
        /\ \A j : Own(j)' = Own(j)
        /\ \A j \in Drives : last'[x] = <<j>> => last[x] = <<j>> /\ j # k
        /\ \A j \in Drives : last[x] = <<j>> /\ drive[j].status = "driving" => last'[x] = <<j>>
      BY <1>1 DEF Marked, Same, Own
  <2>3. LastKept(x)'
    <3> SUFFICES ASSUME NEW j \in Drives, last'[x] = <<j>>
                 PROVE  /\ Own(j)'
                        /\ drive'[j].status = "driving" =>
                              /\ drive'[j].export = x /\ rec'[x].live
                              /\ Same(x, drive[j].buf)' /\ Within(x, drive[j].from)'
        BY DEF LastKept
    <3>1. last[x] = <<j>> /\ drive'[j] = drive[j]
        BY <1>7, <2>2
    <3> QED BY <1>1, <2>1, <2>2, <3>1 DEF ReadyAt, LastKept, Same, Within
  <2>4. IF Keeps[x].keeps = "notes" THEN TRUE
        ELSE rec[x].live /\ rec[x].lo = 0 /\ Same(x, b) /\ Marked(x) => Right(x, b)'
    <3> SUFFICES ASSUME Keeps[x].keeps # "notes", rec[x].live, rec[x].lo = 0, Same(x, b), Marked(x)
                 PROVE  \A m \in region[x].marks : m <= b.len => m \in c.fails
        BY <1>1, <1>4, <1>7 DEF Right
    <3>1. CASE b.len = 0
      <4>1. Right(x, b)
          BY <1>4, <2>1, <3>1 DEF ReadyAt, StartReady
      <4>2. c = held[b]
          BY <1>4, <1>5, <1>6, <3>1, TextAssumption
      <4> QED BY <4>1, <4>2 DEF Right
    <3>2. CASE b.len # 0
      <4>1. PICK j \in Drives : last[x] = <<j>> /\ drive[j].status = "driving"
          BY <2>1, <3>2 DEF ReadyAt, StartReady, Same
      <4>2. /\ Own(j) /\ drive[j].export = x /\ Same(x, drive[j].buf) /\ Within(x, drive[j].from)
          BY <2>1, <4>1 DEF ReadyAt, LastKept
      <4>3. Right(x, drive[j].buf)
          BY <2>1, <4>1, <4>2 DEF ReadyAt, DriveReady
      <4>4. drive[j].buf = b
        <5>1. drive[j].buf \in Buffer
            BY <1>5, TextAssumption DEF Driving
        <5>2. \A q, r \in Buffer : q.ptr = r.ptr /\ q.len = r.len => q = r
            BY DEF Buffer
        <5> QED BY <1>4, <4>2, <5>1, <5>2 DEF Same
      <4>5. c = held[b]
          BY <1>7, <1>9, <4>1, <4>4
      <4> QED BY <4>3, <4>4, <4>5 DEF Right
    <3> QED BY <3>1, <3>2
  <2>5. DriveReady(x)'
    <3> SUFFICES ASSUME NEW j \in Drives, Own(j), drive'[j].status = "driving", drive'[j].export = x,
                        rec[x].live, Same(x, drive'[j].buf), Within(x, drive'[j].from), Marked(x)
                 PROVE  \/ \A m \in region[x].marks : m <= drive'[j].buf.len => m \in held'[drive'[j].buf].fails
                        \/ Keeps[x].keeps = "notes" /\ blk[x].resume # drive'[j].from
        BY <1>1, <2>2 DEF DriveReady, Right, Same, Within, Own
    <3>1. CASE j = k
      <4>1. rec[x] \in Records
          BY DEF TypeInv, TypeOK, Records
      <4>2. rec[x].lo = 0 /\ Same(x, b)
          BY <1>8, <3>1, <4>1 DEF Within, Records
      <4>3. CASE Keeps[x].keeps = "notes"
        <5>1. blk[x].seen
            BY <4>3 DEF Marked
        <5>2. blk[x].resume >= 1
            BY <2>1, <4>2, <4>3, <5>1 DEF ReadyAt, StartReady
        <5> QED BY <1>8, <3>1, <4>3, <5>2
      <4>4. CASE Keeps[x].keeps # "notes"
        <5>1. Right(x, b)'
            BY <2>4, <4>2, <4>4
        <5> QED BY <1>1, <1>8, <3>1, <5>1 DEF Right
      <4> QED BY <4>3, <4>4
    <3>2. CASE j # k
      <4>1. drive'[j] = drive[j]
          BY <1>7, <3>2
      <4>2. \/ Right(x, drive[j].buf)
            \/ Keeps[x].keeps = "notes" /\ blk[x].resume # drive[j].from
          BY <2>1, <4>1 DEF ReadyAt, DriveReady
      <4> QED BY <1>9, <4>1, <4>2 DEF Right
    <3> QED BY <3>1, <3>2
  <2>6. StartReady(x)'
    <3> SUFFICES ASSUME rec[x].live, rec[x].lo = 0
                 PROVE  IF Keeps[x].keeps = "notes" THEN blk[x].seen => blk[x].resume >= 1
                        ELSE /\ \/ rec[x].len = 0
                                \/ \E j \in Drives : /\ last'[x] = <<j>> /\ drive'[j].status = "driving"
                                                     /\ drive'[j].from <= rec[x].len
                             /\ \A q \in Buffers : q.len = 0 /\ Same(x, q) /\ Marked(x) => Right(x, q)'
        BY <1>1, <2>2 DEF StartReady
    <3>1. CASE Keeps[x].keeps = "notes"
        BY <2>1, <3>1 DEF ReadyAt, StartReady
    <3>2. CASE Keeps[x].keeps # "notes"
      <4>1. /\ \/ rec[x].len = 0
               \/ \E j \in Drives : /\ last[x] = <<j>> /\ drive[j].status = "driving"
                                    /\ drive[j].from <= rec[x].len
            /\ \A q \in Buffers : q.len = 0 /\ Same(x, q) /\ Marked(x) => Right(x, q)
          BY <2>1, <3>2 DEF ReadyAt, StartReady
      <4>2. \/ rec[x].len = 0
            \/ \E j \in Drives : /\ last'[x] = <<j>> /\ drive'[j].status = "driving"
                                 /\ drive'[j].from <= rec[x].len
          BY <1>1, <1>7, <2>2, <4>1
      <4>3. ASSUME NEW q \in Buffers, q.len = 0, Same(x, q), Marked(x)
            PROVE  Right(x, q)'
        <5>1. CASE q = b
            BY <2>4, <3>2, <4>3, <5>1
        <5>2. CASE q # b
            BY <1>1, <1>7, <4>1, <4>3, <5>2 DEF Right
        <5> QED BY <5>1, <5>2
      <4> QED BY <3>2, <4>2, <4>3
    <3> QED BY <3>1, <3>2
  <2> QED BY <2>3, <2>5, <2>6 DEF ReadyAt
<1>13. CallHolds' /\ CallReads'
    BY <1>1 DEF KeptInv, CallHolds, CallReads, Before
<1> QED BY <1>10, <1>11, <1>12, <1>13 DEF KeptInv, Ready, Begin, memory
-----------------------------------------------------------------------------
\* Inside a call, up to its finds.
LEMMA InCall ==
    ASSUME TypeInv, TextsHeld, pc # "host", pc' # "host", mode' = mode, held' = held, drive' = drive,
           call'.drive = call.drive
    PROVE  /\ d' = d /\ e' = e /\ at' = at /\ text' = text /\ Need' = Need
           /\ \A j \in Drives : Unmoved(j) /\ (Own(j)' <=> Own(j))
           /\ TextsHeld'
<1>1. d' = d /\ e' = e /\ at' = at /\ text' = text /\ Need' = Need
    BY DEF d, e, at, text, Need
<1>2. TextsHeld'
    BY <1>1, TextsKept DEF Active
<1> QED BY <1>1, <1>2 DEF Unmoved, Own

LEMMA OutOfUse ==
    ASSUME KeptInv, ~InUse, Lost => Lost', mode' = mode, held' = held,
           \A j \in Drives : Unmoved(j), \A x \in Exports : ~(InUse' /\ x = e') => Still(x),
           NEW x \in Exports, ~(InUse' /\ x = e'), ~Lost'
    PROVE  ReadyAt(x)'
<1>1. ReadyAt(x)
    BY DEF KeptInv, Ready
<1> QED BY <1>1, ReadyAtKept

\* Memory is never empty.
LEMMA PagesGrow ==
    ASSUME TypeInv, KeptInv
    PROVE  \A bytes \in Nat : Grow(bytes) => pages' > 0
<1> SUFFICES ASSUME NEW bytes \in Nat, Grow(bytes) PROVE pages' > 0
    OBVIOUS
<1>1. PagesFor(bytes) \in Nat /\ pages \in Nat /\ pages > 0
    BY PagesForType DEF TypeInv, TypeOK, KeptInv
<1> QED BY <1>1 DEF Grow

LEMMA EnterKept ==
    ASSUME TypeInv, KeptInv, EnterNamed \/ EnterDefault \/ GrowArea \/ AreaRefused
    PROVE  KeptInv'
<1>1. /\ pc = "enter" /\ pc' \in {"loop", "continue"} /\ mode' = mode /\ held' = held /\ drive' = drive
      /\ call'.drive = call.drive /\ search' = search
      /\ \A x \in Exports : Still(x) /\ region'[x].cap = region[x].cap
  <2>1. pc = "enter" /\ mode' = mode /\ held' = held /\ drive' = drive /\ search' = search
        /\ pc' \in {"loop", "continue"} /\ blk' = blk /\ rec' = rec /\ last' = last /\ region' = region
      BY DEF EnterNamed, EnterDefault, GrowArea, AreaRefused, memory
  <2>2. call'.drive = call.drive
      BY Here DEF EnterNamed, EnterDefault, GrowArea, AreaRefused, Calls
  <2> QED BY <2>1, <2>2 DEF Still
<1>2. /\ d' = d /\ e' = e /\ at' = at /\ text' = text /\ TextsHeld'
      /\ \A j \in Drives : Unmoved(j) /\ (Own(j)' <=> Own(j))
    BY <1>1, InCall DEF KeptInv
<1>3. \A x \in Exports : area[x] # 0 => area'[x] # 0
  <2>1. CASE GrowArea
    <3>1. area' = [area EXCEPT ![e] = GrownAt] /\ area[e] = 0 /\ area \in [Exports -> Nat]
        BY <2>1 DEF GrowArea, TypeInv, TypeOK
    <3> QED BY <3>1
  <2>2. CASE area' = area
      BY <2>2
  <2> QED BY <2>1, <2>2 DEF EnterNamed, EnterDefault, GrowArea, AreaRefused, memory
<1>4. Fits'
    BY <1>1, <1>3, FitsAtKept DEF KeptInv, Fits
<1>7. ~call.mine /\ search \notin Exports
    BY <1>1 DEF KeptInv, CallHolds
<1>8. /\ call'.pos = call.pos /\ call'.count = call.count /\ call'.prev = call.prev
      /\ pc' = "loop" => call' = call /\ area' = area /\ (search = NoBlock => area[e] = 0)
      /\ pc' = "continue" => call'.mine /\ search = NoBlock /\ area'[e] # 0
  <2>1. CASE EnterNamed
      BY <2>1 DEF EnterNamed, memory
  <2>2. CASE AreaRefused
      BY <2>2 DEF AreaRefused, memory
  <2>3. CASE EnterDefault
      BY <2>3, Here DEF EnterDefault, memory, Calls
  <2>4. CASE GrowArea
    <3>1. call'.pos = call.pos /\ call'.count = call.count /\ call'.prev = call.prev /\ call'.mine
        BY <2>4, Here DEF GrowArea, Calls
    <3>2. area'[e] = GrownAt
        BY <2>4, Here DEF GrowArea, TypeInv, TypeOK
    <3>3. GrownAt # 0
      <4>1. \A m, q \in Nat : m > 0 /\ q > 0 => m * q # 0
          OBVIOUS
      <4>2. pages \in Nat /\ pages > 0 /\ Page \in Nat /\ Page > 0
          BY Sizes DEF KeptInv, TypeInv, TypeOK
      <4> QED BY <4>1, <4>2 DEF GrownAt
    <3> QED BY <2>4, <3>1, <3>2, <3>3 DEF GrowArea
  <2> QED BY <2>1, <2>2, <2>3, <2>4
<1>5. ~InUse /\ ~InUse' /\ (Lost <=> Lost')
    BY <1>1, <1>7, <1>8 DEF InUse, Lost
<1>6. Ready'
    BY <1>1, <1>2, <1>5, OutOfUse DEF Ready
<1>9. CallHolds'
    BY <1>1, <1>2, <1>7, <1>8 DEF KeptInv, CallHolds, Before, Own
<1>10. pages' > 0
    BY PagesGrow, Sizes DEF EnterNamed, EnterDefault, GrowArea, AreaRefused, memory, KeptInv
<1> QED BY <1>2, <1>4, <1>5, <1>6, <1>9, <1>10 DEF KeptInv, CallReads
\* A step on the default in hand leaves the others as they are.
LEMMA InUseKept ==
    ASSUME TypeInv, KeptInv, InUse \/ pc = "continue", InUse', Lost => Lost',
           mode' = mode, held' = held, e' = e, d' = d,
           \A j \in Drives \ {d} : Unmoved(j),
           drive'[d].export = drive[d].export,
           \A x \in Exports \ {e} : Still(x) /\ last[x] # <<d>>
    PROVE  Ready'
<1> SUFFICES ASSUME ~Lost', NEW x \in Exports, ~(InUse' /\ x = e')
             PROVE  ReadyAt(x)'
    BY DEF Ready
<1>1. x # e /\ ReadyAt(x)
    BY DEF KeptInv, Ready
<1>2. Unseen(d, x)
    BY <1>1 DEF Unseen, e, d
<1> QED BY <1>1, <1>2, ReadyAtKept

\* No other default was left by the drive whose call has one.
LEMMA LeftByNone ==
    ASSUME TypeInv, KeptInv, pc = "continue", NEW x \in Exports \ {e}
    PROVE  last[x] # <<d>>
<1>1. drive[d].status = "driving" /\ search = NoBlock
    BY DEF KeptInv, CallHolds, Before
<1>2. ~Lost
    BY <1>1, ExportAssumption DEF Lost
<1>3. LastKept(x)
    BY <1>2 DEF KeptInv, Ready, ReadyAt, InUse
<1> QED BY <1>1, <1>3, Here DEF LastKept, e

LEMMA ContinueKept ==
    ASSUME TypeInv, KeptInv, Continue
    PROVE  KeptInv'
<1>1. /\ pc = "continue" /\ pc' = "give" /\ mode' = mode /\ held' = held /\ drive' = drive
      /\ call' = call /\ search' = search /\ area' = area /\ region' = region /\ last' = last /\ pages' = pages
    BY DEF Continue, memory
<1>2. /\ d' = d /\ e' = e /\ at' = at /\ text' = text /\ TextsHeld'
      /\ \A j \in Drives : Unmoved(j) /\ (Own(j)' <=> Own(j))
    BY <1>1, InCall DEF KeptInv
<1>3. /\ call.mine /\ search = NoBlock /\ Own(d) /\ area[e] # 0 /\ drive[d].status = "driving"
      /\ call.pos = drive[d].from /\ call.count = 0 /\ InUse'
    BY <1>1 DEF KeptInv, CallHolds, Before, InUse
<1>4. d \in Drives /\ e \in Exports /\ at.ptr \in Nat /\ at.len \in Nat /\ at = drive[d].buf /\ e = drive[d].export
    BY <1>1, Here, TextHere DEF KeptInv, at, e
<1>5. /\ blk \in [Exports -> Blocks] /\ rec \in [Exports -> Records]
    BY DEF TypeInv, TypeOK, Blocks, Records
<1>6. /\ \A x \in Exports \ {e} : Still(x) /\ last[x] # <<d>>
      /\ \A x \in Exports \ {e} : blk'[x] = blk[x] /\ rec'[x] = rec[x]
    BY <1>1, <1>4, <1>5, LeftByNone DEF Continue, Still
<1>7. Ready'
    BY <1>1, <1>2, <1>3, <1>6, InUseKept DEF Lost
<1>8. CallHolds'
    BY <1>1, <1>2 DEF KeptInv, CallHolds, Before, Own
<1>9. FitsAt(e) /\ \A x \in Exports \ {e} : FitsAt(x)'
    BY <1>1, <1>4, <1>6, FitsAtKept DEF KeptInv, Fits
<1>12. PICK y \in Exports : y = e
    BY <1>4
<1>13. ~Lost /\ ~InUse
    BY <1>1, <1>3, ExportAssumption DEF Lost, InUse
<1>14. \A k \in Drives : last[e] = <<k>> => Own(k)
    BY <1>4, <1>13 DEF KeptInv, Ready, ReadyAt, LastKept
<1>10. CASE Continues
  <2>1. blk' = blk /\ rec' = rec
      BY <1>1, <1>10 DEF Continue
  <2>2. Same(e, at) /\ rec[e].live /\ Within(e, call.pos)
      BY <1>10 DEF Continues, InWindow, Same, Within
  <2>3. FitsAt(y)'
      BY <1>1, <1>9, <1>12, <2>1, FitsAtKept DEF Still
  <2>5. DriveReady(e)
      BY <1>4, <1>13 DEF KeptInv, Ready, ReadyAt
  <2>6. Marked(e) => Right(e, at) \/ (Keeps[e].keeps = "notes" /\ blk[e].resume # call.pos)
      BY <1>3, <1>4, <2>2, <2>5 DEF DriveReady
  <2>7. CallReads'
    <3>1. Same(e, at)' /\ Marked(e)' = Marked(e) /\ Right(e, at)' = Right(e, at)
        BY <1>1, <1>2, <2>1, <2>2 DEF Same, Marked, Right
    <3> QED BY <1>1, <1>2, <1>3, <1>6, <1>14, <2>1, <2>6, <3>1 DEF CallReads, Before
  <2> QED BY <1>1, <1>2, <1>7, <1>8, <1>9, <1>12, <2>3, <2>7 DEF KeptInv, Fits
<1>11. CASE ~Continues
  <2>1. /\ blk' = [blk EXCEPT ![e] = Reset(blk[e])]
        /\ rec' = [rec EXCEPT ![e] = [rec[e] EXCEPT !.ptr = at.ptr, !.len = at.len]]
      BY <1>11 DEF Continue
  <2>2. /\ blk'[e] = Reset(blk[e]) /\ rec'[e] = [rec[e] EXCEPT !.ptr = at.ptr, !.len = at.len]
      BY <1>4, <1>5, <2>1
  <2>3. /\ ~blk'[e].seen /\ ~blk'[e].memo /\ blk'[e].len = 0 /\ blk'[e].high = blk[e].high
        /\ rec'[e].ptr = at.ptr /\ rec'[e].len = at.len /\ rec'[e].live = rec[e].live /\ rec'[e].lo = rec[e].lo
      BY <1>4, <1>5, <2>2 DEF Reset, ZeroBlock, Blocks, Records
  <2>4. FitsAt(y)'
      BY <1>1, <1>9, <1>12, <2>3 DEF FitsAt, NotesFit, MemoFits
  <2>5. CallReads'
      BY <1>1, <1>2, <1>6, <1>14, <2>3 DEF CallReads, Same, Marked
  <2> QED BY <1>1, <1>2, <1>7, <1>8, <1>9, <1>12, <2>4, <2>5 DEF KeptInv, Fits
<1> QED BY <1>10, <1>11

\* A region that serves marks in use holds this text's.
LEMMA RoomEnough ==
    ASSUME TypeInv, KeptInv, InUse, Marked(e)
    PROVE  Need <= region[e].cap
<1>1. pc # "host"
    BY DEF InUse
<1>2. Same(e, at) /\ FitsAt(e)
    BY Here DEF KeptInv, CallReads, Fits
<1>3. Need = (at.len + 1) * Keeps[e].per
    BY <1>1, TextHere DEF KeptInv
<1>4. (rec[e].len + 1) * Keeps[e].per <= region[e].cap
    BY <1>2 DEF FitsAt, NotesFit, MemoFits, Marked
<1> QED BY <1>2, <1>3, <1>4 DEF Same

LEMMA GetRegionKept ==
    ASSUME TypeInv, KeptInv, GetRegion \/ NeedsNoRegion
    PROVE  KeptInv'
<1>1. /\ pc = "give" /\ pc' = "hand" /\ mode' = mode /\ held' = held /\ drive' = drive
      /\ call' = call /\ search' = search /\ area' = area /\ last' = last /\ blk' = blk /\ rec' = rec
    BY DEF GetRegion, NeedsNoRegion, memory
<1>2. /\ d' = d /\ e' = e /\ at' = at /\ text' = text /\ TextsHeld'
      /\ \A j \in Drives : Unmoved(j) /\ (Own(j)' <=> Own(j))
    BY <1>1, InCall DEF KeptInv
<1>3. InUse /\ InUse' /\ e \in Exports /\ region \in [Exports -> Regions]
    BY <1>1, Here DEF KeptInv, CallHolds, InUse, TypeInv, TypeOK, Regions
<1>4. CallReads /\ FitsAt(e) /\ \A x \in Exports \ {e} : last[x] # <<d>>
    BY <1>3 DEF KeptInv, CallReads, Fits
<1>5. \/ region' = region /\ pages' = pages
      \/ ~Marked(e) /\ region' = [region EXCEPT ![e] = [ptr |-> GrownAt, cap |-> Capacity(NewSize), marks |-> {}]]
                    /\ Grow(NewSize)
  <2>1. CASE GrowRegion /\ region[e].cap < Need
    <3>1. ~Marked(e)
      <4>1. region[e].cap \in Nat /\ Need \in Nat
          BY <1>3, Here DEF Regions
      <4> QED BY <1>3, <2>1, <4>1, RoomEnough
    <3> QED BY <2>1, <3>1 DEF GrowRegion
  <2>2. CASE region' = region /\ pages' = pages
      BY <2>2
  <2> QED BY <2>1, <2>2 DEF GetRegion, NeedsNoRegion, memory
<1>6. \A x \in Exports \ {e} : Still(x) /\ region'[x] = region[x]
    BY <1>1, <1>3, <1>5 DEF Still
<1>7. Ready'
    BY <1>1, <1>2, <1>3, <1>4, <1>6, InUseKept DEF Lost
<1>8. CallHolds'
    BY <1>1, <1>2 DEF KeptInv, CallHolds, Before, Own
<1>9. \A x \in Exports \ {e} : FitsAt(x)'
    BY <1>1, <1>6, FitsAtKept DEF KeptInv, Fits
<1>11. PICK y \in Exports : y = e
    BY <1>3
<1>10. FitsAt(y)' /\ CallReads' /\ pages' > 0
  <2>1. CASE region' = region /\ pages' = pages
    <3>1. FitsAt(y)'
        BY <1>1, <1>11, <1>4, <2>1, FitsAtKept DEF Still
    <3>2. CallReads'
        BY <1>1, <1>2, <1>3, <1>4, <2>1 DEF CallReads, Same, Marked, Right, Before
    <3> QED BY <2>1, <3>1, <3>2 DEF KeptInv
  <2>2. CASE ~Marked(e) /\ region' = [region EXCEPT ![e] = [ptr |-> GrownAt, cap |-> Capacity(NewSize), marks |-> {}]]
                        /\ Grow(NewSize)
    <3>1. region'[e].marks = {}
        BY <1>3, <2>2
    <3>2. FitsAt(y)'
        BY <1>1, <1>4, <1>11, <2>2, <3>1 DEF FitsAt, NotesFit, MemoFits, Marked
    <3>3. CallReads'
        BY <1>1, <1>2, <1>3, <1>4, <2>2 DEF CallReads, Same, Marked
    <3>4. NewSize \in Nat
        BY <1>3, Here, NewSizeType DEF Regions
    <3>5. pages' > 0
        BY <2>2, <3>4, PagesGrow
    <3> QED BY <3>2, <3>3, <3>5
  <2> QED BY <1>5, <2>1, <2>2
<1> QED BY <1>2, <1>7, <1>8, <1>9, <1>10, <1>11 DEF KeptInv, Fits

LEMMA HandOverKept ==
    ASSUME TypeInv, KeptInv, HandOver
    PROVE  KeptInv'
<1>1. /\ pc = "hand" /\ pc' = "loop" /\ mode' = mode /\ held' = held /\ drive' = drive
      /\ call' = call /\ search' = e /\ area' = area /\ last' = last /\ rec' = rec /\ pages' = pages
    BY DEF HandOver
<1>2. /\ d' = d /\ e' = e /\ at' = at /\ text' = text /\ TextsHeld'
      /\ \A j \in Drives : Unmoved(j) /\ (Own(j)' <=> Own(j))
    BY <1>1, InCall DEF KeptInv
<1>3. /\ InUse /\ InUse' /\ e \in Exports /\ region \in [Exports -> Regions] /\ blk \in [Exports -> Blocks]
      /\ text.len \in Nat /\ at.len = text.len /\ Need = (at.len + 1) * Keeps[e].per
    BY <1>1, Here, TextHere DEF KeptInv, CallHolds, InUse, TypeInv, TypeOK, Regions, Blocks
<1>4. CallReads /\ FitsAt(e) /\ Same(e, at) /\ \A x \in Exports \ {e} : last[x] # <<d>>
    BY <1>3 DEF KeptInv, CallReads, Fits
<1>5. ~Lost /\ ~Lost' /\ e # NoBlock
    BY <1>1, <1>3, ExportAssumption DEF Lost, KeptInv, CallHolds
<1>6. CallHolds'
    BY <1>1, <1>2, <1>3, <1>5, ExportAssumption DEF KeptInv, CallHolds, Before, Own, InUse
<1>7. \A x \in Exports \ {e} : Still(x) /\ region'[x] = region[x]
    BY <1>1, <1>3 DEF Still, HandOver
<1>8. Ready'
    BY <1>1, <1>2, <1>3, <1>4, <1>5, <1>7, InUseKept
<1>9. \A x \in Exports \ {e} : FitsAt(x)'
    BY <1>1, <1>7, FitsAtKept DEF KeptInv, Fits
<1>11. PICK y \in Exports : y = e
    BY <1>3
<1>10. FitsAt(y)' /\ CallReads'
  <2>1. CASE HandsMemo
    <3>1. /\ region'[e].marks = Zeroed(region[e]) /\ region'[e].cap = region[e].cap
          /\ blk'[e] = [blk[e] EXCEPT !.memo = TRUE]
        BY <1>3, <2>1 DEF HandOver, Regions
    <3>2. /\ Keeps[e].keeps # "notes" /\ blk[e].tripped /\ Need <= region[e].cap /\ ~blk[e].memo
        BY <2>1, <1>3, Here DEF HandsMemo, Regions
    <3>3. /\ blk'[e].tripped /\ blk'[e].ptr = blk[e].ptr /\ blk'[e].len = blk[e].len /\ blk'[e].seen = blk[e].seen
        BY <1>3, <3>1, <3>2 DEF Blocks
    <3>4. \A m \in region'[e].marks : m > rec[e].len /\ ~(m <= at.len)
      <4>1. \A m \in region[e].marks : m \in Nat
          BY <1>3 DEF Regions
      <4> QED BY <1>3, <1>4, <3>1, <4>1 DEF Zeroed, Same
    <3>5. blk[e].len = 0
        BY <1>4, <3>2 DEF FitsAt, MemoFits
    <3>8. blk'[e].memo
        BY <1>3, <3>1 DEF Blocks
    <3>6. FitsAt(y)'
        BY <1>1, <1>3, <1>4, <1>11, <3>1, <3>2, <3>3, <3>4, <3>5, <3>8 DEF FitsAt, MemoFits, Same
    <3>7. CallReads'
        BY <1>1, <1>2, <1>3, <1>4, <3>4 DEF CallReads, Same, Right
    <3> QED BY <3>6, <3>7
  <2>2. CASE ~HandsMemo
    <3>1. blk' = blk /\ region' = region
        BY <2>2 DEF HandOver
    <3>2. FitsAt(y)'
        BY <1>1, <1>4, <1>11, <3>1, FitsAtKept DEF Still
    <3>3. CallReads'
        BY <1>1, <1>2, <1>3, <1>4, <3>1 DEF CallReads, Same, Marked, Right, Before
    <3> QED BY <3>2, <3>3
  <2> QED BY <2>1, <2>2
<1> QED BY <1>1, <1>2, <1>6, <1>8, <1>9, <1>10, <1>11 DEF KeptInv, Fits
-----------------------------------------------------------------------------
\* The finds of a call.
LEMMA NextKept ==
    ASSUME TypeInv, KeptInv, NextFind \/ PlaceStack
    PROVE  KeptInv'
<1>1. /\ pc \in {"loop", "place"} /\ pc' \in {"leave", "place", "find"} /\ mode' = mode /\ held' = held
      /\ drive' = drive /\ call' = call /\ search' = search /\ area' = area /\ last' = last
      /\ blk' = blk /\ rec' = rec /\ region' = region
    BY DEF NextFind, PlaceStack, memory
<1>2. /\ d' = d /\ e' = e /\ at' = at /\ text' = text /\ TextsHeld'
      /\ \A j \in Drives : Unmoved(j) /\ (Own(j)' <=> Own(j))
    BY <1>1, InCall DEF KeptInv
<1>3. (InUse' <=> InUse) /\ \A x \in Exports : Still(x)
    BY <1>1 DEF InUse, Still
<1>4. Ready'
  <2> SUFFICES ASSUME ~Lost', NEW x \in Exports, ~(InUse' /\ x = e')
               PROVE  ReadyAt(x)'
      BY DEF Ready
  <2>1. ReadyAt(x)
      BY <1>1, <1>2, <1>3 DEF KeptInv, Ready, Lost
  <2> QED BY <1>1, <1>2, <1>3, <2>1, ReadyAtKept
<1>5. Fits'
    BY <1>1, <1>3, FitsAtKept DEF KeptInv, Fits
<1>6. pc' = "leave" => /\ Keeps[e].batch
                       /\ call.count < OutCap => call.pos > text.len
  <2> SUFFICES ASSUME pc' = "leave" PROVE Keeps[e].batch /\ (call.count < OutCap => call.pos > text.len)
      OBVIOUS
  <2>1. Full
      BY DEF NextFind, PlaceStack
  <2>2. call.count \in Nat /\ OutCap \in Nat
      BY Here, Sizes DEF Calls
  <2> QED BY <2>1, <2>2 DEF Full
<1>7. CallHolds'
    BY <1>1, <1>2, <1>6 DEF KeptInv, CallHolds, Before, Own
<1>8. CallReads'
    BY <1>1, <1>2, <1>3, <1>6 DEF KeptInv, CallReads, Same, Marked, Right, Before, CallHolds
<1>9. pages' > 0
    BY ScratchTypes DEF NextFind, PlaceStack, memory, KeptInv, ScratchPages, Larger
<1> QED BY <1>2, <1>4, <1>5, <1>7, <1>8, <1>9 DEF KeptInv

\* What a find in a call reads, and why it may.
LEMMA CallIs ==
    ASSUME TypeInv, KeptInv, pc \in {"place", "find"}
    PROVE  /\ Named <=> call.mine
           /\ call.mine => /\ search = e /\ Block = blk[e] /\ Marks = region[e].marks
                           /\ InUse /\ Same(e, at) /\ FitsAt(e)
                           /\ blk[e] \in Blocks /\ region[e] \in Regions
           /\ drive[d].status = "driving" /\ call.pos = drive[d].from /\ call.pos \in Nat
           /\ e \in Exports /\ d \in Drives
<1>1. e \in Exports /\ d \in Drives /\ call.pos \in Nat
    BY Here DEF Calls
<1>2. IF call.mine THEN search = e ELSE search \notin Exports
    BY DEF KeptInv, CallHolds
<1>3. drive[d].status = "driving" /\ call.pos = drive[d].from
    BY DEF KeptInv, CallHolds, Before
<1>4. call.mine => InUse /\ Same(e, at)
    BY DEF KeptInv, CallReads, InUse
<1>5. FitsAt(e) /\ blk[e] \in Blocks /\ region[e] \in Regions
    BY <1>1 DEF KeptInv, Fits, TypeInv, TypeOK, Blocks, Regions
<1> QED BY <1>1, <1>2, <1>3, <1>4, <1>5 DEF Named, Block, Marks

\* Marks in use are read, and are of this text.
LEMMA ReadIs ==
    ASSUME TypeInv, KeptInv, pc = "find"
    PROVE  /\ UsesNotes => /\ call.mine /\ Keeps[e].keeps = "notes" /\ blk[e].armed
                           /\ Need <= region[e].cap
                           /\ SameNotes => blk[e].seen /\ Right(e, at) /\ Read = region[e].marks
                           /\ ~SameNotes => Read = {}
           /\ UsesMemo => /\ call.mine /\ Keeps[e].keeps = "memo" /\ blk[e].memo /\ Need <= region[e].cap
                          /\ Read \subseteq region[e].marks
                          /\ \A m \in Read : m <= at.len => m \in text.fails
           /\ call.mine /\ Marked(e) => IF Keeps[e].keeps = "notes" THEN UsesNotes ELSE UsesMemo
           /\ ReadHere \subseteq text.fails
<1>1. /\ at \in Buffers /\ at.len \in Nat /\ text.len = at.len /\ text.fails = held[at].fails
      /\ Need = (at.len + 1) * Keeps[e].per
    BY TextHere DEF KeptInv
<1>2. /\ Named <=> call.mine
      /\ call.mine => /\ search = e /\ Block = blk[e] /\ Marks = region[e].marks
                      /\ InUse /\ Same(e, at) /\ FitsAt(e)
                      /\ blk[e] \in Blocks /\ region[e] \in Regions
      /\ drive[d].status = "driving" /\ call.pos \in Nat
    BY CallIs
<1>3. call.mine => (Marked(e) => \/ Right(e, at)
                                 \/ Keeps[e].keeps = "notes" /\ blk[e].resume # call.pos)
    BY <1>2 DEF KeptInv, CallReads
<1>4. Need \in Nat /\ Keeps[e].keeps \in {"notes", "memo"} /\ text.fails \subseteq Nat
    BY Here DEF Kind
<1>5. UsesNotes => /\ call.mine /\ Keeps[e].keeps = "notes" /\ blk[e].armed /\ Need <= region[e].cap
                   /\ SameNotes => blk[e].seen /\ Right(e, at) /\ Read = region[e].marks
                   /\ ~SameNotes => Read = {}
  <2> SUFFICES ASSUME UsesNotes PROVE /\ call.mine /\ Keeps[e].keeps = "notes" /\ blk[e].armed /\ Need <= region[e].cap
                                      /\ SameNotes => blk[e].seen /\ Right(e, at) /\ Read = region[e].marks
                                      /\ ~SameNotes => Read = {}
      OBVIOUS
  <2>1. call.mine /\ Keeps[e].keeps = "notes" /\ blk[e].armed /\ region[e].cap >= Need /\ ~UsesMemo
      BY <1>2 DEF UsesNotes, UsesMemo
  <2>2. Need <= region[e].cap
      BY <1>2, <1>4, <2>1 DEF Regions
  <2>3. CASE SameNotes
    <3>1. blk[e].seen /\ blk[e].resume = call.pos
        BY <1>2, <2>1, <2>3 DEF SameNotes
    <3>2. Read = Marks
        BY <2>1, <2>3 DEF Read
    <3> QED BY <1>2, <1>3, <2>1, <2>2, <2>3, <3>1, <3>2 DEF Marked
  <2>4. CASE ~SameNotes
    <3>1. NotesFit(e)
        BY <1>2, <2>1 DEF FitsAt
    <3>6. Read = {m \in Marks : m >= Block.high}
        BY <2>1, <2>4 DEF Read
    <3>2. Read = {m \in region[e].marks : m >= blk[e].high}
        BY <1>2, <2>1, <3>6
    <3>3. \A m \in region[e].marks : m \in Nat /\ m < blk[e].high
        BY <1>2, <2>1, <3>1 DEF NotesFit, Regions
    <3>4. blk[e].high \in Nat
        BY <1>2, <2>1 DEF Blocks
    <3>5. Read = {}
        BY <3>2, <3>3, <3>4
    <3> QED BY <2>1, <2>2, <2>4, <3>5
  <2> QED BY <2>3, <2>4
<1>6. UsesMemo => /\ call.mine /\ Keeps[e].keeps = "memo" /\ blk[e].memo /\ Need <= region[e].cap
                  /\ Read \subseteq region[e].marks
                  /\ \A m \in Read : m <= at.len => m \in text.fails
  <2> SUFFICES ASSUME UsesMemo PROVE /\ call.mine /\ Keeps[e].keeps = "memo" /\ blk[e].memo /\ Need <= region[e].cap
                                     /\ Read \subseteq region[e].marks
                                     /\ \A m \in Read : m <= at.len => m \in text.fails
      OBVIOUS
  <2>1. call.mine /\ Keeps[e].keeps = "memo" /\ blk[e].memo /\ region[e].cap >= Need /\ ~UsesNotes
      BY <1>2 DEF UsesMemo, UsesNotes
  <2>2. Need <= region[e].cap
      BY <1>2, <1>4, <2>1 DEF Regions
  <2>3. Right(e, at)
      BY <1>3, <2>1 DEF Marked
  <2>4. CASE SameMemo
      BY <1>1, <1>2, <2>1, <2>2, <2>3, <2>4 DEF Read, Right
  <2>5. CASE ~SameMemo
    <3>1. Read = {m \in region[e].marks : m > text.len}
        BY <1>2, <2>1, <2>5 DEF Read
    <3>2. \A m \in region[e].marks : m \in Nat
        BY <1>2, <2>1 DEF Regions
    <3> QED BY <1>1, <2>1, <2>2, <3>1, <3>2
  <2> QED BY <2>4, <2>5
<1>7. call.mine /\ Marked(e) => IF Keeps[e].keeps = "notes" THEN UsesNotes ELSE UsesMemo
  <2> SUFFICES ASSUME call.mine, Marked(e) PROVE IF Keeps[e].keeps = "notes" THEN UsesNotes ELSE UsesMemo
      OBVIOUS
  <2>1. region[e].cap >= Need
      BY <1>2, <1>4, RoomEnough DEF Regions
  <2> QED BY <1>2, <1>4, <2>1 DEF UsesNotes, UsesMemo, Marked, FitsAt, NotesFit, MemoFits
<1>8. ReadHere \subseteq text.fails
  <2>1. CASE UsesNotes
      BY <1>1, <1>5, <2>1 DEF ReadHere, Right
  <2>2. CASE UsesMemo
      BY <1>1, <1>6, <2>2 DEF ReadHere
  <2>3. CASE ~UsesNotes /\ ~UsesMemo
      BY <2>3 DEF ReadHere, Read
  <2> QED BY <2>1, <2>2, <2>3
<1> QED BY <1>5, <1>6, <1>7, <1>8
\* What a find leaves in the default in hand fits its record, and is this text's.
LEMMA AfterNotes ==
    ASSUME TypeInv, KeptInv, pc = "find", NEW s \in Answers, NotesAfter(s), call.mine,
           Keeps[e].keeps = "notes"
    PROVE  /\ \A x \in Exports \ {e} : blk'[x] = blk[x] /\ region'[x] = region[x]
           /\ region'[e].cap = region[e].cap /\ blk'[e].memo = blk[e].memo
           /\ \A m \in region'[e].marks : m < blk'[e].high
           /\ blk'[e].seen => /\ blk'[e].armed /\ blk'[e].ptr = at.ptr /\ blk'[e].len = at.len
                              /\ Need <= region[e].cap
                              /\ \A m \in region'[e].marks : m <= at.len => m \in text.fails
                              /\ s # NoMatch => blk'[e].resume >= 1
<1>1. /\ Named /\ search = e /\ Block = blk[e] /\ Marks = region[e].marks /\ NotesFit(e)
      /\ blk[e] \in Blocks /\ region[e] \in Regions /\ e \in Exports
      /\ blk \in [Exports -> Blocks] /\ region \in [Exports -> Regions]
    BY CallIs DEF FitsAt, TypeInv, TypeOK, Blocks, Regions
<1>2. /\ blk[e].seen => UsesNotes
      /\ UsesNotes => /\ blk[e].armed /\ Need <= region[e].cap
                      /\ SameNotes => blk[e].seen /\ Right(e, at) /\ Read = region[e].marks
                      /\ ~SameNotes => Read = {}
    BY ReadIs DEF Marked
<1>3. /\ at.len \in Nat /\ text.len = at.len /\ text.fails = held[at].fails /\ text.fails \subseteq Nat
      /\ s \in 0..text.len \union {NoMatch}
      /\ s # NoMatch => text.ends[s] \in Int
    BY TextHere, Here, AnswersType DEF KeptInv
<1>4. \A m \in region[e].marks : m \in Nat /\ m < blk[e].high
    BY <1>1 DEF NotesFit, Regions
<1>5. blk[e].high \in Nat
    BY <1>1 DEF Blocks
<1>6. CASE ~UsesNotes
  <2>1. PICK arms \in {Block.armed, TRUE} : blk' = [blk EXCEPT ![e].armed = arms]
      BY <1>1, <1>6 DEF NotesAfter
  <2>2. region' = region /\ ~blk[e].seen
      BY <1>2, <1>6 DEF NotesAfter
  <2>3. /\ \A x \in Exports \ {e} : blk'[x] = blk[x]
        /\ blk'[e].memo = blk[e].memo /\ blk'[e].high = blk[e].high /\ blk'[e].seen = blk[e].seen
      BY <1>1, <2>1 DEF Blocks
  <2> QED BY <1>4, <2>2, <2>3
<1>7. CASE UsesNotes /\ Block.seen /\ ~SameNotes
  <2>1. PICK arms \in BOOLEAN :
             blk' = [blk EXCEPT ![e] = [blk[e] EXCEPT !.high = 0, !.seen = FALSE, !.armed = arms]]
      BY <1>1, <1>7 DEF NotesAfter
  <2>2. region' = [region EXCEPT ![e].marks = {}]
      BY <1>1, <1>2, <1>7 DEF NotesAfter
  <2>3. /\ \A x \in Exports \ {e} : blk'[x] = blk[x] /\ region'[x] = region[x]
        /\ blk'[e].memo = blk[e].memo /\ ~blk'[e].seen
      BY <1>1, <2>1, <2>2 DEF Blocks
  <2>4. region'[e].cap = region[e].cap /\ region'[e].marks = {}
      BY <1>1, <2>2 DEF Regions
  <2> QED BY <2>3, <2>4
<1>8. CASE UsesNotes /\ (Block.seen => SameNotes)
  <2>1. PICK h \in {0} \union {m + 1 : m \in text.fails} :
         /\ region' = [region EXCEPT ![e].marks = Read \union {m \in text.fails : m < h}]
         /\ blk' = [blk EXCEPT ![e] =
                [blk[e] EXCEPT !.ptr = at.ptr, !.len = at.len, !.seen = TRUE,
                          !.high = Larger(IF blk[e].seen THEN blk[e].high ELSE 0, h),
                          !.resume = IF s = NoMatch THEN blk[e].resume
                                                    ELSE ResumeAfter(s, text.ends[s])]]
      BY <1>1, <1>8 DEF NotesAfter
  <2> DEFINE H == Larger(IF blk[e].seen THEN blk[e].high ELSE 0, h)
             R == IF s = NoMatch THEN blk[e].resume ELSE ResumeAfter(s, text.ends[s])
             F == {m \in text.fails : m < h}
  <2>2. h \in Nat
      BY <1>3, <2>1
  <2>3. H \in Nat /\ h <= H /\ (blk[e].seen => blk[e].high <= H)
      BY <1>5, <2>2 DEF Larger
  <2>4. s # NoMatch => R >= 1
      BY <1>3 DEF ResumeAfter
  <2>5. blk'[e] = [blk[e] EXCEPT !.ptr = at.ptr, !.len = at.len, !.seen = TRUE, !.high = H, !.resume = R]
      BY <1>1, <2>1
  <2>6. region'[e] = [region[e] EXCEPT !.marks = Read \union F]
      BY <1>1, <2>1
  <2>7. \A x \in Exports \ {e} : blk'[x] = blk[x] /\ region'[x] = region[x]
      BY <1>1, <2>1
  <2>8. \A m \in Read : m \in Nat /\ m < H /\ (m <= at.len => m \in text.fails)
    <3>1. CASE SameNotes
      <4>1. blk[e].seen /\ Right(e, at) /\ Read = region[e].marks
          BY <1>2, <1>8, <3>1
      <4>2. \A m \in Read : m \in Nat /\ m < blk[e].high /\ (m <= at.len => m \in text.fails)
          BY <1>3, <1>4, <4>1 DEF Right
      <4> HIDE DEF H
      <4> QED BY <1>5, <2>3, <4>1, <4>2
    <3>2. CASE ~SameNotes
        BY <1>2, <1>8, <3>2
    <3> QED BY <3>1, <3>2
  <2>9. \A m \in F : m \in text.fails /\ m < H
    <3> HIDE DEF H
    <3> QED BY <1>3, <2>2, <2>3
  <2> HIDE DEF H, R, F
  <2>10. /\ blk'[e].memo = blk[e].memo /\ blk'[e].armed = blk[e].armed /\ blk'[e].ptr = at.ptr
         /\ blk'[e].len = at.len /\ blk'[e].high = H /\ blk'[e].resume = R
      BY <1>1, <2>5 DEF Blocks
  <2>11. region'[e].cap = region[e].cap /\ region'[e].marks = Read \union F
      BY <1>1, <2>6 DEF Regions
  <2> QED BY <1>2, <1>8, <2>4, <2>7, <2>8, <2>9, <2>10, <2>11
<1> QED BY <1>1, <1>6, <1>7, <1>8

LEMMA AfterMemo ==
    ASSUME TypeInv, KeptInv, pc = "find", NEW s \in Answers, MemoAfter(s), call.mine,
           Keeps[e].keeps # "notes"
    PROVE  /\ \A x \in Exports \ {e} : blk'[x] = blk[x] /\ region'[x] = region[x]
           /\ region'[e].cap = region[e].cap /\ blk'[e].memo = blk[e].memo
           /\ ~blk[e].memo => blk'[e].len = 0
           /\ blk[e].memo => /\ blk'[e].tripped /\ blk'[e].ptr = at.ptr /\ blk'[e].len = at.len + 1
                             /\ Need <= region[e].cap
                             /\ \A m \in region'[e].marks : m <= at.len => m \in text.fails
<1>1. /\ Named /\ search = e /\ Block = blk[e] /\ Marks = region[e].marks /\ MemoFits(e)
      /\ blk[e] \in Blocks /\ region[e] \in Regions /\ e \in Exports
      /\ blk \in [Exports -> Blocks] /\ region \in [Exports -> Regions]
    BY CallIs DEF FitsAt, TypeInv, TypeOK, Blocks, Regions
<1>2. /\ blk[e].memo <=> UsesMemo
      /\ UsesMemo => /\ Need <= region[e].cap
                     /\ \A m \in Read : m <= at.len => m \in text.fails
    BY ReadIs DEF Marked
<1>3. at.len \in Nat
    BY TextHere DEF KeptInv
<1>4. CASE ~UsesMemo
  <2>1. PICK trips \in {Block.tripped, TRUE} : blk' = [blk EXCEPT ![e].tripped = trips]
      BY <1>1, <1>4 DEF MemoAfter
  <2>2. region' = region /\ blk[e].len = 0 /\ ~blk[e].memo
      BY <1>1, <1>2, <1>4 DEF MemoAfter, MemoFits
  <2>3. /\ \A x \in Exports \ {e} : blk'[x] = blk[x]
        /\ blk'[e].memo = blk[e].memo /\ blk'[e].len = blk[e].len
      BY <1>1, <2>1 DEF Blocks
  <2> QED BY <2>2, <2>3
<1>5. CASE UsesMemo
  <2>1. PICK new \in {{}, text.fails} :
         /\ region' = [region EXCEPT ![e].marks = (Read \union new) \ Dropped(s)]
         /\ blk' = [blk EXCEPT ![e] = [blk[e] EXCEPT !.ptr = at.ptr, !.len = at.len + 1]]
      BY <1>1, <1>5 DEF MemoAfter
  <2>2. /\ \A x \in Exports \ {e} : blk'[x] = blk[x] /\ region'[x] = region[x]
        /\ blk'[e] = [blk[e] EXCEPT !.ptr = at.ptr, !.len = at.len + 1]
        /\ region'[e] = [region[e] EXCEPT !.marks = (Read \union new) \ Dropped(s)]
      BY <1>1, <2>1
  <2>3. /\ blk'[e].memo = blk[e].memo /\ blk'[e].tripped = blk[e].tripped /\ blk'[e].ptr = at.ptr
        /\ blk'[e].len = at.len + 1
      BY <1>1, <2>2 DEF Blocks
  <2>4. region'[e].cap = region[e].cap /\ region'[e].marks = (Read \union new) \ Dropped(s)
      BY <1>1, <2>2 DEF Regions
  <2>5. blk[e].memo /\ blk[e].tripped
      BY <1>1, <1>2, <1>5 DEF MemoFits
  <2> QED BY <1>2, <1>5, <2>1, <2>2, <2>3, <2>4, <2>5
<1> QED BY <1>4, <1>5
LEMMA AfterFits ==
    ASSUME TypeInv, KeptInv, pc = "find", NEW s \in Answers, After(s), call.mine,
           rec' = rec, last' = last, area' = area, NEW y \in Exports, y = e
    PROVE  /\ FitsAt(y)'
           /\ \A x \in Exports \ {e} : Still(x) /\ FitsAt(x)'
           /\ Marked(y)' => \A m \in region'[y].marks : m <= at.len => m \in text.fails
           /\ Keeps[y].keeps = "notes" /\ s # NoMatch /\ blk'[y].seen => blk'[y].resume >= 1
<1>1. /\ FitsAt(y) /\ rec[y].ptr = at.ptr /\ rec[y].len = at.len /\ at.len \in Nat
      /\ Need = (at.len + 1) * Keeps[y].per
    BY CallIs, TextHere DEF KeptInv, Same
<1>2. CASE Keeps[e].keeps = "notes"
  <2> DEFINE Rights == \A m \in region'[e].marks : m <= at.len => m \in text.fails
  <2>1. /\ \A x \in Exports \ {e} : blk'[x] = blk[x] /\ region'[x] = region[x]
        /\ region'[e].cap = region[e].cap /\ blk'[e].memo = blk[e].memo
        /\ \A m \in region'[e].marks : m < blk'[e].high
        /\ blk'[e].seen => /\ blk'[e].armed /\ blk'[e].ptr = at.ptr /\ blk'[e].len = at.len
                           /\ Need <= region[e].cap
                           /\ Rights
                           /\ s # NoMatch => blk'[e].resume >= 1
      BY <1>2, AfterNotes DEF After
  <2>2. \A x \in Exports \ {e} : Still(x) /\ region'[x].cap = region[x].cap /\ area'[x] = area[x]
      BY <2>1 DEF Still
  <2>3. \A x \in Exports \ {e} : FitsAt(x)'
      BY <2>2, FitsAtKept DEF KeptInv, Fits
  <2>4. FitsAt(y)'
      BY <1>1, <1>2, <2>1 DEF FitsAt, NotesFit
  <2> QED BY <1>2, <2>1, <2>2, <2>3, <2>4 DEF Marked
<1>3. CASE Keeps[e].keeps # "notes"
  <2> DEFINE Rights == \A m \in region'[e].marks : m <= at.len => m \in text.fails
  <2>1. /\ \A x \in Exports \ {e} : blk'[x] = blk[x] /\ region'[x] = region[x]
        /\ region'[e].cap = region[e].cap /\ blk'[e].memo = blk[e].memo
        /\ ~blk[e].memo => blk'[e].len = 0
        /\ blk[e].memo => /\ blk'[e].tripped /\ blk'[e].ptr = at.ptr /\ blk'[e].len = at.len + 1
                          /\ Need <= region[e].cap
                          /\ Rights
      BY <1>3, AfterMemo DEF After
  <2>2. \A x \in Exports \ {e} : Still(x) /\ region'[x].cap = region[x].cap /\ area'[x] = area[x]
      BY <2>1 DEF Still
  <2>3. \A x \in Exports \ {e} : FitsAt(x)'
      BY <2>2, FitsAtKept DEF KeptInv, Fits
  <2>5. at.len + 1 # 0
      BY <1>1
  <2>4. FitsAt(y)'
      BY <1>1, <1>3, <2>1, <2>5 DEF FitsAt, MemoFits
  <2> QED BY <1>3, <2>1, <2>2, <2>3, <2>4 DEF Marked
<1> QED BY <1>2, <1>3

\* A drive whose call has no default has none waiting for it.
LEMMA NotMine ==
    ASSUME TypeInv, KeptInv, pc \in {"place", "find", "leave"}, drive[d].status = "driving",
           ~call.mine, ~Lost, NEW x \in Exports
    PROVE  last[x] # <<d>> /\ (~Own(d) \/ e # x \/ ~rec[x].live)
<1>1. ReadyAt(x) /\ FitsAt(e) /\ d \in Drives
    BY Here DEF KeptInv, Ready, InUse, Fits
<1>2. search \notin Exports /\ search \in Exports \union {NoBlock, Handed}
    BY DEF KeptInv, CallHolds, TypeInv, TypeOK
<1>3. CASE search = Handed
  <2>1. ~Own(d)
      BY <1>3 DEF KeptInv, CallHolds, Own, Lost
  <2> QED BY <1>1, <2>1 DEF ReadyAt, LastKept
<1>4. CASE search = NoBlock
  <2>1. area[e] = 0
      BY <1>4 DEF KeptInv, CallHolds
  <2>2. ~rec[e].live /\ last[e] = << >>
      BY <1>1, <2>1 DEF FitsAt
  <2>3. last[x] = <<d>> => drive[d].export = x
      BY <1>1 DEF ReadyAt, LastKept
  <2> QED BY <2>2, <2>3 DEF e
<1> QED BY <1>2, <1>3, <1>4

\* Where a match is.
LEMMA MatchAt ==
    ASSUME TypeInv, KeptInv, pc = "find", NEW s \in Answers \ {NoMatch}
    PROVE  /\ s \in Nat /\ text.ends[s] \in Nat /\ text.len \in Nat
           /\ s <= text.len /\ s <= text.ends[s] /\ text.ends[s] <= text.len
<1>1. s \in 0..text.len /\ text.ends[s] \in Nat /\ text.len \in Nat /\ text.ends[s] # NoMatch
      /\ text.ends[s] <= text.len
  <2>1. s \in 0..text.len /\ text.ends[s] \in Nat
      BY AnswersType
  <2>2. text.len \in Nat /\ \A k \in 0..text.len : text.ends[k] \in -1..text.len
      BY Here
  <2> QED BY <2>1, <2>2 DEF NoMatch
<1>2. text = FoundBy(e, held[at]) /\ held[at] \in Contents /\ held[at] \in Content
    BY TextHere, TextAssumption DEF KeptInv
<1>3. DOMAIN held[at].ends = 0..held[at].len
      /\ \A k \in 0..held[at].len : held[at].ends[k] = NoMatch \/ held[at].ends[k] >= k
    BY <1>2, TextAssumption
<1>4. text.ends = [k \in DOMAIN held[at].ends |-> IF held[at].ends[k] - k >= Keeps[e].minLen
                                               THEN held[at].ends[k] ELSE NoMatch]
      /\ text.len = held[at].len
    BY <1>2 DEF FoundBy, Content
<1>5. text.ends[s] = held[at].ends[s] \/ text.ends[s] = NoMatch
    BY <1>1, <1>3, <1>4
<1> QED BY <1>1, <1>3, <1>4, <1>5
\* A find moves its own drive, and the default in hand if it has one.
LEMMA FindReady ==
    ASSUME TypeInv, KeptInv, pc \in {"place", "find"}, pc' \in {"loop", "leave", "return"},
           mode' = mode, held' = held, search' = search,
           call'.drive = call.drive, call'.mine = call.mine,
           \A j \in Drives \ {d} : drive'[j] = drive[j],
           drive'[d].export = drive[d].export, drive'[d].buf = drive[d].buf,
           drive'[d].text = drive[d].text,
           \A x \in Exports : ~(call.mine /\ x = e) => Still(x)
    PROVE  /\ d' = d /\ e' = e /\ at' = at /\ text' = text /\ TextsHeld' /\ Ready'
           /\ InUse' <=> call.mine
           /\ \A j \in Drives : Own(j)' <=> Own(j)
<1>1. d' = d /\ e' = e /\ at' = at /\ text' = text /\ (InUse' <=> call.mine) /\ (InUse <=> call.mine)
    BY DEF d, e, at, text, InUse
<1>2. \A j \in Drives : drive'[j].export = drive[j].export /\ drive'[j].buf = drive[j].buf
                        /\ drive'[j].text = drive[j].text
    OBVIOUS
<1>3. \A j \in Drives : Active(j)' => Active(j)
    BY <1>1 DEF Active
<1>4. TextsHeld'
    BY <1>2, <1>3, TextsKept DEF KeptInv
<1>5. (Lost' <=> Lost) /\ (\A j \in Drives : Own(j)' <=> Own(j)) /\ \A j \in Drives \ {d} : Unmoved(j)
    BY DEF Lost, Own, Unmoved
<1>6. CASE call.mine
  <2>1. \A x \in Exports \ {e} : Still(x) /\ last[x] # <<d>>
      BY <1>1, <1>6 DEF KeptInv, CallReads
  <2> QED BY <1>1, <1>4, <1>5, <1>6, <2>1, InUseKept
<1>7. CASE ~call.mine
  <2> SUFFICES ASSUME ~Lost', NEW x \in Exports PROVE ReadyAt(x)'
      BY <1>1, <1>4, <1>5 DEF Ready
  <2>1. drive[d].status = "driving"
      BY CallIs
  <2>2. Unseen(d, x)
      BY <1>5, <1>7, <2>1, NotMine DEF Unseen, e
  <2>3. ReadyAt(x) /\ Still(x)
      BY <1>1, <1>5, <1>7 DEF KeptInv, Ready
  <2> QED BY <1>5, <2>2, <2>3, ReadyAtKept
<1> QED BY <1>6, <1>7

LEMMA FindKept ==
    ASSUME TypeInv, KeptInv, Find
    PROVE  KeptInv'
<1>1. /\ pc = "find" /\ pc' = (IF Keeps[e].batch THEN "loop" ELSE "leave") /\ mode' = mode /\ held' = held
      /\ search' = search /\ area' = area /\ last' = last /\ rec' = rec /\ pages' = pages
    BY DEF Find
<1>2. PICK s \in Answers \ {NoMatch} :
          LET end == text.ends[s]
              shown == Delivered(call.prev, s, end)
          IN  /\ After(s)
              /\ drive' = [drive EXCEPT ![d] =
                     [@ EXCEPT !.from = ResumeAfter(s, end), !.prevEnd = end,
                               !.answers = IF Delivered(drive[d].prevEnd, s, end)
                                           THEN Append(drive[d].answers, <<s, end>>)
                                           ELSE drive[d].answers]]
              /\ call' = [call EXCEPT
                     !.pos = IF Keeps[e].batch THEN ResumeAfter(s, end) ELSE s,
                     !.count = IF shown THEN @ + 1 ELSE @,
                     !.prev = end]
    BY DEF Find
<1> DEFINE end == text.ends[s]
           next == ResumeAfter(s, end)
           got == IF Delivered(drive[d].prevEnd, s, end)
                  THEN Append(drive[d].answers, <<s, end>>) ELSE drive[d].answers
           pos == IF Keeps[e].batch THEN next ELSE s
           count == IF Delivered(call.prev, s, end) THEN call.count + 1 ELSE call.count
<1>3. drive' = [drive EXCEPT ![d] = [drive[d] EXCEPT !.from = next, !.prevEnd = end, !.answers = got]]
      /\ call' = [call EXCEPT !.pos = pos, !.count = count, !.prev = end]
      /\ After(s)
    BY <1>2
<1>4. /\ s \in Nat /\ end \in Nat /\ s <= end /\ end <= text.len /\ next >= 1
      /\ d \in Drives /\ e \in Exports /\ drive[d] \in Driving /\ call \in Calls
      /\ drive \in [Drives -> Driving] /\ drive[d].status = "driving"
  <2>1. s \in Nat /\ end \in Nat /\ s <= end /\ end <= text.len
      BY <1>1, MatchAt
  <2> HIDE DEF end
  <2>2. next >= 1
      BY <2>1 DEF ResumeAfter
  <2> QED BY <1>1, <2>1, <2>2, Here, CallIs DEF TypeInv, TypeOK, Driving
<1> HIDE DEF end, got, count
<1>5. /\ \A j \in Drives \ {d} : drive'[j] = drive[j]
      /\ drive'[d] = [drive[d] EXCEPT !.from = next, !.prevEnd = end, !.answers = got]
    BY <1>3, <1>4
<1>6. /\ drive'[d].export = drive[d].export /\ drive'[d].buf = drive[d].buf /\ drive'[d].text = drive[d].text
      /\ drive'[d].status = "driving" /\ drive'[d].from = next
    BY <1>4, <1>5 DEF Driving
<1>7. /\ call'.drive = call.drive /\ call'.mine = call.mine /\ call'.pos = pos /\ call'.prev = end
      /\ call'.count = count
    BY <1>3, <1>4 DEF Calls
<1>8. ~call.mine => \A x \in Exports : Still(x) /\ region'[x] = region[x]
  <2> SUFFICES ASSUME ~call.mine PROVE \A x \in Exports : Still(x) /\ region'[x] = region[x]
      OBVIOUS
  <2>1. ~Named
      BY <1>1, CallIs
  <2>2. blk' = blk /\ region' = region
      BY <1>3, <2>1 DEF After, NotesAfter, MemoAfter, UsesNotes, UsesMemo
  <2> QED BY <1>1, <2>2 DEF Still
<1>9. PICK y \in Exports : y = e
    BY <1>4
<1>10. call.mine => /\ FitsAt(y)'
                    /\ \A x \in Exports \ {e} : Still(x) /\ FitsAt(x)'
                    /\ Marked(y)' => \A m \in region'[y].marks : m <= at.len => m \in text.fails
                    /\ Keeps[y].keeps = "notes" /\ blk'[y].seen => blk'[y].resume >= 1
    BY <1>1, <1>3, <1>9, AfterFits
<1>11. /\ d' = d /\ e' = e /\ at' = at /\ text' = text /\ TextsHeld' /\ Ready'
       /\ InUse' <=> call.mine
       /\ \A j \in Drives : Own(j)' <=> Own(j)
    BY <1>1, <1>5, <1>6, <1>7, <1>8, <1>9, <1>10, FindReady
<1>12. Fits'
  <2>1. CASE call.mine
      BY <1>9, <1>10, <2>1 DEF Fits
  <2>2. CASE ~call.mine
      BY <1>1, <1>8, <2>2, FitsAtKept DEF KeptInv, Fits
  <2> QED BY <2>1, <2>2
<1>13. CallHolds'
    BY <1>1, <1>4, <1>6, <1>7, <1>11 DEF KeptInv, CallHolds, Before, Own
<1>14. CallReads'
  <2> SUFFICES ASSUME call.mine PROVE CallReads'
      BY <1>11 DEF CallReads
  <2>1. Same(e, at) /\ (\A x \in Exports \ {e} : last[x] # <<d>>)
        /\ (\A k \in Drives : last[e] = <<k>> => Own(k)) /\ text.fails = held[at].fails
      BY <1>1, CallIs, TextHere DEF KeptInv, CallReads
  <2>2. Same(y, at)' /\ (Marked(y)' => Right(y, at)')
      BY <1>1, <1>9, <1>10, <1>11, <2>1 DEF Same, Right
  <2> QED BY <1>1, <1>9, <1>10, <1>11, <2>1, <2>2 DEF CallReads
<1> QED BY <1>1, <1>11, <1>12, <1>13, <1>14 DEF KeptInv

LEMMA FindNoneKept ==
    ASSUME TypeInv, KeptInv, FindNone
    PROVE  KeptInv'
<1>1. /\ pc = "find" /\ pc' = "leave" /\ mode' = mode /\ held' = held /\ call' = call
      /\ search' = search /\ area' = area /\ last' = last /\ rec' = rec /\ pages' = pages
      /\ NoMatch \in Answers /\ After(NoMatch)
      /\ drive' = [drive EXCEPT ![d].status = "done"]
    BY DEF FindNone
<1>2. /\ d \in Drives /\ e \in Exports /\ drive \in [Drives -> Driving] /\ drive[d] \in Driving
    BY <1>1, CallIs, Here DEF TypeInv, TypeOK, Driving
<1>3. /\ \A j \in Drives \ {d} : drive'[j] = drive[j]
      /\ drive'[d].export = drive[d].export /\ drive'[d].buf = drive[d].buf /\ drive'[d].text = drive[d].text
      /\ drive'[d].status = "done"
    BY <1>1, <1>2 DEF Driving
<1>4. ~call.mine => \A x \in Exports : Still(x) /\ region'[x] = region[x]
  <2> SUFFICES ASSUME ~call.mine PROVE \A x \in Exports : Still(x) /\ region'[x] = region[x]
      OBVIOUS
  <2>1. ~Named
      BY <1>1, CallIs
  <2>2. blk' = blk /\ region' = region
      BY <1>1, <2>1 DEF After, NotesAfter, MemoAfter, UsesNotes, UsesMemo
  <2> QED BY <1>1, <2>2 DEF Still
<1>5. PICK y \in Exports : y = e
    BY <1>2
<1>6. call.mine => /\ FitsAt(y)'
                   /\ \A x \in Exports \ {e} : Still(x) /\ FitsAt(x)'
                   /\ Marked(y)' => \A m \in region'[y].marks : m <= at.len => m \in text.fails
    BY <1>1, <1>5, AfterFits
<1>7. /\ d' = d /\ e' = e /\ at' = at /\ text' = text /\ TextsHeld' /\ Ready'
      /\ InUse' <=> call.mine
      /\ \A j \in Drives : Own(j)' <=> Own(j)
    BY <1>1, <1>3, <1>4, <1>5, <1>6, FindReady
<1>8. Fits'
  <2>1. CASE call.mine
      BY <1>5, <1>6, <2>1 DEF Fits
  <2>2. CASE ~call.mine
      BY <1>1, <1>4, <2>2, FitsAtKept DEF KeptInv, Fits
  <2> QED BY <2>1, <2>2
<1>9. CallHolds'
    BY <1>1, <1>3, <1>7 DEF KeptInv, CallHolds, Before, Own
<1>10. CallReads'
  <2> SUFFICES ASSUME call.mine PROVE CallReads'
      BY <1>7 DEF CallReads
  <2>1. Same(e, at) /\ (\A x \in Exports \ {e} : last[x] # <<d>>)
        /\ (\A k \in Drives : last[e] = <<k>> => Own(k)) /\ text.fails = held[at].fails
      BY <1>1, CallIs, TextHere DEF KeptInv, CallReads
  <2>2. Same(y, at)' /\ (Marked(y)' => Right(y, at)')
      BY <1>1, <1>5, <1>6, <1>7, <2>1 DEF Same, Right
  <2> QED BY <1>1, <1>3, <1>5, <1>7, <2>1, <2>2 DEF CallReads
<1> QED BY <1>1, <1>7, <1>8, <1>9, <1>10 DEF KeptInv

LEMMA FindUnknownKept ==
    ASSUME TypeInv, KeptInv, FindUnknown
    PROVE  KeptInv'
<1>1. /\ pc \in {"place", "find"} /\ pc' = (IF Keeps[e].batch THEN "return" ELSE "leave")
      /\ mode' = mode /\ held' = held /\ call' = call
      /\ search' = search /\ area' = area /\ last' = last /\ rec' = rec /\ pages' = pages
      /\ drive' = [drive EXCEPT ![d].status = "unknown"]
    BY DEF FindUnknown
<1>2. /\ d \in Drives /\ e \in Exports /\ drive \in [Drives -> Driving] /\ drive[d] \in Driving
    BY <1>1, CallIs, Here DEF TypeInv, TypeOK, Driving
<1>3. /\ \A j \in Drives \ {d} : drive'[j] = drive[j]
      /\ drive'[d].export = drive[d].export /\ drive'[d].buf = drive[d].buf /\ drive'[d].text = drive[d].text
      /\ drive'[d].status = "unknown"
    BY <1>1, <1>2 DEF Driving
<1>4. ~call.mine => \A x \in Exports : Still(x) /\ region'[x] = region[x]
  <2> SUFFICES ASSUME ~call.mine PROVE \A x \in Exports : Still(x) /\ region'[x] = region[x]
      OBVIOUS
  <2>1. ~Named
      BY <1>1, CallIs
  <2>2. blk' = blk /\ region' = region
      BY <2>1 DEF FindUnknown, UsesMemo
  <2> QED BY <1>1, <2>2 DEF Still
<1>5. PICK y \in Exports : y = e
    BY <1>2
<1>6. call.mine => FitsAt(y)' /\ \A x \in Exports \ {e} : Still(x) /\ region'[x] = region[x]
  <2> SUFFICES ASSUME call.mine PROVE FitsAt(y)' /\ \A x \in Exports \ {e} : Still(x) /\ region'[x] = region[x]
      OBVIOUS
  <2>1. /\ Named /\ search = e /\ Block = blk[e] /\ FitsAt(y) /\ Same(y, at)
        /\ blk[e] \in Blocks /\ region[e] \in Regions
      BY <1>1, <1>5, CallIs
  <2>2. blk \in [Exports -> Blocks] /\ region \in [Exports -> Regions] /\ at.len \in Nat
      BY <1>1, TextHere DEF KeptInv, TypeInv, TypeOK, Blocks, Regions
  <2>3. blk' = [blk EXCEPT ![e] = [blk[e] EXCEPT !.tripped = TRUE,
                                 !.ptr = IF UsesMemo THEN at.ptr ELSE blk[e].ptr,
                                 !.len = IF UsesMemo THEN at.len + 1 ELSE blk[e].len]]
      BY <2>1 DEF FindUnknown
  <2>4. \A x \in Exports \ {e} : blk'[x] = blk[x] /\ region'[x] = region[x]
      BY <2>1, <2>2, <2>3 DEF FindUnknown
  <2>5. /\ blk'[e].tripped /\ blk'[e].memo = blk[e].memo /\ blk'[e].seen = blk[e].seen
        /\ blk'[e].armed = blk[e].armed /\ blk'[e].high = blk[e].high
        /\ UsesMemo => blk'[e].ptr = at.ptr /\ blk'[e].len = at.len + 1
        /\ ~UsesMemo => blk'[e].ptr = blk[e].ptr /\ blk'[e].len = blk[e].len
      BY <1>2, <2>1, <2>2, <2>3 DEF Blocks
  <2>6. region'[e].cap = region[e].cap /\ (~UsesMemo => region' = region)
      BY <1>2, <2>1, <2>2 DEF FindUnknown, Regions
  <2>7. CASE UsesMemo
    <3>1. Keeps[e].keeps # "notes" /\ blk[e].memo
        BY <2>1, <2>7 DEF UsesMemo
    <3>2. at.len + 1 # 0
        BY <2>2
    <3>3. FitsAt(y)'
        BY <1>1, <1>5, <2>1, <2>5, <2>6, <2>7, <3>1, <3>2 DEF FitsAt, MemoFits, Same
    <3> QED BY <1>1, <2>4, <3>3 DEF Still
  <2>8. CASE ~UsesMemo
    <3>1. FitsAt(y)'
        BY <1>1, <1>5, <2>1, <2>5, <2>6, <2>8 DEF FitsAt, MemoFits, NotesFit
    <3> QED BY <1>1, <2>4, <3>1 DEF Still
  <2> QED BY <2>7, <2>8
<1>7. /\ d' = d /\ e' = e /\ at' = at /\ text' = text /\ TextsHeld' /\ Ready'
      /\ InUse' <=> call.mine
      /\ \A j \in Drives : Own(j)' <=> Own(j)
    BY <1>1, <1>3, <1>4, <1>5, <1>6, FindReady
<1>8. Fits'
  <2>1. CASE call.mine
    <3>1. \A x \in Exports \ {e} : FitsAt(x)'
        BY <1>1, <1>6, <2>1, FitsAtKept DEF KeptInv, Fits
    <3> QED BY <1>5, <1>6, <2>1, <3>1 DEF Fits
  <2>2. CASE ~call.mine
      BY <1>1, <1>4, <2>2, FitsAtKept DEF KeptInv, Fits
  <2> QED BY <2>1, <2>2
<1>9. CallHolds'
    BY <1>1, <1>3, <1>7 DEF KeptInv, CallHolds, Before, Own
<1>10. CallReads'
  <2> SUFFICES ASSUME call.mine PROVE CallReads'
      BY <1>7 DEF CallReads
  <2>1. Same(e, at) /\ (\A x \in Exports \ {e} : last[x] # <<d>>)
        /\ (\A k \in Drives : last[e] = <<k>> => Own(k))
      BY <1>1, CallIs DEF KeptInv, CallReads
  <2> QED BY <1>1, <1>3, <1>7, <2>1 DEF CallReads, Same
<1> QED BY <1>1, <1>7, <1>8, <1>9, <1>10 DEF KeptInv
-----------------------------------------------------------------------------
\* Leaving a call settles what its default keeps, for the drive it was used by,
\* for the others over the same text, and for those to come.
LEMMA LeaveReady ==
    ASSUME TypeInv, KeptInv, Leave, call.mine, NEW y \in Exports, y = e
    PROVE  ReadyAt(y)' /\ FitsAt(y)'
<1>1. /\ pc = "leave" /\ mode' = mode /\ held' = held /\ area' = area /\ blk' = blk /\ region' = region
      /\ rec' = [rec EXCEPT ![e] = [rec[e] EXCEPT !.live = Window.live, !.lo = Window.lo, !.hi = Window.hi]]
      /\ last' = [last EXCEPT ![e] = <<d>>]
      /\ drive' = IF Drained /\ ~Ended THEN [drive EXCEPT ![d].status = "done"] ELSE drive
    BY DEF Leave, memory
<1>2. /\ d \in Drives /\ e \in Exports /\ drive \in [Drives -> Driving] /\ rec \in [Exports -> Records]
      /\ last \in [Exports -> {<< >>} \union {<<k>> : k \in Drives}] /\ call \in Calls
      /\ at.len \in Nat /\ at \in Buffers /\ text.len = at.len /\ OutCap \in Nat /\ OutCap > 0
      /\ drive[d].from \in Nat
  <2>1. /\ d \in Drives /\ e \in Exports /\ drive \in [Drives -> Driving] /\ rec \in [Exports -> Records]
        /\ last \in [Exports -> {<< >>} \union {<<k>> : k \in Drives}] /\ call \in Calls
      BY <1>1, Here DEF TypeInv, TypeOK, Driving, Records
  <2>2. at.len \in Nat /\ at \in Buffers /\ text.len = at.len
      BY <1>1, TextHere DEF KeptInv
  <2>3. OutCap \in Nat /\ OutCap > 0
      BY SizeAssumption
  <2>4. drive[d].from \in Nat
      BY <2>1 DEF Driving
  <2> QED BY <2>1, <2>2, <2>3, <2>4
<1>3. /\ CallReads /\ FitsAt(y) /\ Same(y, at) /\ Own(d) /\ area[y] # 0 /\ InUse
    BY <1>1, <1>2 DEF KeptInv, CallReads, InUse, Fits, CallHolds
<1>4. /\ rec'[y].live = Window.live /\ rec'[y].lo = Window.lo /\ rec'[y].hi = Window.hi
      /\ rec'[y].ptr = rec[y].ptr /\ rec'[y].len = rec[y].len /\ last'[y] = <<d>>
    BY <1>1, <1>2 DEF Records
<1>5. /\ \A j \in Drives : /\ drive'[j].export = drive[j].export /\ drive'[j].buf = drive[j].buf
                           /\ drive'[j].from = drive[j].from
                           /\ drive'[j].status = "driving" => drive[j].status = "driving"
                           /\ j # d => drive'[j] = drive[j]
      /\ drive'[d].status = "driving" => ~Drained /\ ~Ended
      /\ ~Keeps[y].batch => drive'[d] = drive[d]
  <2>1. CASE Drained /\ ~Ended
    <3>1. drive' = [drive EXCEPT ![d].status = "done"] /\ Keeps[y].batch
        BY <1>1, <2>1 DEF Drained
    <3> QED BY <1>2, <3>1 DEF Driving
  <2>2. CASE ~(Drained /\ ~Ended)
      BY <1>1, <2>2 DEF Ended
  <2> QED BY <2>1, <2>2
<1>6. \A b \in Buffers : Same(y, b) => b = at
  <2>1. \A q, r \in Buffer : q.ptr = r.ptr /\ q.len = r.len => q = r
      BY DEF Buffer
  <2> QED BY <1>2, <1>3, <2>1, TextAssumption DEF Same
<1>7. CASE Keeps[y].batch
  <2>1. Window.live = (call.count > 0) /\ Window.lo = call.pos /\ Window.hi = call.pos
      BY <1>7 DEF Window, BatchWindow
  <2>2. call.count > 0 => call.pos >= 1
      BY <1>1, <1>7 DEF KeptInv, CallHolds
  <2>3. rec'[y].live => rec'[y].lo >= 1
      BY <1>4, <2>1, <2>2
  <2>4. drive'[d].status = "driving" => rec'[y].live /\ rec'[y].lo = drive[d].from /\ rec'[y].hi = drive[d].from
    <3> SUFFICES ASSUME drive'[d].status = "driving" PROVE call.count > 0 /\ call.pos = drive[d].from
        BY <1>4, <2>1
    <3>1. ~(call.count < OutCap) /\ drive[d].status = "driving"
        BY <1>2, <1>5, <1>7 DEF Drained
    <3>2. call.pos = drive[d].from
        BY <1>1, <1>7, <3>1 DEF KeptInv, CallHolds
    <3> QED BY <1>2, <3>1, <3>2 DEF Calls
  <2>5. rec'[y].live /\ Marked(y) => Right(y, at)
    <3> SUFFICES ASSUME call.count > 0, Marked(y) PROVE Right(y, at)
        BY <1>4, <2>1
    <3>1. drive[d].status # "unknown"
        BY <1>1, <1>7 DEF KeptInv, CallHolds
    <3>2. call.count # 0
        BY <1>2 DEF Calls
    <3> QED BY <1>3, <3>1, <3>2 DEF CallReads
  <2>6. LastKept(y)'
    <3> SUFFICES ASSUME NEW k \in Drives, last'[y] = <<k>>
                 PROVE  /\ Own(k)
                        /\ drive'[k].status = "driving" =>
                              /\ drive[k].export = y /\ rec'[y].live
                              /\ rec[y].ptr = drive[k].buf.ptr /\ rec[y].len = drive[k].buf.len
                              /\ rec'[y].lo <= drive[k].from /\ drive[k].from <= rec'[y].hi
        BY <1>1, <1>4, <1>5 DEF LastKept, Same, Within, Own
    <3>1. k = d
        BY <1>4
    <3> QED BY <1>2, <1>3, <2>4, <3>1 DEF Same, at, e
  <2>7. DriveReady(y)'
    <3> SUFFICES ASSUME NEW k \in Drives, rec'[y].live, Same(y, drive[k].buf), Marked(y)
                 PROVE  Right(y, drive[k].buf)
        BY <1>1, <1>4, <1>5 DEF DriveReady, Same, Marked, Right
    <3>1. drive[k].buf \in Buffers
        BY <1>2 DEF Driving
    <3> QED BY <1>6, <2>5, <3>1
  <2>8. StartReady(y)'
    <3>1. ~(rec'[y].live /\ rec'[y].lo = 0)
        BY <2>3
    <3> QED BY <3>1 DEF StartReady
  <2>9. FitsAt(y)'
      BY <1>1, <1>3, <1>4, <2>3 DEF FitsAt, NotesFit, MemoFits
  <2> QED BY <2>6, <2>7, <2>8, <2>9 DEF ReadyAt
<1>8. CASE ~Keeps[y].batch
  <2>1. /\ Window.live = (drive[d].status = "driving") /\ Window.lo = call.pos /\ Window.hi = call.prev + 1
      BY <1>8 DEF Window, FindWindow, Ended
  <2>2. drive[d].status = "driving" =>
            /\ call.prev >= call.pos /\ call.prev <= text.len
            /\ drive[d].from = ResumeAfter(call.pos, call.prev)
      BY <1>1, <1>8 DEF KeptInv, CallHolds
  <2>3. call.pos \in Nat /\ call.prev \in Int
      BY <1>2 DEF Calls, NoMatch
  <2>4. drive[d].status = "driving" =>
            /\ rec'[y].lo <= drive[d].from /\ drive[d].from <= rec'[y].hi
            /\ rec'[y].lo = 0 => rec[y].len = 0 \/ drive[d].from <= rec[y].len
    <3>1. rec[y].len = text.len
        BY <1>2, <1>3 DEF Same
    <3> QED BY <1>2, <1>4, <2>1, <2>2, <2>3, <3>1 DEF ResumeAfter
  <2>5. rec'[y].live /\ Marked(y) => Right(y, at)
    <3> SUFFICES ASSUME drive[d].status = "driving", Marked(y) PROVE Right(y, at)
        BY <1>4, <2>1
    <3> QED BY <1>1, <1>3, <1>8 DEF CallReads, Before
  <2>6. LastKept(y)'
    <3> SUFFICES ASSUME NEW k \in Drives, last'[y] = <<k>>
                 PROVE  /\ Own(k)
                        /\ drive'[k].status = "driving" =>
                              /\ drive[k].export = y /\ rec'[y].live
                              /\ rec[y].ptr = drive[k].buf.ptr /\ rec[y].len = drive[k].buf.len
                              /\ rec'[y].lo <= drive[k].from /\ drive[k].from <= rec'[y].hi
        BY <1>1, <1>4, <1>5 DEF LastKept, Same, Within, Own
    <3>1. k = d
        BY <1>4
    <3>2. drive'[k].status = "driving" => drive[d].status = "driving"
        BY <1>5, <3>1
    <3> QED BY <1>2, <1>3, <1>4, <2>1, <2>4, <3>1, <3>2 DEF Same, at, e
  <2>7. DriveReady(y)'
    <3> SUFFICES ASSUME NEW k \in Drives, rec'[y].live, Same(y, drive[k].buf), Marked(y)
                 PROVE  Right(y, drive[k].buf)
        BY <1>1, <1>4, <1>5 DEF DriveReady, Same, Marked, Right
    <3>1. drive[k].buf \in Buffers
        BY <1>2 DEF Driving
    <3> QED BY <1>6, <2>5, <3>1
  <2>8. StartReady(y)'
    <3> SUFFICES ASSUME rec'[y].live, rec'[y].lo = 0
                 PROVE  IF Keeps[y].keeps = "notes" THEN blk[y].seen => blk[y].resume >= 1
                        ELSE /\ \/ rec[y].len = 0
                                \/ \E k \in Drives : /\ last'[y] = <<k>> /\ drive'[k].status = "driving"
                                                     /\ drive'[k].from <= rec[y].len
                             /\ \A b \in Buffers : b.len = 0 /\ Same(y, b) /\ Marked(y) => Right(y, b)
        BY <1>1, <1>4 DEF StartReady, Same, Marked, Right
    <3>1. drive[d].status = "driving" /\ drive'[d] = drive[d]
        BY <1>4, <1>5, <1>8, <2>1
    <3>2. CASE Keeps[y].keeps = "notes"
        BY <1>1, <1>3, <1>8, <3>1, <3>2 DEF CallReads
    <3>3. CASE Keeps[y].keeps # "notes"
        BY <1>2, <1>4, <1>6, <2>4, <2>5, <3>1, <3>3
    <3> QED BY <3>2, <3>3
  <2>9. FitsAt(y)'
      BY <1>1, <1>3, <1>4, <1>8 DEF FitsAt, NotesFit, MemoFits
  <2> QED BY <2>6, <2>7, <2>8, <2>9 DEF ReadyAt
<1> QED BY <1>7, <1>8

LEMMA LeaveKept ==
    ASSUME TypeInv, KeptInv, Leave
    PROVE  KeptInv'
<1>1. /\ pc = "leave" /\ pc' = "host" /\ mode' = mode /\ held' = held /\ area' = area /\ blk' = blk
      /\ region' = region /\ pages' = pages /\ ~InUse'
      /\ drive' = IF Drained /\ ~Ended THEN [drive EXCEPT ![d].status = "done"] ELSE drive
    BY DEF Leave, memory, InUse
<1>2. d \in Drives /\ e \in Exports /\ drive \in [Drives -> Driving] /\ rec \in [Exports -> Records]
      /\ last \in [Exports -> {<< >>} \union {<<k>> : k \in Drives}]
    BY <1>1, Here DEF TypeInv, TypeOK, Driving, Records
<1>3. \A j \in Drives : /\ drive'[j].export = drive[j].export /\ drive'[j].buf = drive[j].buf
                        /\ drive'[j].text = drive[j].text
                        /\ drive'[j].status = "driving" => drive[j].status = "driving"
                        /\ j # d => drive'[j] = drive[j]
  <2>1. CASE drive' = [drive EXCEPT ![d].status = "done"]
      BY <1>2, <2>1 DEF Driving
  <2>2. CASE drive' = drive
      BY <2>2
  <2> QED BY <1>1, <2>1, <2>2
<1>4. TextsHeld'
  <2>1. \A j \in Drives : Active(j)' => Active(j)
      BY <1>1, <1>3 DEF Active
  <2> QED BY <1>1, <1>3, <2>1, TextsKept DEF KeptInv
<1>5. \A j \in Drives \ {d} : Unmoved(j)
    BY <1>3 DEF Unmoved
<1>6. PICK y \in Exports : y = e
    BY <1>2
<1>7. CASE call.mine
  <2>1. /\ search' = NoBlock /\ search = e /\ InUse
        /\ rec' = [rec EXCEPT ![e] = [rec[e] EXCEPT !.live = Window.live, !.lo = Window.lo, !.hi = Window.hi]]
        /\ last' = [last EXCEPT ![e] = <<d>>]
      BY <1>1, <1>7 DEF Leave, KeptInv, CallHolds, InUse
  <2>2. ReadyAt(y)' /\ FitsAt(y)'
      BY <1>6, <1>7, LeaveReady
  <2>3. ~Lost /\ search' \notin Exports
      BY <1>2, <2>1, ExportAssumption DEF Lost
  <2>4. ASSUME NEW x \in Exports \ {e}
        PROVE  FitsAt(x)' /\ ReadyAt(x)'
    <3>1. Still(x) /\ FitsAt(x) /\ ReadyAt(x) /\ region'[x].cap = region[x].cap
        BY <1>1, <1>2, <2>1, <2>3 DEF Still, KeptInv, Fits, Ready
    <3>2. Unseen(d, x)
      <4>1. last[x] # <<d>>
          BY <2>1 DEF KeptInv, CallReads
      <4>2. drive'[d].export # x
          BY <1>2, <1>3 DEF e
      <4> QED BY <4>1, <4>2 DEF Unseen
    <3> QED BY <1>1, <1>5, <3>1, <3>2, ReadyAtKept, FitsAtKept
  <2>5. Fits' /\ Ready'
      BY <1>6, <2>2, <2>4 DEF Fits, Ready
  <2>6. CallHolds' /\ CallReads'
      BY <1>1, <2>3 DEF CallHolds, CallReads, Before
  <2> QED BY <1>1, <1>4, <2>5, <2>6 DEF KeptInv
<1>8. CASE ~call.mine
  <2>1. search' = search /\ rec' = rec /\ last' = last /\ ~InUse /\ search \notin Exports
      BY <1>1, <1>8 DEF Leave, KeptInv, CallHolds, InUse
  <2>2. \A x \in Exports : Still(x) /\ region'[x].cap = region[x].cap
      BY <1>1, <2>1 DEF Still
  <2>3. Fits'
      BY <1>1, <2>2, FitsAtKept DEF KeptInv, Fits
  <2>4. ASSUME ~Lost', NEW x \in Exports PROVE ReadyAt(x)'
    <3>1. ReadyAt(x) /\ ~Lost
        BY <1>1, <2>1, <2>4 DEF KeptInv, Ready, Lost
    <3>2. CASE drive[d].status = "driving"
      <4>1. Unseen(d, x)
          BY <1>1, <1>2, <1>3, <1>8, <3>1, <3>2, NotMine DEF Unseen, e
      <4> QED BY <1>1, <1>5, <2>2, <3>1, <4>1, ReadyAtKept
    <3>3. CASE drive[d].status # "driving"
      <4>1. Unmoved(d)
          BY <1>1, <3>3 DEF Unmoved, Ended
      <4> QED BY <1>1, <1>5, <2>2, <3>1, <4>1, ReadyAtKept
    <3> QED BY <3>2, <3>3
  <2>5. CallHolds' /\ CallReads'
      BY <1>1, <2>1 DEF CallHolds, CallReads, Before
  <2> QED BY <1>1, <1>4, <2>3, <2>4, <2>5 DEF KeptInv, Ready
<1> QED BY <1>7, <1>8

LEMMA ReturnKept ==
    ASSUME TypeInv, KeptInv, CutShortAlone, Return
    PROVE  KeptInv'
<1>1. /\ pc = "return" /\ pc' = "host" /\ mode' = mode /\ held' = held /\ area' = area /\ blk' = blk
      /\ region' = region /\ pages' = pages /\ ~InUse' /\ drive' = drive /\ search' = search
      /\ rec' = rec /\ last' = last
    BY DEF Return, memory, InUse
<1>2. d \in Drives /\ e \in Exports /\ rec \in [Exports -> Records]
    BY <1>1, Here DEF TypeInv, TypeOK, Records
<1>3. /\ Keeps[e].batch /\ drive[d].status = "unknown"
      /\ IF call.mine THEN search = e /\ Own(d) /\ InUse ELSE search \notin Exports /\ ~InUse
    BY <1>1 DEF KeptInv, CallHolds, InUse
<1>4. TextsHeld'
    BY <1>1, TextsKept DEF KeptInv, Active
<1>5. \A x \in Exports : Still(x) /\ region'[x].cap = region[x].cap
    BY <1>1 DEF Still
<1>6. Fits'
    BY <1>1, <1>5, FitsAtKept DEF KeptInv, Fits
<1>7. PICK y \in Exports : y = e
    BY <1>2
<1>8. call.mine => ReadyAt(y)
  <2> SUFFICES ASSUME call.mine PROVE ReadyAt(y)
      OBVIOUS
  <2>1. \A k \in Drives \ {d} : ~Own(k)
      BY <1>1 DEF CutShortAlone
  <2>2. \A k \in Drives : last[y] = <<k>> => Own(k)
      BY <1>3, <1>7 DEF KeptInv, CallReads
  <2>3. LastKept(y) /\ DriveReady(y)
      BY <1>3, <2>1, <2>2 DEF LastKept, DriveReady
  <2>4. rec[y].live => rec[y].lo >= 1
      BY <1>3, <1>7 DEF KeptInv, Fits, FitsAt
  <2>5. StartReady(y)
      BY <1>2, <2>4 DEF StartReady, Records
  <2> QED BY <2>3, <2>5 DEF ReadyAt
<1>9. ASSUME ~Lost', NEW x \in Exports PROVE ReadyAt(x)'
  <2>1. ReadyAt(x)
      BY <1>1, <1>3, <1>7, <1>8, <1>9 DEF KeptInv, Ready, Lost
  <2>2. \A j \in Drives : Unmoved(j)
      BY <1>1 DEF Unmoved
  <2> QED BY <1>1, <1>5, <2>1, <2>2, ReadyAtKept
<1>10. CallHolds' /\ CallReads'
  <2>1. search \in Exports => mode.zeroes
      BY <1>1, <1>3 DEF CutShortAlone
  <2> QED BY <1>1, <2>1 DEF CallHolds, CallReads, Before
<1> QED BY <1>1, <1>4, <1>6, <1>9, <1>10 DEF KeptInv, Ready

LEMMA StutterKept ==
    ASSUME KeptInv, vars' = vars
    PROVE  KeptInv'
    BY DEF vars, KeptInv, TextsHeld, Active, Fits, FitsAt, NotesFit, MemoFits, Ready, Lost, InUse,
           ReadyAt, LastKept, DriveReady, StartReady, Own, Marked, Right, Same, Within,
           CallHolds, CallReads, d, e, at, text

LEMMA KeptStep ==
    ASSUME ShortMatches, TypeInv, KeptInv, CutShortAlone, [Next]_vars
    PROVE  KeptInv'
<1>1. ASSUME NEW k \in Drives, Call(k) \/ AnswerAtOnce(k) \/ Begin(k) PROVE KeptInv'
    BY <1>1, CallKept, AnswerKept, BeginKept
<1>2. CASE Module
    BY <1>2, EnterKept, ContinueKept, GetRegionKept, HandOverKept, NextKept, FindKept,
       FindNoneKept, FindUnknownKept, LeaveKept, ReturnKept DEF Module
<1> QED BY <1>1, <1>2, StutterKept DEF Next, Host
LEMMA KeptAlways ==
    ASSUME ShortMatches
    PROVE  Spec /\ []CutShortAlone => []KeptInv
<1>1. TypeInv /\ KeptInv /\ CutShortAlone /\ [Next]_vars => KeptInv'
    BY KeptStep
<1> QED BY InitKept, <1>1, Typed, PTL DEF Spec

\* Whatever drives came before, over whatever texts, and however they were cut
\* off between calls: a find reads only marks that are failures of the text it
\* searches.  But for the two findings: exports that answer early while their
\* memo's window is live, and batch calls that give up with the default named
\* where another drive can come by it.
THEOREM OwnMarksRead ==
    ASSUME ShortMatches
    PROVE  Spec /\ []CutShortAlone => []MarksOfThisText
<1>1. TypeInv /\ KeptInv => MarksOfThisText
    BY ReadIs DEF MarksOfThisText
<1> QED BY KeptAlways, <1>1, Typed, PTL

\* What is kept for a drive that comes back is not reset.
LEMMA KeptForIt ==
    ASSUME TypeInv, KeptInv, [Next]_vars, pc = "continue", last[e] = <<d>>
    PROVE  blk' = blk
<1>1. d \in Drives /\ e \in Exports /\ drive[d].status = "driving" /\ call.pos = drive[d].from
    BY Here DEF KeptInv, CallHolds, Before
<1>2. ~Lost /\ ~InUse
    BY ExportAssumption DEF KeptInv, CallHolds, Lost, InUse
<1>3. LastKept(e)
    BY <1>1, <1>2 DEF KeptInv, Ready, ReadyAt
<1>4. Continues
    BY <1>1, <1>3 DEF LastKept, Continues, InWindow, Same, Within, at
<1>5. CASE Continue
    BY <1>4, <1>5 DEF Continue
<1>6. ASSUME NEW k \in Drives, Call(k) \/ AnswerAtOnce(k) \/ Begin(k) PROVE FALSE
    BY <1>6 DEF Call, AnswerAtOnce, Begin
<1>7. CASE Module
    BY <1>5, <1>7 DEF Module, EnterNamed, EnterDefault, GrowArea, AreaRefused, GetRegion, NeedsNoRegion,
       HandOver, NextFind, PlaceStack, Find, FindNone, FindUnknown, Leave, Return
<1> QED BY <1>6, <1>7 DEF Next, Host, vars

\* A drive whose call used the default last finds it as that call left it,
\* whatever the others did in between: it is never taken for a new search.
THEOREM DriveGoesOn ==
    ASSUME ShortMatches
    PROVE  Spec /\ []CutShortAlone => DriveKept
<1>1. TypeInv /\ KeptInv /\ [Next]_vars => [pc = "continue" /\ last[e] = <<d>> => blk' = blk]_vars
    BY KeptForIt
<1> QED BY KeptAlways, <1>1, Typed, PTL DEF Spec, DriveKept
-----------------------------------------------------------------------------
(* Each drive reports what it would alone. *)

\* The order of the naturals, as a relation.
LessThan == {ss \in Nat \X Nat : ss[1] < ss[2]}

\* A nonempty set of naturals has a least element.
LEMMA LeastNat ==
    ASSUME NEW T, T \subseteq Nat, T # {}
    PROVE  \E x \in T : \A y \in T : x <= y
<1>1. OpToRel(<, Nat) = LessThan
    BY DEF OpToRel, LessThan
<1>2. IsWellFoundedOn(LessThan, Nat)
    BY <1>1, NatLessThanWellFounded, Zenon
<1>3. PICK x \in T : \A y \in T : ~(<<y, x>> \in LessThan)
    BY <1>2, WFMin, Zenon
<1>4. ASSUME NEW y \in T PROVE x <= y
    <2>1. x \in Nat /\ y \in Nat /\ (y < x => <<y, x>> \in LessThan)
        BY DEF LessThan
    <2> QED BY <1>3, <2>1
<1> QED BY <1>4

\* A find with none but true marks answers what is there.
LEMMA AnswersLeftmost ==
    ASSUME TypeInv, KeptInv, pc = "find"
    PROVE  /\ \A s \in Answers \ {NoMatch} : Leftmost(s)
           /\ NoMatch \in Answers =>
                 \A s \in 0..text.len : s >= drive[d].from => text.ends[s] = NoMatch
<1>1. ReadHere \subseteq text.fails /\ call.pos = drive[d].from /\ call.pos \in Nat /\ text.len \in Nat
    BY ReadIs, CallIs, TextHere DEF KeptInv
<1>2. \A s \in Answers \ {NoMatch} : Leftmost(s)
    BY <1>1 DEF Answers
<1>3. ASSUME NoMatch \in Answers, NEW t \in 0..text.len, t >= drive[d].from, text.ends[t] # NoMatch
      PROVE  FALSE
  <2> DEFINE T == {s \in call.pos..text.len : text.ends[s] # NoMatch}
  <2>1. ~\E s \in 0..text.len : Leftmost(s)
      BY <1>1, <1>3 DEF Answers, NoMatch
  <2>2. T \subseteq Nat /\ T # {}
      BY <1>1, <1>3
  <2>3. PICK x \in T : \A y \in T : x <= y
    <3> HIDE DEF T
    <3> QED BY <2>2, LeastNat
  <2>4. x \in 0..text.len /\ Leftmost(x)
      BY <1>1, <2>3 DEF Leftmost
  <2> QED BY <2>1, <2>4
<1> QED BY <1>2, <1>3

\* A drive that ends at once has nothing left to find.
LEMMA NothingLeft ==
    ASSUME TypeInv, KeptInv, NEW k \in Drives, TooShort(k)
    PROVE  \A s \in 0..drive[k].text.len : s >= drive[k].from => drive[k].text.ends[s] = NoMatch
<1> SUFFICES ASSUME NEW s \in 0..drive[k].text.len, s >= drive[k].from, drive[k].text.ends[s] # NoMatch
             PROVE  FALSE
    OBVIOUS
<1>1. drive[k].text.len \in Nat /\ drive[k].from \in Nat /\ drive[k].export \in Exports
    BY TextOfDrive DEF KeptInv
<1>2. PICK c \in Contents : drive[k].text = FoundBy(drive[k].export, c)
    BY DEF KeptInv, TextsHeld
<1>3. c \in Content /\ DOMAIN c.ends = 0..c.len /\ c.len \in Nat
    BY TextAssumption DEF Content
<1>4. /\ drive[k].text.ends = [t \in 0..c.len |-> IF c.ends[t] - t >= Keeps[drive[k].export].minLen
                                                THEN c.ends[t] ELSE NoMatch]
      /\ drive[k].text.len = c.len
    BY <1>2, <1>3 DEF FoundBy, Content
<1>5. c.ends[s] - s >= Keeps[drive[k].export].minLen
    BY <1>4
<1>6. c.ends[s] \in -1..c.len
  <2>1. PICK n \in {b.len : b \in Buffers} : c.ends \in [0..n -> -1..n]
      BY <1>3 DEF Content
  <2>2. DOMAIN c.ends = 0..n
      BY <2>1
  <2>3. n \in Nat
      BY <2>1, TextAssumption DEF Buffer
  <2>4. n = c.len
    <3>1. n \in 0..c.len /\ c.len \in 0..n
        BY <1>3, <2>2, <2>3
    <3> QED BY <1>3, <2>3, <3>1
  <2> QED BY <1>4, <2>1, <2>4
<1>7. Keeps[drive[k].export].minLen \in Nat
    BY <1>1, ExportAssumption DEF Kind
<1> QED BY <1>1, <1>4, <1>5, <1>6, <1>7 DEF TooShort

LEMMA DriveStep ==
    ASSUME TypeInv, KeptInv, [Next]_vars, NEW k \in Drives
    PROVE  [Drive(k)!Next]_(Drive(k)!vars)
<1>1. drive \in [Drives -> Driving] /\ DOMAIN drive[k].text.ends = 0..drive[k].text.len
    BY DEF TypeInv, TypeOK, TextsWhole, Driving
<1>2. drive'[k] = drive[k] => Drive(k)!vars' = Drive(k)!vars
    BY DEF Drive!vars
<1>3. ASSUME NEW j \in Drives, AnswerAtOnce(j)
      PROVE  [Drive(k)!Next]_(Drive(k)!vars)
  <2>1. drive' = [drive EXCEPT ![j].status = "done"] /\ drive[j].status = "driving" /\ TooShort(j)
      BY <1>3 DEF AnswerAtOnce
  <2>2. CASE j # k
    <3>1. drive'[k] = drive[k]
        BY <1>1, <2>1, <2>2
    <3> QED BY <1>2, <3>1
  <2>3. CASE j = k
    <3>1. drive'[k] = [drive[k] EXCEPT !.status = "done"]
        BY <1>1, <2>1, <2>3
    <3>2. /\ drive'[k].text = drive[k].text /\ drive'[k].from = drive[k].from
          /\ drive'[k].prevEnd = drive[k].prevEnd /\ drive'[k].answers = drive[k].answers
          /\ drive'[k].status = "done"
        BY <1>1, <3>1 DEF Driving
    <3>3. Drive(k)!End
        BY <1>1, <2>1, <2>3, <3>2, NothingLeft DEF Drive!End, Drive!NoMatch, NoMatch
    <3> QED BY <3>3 DEF Drive!Next
  <2> QED BY <2>2, <2>3
<1>4. ASSUME NEW j \in Drives, Begin(j)
      PROVE  [Drive(k)!Next]_(Drive(k)!vars)
  <2>1. PICK x \in mode.uses, b \in mode.buffers :
            \E c \in (IF Free(b) THEN ContentsOf(b) ELSE {held[b]}) :
                drive' = [drive EXCEPT ![j] = DriveOf(x, b, c)]
      BY <1>4 DEF Begin
  <2>2. PICK c : drive' = [drive EXCEPT ![j] = DriveOf(x, b, c)]
      BY <2>1
  <2>3. CASE j # k
    <3>1. drive'[k] = drive[k]
        BY <1>1, <2>2, <2>3
    <3> QED BY <1>2, <3>1
  <2>4. CASE j = k
    <3>1. drive'[k] = DriveOf(x, b, c) /\ drive[k].status # "driving"
        BY <1>1, <1>4, <2>2, <2>4 DEF Begin
    <3>2. /\ drive'[k].from = 0 /\ drive'[k].prevEnd = NoMatch /\ drive'[k].answers = << >>
          /\ drive'[k].status = "driving"
        BY <3>1 DEF DriveOf
    <3>3. 0 \in DOMAIN drive'[k].text.ends
      <4>1. TypeInv'
          BY StepTypes
      <4>2. DOMAIN drive'[k].text.ends = 0..drive'[k].text.len /\ drive'[k].text.len \in Nat
          BY <4>1 DEF TypeInv, TypeOK, TextsWhole, Content
      <4> QED BY <4>2
    <3>4. Drive(k)!Again
        BY <3>1, <3>2, <3>3 DEF Drive!Again, Drive!StartSearch, Drive!NoMatch, NoMatch
    <3> QED BY <3>4 DEF Drive!Next
  <2> QED BY <2>3, <2>4
<1>5. CASE Find
  <2>1. pc = "find" /\ d \in Drives /\ drive[d].status = "driving" /\ call.pos = drive[d].from
      BY <1>5, CallIs DEF Find
  <2>2. PICK s \in Answers \ {NoMatch} :
           drive' = [drive EXCEPT ![d] =
              [drive[d] EXCEPT !.from = ResumeAfter(s, text.ends[s]), !.prevEnd = text.ends[s],
                               !.answers = IF Delivered(drive[d].prevEnd, s, text.ends[s])
                                           THEN Append(drive[d].answers, <<s, text.ends[s]>>)
                                           ELSE drive[d].answers]]
      BY <1>5 DEF Find
  <2>3. CASE k # d
    <3>1. drive'[k] = drive[k]
        BY <1>1, <2>2, <2>3
    <3> QED BY <1>2, <3>1
  <2>4. CASE k = d
    <3> DEFINE end == text.ends[s]
               got == IF Delivered(drive[k].prevEnd, s, end)
                      THEN Append(drive[k].answers, <<s, end>>) ELSE drive[k].answers
               next == ResumeAfter(s, end)
    <3>1. Leftmost(s) /\ text = drive[k].text /\ end = drive[k].text.ends[s]
        BY <2>1, <2>4, AnswersLeftmost DEF text
    <3>2. drive'[k] = [drive[k] EXCEPT !.from = next, !.prevEnd = end, !.answers = got]
        BY <1>1, <2>2, <2>4
    <3>3. /\ drive'[k].from = next /\ drive'[k].prevEnd = end /\ drive'[k].answers = got
          /\ drive'[k].text = drive[k].text /\ drive'[k].status = drive[k].status
      <4> HIDE DEF next, end, got
      <4> QED BY <1>1, <3>2 DEF Driving
    <3>4. s \in DOMAIN drive[k].text.ends /\ drive[k].text.len \in Nat /\ drive[k].from \in Nat
        BY <1>1, <2>1, <2>4, <3>1, TextOfDrive DEF Leftmost, KeptInv
    <3>5. Drive(k)!IsLeftmost(s)
        BY <1>1, <2>1, <2>4, <3>1, <3>4 DEF Drive!IsLeftmost, Leftmost, Drive!NoMatch, NoMatch
    <3>6. Drive(k)!Report
        BY <2>1, <2>4, <3>1, <3>3, <3>4, <3>5 DEF Drive!Report, Drive!Delivered, Drive!ResumeAfter,
           Delivered, ResumeAfter
    <3> QED BY <3>6 DEF Drive!Next
  <2> QED BY <2>3, <2>4
<1>6. CASE FindNone
  <2>1. pc = "find" /\ d \in Drives /\ drive[d].status = "driving" /\ NoMatch \in Answers
        /\ drive' = [drive EXCEPT ![d].status = "done"]
      BY <1>6, CallIs DEF FindNone
  <2>2. CASE k # d
    <3>1. drive'[k] = drive[k]
        BY <1>1, <2>1, <2>2
    <3> QED BY <1>2, <3>1
  <2>3. CASE k = d
    <3>1. drive'[k] = [drive[k] EXCEPT !.status = "done"]
        BY <1>1, <2>1, <2>3
    <3>2. /\ drive'[k].text = drive[k].text /\ drive'[k].from = drive[k].from
          /\ drive'[k].prevEnd = drive[k].prevEnd /\ drive'[k].answers = drive[k].answers
          /\ drive'[k].status = "done"
        BY <1>1, <3>1 DEF Driving
    <3>3. \A s \in 0..drive[k].text.len : s >= drive[k].from => drive[k].text.ends[s] = NoMatch
        BY <2>1, <2>3, AnswersLeftmost DEF text
    <3>4. Drive(k)!End
        BY <1>1, <2>1, <2>3, <3>2, <3>3 DEF Drive!End, Drive!NoMatch, NoMatch
    <3> QED BY <3>4 DEF Drive!Next
  <2> QED BY <2>2, <2>3
<1>7. CASE FindUnknown
  <2>1. pc \in {"place", "find"} /\ d \in Drives /\ drive[d].status = "driving"
        /\ drive' = [drive EXCEPT ![d].status = "unknown"]
      BY <1>7, CallIs DEF FindUnknown
  <2>2. CASE k # d
    <3>1. drive'[k] = drive[k]
        BY <1>1, <2>1, <2>2
    <3> QED BY <1>2, <3>1
  <2>3. CASE k = d
    <3>1. drive'[k] = [drive[k] EXCEPT !.status = "unknown"]
        BY <1>1, <2>1, <2>3
    <3>2. /\ drive'[k].text = drive[k].text /\ drive'[k].from = drive[k].from
          /\ drive'[k].prevEnd = drive[k].prevEnd /\ drive'[k].answers = drive[k].answers
          /\ drive'[k].status = "unknown"
        BY <1>1, <3>1 DEF Driving
    <3>3. Drive(k)!GiveUp
        BY <2>1, <2>3, <3>2 DEF Drive!GiveUp
    <3> QED BY <3>3 DEF Drive!Next
  <2> QED BY <2>2, <2>3
<1>8. CASE Leave
  <2>1. CASE Drained /\ ~Ended /\ k = d
    <3>1. /\ drive'[k] = [drive[k] EXCEPT !.status = "done"] /\ drive[k].status = "driving" /\ pc = "leave"
        BY <1>1, <1>8, <2>1 DEF Leave, Ended
    <3>2. /\ drive'[k].text = drive[k].text /\ drive'[k].from = drive[k].from
          /\ drive'[k].prevEnd = drive[k].prevEnd /\ drive'[k].answers = drive[k].answers
          /\ drive'[k].status = "done"
        BY <1>1, <3>1 DEF Driving
    <3>3. drive[k].from > drive[k].text.len
        BY <2>1, <3>1 DEF KeptInv, CallHolds, Drained, text
    <3>4. drive[k].text.len \in Nat /\ drive[k].from \in Nat
        BY TextOfDrive DEF KeptInv
    <3>5. \A s \in 0..drive[k].text.len : ~(s >= drive[k].from)
        BY <3>3, <3>4
    <3>6. Drive(k)!End
        BY <1>1, <3>1, <3>2, <3>5 DEF Drive!End
    <3> QED BY <3>6 DEF Drive!Next
  <2>2. CASE ~(Drained /\ ~Ended /\ k = d)
    <3>1. drive'[k] = drive[k]
        BY <1>1, <1>8, <2>2 DEF Leave
    <3> QED BY <1>2, <3>1
  <2> QED BY <2>1, <2>2
<1>9. ASSUME drive' = drive
      PROVE  [Drive(k)!Next]_(Drive(k)!vars)
    BY <1>2, <1>9
<1> QED
    BY <1>3, <1>4, <1>5, <1>6, <1>7, <1>8, <1>9
    DEF Next, Host, Module, Call, EnterNamed, EnterDefault, GrowArea, AreaRefused, Continue, GetRegion,
        NeedsNoRegion, HandOver, NextFind, PlaceStack, Return, vars

\* However drives share the module's state and interleave, each refines the
\* search it would be alone, under the hypotheses of OwnMarksRead.
THEOREM DrivesRefine ==
    ASSUME ShortMatches
    PROVE  Spec /\ []CutShortAlone => DrivesLeftmost
<1>1. Init => \A k \in Drives : Drive(k)!Init
  <2> SUFFICES ASSUME Init, NEW k \in Drives PROVE Drive(k)!Init
      OBVIOUS
  <2>1. PICK x \in mode.uses, b \in mode.buffers : drive[k] = DriveOf(x, b, held[b])
      BY DEF Init
  <2> QED BY <2>1 DEF DriveOf, Drive!Init, Drive!NoMatch, NoMatch
<1>2. TypeInv /\ KeptInv /\ [Next]_vars => \A k \in Drives : [Drive(k)!Next]_(Drive(k)!vars)
    BY DriveStep
<1>3. TypeInv /\ KeptInv /\ [Next]_vars => [\A k \in Drives : [Drive(k)!Next]_(Drive(k)!vars)]_vars
    BY <1>2
<1> QED BY <1>1, <1>3, KeptAlways, Typed, PTL DEF Spec, DrivesLeftmost
=============================================================================
