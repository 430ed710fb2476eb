-------------------------- MODULE SetScratchProofs --------------------------
(***************************************************************************)
(* Proofs about StubMemory and SetScratch: what an iterator holds is its    *)
(* own, whatever is opened, called, suspended and closed around it, and a   *)
(* set's members keep true failures, for any texts, memory and members.     *)
(***************************************************************************)
EXTENDS SetScratch, FiniteSetTheorems, NaturalsInduction, WellFoundedInduction, TLAPS

\* _align rounds on an i32, so a region has to be reserved below 2^31.
ArenaBelowSign == \A t \in Texts : heap.bump + InCap(t) + Unit <= Half
-----------------------------------------------------------------------------
(* Types. *)

Words == {Zero, Junk, Table} \cup ({"input", "out", "note"} \X Iters)
            \cup ({"block"} \X BOOLEAN \X Nat)
AnyText == Texts \cup {Idle.text}
Heaps == [mem : [Addresses -> Words], size : Nat, view : Nat, bump : Nat,
          live : Nat, base : Nat, opens : Nat]
Iterators == [status : {"idle", "live"}, kind : {"find", "set"}, text : AnyText,
              at : Nat, len : Nat, out : Nat, cache : Nat, notes : Nat, fail : BOOLEAN,
              pos : Nat]
Readers == [view : Nat, left : Int, got : Words]
MemberStates == [budgetEpoch : Nat, budget : Nat, memoEpoch : Nat, base : Nat,
                 origin : Nat, end : Nat, cleared : Nat]
Scratches == [epoch : Nat, topEpoch : Nat, top : Nat, member : [Members -> MemberStates]]
Calls == [it : Iters, from : Nat, cand : Nat, member : Members, hit : BOOLEAN,
          pos : Nat \cup {NoWalk}]
Spendings == [pops : Nat, walked : Nat, filled : Nat, hits : Nat]
Answered == Nat \cup {NoMatch, Unknown}

TypeInv ==
    /\ heap \in Heaps /\ iter \in [Iters -> Iterators]
    /\ search \in Nat
    /\ scratch \in Scratches /\ call \in Calls \cup {NoCall}
    /\ said \in Answered \X Answered /\ spent \in [Members -> Spendings]
-----------------------------------------------------------------------------
(* The memory, as a heap and the iterators over it. *)

LiveIn(its) == {i \in Iters : its[i].status = "live"}
SetTexts == {o[2] : o \in {p \in Openings : p[1] = "set"}}

\* Two ranges of words do not meet.
Apart(lo, hi, from, to) == hi < from \/ to < lo

\* The last word of an iterator's call area, its answer cache included.
Last(it) == it.out + it.cache

\* What an iterator holds lies in memory, below the bump.
Lies(h, it) ==
    /\ it.text \in Texts /\ it.len = it.text.len
    /\ it.kind = "set" => it.text \in SetTexts /\ it.notes = 0
    /\ it.kind = "find" => it.cache = 0
    /\ StaticTop <= it.at /\ it.at + it.len <= it.out /\ Last(it) < h.bump
    /\ it.notes # 0 => it.out < it.notes /\ it.notes + it.len < h.bump

\* What two iterators hold does not meet.
Distinct(a, b) ==
    /\ Apart(a.at, Last(a), b.at, Last(b))
    /\ a.notes # 0 => Apart(a.notes, a.notes + a.len, b.at, Last(b))
    /\ b.notes # 0 => Apart(b.notes, b.notes + b.len, a.at, Last(a))
    /\ a.notes # 0 /\ b.notes # 0 => Apart(a.notes, a.notes + a.len, b.notes, b.notes + b.len)

\* The bookkeeping of the arena; while something is held the scratch base is
\* above it.
Arena(h, live) ==
    /\ StaticTop <= h.bump /\ h.bump <= h.size /\ h.size <= MaxWords
    /\ h.view <= h.size /\ h.base <= h.size
    /\ IsFiniteSet(live) /\ h.live = Cardinality(live)
    /\ live = {} => h.bump = StaticTop
    /\ live # {} => h.bump <= h.base

\* RegionsIntact, of a heap and its iterators.
TablesIntact(h) == \A x \in 0..(StaticTop - 1) : h.mem[x] = Table
HeldIntact(h, i, it) ==
    /\ \A x \in it.at..(it.at + it.len - 1) : h.mem[x] = Input(i)
    /\ it.kind = "set" => \A x \in it.out..Last(it) : h.mem[x] = Out(i)
    /\ it.kind = "find" =>
         /\ h.mem[it.out] \in {Block(a, it.notes) : a \in BOOLEAN}
         /\ it.notes # 0 =>
              \A x \in it.notes..(it.notes + it.len) : h.mem[x] \in {Zero, Note(i)}

Sound(h, its) ==
    /\ h \in Heaps /\ its \in [Iters -> Iterators]
    /\ Arena(h, LiveIn(its))
    /\ TablesIntact(h)
    /\ \A i \in LiveIn(its) : Lies(h, its[i]) /\ HeldIntact(h, i, its[i])
    /\ \A i, j \in LiveIn(its) : i # j => Distinct(its[i], its[j])

\* What an iterator may have read: nothing yet, a result of its call, its block.
Owned(i, it) ==
    {Zero} \cup IF it.kind = "set" THEN {Out(i)} ELSE {Block(a, it.notes) : a \in BOOLEAN}
Reads(its, rd) ==
    /\ rd \in [Iters -> Readers]
    /\ \A i \in LiveIn(its) : rd[i].got \in Owned(i, its[i])
-----------------------------------------------------------------------------
(* The scratch of a set's members, as the globals s and the spending sp over *)
(* the heap h in a host call over the text t that began at from.             *)

EpochsBefore(s) ==
    /\ s.topEpoch <= s.epoch
    /\ \A m \in Members : s.member[m].budgetEpoch <= s.epoch /\ s.member[m].memoEpoch <= s.epoch

\* The members with a region in this host call.
HasRegion(s, m) == s.member[m].memoEpoch = s.epoch

\* A member's region lies above everything held, in memory, below the top, and
\* begins at a candidate before the one due; the member has tripped.
Placement(h, s, t, from, m, due) ==
    LET r == s.member[m] IN
    /\ s.topEpoch = s.epoch
    /\ h.bump <= r.base /\ from <= r.origin /\ r.origin <= due
    /\ r.end = r.base + (t.len - r.origin) + 1
    /\ r.end <= s.top /\ r.end <= h.size
    /\ r.base <= r.cleared /\ r.cleared <= r.end
    /\ Tripped(s, m)

\* MarksAreFailures, of a member whose walk from due is at pos.
Marked(h, s, t, m, due, pos) ==
    LET r == s.member[m] IN
    \A x \in r.base..(r.cleared - 1) :
        LET p == r.origin + (x - r.base) IN
        h.mem[x] # Zero => Truth(t, m, p) = NoMatch \/ p \in due..(pos - 1)

\* The fills are paid for: w rows of the region by a step each, a match by a
\* chunk, and the watermark is less than a chunk past w.  The rows from the
\* candidate due on that are paid for already are marked.
Paid(h, s, sp, m, due, reached, w) ==
    LET r == s.member[m]  marks == r.cleared - r.base IN
    /\ reached - r.origin <= w
    /\ sp[m].filled <= sp[m].walked + Chunk * sp[m].hits + (marks - w)
    /\ marks - w < Chunk
    /\ \A q \in (due - r.origin)..(w - 1) : q < marks /\ h.mem[r.base + q] # Zero

\* The member's share of the budget.
Within(s, sp, t, from, m) ==
    IF s.member[m].budgetEpoch = s.epoch
    THEN sp[m].pops + s.member[m].budget <= (t.len - from + 1) * Factor
    ELSE sp[m].pops = 0

\* A member in a host call: the candidate due, and its walk at pos if it is in one.
MemberInv(h, s, sp, t, from, m, due, pos) ==
    /\ IF HasRegion(s, m)
       THEN /\ Placement(h, s, t, from, m, due)
            /\ Marked(h, s, t, m, due, pos)
            /\ \E w \in 0..(t.len + 1) :
                  Paid(h, s, sp, m, due, IF pos = NoWalk THEN due ELSE pos, w)
       ELSE sp[m].filled = 0 /\ sp[m].walked = 0
    /\ Within(s, sp, t, from, m)

\* The top is above everything held, and the regions do not meet.
RegionsApart(h, s) ==
    /\ s.topEpoch = s.epoch => h.bump <= s.top
    /\ \A m, n \in Members : m # n /\ HasRegion(s, m) /\ HasRegion(s, n) =>
         s.member[m].end <= s.member[n].base \/ s.member[n].end <= s.member[m].base

\* The candidate a member is asked at next.
Due(m) == IF m < call.member THEN call.cand + 1 ELSE call.cand
WalkOf(m) == IF m = call.member THEN call.pos ELSE NoWalk

CallInv ==
    LET i == call.it IN
    /\ i \in Live /\ iter[i].kind = "set"
    /\ call.from <= call.cand /\ call.cand <= iter[i].len

\* A walk has passed the positions behind it.
WalkInv ==
    call.pos # NoWalk =>
        /\ HasRegion(scratch, call.member)
        /\ call.cand <= call.pos /\ call.pos <= iter[call.it].len
        /\ \A q \in call.cand..(call.pos - 1) : Kind(iter[call.it].text, call.member, q) = "go"

InCall ==
    /\ CallInv /\ WalkInv /\ RegionsApart(heap, scratch)
    /\ \A m \in Members :
          MemberInv(heap, scratch, spent, iter[call.it].text, call.from, m, Due(m), WalkOf(m))

Inv ==
    /\ TypeInv /\ Sound(heap, iter) /\ EpochsBefore(scratch)
    /\ call # NoCall => InCall
    /\ SaidTrue /\ FillsBounded /\ Reads(iter, reader)
-----------------------------------------------------------------------------
(* Facts about the constants and the arithmetic of addresses. *)

\* The sizes a memory is described by.
LEMMA Sizes ==
    /\ StaticTop \in Nat /\ StaticTop > 0 /\ Page \in Nat /\ Page > 0 /\ MaxWords \in Nat
    /\ StaticTop + 2 * Page <= MaxWords
    /\ Half \in Nat /\ Half > 0 /\ Unit \in Nat /\ Unit > 0 /\ Uses \subseteq Nat
    /\ MaxOpens \in Nat /\ Openings \subseteq {"find", "set"} \X Texts /\ Caches \subseteq Nat
    BY SizeAssumption

\* The encoding of a text fits its worst case.
LEMMA TextSizes ==
    ASSUME NEW t \in Texts
    PROVE  t.units \in Nat /\ t.cap \in Nat /\ t.len \in Nat /\ t.len <= t.cap
    BY TextAssumption

\* What is opened is a text.
LEMMA Opened ==
    ASSUME NEW o \in Openings
    PROVE  o[1] \in {"find", "set"} /\ o[2] \in Texts /\ (o[1] = "set" => o[2] \in SetTexts)
    BY Sizes DEF SetTexts

\* A set's texts say what each member does at each position.
LEMMA SetTextTypes ==
    ASSUME NEW t \in SetTexts
    PROVE  /\ t \in Texts
           /\ \A m \in Members, p \in 0..(t.len - 1) : t.world[m][p] \in {"go", "fail", "match"}
    BY Sizes, WorldAssumption DEF SetTexts

\* The members are numbered, and their parameters are positive.
LEMMA MemberTypes ==
    /\ IsFiniteSet(Members) /\ Cardinality(Members) \in Nat /\ Members # {}
    /\ Members = 1..Cardinality(Members)
    /\ Factor \in Nat /\ Factor > 0 /\ Chunk \in Nat /\ Chunk > 0 /\ MaxEpoch \in Nat
    /\ Charge \in [Members -> Nat] /\ \A m \in Members : Charge[m] > 0
    BY ScratchAssumption, FS_CardinalityType

\* Division brackets its dividend.
LEMMA Divides ==
    ASSUME NEW a \in Nat, NEW b \in Nat, b > 0
    PROVE  a \div b \in Nat /\ b * (a \div b) <= a /\ a < b * (a \div b) + b
    OBVIOUS

\* Multiplication by a natural number is monotone.
LEMMA Products ==
    \A m, n, k \in Nat : m * n \in Nat /\ m * n = n * m /\ (m <= k => m * n <= k * n)
    OBVIOUS

\* AlignUp goes up, by less than a unit.
LEMMA AlignsUp ==
    ASSUME NEW x \in Nat
    PROVE  AlignUp(x) \in Nat /\ x <= AlignUp(x) /\ AlignUp(x) < x + Unit
<1>1. Unit \in Nat /\ Unit > 0 /\ x + Unit - 1 \in Nat
    BY Sizes
<1> DEFINE q == (x + Unit - 1) \div Unit
<1>2. q \in Nat /\ Unit * q <= x + Unit - 1 /\ x + Unit - 1 < Unit * q + Unit
    BY <1>1, Divides
<1>3. AlignUp(x) = q * Unit
    BY DEF AlignUp
<1>4. q * Unit \in Nat /\ q * Unit = Unit * q
    BY <1>1, <1>2, Products
<1> HIDE DEF q
<1> QED
    BY <1>1, <1>2, <1>3, <1>4

\* Below the sign bit _align is AlignUp.
LEMMA AlignsBelowSign ==
    ASSUME NEW x \in Nat, x + Unit <= Half
    PROVE  Align(x) = AlignUp(x)
<1>1. AlignUp(x) \in Nat /\ AlignUp(x) < x + Unit /\ Unit \in Nat /\ Half \in Nat
    BY AlignsUp, Sizes
<1>2. ((x + Unit - 1) \div Unit) * Unit = AlignUp(x)
    BY DEF AlignUp
<1>3. ~(AlignUp(x) >= Half)
    BY <1>1
<1> QED
    BY <1>2, <1>3 DEF Align

\* Pages hold the words they are counted for, and no fewer do.
LEMMA PagesHold ==
    ASSUME NEW words \in Nat
    PROVE  /\ Pages(words) \in Nat /\ words <= Pages(words) * Page
           /\ \A k \in Nat : words <= k * Page => Pages(words) * Page <= k * Page
<1>1. Page \in Nat /\ Page > 0 /\ words + Page - 1 \in Nat
    BY Sizes
<1>2. /\ Pages(words) \in Nat /\ Page * Pages(words) <= words + Page - 1
      /\ words + Page - 1 < Page * Pages(words) + Page
    BY <1>1, Divides DEF Pages
<1>3. Pages(words) * Page = Page * Pages(words)
    BY <1>1, <1>2, Products
<1>4. ASSUME NEW k \in Nat, words <= k * Page PROVE Pages(words) * Page <= k * Page
    <2>1. Pages(words) <= k
        <3>1. SUFFICES ASSUME k + 1 <= Pages(words) PROVE FALSE
            BY <1>2
        <3>2. (k + 1) * Page <= Pages(words) * Page
            BY <1>1, <1>2, <3>1, Products
        <3>3. (k + 1) * Page = k * Page + Page /\ k * Page \in Nat
            BY <1>1
        <3> HIDE DEF Pages
        <3>4. \A a, b, p, w \in Nat : a + p <= b /\ b <= w + p - 1 /\ w <= a => FALSE
            OBVIOUS
        <3>5. Pages(words) * Page \in Nat
            BY <1>1, <1>2, Products
        <3> QED
            BY <1>1, <1>2, <1>3, <1>4, <3>2, <3>3, <3>4, <3>5
    <2> QED
        BY <1>1, <1>2, <2>1, Products
<1>5. words <= Pages(words) * Page
    <2>1. Pages(words) * Page \in Nat
        BY <1>1, <1>2, Products
    <2> QED
        BY <1>1, <1>2, <1>3, <2>1
<1> QED
    BY <1>2, <1>4, <1>5
-----------------------------------------------------------------------------
(* What the operations do to a heap. *)

\* g is h grown, its base raised or not, and written from lo on only.
Spares(h, g, lo) ==
    /\ g \in Heaps /\ g.bump = h.bump /\ g.live = h.live /\ g.opens = h.opens
    /\ h.size <= g.size /\ g.size <= MaxWords /\ g.view <= g.size
    /\ h.base <= g.base /\ g.base <= g.size
    /\ \A x \in Addresses : x < lo => g.mem[x] = h.mem[x]

\* A heap and its views lie in memory.
Shaped(h) == h \in Heaps /\ h.size <= MaxWords /\ h.view <= h.size /\ h.base <= h.size

\* The types of a heap's fields.
LEMMA HeapTypes ==
    ASSUME NEW h \in Heaps
    PROVE  /\ h.mem \in [Addresses -> Words] /\ h.size \in Nat /\ h.view \in Nat
           /\ h.bump \in Nat /\ h.live \in Nat /\ h.base \in Nat /\ h.opens \in Nat
    BY DEF Heaps

\* A store writes its range and nothing else.
LEMMA Stores ==
    ASSUME NEW h \in Heaps, NEW lo \in Int, NEW n \in Int, NEW v \in Words
    PROVE  LET g == Store(h, lo, n, v) IN
           /\ g \in Heaps /\ g.size = h.size /\ g.view = h.view /\ g.bump = h.bump
           /\ g.live = h.live /\ g.base = h.base /\ g.opens = h.opens
           /\ \A x \in Addresses : g.mem[x] = IF lo <= x /\ x < lo + n THEN v ELSE h.mem[x]
<1> DEFINE mm == [x \in Addresses |-> IF lo <= x /\ x < lo + n THEN v ELSE h.mem[x]]
<1>1. Store(h, lo, n, v) = [h EXCEPT !.mem = mm]
    BY DEF Store
<1>2. mm \in [Addresses -> Words]
    BY DEF Heaps
<1>3. \A x \in Addresses : mm[x] = IF lo <= x /\ x < lo + n THEN v ELSE h.mem[x]
    OBVIOUS
<1> HIDE DEF mm
<1>4. /\ [h EXCEPT !.mem = mm] \in Heaps
      /\ [h EXCEPT !.mem = mm].mem = mm
      /\ [h EXCEPT !.mem = mm].size = h.size /\ [h EXCEPT !.mem = mm].view = h.view
      /\ [h EXCEPT !.mem = mm].bump = h.bump /\ [h EXCEPT !.mem = mm].live = h.live
      /\ [h EXCEPT !.mem = mm].base = h.base /\ [h EXCEPT !.mem = mm].opens = h.opens
    BY <1>2 DEF Heaps
<1> QED
    BY <1>1, <1>3, <1>4

\* A store from lo on spares what is below lo.
LEMMA StoreSpares ==
    ASSUME NEW h, Shaped(h), NEW lo \in Int, NEW n \in Int, NEW v \in Words,
           NEW b \in Int, b <= lo
    PROVE  Spares(h, Store(h, lo, n, v), b) /\ Shaped(Store(h, lo, n, v))
<1> DEFINE g == Store(h, lo, n, v)
<1>1. h \in Heaps /\ h.size <= MaxWords /\ h.view <= h.size /\ h.base <= h.size
    BY DEF Shaped
<1>2. /\ g \in Heaps /\ g.size = h.size /\ g.view = h.view /\ g.bump = h.bump
      /\ g.live = h.live /\ g.base = h.base /\ g.opens = h.opens
      /\ \A x \in Addresses : g.mem[x] = IF lo <= x /\ x < lo + n THEN v ELSE h.mem[x]
    BY <1>1, Stores
<1>3. ASSUME NEW x \in Addresses, x < b PROVE g.mem[x] = h.mem[x]
    <2>1. x \in Int
        BY Sizes DEF Addresses
    <2>2. ~(lo <= x)
        BY <1>3, <2>1
    <2> QED
        BY <1>2, <2>2
<1>4. h.size \in Nat /\ h.base \in Nat
    BY <1>1, HeapTypes
<1> HIDE DEF g
<1> QED
    BY <1>1, <1>2, <1>3, <1>4 DEF Spares, Shaped, g

\* One step that spares after another spares.
LEMMA SparesChain ==
    ASSUME NEW h, NEW g, NEW k, NEW a \in Int, NEW b \in Int, NEW c \in Int, c <= a, c <= b,
           Shaped(h), Spares(h, g, a), Spares(g, k, b)
    PROVE  Spares(h, k, c)
<1>1. /\ h.size \in Nat /\ g.size \in Nat /\ k.size \in Nat
      /\ h.base \in Nat /\ g.base \in Nat /\ k.base \in Nat
    BY HeapTypes DEF Shaped, Spares
<1>2. ASSUME NEW x \in Addresses, x < c PROVE k.mem[x] = h.mem[x]
    <2>1. x \in Int
        BY Sizes DEF Addresses
    <2>2. x < a /\ x < b
        BY <1>2, <2>1
    <2> QED
        BY <2>2 DEF Spares
<1> QED
    BY <1>1, <1>2 DEF Spares

\* A spared heap is as well shaped.
LEMMA SparesFits ==
    ASSUME NEW h, NEW g, NEW lo, Spares(h, g, lo)
    PROVE  Shaped(g)
    BY DEF Spares, Shaped

\* Growth by whole pages.
LEMMA Grows ==
    ASSUME NEW h, Shaped(h), NEW end \in Nat, end > h.size, CanGrow(h, Pages(end - h.size))
    PROVE  LET g == Grown(h, Pages(end - h.size)) IN
           /\ Shaped(g) /\ end <= g.size /\ h.size <= g.size
           /\ \E s \in Nat : g = [h EXCEPT !.size = s]
           /\ g.mem = h.mem /\ g.view = h.view /\ g.bump = h.bump /\ g.live = h.live
           /\ g.base = h.base /\ g.opens = h.opens
<1> DEFINE p == Pages(end - h.size) * Page
<1>1. h.size \in Nat /\ h.view \in Nat /\ h.base \in Nat /\ h \in Heaps
    BY HeapTypes DEF Shaped
<1>2. end - h.size \in Nat
    BY <1>1
<1>3. Pages(end - h.size) \in Nat /\ p \in Nat /\ end - h.size <= p
    BY <1>2, PagesHold, Products, Sizes
<1>4. h.size + p <= MaxWords
    BY DEF CanGrow
<1>5. Grown(h, Pages(end - h.size)) = [h EXCEPT !.size = h.size + p]
    BY DEF Grown
<1> HIDE DEF p
<1>6. h.size + p \in Nat /\ end <= h.size + p /\ h.size <= h.size + p
    BY <1>1, <1>3
<1>7. [h EXCEPT !.size = h.size + p] \in Heaps
    BY <1>1, <1>6 DEF Heaps
<1>8. /\ [h EXCEPT !.size = h.size + p].size = h.size + p
      /\ [h EXCEPT !.size = h.size + p].mem = h.mem /\ [h EXCEPT !.size = h.size + p].view = h.view
      /\ [h EXCEPT !.size = h.size + p].bump = h.bump /\ [h EXCEPT !.size = h.size + p].live = h.live
      /\ [h EXCEPT !.size = h.size + p].base = h.base /\ [h EXCEPT !.size = h.size + p].opens = h.opens
    BY <1>1 DEF Heaps
<1>9. h.view <= h.size + p /\ h.base <= h.size + p
    BY <1>1, <1>3 DEF Shaped
<1> QED
    BY <1>4, <1>5, <1>6, <1>7, <1>8, <1>9 DEF Shaped

\* The module's growth: memory up to end, nothing else.
LEMMA Holds ==
    ASSUME NEW h, Shaped(h), NEW end \in Nat, CanHold(h, end), NEW lo \in Int
    PROVE  /\ Spares(h, Hold(h, end), lo) /\ Shaped(Hold(h, end)) /\ end <= Hold(h, end).size
           /\ Hold(h, end).mem = h.mem /\ Hold(h, end).view = h.view /\ Hold(h, end).base = h.base
<1>1. h.size \in Nat /\ h.base \in Nat /\ h \in Heaps
    BY HeapTypes DEF Shaped
<1>2. CASE end <= h.size
    BY <1>1, <1>2 DEF Hold, Spares, Shaped
<1>3. CASE ~(end <= h.size)
    <2>1. end > h.size /\ CanGrow(h, Pages(end - h.size))
        BY <1>1, <1>3 DEF CanHold
    <2>2. Hold(h, end) = Grown(h, Pages(end - h.size))
        BY <1>3 DEF Hold
    <2> QED
        BY <1>1, <2>1, <2>2, Grows DEF Spares, Shaped
<1> QED
    BY <1>2, <1>3

\* The stub's growth, when it does not throw: the view is of all the memory and
\* the base is not below what was asked for.
LEMMA GrowsTo ==
    ASSUME NEW h, Shaped(h), NEW top \in Nat, ~Throws(h, top), NEW lo \in Int
    PROVE  LET g == GrowTo(h, top) IN
           /\ Spares(h, g, lo) /\ Shaped(g) /\ top <= g.size /\ g.mem = h.mem
           /\ g.view = g.size /\ top <= g.base
<1> DEFINE g0 == IF top > h.size THEN Grown(h, Pages(top - h.size)) ELSE h
           g == GrowTo(h, top)
<1>1. h.size \in Nat /\ h.base \in Nat /\ h \in Heaps
    BY HeapTypes DEF Shaped
<1>2. /\ Shaped(g0) /\ top <= g0.size /\ h.size <= g0.size /\ g0.mem = h.mem
      /\ g0.bump = h.bump /\ g0.live = h.live /\ g0.base = h.base /\ g0.opens = h.opens
    <2>1. CASE top > h.size
        <3>1. CanGrow(h, Pages(top - h.size))
            BY <2>1 DEF Throws
        <3> QED
            BY <2>1, <3>1, Grows
    <2>2. CASE ~(top > h.size)
        BY <1>1, <2>2
    <2> QED
        BY <2>1, <2>2
<1> DEFINE b == Larger(h.base, top)
<1>3. b \in Nat /\ h.base <= b /\ top <= b /\ b <= g0.size
    BY <1>1, <1>2 DEF Larger, Shaped
<1>4. g = [g0 EXCEPT !.view = g0.size, !.base = b]
    BY <1>2 DEF GrowTo
<1>5. g0 \in Heaps /\ g0.size \in Nat /\ g0.size <= MaxWords
    BY <1>2, HeapTypes DEF Shaped
<1> HIDE DEF g0, b, g
<1>6. /\ g \in Heaps /\ g.size = g0.size /\ g.view = g0.size /\ g.base = b /\ g.mem = g0.mem
      /\ g.bump = g0.bump /\ g.live = g0.live /\ g.opens = g0.opens
    BY <1>3, <1>4, <1>5 DEF Heaps
<1>7. Spares(h, g, lo) /\ Shaped(g) /\ top <= g.size /\ g.mem = h.mem /\ g.view = g.size /\ top <= g.base
    BY <1>2, <1>3, <1>5, <1>6 DEF Spares, Shaped
<1> QED
    BY <1>7 DEF g

\* The answer cache is memory the stub has, or there is none.
LEMMA CachedIs ==
    ASSUME NEW h, Shaped(h), h.view = h.size, NEW top \in Nat, top <= h.size, top <= h.base,
           NEW cache \in Nat, NEW lo \in Int
    PROVE  LET c == Cached(h, top, cache) IN
           /\ c.words \in Nat /\ (cache = 0 => c.words = 0)
           /\ Spares(h, c.heap, lo) /\ Shaped(c.heap) /\ c.heap.mem = h.mem
           /\ c.heap.view = c.heap.size
           /\ top + c.words <= c.heap.size /\ top + c.words <= c.heap.base
<1>1. h \in Heaps /\ h.size \in Nat /\ h.base \in Nat /\ top + cache \in Nat
    BY HeapTypes DEF Shaped
<1>2. CASE cache = 0 \/ Throws(h, top + cache)
    <2>1. Cached(h, top, cache) = [heap |-> h, words |-> 0]
        BY <1>2 DEF Cached
    <2>2. Spares(h, h, lo)
        BY <1>1 DEF Spares, Shaped
    <2> QED
        BY <1>1, <2>1, <2>2
<1>3. CASE ~(cache = 0 \/ Throws(h, top + cache))
    <2> DEFINE end == top + cache
    <2>1. Cached(h, top, cache) = [heap |-> GrowTo(h, end), words |-> cache]
        BY <1>3 DEF Cached
    <2>2. end \in Nat /\ ~Throws(h, end)
        BY <1>1, <1>3
    <2> HIDE DEF end
    <2>3. LET g == GrowTo(h, end) IN
          /\ Spares(h, g, lo) /\ Shaped(g) /\ end <= g.size /\ g.mem = h.mem
          /\ g.view = g.size /\ end <= g.base
        BY <2>2, GrowsTo
    <2> QED
        BY <1>3, <2>1, <2>3 DEF end
<1> QED
    BY <1>2, <1>3

\* An attached view is of all the memory, and shows it.
LEMMA Attached ==
    ASSUME NEW v, NEW h, NEW x
    PROVE  Att(v, h) = h.size /\ Through(h.size, h, x) = h.mem[x]
    BY DEF Att, Through, Detached
-----------------------------------------------------------------------------
(* What is held stays what it is. *)

\* The types of a sound memory.
LEMMA SoundTypes ==
    ASSUME NEW h, NEW its, Sound(h, its)
    PROVE  /\ h \in Heaps /\ Shaped(h) /\ its \in [Iters -> Iterators]
           /\ StaticTop <= h.bump /\ h.bump <= h.size
           /\ LiveIn(its) \subseteq Iters /\ IsFiniteSet(LiveIn(its))
    BY DEF Sound, Arena, Shaped, LiveIn

\* The types of an iterator's fields.
LEMMA IteratorTypes ==
    ASSUME NEW it \in Iterators
    PROVE  /\ it.status \in {"idle", "live"} /\ it.kind \in {"find", "set"} /\ it.at \in Nat
           /\ it.len \in Nat /\ it.out \in Nat /\ it.notes \in Nat /\ it.fail \in BOOLEAN
           /\ it.pos \in Nat /\ it.text \in AnyText /\ it.cache \in Nat /\ Last(it) \in Nat
           /\ it.out <= Last(it)
    BY DEF Iterators, Last

\* A held range lies among the addresses, below the bump.
LEMMA HeldBelow ==
    ASSUME NEW h, NEW its, Sound(h, its), NEW i \in LiveIn(its), NEW x \in Int
    PROVE  LET it == its[i] IN
           /\ x \in it.at..(it.at + it.len - 1) => x \in Addresses /\ x < h.bump /\ x < it.out
           /\ it.out \in Addresses /\ it.out < h.bump
           /\ x \in it.out..Last(it) => x \in Addresses /\ x < h.bump
           /\ it.notes # 0 /\ x \in it.notes..(it.notes + it.len) =>
                x \in Addresses /\ x < h.bump /\ it.out < x
<1> DEFINE it == its[i]
<1>1. it \in Iterators
    BY DEF Sound, LiveIn
<1>2. /\ it.at \in Nat /\ it.len \in Nat /\ it.out \in Nat /\ it.notes \in Nat
      /\ Last(it) \in Nat /\ it.out <= Last(it)
    BY <1>1, IteratorTypes
<1>3. h.bump \in Nat /\ h.size \in Nat /\ h.bump <= h.size /\ h.size <= MaxWords
    BY HeapTypes DEF Sound, Arena
<1>4. /\ it.at + it.len <= it.out /\ Last(it) < h.bump
      /\ it.notes # 0 => it.out < it.notes /\ it.notes + it.len < h.bump
    BY DEF Sound, Lies
<1> HIDE DEF it
<1>5. x \in it.at..(it.at + it.len - 1) => x \in Addresses /\ x < h.bump /\ x < it.out
    BY <1>2, <1>3, <1>4, Sizes DEF Addresses
<1>6. it.out \in Addresses /\ it.out < h.bump
    BY <1>2, <1>3, <1>4, Sizes DEF Addresses
<1>7. it.notes # 0 /\ x \in it.notes..(it.notes + it.len) =>
                x \in Addresses /\ x < h.bump /\ it.out < x
    BY <1>2, <1>3, <1>4, Sizes DEF Addresses
<1>8. x \in it.out..Last(it) => x \in Addresses /\ x < h.bump
    BY <1>2, <1>3, <1>4, Sizes DEF Addresses
<1> QED
    BY <1>5, <1>6, <1>7, <1>8 DEF it

\* Heaps that agree on what an iterator holds keep it alike.
LEMMA IntactCopied ==
    ASSUME NEW h, NEW its, Sound(h, its), NEW i \in LiveIn(its), NEW g,
           \A x \in Addresses : x < h.bump => g.mem[x] = h.mem[x]
    PROVE  HeldIntact(g, i, its[i])
<1>1. HeldIntact(h, i, its[i])
    BY DEF Sound
<1>2. \A x \in Int :
        x \in its[i].at..(its[i].at + its[i].len - 1) => g.mem[x] = h.mem[x]
    BY HeldBelow
<1>3. /\ g.mem[its[i].out] = h.mem[its[i].out]
      /\ \A x \in Int : x \in its[i].out..Last(its[i]) => g.mem[x] = h.mem[x]
    BY HeldBelow, 0 \in Int
<1>4. \A x \in Int :
        its[i].notes # 0 /\ x \in its[i].notes..(its[i].notes + its[i].len) => g.mem[x] = h.mem[x]
    BY HeldBelow
<1> QED
    BY <1>1, <1>2, <1>3, <1>4 DEF HeldIntact

\* Writing above the bump and growing disturb nothing.
LEMMA SoundSpared ==
    ASSUME NEW h, NEW its, Sound(h, its), NEW g, NEW lo \in Int, h.bump <= lo, Spares(h, g, lo)
    PROVE  Sound(g, its)
<1>1. /\ h \in Heaps /\ g \in Heaps /\ h.bump \in Nat /\ h.base \in Nat /\ g.base \in Nat
      /\ h.size \in Nat /\ g.size \in Nat
    BY HeapTypes DEF Sound, Spares
<1>2. g.bump = h.bump /\ g.live = h.live
    BY DEF Spares
<1>3. \A x \in Addresses : x < h.bump => g.mem[x] = h.mem[x]
    <2> TAKE x \in Addresses
    <2>1. x \in Int
        BY Sizes DEF Addresses
    <2> QED
        BY <1>1, <2>1 DEF Spares
<1>4. Arena(g, LiveIn(its))
    BY <1>1, <1>2 DEF Sound, Arena, Spares
<1>5. TablesIntact(g)
    <2>1. SUFFICES ASSUME NEW x \in 0..(StaticTop - 1) PROVE g.mem[x] = Table
        BY DEF TablesIntact
    <2>2. x \in Addresses /\ x < h.bump
        BY <1>1, <2>1, Sizes DEF Sound, Arena, Addresses
    <2>3. h.mem[x] = Table
        BY <2>1 DEF Sound, TablesIntact
    <2> QED
        BY <1>3, <2>2, <2>3
<1>6. ASSUME NEW i \in LiveIn(its) PROVE Lies(g, its[i]) /\ HeldIntact(g, i, its[i])
    <2>1. Lies(g, its[i])
        BY <1>2, <1>6 DEF Sound, Lies
    <2>2. HeldIntact(g, i, its[i])
        BY <1>3, <1>6, IntactCopied
    <2> QED
        BY <2>1, <2>2
<1> QED
    BY <1>1, <1>4, <1>5, <1>6 DEF Sound

\* Iterators that hold the same are as sound.
LEMMA SoundAlike ==
    ASSUME NEW h, NEW its, Sound(h, its), NEW new \in [Iters -> Iterators],
           \A j \in Iters : /\ new[j].status = its[j].status /\ new[j].kind = its[j].kind
                            /\ new[j].text = its[j].text /\ new[j].at = its[j].at
                            /\ new[j].len = its[j].len /\ new[j].out = its[j].out
                            /\ new[j].cache = its[j].cache /\ new[j].notes = its[j].notes
    PROVE  Sound(h, new) /\ LiveIn(new) = LiveIn(its)
<1>1. LiveIn(new) = LiveIn(its)
    BY DEF LiveIn
<1>2. \A j \in LiveIn(its) : Lies(h, new[j]) /\ HeldIntact(h, j, new[j])
    <2> TAKE j \in LiveIn(its)
    <2>1. j \in Iters /\ Lies(h, its[j]) /\ HeldIntact(h, j, its[j])
        BY DEF Sound, LiveIn
    <2>2. Lies(h, new[j])
        BY <2>1 DEF Lies, Last
    <2>3. HeldIntact(h, j, new[j])
        BY <2>1 DEF HeldIntact, Last
    <2> QED
        BY <2>2, <2>3
<1>3. \A j, k \in LiveIn(its) : j # k => Distinct(new[j], new[k])
    <2> TAKE j, k \in LiveIn(its)
    <2>1. j \in Iters /\ k \in Iters /\ (j # k => Distinct(its[j], its[k]))
        BY DEF Sound, LiveIn
    <2> QED
        BY <2>1 DEF Distinct, Last
<1> QED
    BY <1>1, <1>2, <1>3 DEF Sound

\* A call that moves an iterator on.
LEMMA SoundMoved ==
    ASSUME NEW h, NEW its, Sound(h, its), NEW i \in Iters,
           NEW p \in Nat, NEW f \in BOOLEAN, NEW n \in Nat, n = its[i].notes
    PROVE  /\ Sound(h, [its EXCEPT ![i].pos = p, ![i].fail = f, ![i].notes = n])
           /\ Sound(h, [its EXCEPT ![i].pos = p])
           /\ LiveIn([its EXCEPT ![i].pos = p]) = LiveIn(its)
<1>1. its \in [Iters -> Iterators]
    BY DEF Sound
<1>2. ASSUME NEW new, NEW r \in Iterators, new = [its EXCEPT ![i] = r],
             /\ r.status = its[i].status /\ r.kind = its[i].kind /\ r.text = its[i].text
             /\ r.at = its[i].at /\ r.len = its[i].len /\ r.out = its[i].out
             /\ r.notes = its[i].notes /\ r.cache = its[i].cache
      PROVE  Sound(h, new) /\ LiveIn(new) = LiveIn(its)
    <2>1. new \in [Iters -> Iterators]
        BY <1>1, <1>2
    <2>2. \A j \in Iters : new[j] = IF j = i THEN r ELSE its[j]
        BY <1>1, <1>2
    <2> QED
        BY ZenonT(60), <1>2, <2>1, <2>2, SoundAlike
<1> DEFINE r1 == [its[i] EXCEPT !.pos = p, !.fail = f, !.notes = n]
           r2 == [its[i] EXCEPT !.pos = p]
<1>3. /\ r1 \in Iterators /\ r1.status = its[i].status /\ r1.kind = its[i].kind
      /\ r1.text = its[i].text /\ r1.at = its[i].at /\ r1.len = its[i].len
      /\ r1.out = its[i].out /\ r1.notes = its[i].notes /\ r1.cache = its[i].cache
    BY ZenonT(60), <1>1 DEF Iterators
<1>4. /\ r2 \in Iterators /\ r2.status = its[i].status /\ r2.kind = its[i].kind
      /\ r2.text = its[i].text /\ r2.at = its[i].at /\ r2.len = its[i].len
      /\ r2.out = its[i].out /\ r2.notes = its[i].notes /\ r2.cache = its[i].cache
    BY <1>1 DEF Iterators
<1>5. [its EXCEPT ![i].pos = p, ![i].fail = f, ![i].notes = n] = [its EXCEPT ![i] = r1]
    BY <1>1 DEF Iterators
<1>6. [its EXCEPT ![i].pos = p] = [its EXCEPT ![i] = r2]
    BY <1>1 DEF Iterators
<1> HIDE DEF r1, r2
<1>7. Sound(h, [its EXCEPT ![i] = r1])
    BY <1>2, <1>3
<1>8. Sound(h, [its EXCEPT ![i] = r2]) /\ LiveIn([its EXCEPT ![i] = r2]) = LiveIn(its)
    BY <1>2, <1>4
<1> QED
    BY <1>5, <1>6, <1>7, <1>8

\* An iterator that ends takes nothing from the others.
LEMMA SoundEnded ==
    ASSUME NEW h, NEW its, Sound(h, its), NEW i \in LiveIn(its)
    PROVE  /\ Sound(Released(h), [its EXCEPT ![i] = Idle])
           /\ Shaped(Released(h)) /\ Released(h).size = h.size
           /\ Released(h).view = h.view
<1> DEFINE g == Released(h)
           new == [its EXCEPT ![i] = Idle]
           live == LiveIn(its)
<1>1. /\ h \in Heaps /\ its \in [Iters -> Iterators] /\ i \in Iters /\ Arena(h, live)
      /\ IsFiniteSet(live) /\ h.live = Cardinality(live)
    BY DEF Sound, LiveIn, Arena
<1>2. Idle \in Iterators /\ Idle.status = "idle"
    BY DEF Idle, Iterators, AnyText
<1>3. LiveIn(new) = live \ {i} /\ new \in [Iters -> Iterators]
    BY <1>1, <1>2 DEF LiveIn
<1>4. /\ IsFiniteSet(live \ {i}) /\ Cardinality(live \ {i}) = h.live - 1
      /\ Cardinality(live \ {i}) \in Nat
      /\ (Cardinality(live \ {i}) = 0 <=> live \ {i} = {})
    <2> HIDE DEF live
    <2>1. i \in live
        BY DEF live
    <2>2. IsFiniteSet(live \ {i}) /\ Cardinality(live \ {i}) = Cardinality(live) - 1
        BY <1>1, <2>1, FS_RemoveElement
    <2>3. Cardinality(live \ {i}) \in Nat
        BY <2>2, FS_CardinalityType
    <2>4. Cardinality(live \ {i}) = 0 <=> live \ {i} = {}
        BY <2>2, FS_EmptySet
    <2> QED
        BY <1>1, <2>2, <2>3, <2>4
<1>5. h.live - 1 \in Nat /\ (h.live = 1 <=> live \ {i} = {})
    BY <1>1, <1>4, HeapTypes
<1> DEFINE b == IF h.live = 1 THEN StaticTop ELSE h.bump
           k == h.live - 1
<1>6. b \in Nat /\ StaticTop <= b /\ b <= h.bump /\ h.bump \in Nat
    BY <1>1, Sizes, HeapTypes DEF Arena
<1>7. g = [h EXCEPT !.live = k, !.bump = b]
    BY <1>1 DEF Released, Heaps
<1>8. live \ {i} # {} => b = h.bump
    BY <1>5
<1>9. live \ {i} = {} => b = StaticTop
    BY <1>5
<1>10. k \in Nat /\ k = Cardinality(live \ {i})
    BY <1>4, <1>5
<1> HIDE DEF g, b, k
<1>11. /\ g \in Heaps /\ g.live = k /\ g.bump = b /\ g.size = h.size /\ g.view = h.view
       /\ g.base = h.base /\ g.mem = h.mem
    BY <1>1, <1>6, <1>7, <1>10 DEF Heaps
<1>12. Arena(g, LiveIn(new))
    <2>1. h.size \in Nat /\ h.bump <= h.size /\ h.size <= MaxWords /\ h.view <= h.size /\ h.base <= h.size
        BY <1>1, HeapTypes DEF Arena
    <2>2. LiveIn(new) # {} => h.bump <= h.base
        BY <1>1, <1>3 DEF Arena
    <2> HIDE DEF new, live
    <2>3. g.bump <= g.size
        BY <1>6, <1>11, <2>1
    <2>4. LiveIn(new) # {} => g.bump <= g.base
        BY <1>3, <1>8, <1>11, <2>2
    <2>5. LiveIn(new) = {} => g.bump = StaticTop
        BY <1>3, <1>9, <1>11
    <2>6. IsFiniteSet(LiveIn(new)) /\ g.live = Cardinality(LiveIn(new))
        BY <1>3, <1>4, <1>10, <1>11
    <2> QED
        BY <1>6, <1>11, <2>1, <2>3, <2>4, <2>5, <2>6 DEF Arena
<1>13. TablesIntact(g)
    BY <1>11 DEF Sound, TablesIntact
<1>14. ASSUME NEW j \in LiveIn(new) PROVE Lies(g, new[j]) /\ HeldIntact(g, j, new[j])
    <2>1. j \in live /\ new[j] = its[j] /\ g.bump = h.bump
        BY <1>1, <1>3, <1>8, <1>11, <1>14 DEF LiveIn
    <2>2. Lies(h, its[j]) /\ HeldIntact(h, j, its[j])
        BY <2>1 DEF Sound
    <2>3. Lies(g, its[j])
        BY <2>1, <2>2 DEF Lies
    <2>4. HeldIntact(g, j, its[j])
        BY <1>11, <2>2 DEF HeldIntact
    <2> QED
        BY <2>1, <2>3, <2>4
<1>15. ASSUME NEW j \in LiveIn(new), NEW l \in LiveIn(new), j # l PROVE Distinct(new[j], new[l])
    <2>1. j \in live /\ new[j] = its[j] /\ l \in live /\ new[l] = its[l]
        BY <1>1, <1>3, <1>15 DEF LiveIn
    <2> QED
        BY <1>15, <2>1 DEF Sound
<1>16. Sound(g, new)
    BY <1>3, <1>11, <1>12, <1>13, <1>14, <1>15 DEF Sound
<1>17. Shaped(g)
    BY <1>16, SoundTypes
<1> QED
    BY <1>11, <1>16, <1>17 DEF g, new

\* A region opened is above everything held, and the last below the new bump.
LEMMA SoundOpened ==
    ASSUME NEW h, NEW its, Sound(h, its), NEW i \in Iters, its[i].status = "idle",
           NEW kind, NEW t, <<kind, t>> \in Openings, h.bump + InCap(t) + Unit <= Half,
           NEW cache \in Nat, kind = "find" => cache = 0,
           NEW out, out = Align(h.bump + InCap(t)), ~Throws(h, out + 1)
    PROVE  LET at == h.bump
               n == Written(GrowTo(h, out + 1), t, at)
               written == Store(GrowTo(h, out + 1), at, n, Input(i))
               cached == Cached(written, out + 1, cache)
               cleared == IF kind = "find" THEN Filled(cached.heap, out, 1, Block(FALSE, 0))
                          ELSE Store(cached.heap, out, 1 + cached.words, Out(i))
           IN  /\ Sound(Reserved(cleared, out + 1 + cached.words),
                        [its EXCEPT ![i] = [Idle EXCEPT !.status = "live", !.kind = kind, !.text = t,
                                                        !.at = at, !.len = n, !.out = out,
                                                        !.cache = cached.words]])
               /\ cleared.size \in Nat
<1> DEFINE at == h.bump
           top == out + 1
           g == GrowTo(h, top)
           n == Written(g, t, at)
           written == Store(g, at, n, Input(i))
           cached == Cached(written, top, cache)
           w == cached.words
           cg == cached.heap
           word == IF kind = "find" THEN Block(FALSE, 0) ELSE Out(i)
           cleared == IF kind = "find" THEN Filled(cg, out, 1, Block(FALSE, 0))
                      ELSE Store(cg, out, 1 + w, Out(i))
           end == top + w
           k == Reserved(cleared, end)
           it == [Idle EXCEPT !.status = "live", !.kind = kind, !.text = t,
                              !.at = at, !.len = n, !.out = out, !.cache = w]
           new == [its EXCEPT ![i] = it]
           live == LiveIn(its)
<1>1. /\ h \in Heaps /\ Shaped(h) /\ its \in [Iters -> Iterators] /\ h.size \in Nat /\ at \in Nat
      /\ h.bump <= h.size /\ StaticTop <= h.bump /\ h.live \in Nat /\ h.opens \in Nat
    BY SoundTypes, HeapTypes
<1>2. /\ t \in Texts /\ kind \in {"find", "set"} /\ (kind = "set" => t \in SetTexts)
      /\ t.len \in Nat /\ t.cap \in Nat /\ t.len <= t.cap
    BY Opened, TextSizes
<1>3. out \in Nat /\ at + t.cap <= out
    <2>1. at + t.cap \in Nat /\ (at + t.cap) + Unit <= Half
        BY <1>1, <1>2, Sizes DEF InCap
    <2> HIDE DEF at
    <2>2. out = AlignUp(at + t.cap)
        BY <2>1, AlignsBelowSign DEF InCap, at
    <2> QED
        BY <2>1, <2>2, AlignsUp
<1>4. /\ Spares(h, g, at) /\ Shaped(g) /\ top <= g.size /\ g.mem = h.mem /\ g.view = g.size
      /\ top <= g.base /\ g \in Heaps /\ g.size \in Nat /\ g.bump = h.bump /\ g.live = h.live
      /\ g.opens = h.opens
    <2>1. top \in Nat /\ ~Throws(h, top)
        BY <1>3
    <2> HIDE DEF top
    <2>2. Spares(h, g, at) /\ Shaped(g) /\ top <= g.size /\ g.mem = h.mem /\ g.view = g.size /\ top <= g.base
        BY <1>1, <2>1, GrowsTo
    <2> QED
        BY <2>2, HeapTypes DEF Spares
<1>5. n = t.len
    <2> HIDE DEF g, at
    <2>1. t.len <= g.size - at
        BY <1>1, <1>2, <1>3, <1>4 DEF top
    <2> QED
        BY <1>1, <1>2, <1>4, <2>1 DEF Written, Detached, Larger, Smaller
<1>6. Input(i) \in Words /\ word \in Words
    BY DEF Words, Input, Out, Block
<1> HIDE DEF g, n, word
<1>7. /\ written \in Heaps /\ written.size = g.size /\ written.view = g.view /\ written.base = g.base
      /\ written.bump = h.bump /\ written.live = h.live /\ written.opens = h.opens
      /\ \A x \in Addresses : written.mem[x] = IF at <= x /\ x < at + n THEN Input(i) ELSE h.mem[x]
    BY <1>1, <1>2, <1>4, <1>5, <1>6, Stores
<1> HIDE DEF written
<1>23. /\ w \in Nat /\ (kind = "find" => w = 0) /\ Shaped(cg) /\ cg \in Heaps /\ cg.size \in Nat
       /\ cg.bump = h.bump /\ cg.live = h.live /\ cg.opens = h.opens
       /\ cg.view = cg.size /\ cg.mem = written.mem /\ end <= cg.size /\ end <= cg.base
    <2>1. /\ Shaped(written) /\ written.view = written.size /\ top \in Nat
          /\ top <= written.size /\ top <= written.base /\ 0 \in Int
        BY <1>3, <1>4, <1>7 DEF Shaped
    <2> HIDE DEF top
    <2>2. /\ w \in Nat /\ (cache = 0 => w = 0) /\ Spares(written, cg, 0) /\ Shaped(cg)
          /\ cg.mem = written.mem /\ cg.view = cg.size /\ top + w <= cg.size /\ top + w <= cg.base
        BY <2>1, CachedIs
    <2> HIDE DEF cached, w, cg
    <2> QED
        BY <1>7, <2>2, HeapTypes DEF Spares, Shaped
<1> HIDE DEF cached, w, cg
<1>24. end \in Nat /\ out < end /\ end = out + (1 + w)
    BY <1>3, <1>23
<1>25. cleared = Store(cg, out, 1 + w, word)
    <2>1. CASE kind = "find"
        <3>1. 1 + w = 1 /\ ~Detached(cg.view, cg)
            BY <1>23, <2>1 DEF Detached
        <3>2. cleared = Filled(cg, out, 1, Block(FALSE, 0))
            BY <2>1
        <3>3. Filled(cg, out, 1, Block(FALSE, 0)) = Store(cg, out, 1, Block(FALSE, 0))
            BY <3>1 DEF Filled
        <3>4. word = Block(FALSE, 0)
            BY <2>1 DEF word
        <3> HIDE DEF cleared
        <3> QED
            BY <3>1, <3>2, <3>3, <3>4
    <2>2. CASE kind # "find"
        BY <2>2 DEF word
    <2> QED
        BY <2>1, <2>2
<1> HIDE DEF cleared, end
<1>8. /\ cleared \in Heaps /\ cleared.size = cg.size /\ cleared.view = cg.size /\ cleared.base = cg.base
      /\ cleared.bump = h.bump /\ cleared.live = h.live /\ cleared.opens = h.opens
      /\ \A x \in Addresses : cleared.mem[x] = IF out <= x /\ x < end THEN word ELSE written.mem[x]
    <2>1. 1 + w \in Int /\ out \in Int
        BY <1>3, <1>23
    <2> QED
        BY <1>6, <1>23, <1>24, <1>25, <2>1, Stores
<1>9. k = [cleared EXCEPT !.bump = end, !.live = h.live + 1, !.opens = h.opens + 1]
    <2>1. ~Throws(cleared, end)
        BY <1>8, <1>23, <1>24 DEF Throws
    <2> QED
        BY <1>8, <2>1 DEF Reserved, Reserve
<1> HIDE DEF k
<1>10. /\ k \in Heaps /\ k.bump = end /\ k.live = h.live + 1 /\ k.size = cg.size /\ k.view = cg.size
       /\ k.base = cg.base /\ k.mem = cleared.mem
    <2> DEFINE a == h.live + 1
               o == h.opens + 1
    <2>1. end \in Nat /\ a \in Nat /\ o \in Nat
        BY <1>1, <1>24
    <2>2. k = [cleared EXCEPT !.bump = end, !.live = a, !.opens = o]
        BY <1>9
    <2> HIDE DEF a, o
    <2>3. /\ k \in Heaps /\ k.bump = end /\ k.live = a /\ k.size = cleared.size
          /\ k.view = cleared.view /\ k.base = cleared.base /\ k.mem = cleared.mem
        BY <1>8, <2>1, <2>2 DEF Heaps
    <2> QED
        BY <1>8, <2>3 DEF a
<1>11. \A x \in Addresses : x < h.bump => k.mem[x] = h.mem[x]
    <2> TAKE x \in Addresses
    <2>1. x \in Int
        BY Sizes DEF Addresses
    <2>2. x < h.bump => ~(at <= x) /\ ~(out <= x)
        BY <1>1, <1>2, <1>3, <2>1
    <2> QED
        BY <1>7, <1>8, <1>10, <2>2
<1>12. /\ it \in Iterators /\ it.status = "live" /\ it.kind = kind /\ it.text = t /\ it.at = at
       /\ it.len = n /\ it.out = out /\ it.notes = 0 /\ it.cache = w /\ Last(it) = out + w
    BY <1>1, <1>2, <1>3, <1>5, <1>23 DEF Idle, Iterators, AnyText, Last
<1> HIDE DEF it
<1>13. LiveIn(new) = live \cup {i} /\ new \in [Iters -> Iterators] /\ i \notin live
    BY <1>1, <1>12 DEF LiveIn
<1>14. new[i] = it /\ \A j \in live : j # i /\ new[j] = its[j] /\ j \in Iters
    BY <1>1, <1>13 DEF LiveIn
<1>15. Arena(k, LiveIn(new))
    <2>1. IsFiniteSet(live) /\ h.live = Cardinality(live)
        BY DEF Sound, Arena
    <2> HIDE DEF live
    <2>2. IsFiniteSet(live \cup {i}) /\ Cardinality(live \cup {i}) = Cardinality(live) + 1
        BY <1>13, <2>1, FS_AddElement
    <2>6. IsFiniteSet(LiveIn(new)) /\ k.live = Cardinality(LiveIn(new))
        BY <1>10, <1>13, <2>1, <2>2
    <2>3. cg.size <= MaxWords /\ cg.base <= cg.size /\ end <= cg.size /\ end <= cg.base /\ cg.size \in Nat
        BY <1>23 DEF Shaped
    <2>4. LiveIn(new) # {}
        BY <1>13
    <2>5. StaticTop <= end
        <3>1. StaticTop \in Nat /\ at \in Nat /\ t.cap \in Nat /\ w \in Nat
            BY <1>1, <1>2, <1>23, Sizes
        <3>2. StaticTop <= at
            BY <1>1
        <3> HIDE DEF at
        <3> QED
            BY <1>3, <1>24, <3>1, <3>2
    <2>7. /\ k.bump = end /\ k.size = cg.size /\ k.view = cg.size /\ k.base = cg.base
        BY <1>10
    <2> HIDE DEF new
    <2> QED
        BY <2>3, <2>4, <2>5, <2>6, <2>7 DEF Arena
<1>16. TablesIntact(k)
    <2>1. SUFFICES ASSUME NEW x \in 0..(StaticTop - 1) PROVE k.mem[x] = Table
        BY DEF TablesIntact
    <2>2. x \in Addresses /\ x < h.bump
        BY <1>1, <2>1, Sizes DEF Addresses
    <2>3. h.mem[x] = Table
        BY <2>1 DEF Sound, TablesIntact
    <2> QED
        BY <1>11, <2>2, <2>3
<1>17. ASSUME NEW j \in live PROVE Lies(k, its[j]) /\ HeldIntact(k, j, its[j])
    <2>1. Lies(h, its[j])
        BY <1>17 DEF Sound
    <2>2. its[j] \in Iterators
        BY <1>1, <1>14, <1>17
    <2>3. Lies(k, its[j])
        <3>1. h.bump <= k.bump /\ k.bump \in Nat
            BY <1>1, <1>2, <1>3, <1>10, <1>24
        <3> QED
            BY <1>1, <2>1, <2>2, <3>1, IteratorTypes DEF Lies
    <2>4. HeldIntact(k, j, its[j])
        BY <1>11, <1>17, IntactCopied
    <2> QED
        BY <2>3, <2>4
<1>18. Lies(k, it) /\ HeldIntact(k, i, it)
    <2>1. Lies(k, it)
        BY <1>1, <1>2, <1>3, <1>5, <1>10, <1>12, <1>23, <1>24 DEF Lies
    <2>2. end <= MaxWords
        BY <1>23, <1>24, Sizes DEF Shaped
    <2>3. ASSUME NEW x \in at..(at + n - 1) PROVE k.mem[x] = Input(i)
        <3>1. x \in Addresses /\ ~(out <= x) /\ at <= x /\ x < at + n
            BY <1>1, <1>2, <1>3, <1>5, <1>24, <2>2, <2>3, Sizes DEF Addresses
        <3> QED
            BY <1>7, <1>8, <1>10, <3>1
    <2>4. /\ k.mem[out] = word
          /\ \A x \in out..(out + w) : k.mem[x] = word
        <3>1. ASSUME NEW x \in out..(out + w) PROVE k.mem[x] = word
            <4>1. x \in Addresses /\ out <= x /\ x < end
                BY <1>3, <1>23, <1>24, <2>2, <3>1, Sizes DEF Addresses
            <4> QED
                BY <1>8, <1>10, <4>1
        <3>2. out \in out..(out + w)
            BY <1>3, <1>23
        <3> QED
            BY <3>1, <3>2
    <2>5. kind = "find" => word = Block(FALSE, 0)
        BY DEF word
    <2>6. kind = "set" => word = Out(i)
        BY DEF word
    <2> QED
        BY <1>12, <2>1, <2>3, <2>4, <2>5, <2>6 DEF HeldIntact
<1>19. ASSUME NEW j \in live PROVE Distinct(its[j], it) /\ Distinct(it, its[j])
    <2>1. Lies(h, its[j])
        BY <1>19 DEF Sound
    <2>2. its[j] \in Iterators
        BY <1>1, <1>14, <1>19
    <2>3. /\ Last(its[j]) < at
          /\ its[j].notes # 0 => its[j].notes + its[j].len < at
        BY <2>1 DEF Lies
    <2> QED
        BY <1>12, <2>3 DEF Distinct, Apart
<1>20. ASSUME NEW j \in LiveIn(new), NEW l \in LiveIn(new), j # l PROVE Distinct(new[j], new[l])
    <2>1. CASE j \in live /\ l \in live
        BY <1>14, <1>20, <2>1 DEF Sound
    <2>2. CASE j = i
        BY <1>13, <1>14, <1>19, <1>20, <2>2
    <2>3. CASE l = i
        BY <1>13, <1>14, <1>19, <1>20, <2>3
    <2> QED
        BY <1>13, <1>20, <2>1, <2>2, <2>3
<1>21. ASSUME NEW j \in LiveIn(new) PROVE Lies(k, new[j]) /\ HeldIntact(k, j, new[j])
    BY <1>13, <1>14, <1>17, <1>18, <1>21
<1>22. Sound(k, new) /\ cleared.size \in Nat
    BY <1>8, <1>10, <1>13, <1>15, <1>16, <1>20, <1>21, <1>23 DEF Sound
<1> QED
    BY <1>22 DEF k, new, it, cleared, end, w, cg, cached, written, n, g

\* A search writes its block and its notes, which nobody else holds.
LEMMA SoundWritten ==
    ASSUME NEW h, NEW its, Sound(h, its), NEW i \in LiveIn(its), its[i].kind = "find",
           NEW x \in Int, NEW v \in Words,
           \/ x = its[i].out /\ v \in {Block(b, its[i].notes) : b \in BOOLEAN}
           \/ /\ its[i].notes # 0 /\ x \in its[i].notes..(its[i].notes + its[i].len)
              /\ v \in {Zero, Note(i)}
    PROVE  Sound(Store(h, x, 1, v), its) /\ Shaped(Store(h, x, 1, v))
<1> DEFINE g == Store(h, x, 1, v)
<1>1. /\ h \in Heaps /\ Shaped(h) /\ its \in [Iters -> Iterators] /\ i \in Iters /\ h.bump \in Nat
      /\ StaticTop <= h.bump
    BY SoundTypes, HeapTypes DEF LiveIn
<1>2. /\ g \in Heaps /\ g.size = h.size /\ g.view = h.view /\ g.bump = h.bump
      /\ g.live = h.live /\ g.base = h.base
      /\ \A y \in Addresses : g.mem[y] = IF x <= y /\ y < x + 1 THEN v ELSE h.mem[y]
    BY <1>1, Stores
<1>3. x \in Addresses /\ x < h.bump /\ its[i].out <= x
    <2>1. its[i].out \in Nat
        BY <1>1, IteratorTypes
    <2> QED
        BY <2>1, HeldBelow
<1>4. g.mem[x] = v /\ \A y \in Addresses : y # x => g.mem[y] = h.mem[y]
    <2>1. \A y \in Addresses : y \in Int
        BY Sizes DEF Addresses
    <2>2. \A y \in Addresses : (x <= y /\ y < x + 1) <=> y = x
        BY <2>1
    <2> QED
        BY <1>2, <1>3, <2>2
<1> HIDE DEF g
<1>5. Arena(g, LiveIn(its))
    BY <1>2 DEF Sound, Arena
<1>6. its[i].at + its[i].len <= its[i].out /\ StaticTop <= its[i].at /\ its[i].at \in Nat /\ its[i].len \in Nat
      /\ its[i].out \in Nat /\ its[i].notes \in Nat
    BY <1>1, IteratorTypes DEF Sound, Lies
<1>7. TablesIntact(g)
    <2>1. SUFFICES ASSUME NEW y \in 0..(StaticTop - 1) PROVE g.mem[y] = Table
        BY DEF TablesIntact
    <2>2. y \in Addresses /\ y # x
        BY <1>1, <1>3, <1>6, <2>1, Sizes DEF Addresses
    <2>3. h.mem[y] = Table
        BY <2>1 DEF Sound, TablesIntact
    <2> QED
        BY <1>4, <2>2, <2>3
<1>8. ASSUME NEW j \in LiveIn(its), j # i PROVE HeldIntact(g, j, its[j])
    <2>1. /\ its[j].at \in Nat /\ its[j].len \in Nat /\ its[j].out \in Nat /\ its[j].notes \in Nat
          /\ its[j].at + its[j].len <= its[j].out /\ Last(its[j]) \in Nat /\ its[j].out <= Last(its[j])
        BY <1>1, IteratorTypes DEF Sound, LiveIn, Lies
    <2>2. Distinct(its[i], its[j])
        BY <1>8 DEF Sound
    <2>3. /\ x < its[j].at \/ Last(its[j]) < x
          /\ its[j].notes # 0 => x < its[j].notes \/ its[j].notes + its[j].len < x
        <3>1. x = its[i].out \/ (its[i].notes # 0 /\ x \in its[i].notes..(its[i].notes + its[i].len))
            OBVIOUS
        <3>2. CASE x = its[i].out
            <4>1. its[i].at <= x /\ x <= Last(its[i]) /\ Last(its[i]) \in Nat
                BY <1>1, <1>6, <3>2, IteratorTypes
            <4> QED
                BY <1>6, <2>1, <2>2, <3>2, <4>1 DEF Distinct, Apart
        <3>3. CASE its[i].notes # 0 /\ x \in its[i].notes..(its[i].notes + its[i].len)
            BY <1>6, <2>1, <2>2, <3>3 DEF Distinct, Apart
        <3> QED
            BY <3>1, <3>2, <3>3
    <2>4. \A y \in its[j].at..(its[j].at + its[j].len - 1) : g.mem[y] = h.mem[y]
        <3> TAKE y \in its[j].at..(its[j].at + its[j].len - 1)
        <3>1. y \in Addresses /\ y # x
            BY <2>1, <2>3, HeldBelow
        <3> QED
            BY <1>4, <3>1
    <2>5. \A y \in its[j].out..Last(its[j]) : g.mem[y] = h.mem[y]
        <3> TAKE y \in its[j].out..Last(its[j])
        <3>1. y \in Addresses /\ y # x
            BY <2>1, <2>3, HeldBelow
        <3> QED
            BY <1>4, <3>1
    <2>8. g.mem[its[j].out] = h.mem[its[j].out]
        <3>1. its[j].out \in its[j].out..Last(its[j])
            BY <2>1
        <3> QED
            BY <2>5, <3>1
    <2>6. its[j].notes # 0 =>
            \A y \in its[j].notes..(its[j].notes + its[j].len) : g.mem[y] = h.mem[y]
        <3> SUFFICES ASSUME its[j].notes # 0, NEW y \in its[j].notes..(its[j].notes + its[j].len)
                     PROVE  g.mem[y] = h.mem[y]
            OBVIOUS
        <3>1. y \in Addresses /\ y # x
            BY <2>1, <2>3, HeldBelow
        <3> QED
            BY <1>4, <3>1
    <2>7. HeldIntact(h, j, its[j])
        BY DEF Sound
    <2> QED
        BY <2>4, <2>5, <2>6, <2>7, <2>8 DEF HeldIntact
<1>9. HeldIntact(g, i, its[i])
    <2>1. HeldIntact(h, i, its[i])
        BY DEF Sound
    <2>2. \A y \in its[i].at..(its[i].at + its[i].len - 1) : g.mem[y] = Input(i)
        <3> TAKE y \in its[i].at..(its[i].at + its[i].len - 1)
        <3>1. y \in Addresses /\ y # x
            BY <1>3, <1>6, HeldBelow
        <3> QED
            BY <1>4, <2>1, <3>1 DEF HeldIntact
    <2>3. g.mem[its[i].out] \in {Block(b, its[i].notes) : b \in BOOLEAN}
        <3>1. CASE x = its[i].out
            <4>1. v \in {Block(b, its[i].notes) : b \in BOOLEAN}
                <5>1. ~(its[i].notes # 0 /\ x \in its[i].notes..(its[i].notes + its[i].len))
                    BY <1>6, <3>1, HeldBelow
                <5> QED
                    BY <5>1
            <4> QED
                BY <1>4, <3>1, <4>1
        <3>2. CASE x # its[i].out
            <4>1. its[i].out \in Addresses
                BY <1>6, HeldBelow
            <4> QED
                BY <1>4, <2>1, <3>2, <4>1 DEF HeldIntact
        <3> QED
            BY <3>1, <3>2
    <2>4. its[i].notes # 0 =>
            \A y \in its[i].notes..(its[i].notes + its[i].len) : g.mem[y] \in {Zero, Note(i)}
        <3> SUFFICES ASSUME its[i].notes # 0, NEW y \in its[i].notes..(its[i].notes + its[i].len)
                     PROVE  g.mem[y] \in {Zero, Note(i)}
            OBVIOUS
        <3>1. y \in Addresses /\ its[i].out < y
            BY <1>6, HeldBelow
        <3>2. h.mem[y] \in {Zero, Note(i)}
            BY <2>1 DEF HeldIntact
        <3>3. CASE y = x
            <4>1. ~(x = its[i].out)
                BY <1>6, <3>1, <3>3
            <4>2. v \in {Zero, Note(i)}
                BY <4>1
            <4> QED
                BY <1>4, <3>3, <4>2
        <3>4. CASE y # x
            BY <1>4, <3>1, <3>2, <3>4
        <3> QED
            BY <3>3, <3>4
    <2> QED
        BY <2>2, <2>3, <2>4 DEF HeldIntact
<1>10. ASSUME NEW j \in LiveIn(its) PROVE Lies(g, its[j]) /\ HeldIntact(g, j, its[j])
    <2>1. Lies(g, its[j])
        BY <1>2 DEF Sound, Lies
    <2> QED
        BY <1>8, <1>9, <2>1
<1>11. Sound(g, its)
    BY <1>2, <1>5, <1>7, <1>10 DEF Sound
<1> QED
    BY <1>11, SoundTypes DEF g

\* What the block of a search says.
LEMMA BlockSays ==
    ASSUME NEW h, NEW its, Sound(h, its), NEW i \in LiveIn(its), its[i].kind = "find"
    PROVE  /\ h.mem[its[i].out][2] \in BOOLEAN /\ h.mem[its[i].out][3] = its[i].notes
           /\ \E a \in BOOLEAN : h.mem[its[i].out] = Block(a, its[i].notes)
<1>1. PICK a \in BOOLEAN : h.mem[its[i].out] = Block(a, its[i].notes)
    BY DEF Sound, HeldIntact
<1>2. h.mem[its[i].out][2] = a /\ h.mem[its[i].out][3] = its[i].notes
    BY <1>1 DEF Block
<1> QED
    BY <1>1, <1>2

\* The notes are carved above everything held.
LEMMA SoundCarved ==
    ASSUME NEW h, NEW its, Sound(h, its), NEW i \in LiveIn(its), its[i].kind = "find",
           its[i].notes = 0, h.bump + Unit <= Half,
           ~Throws(h, NotesTop(h, its[i].len + 1))
    PROVE  LET g == Carve(h, its[i].out, its[i].len + 1) IN
           /\ Sound(g, [its EXCEPT ![i].notes = Align(h.bump)])
           /\ g.view = g.size /\ g.mem[its[i].out] = Block(TRUE, Align(h.bump))
<1> DEFINE at == Align(h.bump)
           blk == its[i].out
           n == its[i].len + 1
           top == at + n
           grown == GrowTo(h, top)
           raised == [grown EXCEPT !.bump = top]
           zeroed == Filled(raised, at, n, Zero)
           g == Store(zeroed, blk, 1, Block(TRUE, at))
           it == [its[i] EXCEPT !.notes = at]
           new == [its EXCEPT ![i].notes = at]
           live == LiveIn(its)
<1>1. /\ h \in Heaps /\ Shaped(h) /\ its \in [Iters -> Iterators] /\ h.size \in Nat /\ h.bump \in Nat
      /\ h.bump <= h.size /\ StaticTop <= h.bump /\ i \in Iters /\ h.live \in Nat
    BY SoundTypes, HeapTypes DEF LiveIn
<1>2. its[i] \in Iterators /\ its[i].len \in Nat /\ blk \in Nat /\ n \in Nat
    BY <1>1, IteratorTypes
<1>3. at \in Nat /\ h.bump <= at
    BY <1>1, AlignsBelowSign, AlignsUp
<1>4. top \in Nat /\ ~Throws(h, top)
    BY <1>2, <1>3 DEF NotesTop
<1>5. Carve(h, blk, n) = g
    BY DEF Carve
<1> HIDE DEF at, n
<1>6. /\ Spares(h, grown, h.bump) /\ Shaped(grown) /\ top <= grown.size /\ grown.mem = h.mem
      /\ grown.view = grown.size /\ top <= grown.base
    <2> HIDE DEF top
    <2> QED
        BY <1>1, <1>4, GrowsTo
<1>7. grown \in Heaps /\ grown.size \in Nat /\ grown.live = h.live
    BY <1>6, HeapTypes DEF Spares
<1> HIDE DEF grown
<1>8. /\ raised \in Heaps /\ raised.bump = top /\ raised.live = h.live /\ raised.size = grown.size
      /\ raised.view = grown.size /\ raised.base = grown.base /\ raised.mem = h.mem
    BY <1>4, <1>6, <1>7 DEF Heaps
<1> HIDE DEF raised
<1>9. Zero \in Words /\ Block(TRUE, at) \in Words
    BY <1>3 DEF Words, Block
<1>10. /\ zeroed \in Heaps /\ zeroed.bump = top /\ zeroed.live = h.live /\ zeroed.size = grown.size
       /\ zeroed.view = grown.size /\ zeroed.base = grown.base
       /\ \A x \in Addresses : zeroed.mem[x] = IF at <= x /\ x < at + n THEN Zero ELSE h.mem[x]
    <2>1. zeroed = Store(raised, at, n, Zero)
        BY <1>8 DEF Filled, Detached
    <2>2. at \in Int /\ n \in Int
        BY <1>2, <1>3
    <2> DEFINE z == Store(raised, at, n, Zero)
    <2>3. /\ z \in Heaps /\ z.size = raised.size /\ z.view = raised.view /\ z.bump = raised.bump
          /\ z.live = raised.live /\ z.base = raised.base
          /\ \A x \in Addresses : z.mem[x] = IF at <= x /\ x < at + n THEN Zero ELSE raised.mem[x]
        BY <1>8, <1>9, <2>2, Stores
    <2> HIDE DEF z, zeroed
    <2>4. zeroed = z
        BY <2>1 DEF z
    <2> QED
        BY <1>8, <2>3, <2>4
<1> HIDE DEF zeroed
<1>11. /\ g \in Heaps /\ g.bump = top /\ g.live = h.live /\ g.size = grown.size
       /\ g.view = grown.size /\ g.base = grown.base
       /\ \A x \in Addresses :
            g.mem[x] = IF blk <= x /\ x < blk + 1 THEN Block(TRUE, at) ELSE zeroed.mem[x]
    <2> DEFINE word == Block(TRUE, at)
    <2>4. word \in Words
        BY <1>9
    <2>5. blk \in Int /\ 1 \in Int
        BY <1>2
    <2>1. word \in Words /\ blk \in Int /\ 1 \in Int /\ zeroed \in Heaps
        BY <1>10, <2>4, <2>5
    <2> HIDE DEF word, blk
    <2>2. LET k == Store(zeroed, blk, 1, word) IN
          /\ k \in Heaps /\ k.size = zeroed.size /\ k.view = zeroed.view /\ k.bump = zeroed.bump
          /\ k.live = zeroed.live /\ k.base = zeroed.base
          /\ \A x \in Addresses : k.mem[x] = IF blk <= x /\ x < blk + 1 THEN word ELSE zeroed.mem[x]
        BY <2>1, Stores
    <2>3. g = Store(zeroed, blk, 1, word)
        BY DEF word
    <2> HIDE DEF g
    <2> QED
        BY <1>10, <2>2, <2>3 DEF word
<1> HIDE DEF g
<1>12. Lies(h, its[i]) /\ HeldIntact(h, i, its[i])
    BY DEF Sound
<1>13. /\ blk < h.bump /\ its[i].at + its[i].len <= blk /\ its[i].at \in Nat /\ StaticTop <= its[i].at
       /\ Last(its[i]) \in Nat /\ blk <= Last(its[i]) /\ Last(its[i]) < h.bump
    <2>1. Last(its[i]) \in Nat /\ blk <= Last(its[i]) /\ its[i].at \in Nat
        BY <1>2, IteratorTypes
    <2>2. its[i].at + its[i].len <= blk /\ StaticTop <= its[i].at /\ Last(its[i]) < h.bump
        BY <1>12 DEF Lies
    <2> QED
        BY <1>1, <1>2, <2>1, <2>2
<1>14. \A x \in Addresses : x < h.bump /\ x # blk => g.mem[x] = h.mem[x]
    <2> TAKE x \in Addresses
    <2>1. x \in Int
        BY Sizes DEF Addresses
    <2>2. x < h.bump => ~(at <= x)
        BY <1>1, <1>3, <2>1
    <2>3. x # blk => ~(blk <= x /\ x < blk + 1)
        BY <1>2, <2>1
    <2> QED
        BY <1>10, <1>11, <2>2, <2>3
<1>15. /\ it \in Iterators /\ it.status = its[i].status /\ it.kind = "find" /\ it.text = its[i].text
       /\ it.at = its[i].at /\ it.len = its[i].len /\ it.out = blk /\ it.notes = at
       /\ it.cache = its[i].cache /\ Last(it) = Last(its[i])
    BY <1>2, <1>3 DEF Iterators, Last
<1>16. new[i] = it /\ \A j \in Iters : j # i => new[j] = its[j]
    BY <1>1
<1>17. new \in [Iters -> Iterators]
    BY <1>1, <1>15, <1>16
<1> HIDE DEF it, new
<1>18. LiveIn(new) = live
    BY <1>1, <1>15, <1>16 DEF LiveIn
<1>19. Arena(g, LiveIn(new))
    <2>1. grown.size <= MaxWords /\ grown.view <= grown.size /\ grown.base <= grown.size
        BY <1>6 DEF Shaped
    <2>2. IsFiniteSet(live) /\ h.live = Cardinality(live) /\ live # {}
        BY DEF Sound, Arena
    <2>3. StaticTop <= top
        BY <1>1, <1>2, <1>3, Sizes
    <2> HIDE DEF live, top
    <2> QED
        BY <1>6, <1>11, <1>18, <2>1, <2>2, <2>3 DEF Arena
<1>20. TablesIntact(g)
    <2>1. SUFFICES ASSUME NEW x \in 0..(StaticTop - 1) PROVE g.mem[x] = Table
        BY DEF TablesIntact
    <2>2. x \in Addresses /\ x < h.bump /\ x # blk
        BY <1>1, <1>2, <1>13, <2>1, Sizes DEF Addresses
    <2>3. h.mem[x] = Table
        BY <2>1 DEF Sound, TablesIntact
    <2> QED
        BY <1>14, <2>2, <2>3
<1>21. g.mem[blk] = Block(TRUE, at)
    <2>1. blk \in Addresses
        BY <1>2, HeldBelow
    <2>2. blk <= blk /\ blk < blk + 1
        BY <1>2
    <2> QED
        BY <1>11, <2>1, <2>2
<1>22. ASSUME NEW j \in live, j # i PROVE Lies(g, its[j]) /\ HeldIntact(g, j, its[j])
    <2>1. /\ its[j].at \in Nat /\ its[j].len \in Nat /\ its[j].out \in Nat /\ its[j].notes \in Nat
          /\ its[j] \in Iterators /\ Lies(h, its[j]) /\ HeldIntact(h, j, its[j])
          /\ its[j].at + its[j].len <= its[j].out /\ Last(its[j]) \in Nat /\ its[j].out <= Last(its[j])
        BY <1>1, IteratorTypes DEF Sound, LiveIn, Lies
    <2>2. Lies(g, its[j])
        BY <1>1, <1>2, <1>3, <1>11, <2>1 DEF Lies
    <2>3. Distinct(its[i], its[j])
        BY <1>22 DEF Sound
    <2>4. /\ blk < its[j].at \/ Last(its[j]) < blk
          /\ its[j].notes # 0 => blk < its[j].notes \/ its[j].notes + its[j].len < blk
        BY <1>2, <1>13, <2>1, <2>3 DEF Distinct, Apart
    <2>5. \A x \in its[j].at..(its[j].at + its[j].len - 1) : g.mem[x] = h.mem[x]
        <3> TAKE x \in its[j].at..(its[j].at + its[j].len - 1)
        <3>1. x \in Addresses /\ x < h.bump
            BY <2>1, HeldBelow
        <3>2. x # blk
            BY <1>2, <2>1, <2>4
        <3> QED
            BY <1>14, <3>1, <3>2
    <2>6. \A x \in its[j].out..Last(its[j]) : g.mem[x] = h.mem[x]
        <3> TAKE x \in its[j].out..Last(its[j])
        <3>1. x \in Addresses /\ x < h.bump
            BY <2>1, HeldBelow
        <3>2. x # blk
            BY <1>2, <2>1, <2>4
        <3> QED
            BY <1>14, <3>1, <3>2
    <2>9. g.mem[its[j].out] = h.mem[its[j].out]
        <3>1. its[j].out \in its[j].out..Last(its[j])
            BY <2>1
        <3> QED
            BY <2>6, <3>1
    <2>7. its[j].notes # 0 =>
            \A x \in its[j].notes..(its[j].notes + its[j].len) : g.mem[x] = h.mem[x]
        <3> SUFFICES ASSUME its[j].notes # 0, NEW x \in its[j].notes..(its[j].notes + its[j].len)
                     PROVE  g.mem[x] = h.mem[x]
            OBVIOUS
        <3>1. x \in Addresses /\ x < h.bump
            BY <2>1, HeldBelow
        <3>2. x # blk
            BY <1>2, <2>1, <2>4
        <3> QED
            BY <1>14, <3>1, <3>2
    <2>8. HeldIntact(g, j, its[j])
        BY <2>1, <2>5, <2>6, <2>7, <2>9 DEF HeldIntact
    <2> QED
        BY <2>2, <2>8
<1>23. Lies(g, it) /\ HeldIntact(g, i, it)
    <2>1. Lies(g, it)
        <3>1. it.notes + it.len < g.bump /\ it.out < it.notes /\ Last(it) < g.bump
            BY <1>1, <1>2, <1>3, <1>11, <1>13, <1>15 DEF n
        <3> QED
            BY <1>12, <1>15, <3>1 DEF Lies
    <2>2. \A x \in it.at..(it.at + it.len - 1) : g.mem[x] = Input(i)
        <3> TAKE x \in it.at..(it.at + it.len - 1)
        <3>1. x \in Addresses /\ x < h.bump /\ x # blk
            BY <1>2, <1>13, <1>15, HeldBelow
        <3> QED
            BY <1>12, <1>14, <1>15, <3>1 DEF HeldIntact
    <2>3. g.mem[it.out] \in {Block(a, it.notes) : a \in BOOLEAN}
        BY <1>15, <1>21
    <2>4. \A x \in it.notes..(it.notes + it.len) : g.mem[x] \in {Zero, Note(i)}
        <3> TAKE x \in it.notes..(it.notes + it.len)
        <3>1. x \in Int /\ at <= x /\ x < at + n
            BY <1>2, <1>3, <1>15 DEF n
        <3>2. grown.size <= MaxWords
            BY <1>6 DEF Shaped
        <3>3. x \in Addresses
            BY <1>2, <1>3, <1>6, <1>7, <3>1, <3>2, Sizes DEF Addresses
        <3>4. ~(blk <= x /\ x < blk + 1)
            BY <1>1, <1>2, <1>3, <1>13, <3>1
        <3> QED
            BY <1>10, <1>11, <3>1, <3>3, <3>4
    <2> QED
        BY <1>15, <2>1, <2>2, <2>3, <2>4 DEF HeldIntact
<1>24. ASSUME NEW j \in live, j # i PROVE Distinct(its[j], it) /\ Distinct(it, its[j])
    <2>1. Distinct(its[j], its[i]) /\ Distinct(its[i], its[j]) /\ Lies(h, its[j])
        BY <1>24 DEF Sound
    <2>2. its[j] \in Iterators
        BY <1>1 DEF LiveIn
    <2>3. /\ its[j].out < at /\ Last(its[j]) < at
          /\ its[j].notes # 0 => its[j].notes + its[j].len < at
        BY <1>1, <1>3, <2>1, <2>2, IteratorTypes DEF Lies
    <2> QED
        BY <1>15, <2>1, <2>3 DEF Distinct, Apart
<1>25. ASSUME NEW j \in live, NEW l \in live, j # l PROVE Distinct(new[j], new[l])
    <2>1. j \in Iters /\ l \in Iters
        BY DEF LiveIn
    <2>2. CASE j # i /\ l # i
        BY <1>16, <1>25, <2>1, <2>2 DEF Sound
    <2>3. CASE j = i
        BY <1>16, <1>24, <1>25, <2>1, <2>3
    <2>4. CASE l = i
        BY <1>16, <1>24, <1>25, <2>1, <2>4
    <2> QED
        BY <2>2, <2>3, <2>4
<1>26. ASSUME NEW j \in live PROVE Lies(g, new[j]) /\ HeldIntact(g, j, new[j])
    <2>1. j \in Iters
        BY DEF LiveIn
    <2> QED
        BY <1>16, <1>22, <1>23, <1>26, <2>1
<1>27. Sound(g, new)
    BY <1>11, <1>17, <1>18, <1>19, <1>20, <1>25, <1>26 DEF Sound
<1>28. g.view = g.size
    BY <1>11
<1>29. /\ Sound(Carve(h, its[i].out, its[i].len + 1), new)
       /\ Carve(h, its[i].out, its[i].len + 1).view = Carve(h, its[i].out, its[i].len + 1).size
       /\ Carve(h, its[i].out, its[i].len + 1).mem[its[i].out] = Block(TRUE, at)
    BY <1>5, <1>21, <1>27, <1>28 DEF n
<1> QED
    BY <1>29 DEF new, at
-----------------------------------------------------------------------------
(* The stub's steps, one by one. *)

\* The live iterators, of the state and of a function.
LEMMA LiveIsLiveIn == Live = LiveIn(iter)
    BY DEF Live, LiveIn

\* What a live iterator's call area begins with is its own.
LEMMA OwnRead ==
    ASSUME NEW h, NEW its, Sound(h, its), NEW i \in LiveIn(its)
    PROVE  h.mem[its[i].out] \in Owned(i, its[i]) /\ h.mem[its[i].out] \in Words
<1>1. /\ its[i] \in Iterators /\ HeldIntact(h, i, its[i]) /\ h.mem \in [Addresses -> Words]
      /\ its[i].out \in Addresses
    BY HeldBelow, HeapTypes, 0 \in Int DEF Sound, LiveIn
<1>2. CASE its[i].kind = "set"
    <2>1. its[i].out \in its[i].out..Last(its[i])
        BY <1>1, IteratorTypes
    <2> QED
        BY <1>1, <1>2, <2>1 DEF HeldIntact, Owned
<1>3. CASE its[i].kind # "set"
    BY <1>1, <1>3, IteratorTypes DEF HeldIntact, Owned
<1> QED
    BY <1>1, <1>2, <1>3

\* One iterator moves on, and its view with it.
LEMMA ReadsMoved ==
    ASSUME NEW its, NEW rd, Reads(its, rd), NEW i \in Iters, NEW new,
           \A j \in Iters : j # i => new[j] = its[j],
           NEW r \in Readers, i \in LiveIn(new) => r.got \in Owned(i, new[i])
    PROVE  Reads(new, [rd EXCEPT ![i] = r])
<1> DEFINE rd2 == [rd EXCEPT ![i] = r]
<1>1. rd \in [Iters -> Readers]
    BY DEF Reads
<1>2. rd2 \in [Iters -> Readers] /\ rd2[i] = r /\ \A j \in Iters : j # i => rd2[j] = rd[j]
    BY <1>1
<1> HIDE DEF rd2
<1>3. ASSUME NEW j \in LiveIn(new) PROVE rd2[j].got \in Owned(j, new[j])
    <2>1. j \in Iters
        BY DEF LiveIn
    <2>2. CASE j = i
        BY <1>2, <2>2
    <2>3. CASE j # i
        BY <1>2, <2>1, <2>3 DEF Reads, LiveIn
    <2> QED
        BY <2>2, <2>3
<1> QED
    BY <1>2, <1>3 DEF Reads, rd2

\* An iterator that ends has read nothing.
LEMMA ReadsEnded ==
    ASSUME NEW its, NEW rd, Reads(its, rd), NEW i \in Iters, its \in [Iters -> Iterators]
    PROVE  Reads([its EXCEPT ![i] = Idle], [rd EXCEPT ![i] = Unread])
<1> DEFINE new == [its EXCEPT ![i] = Idle]
<1>1. \A j \in Iters : j # i => new[j] = its[j]
    OBVIOUS
<1>2. Unread \in Readers
    BY DEF Unread, Readers, Words
<1>3. i \notin LiveIn(new)
    BY DEF LiveIn, Idle
<1> QED
    BY <1>1, <1>2, <1>3, ReadsMoved

\* Through its view, attached again, an iterator reads its own results.
LEMMA TupleIs ==
    ASSUME NEW h, Sound(h, iter), NEW i \in LiveIn(iter), NEW left \in Int
    PROVE  /\ Tuple(i, h, left) \in Readers
           /\ Tuple(i, h, left).got \in Owned(i, iter[i])
<1>1. Tuple(i, h, left) = [view |-> h.size, left |-> left, got |-> h.mem[iter[i].out]]
    BY Attached DEF Tuple
<1>2. h.size \in Nat
    BY SoundTypes, HeapTypes
<1> QED
    BY <1>1, <1>2, OwnRead DEF Readers

\* Between the set's calls, whatever leaves what is held alone keeps the invariant.
LEMMA StubKeeps ==
    ASSUME Inv, call = NoCall,
           scratch' = scratch, call' = call, said' = said, spent' = spent,
           Sound(heap', iter'), search' \in Nat, Reads(iter', reader')
    PROVE  Inv'
<1>1. call' = NoCall
    OBVIOUS
<1>2. TypeInv'
    BY DEF Inv, TypeInv, Sound
<1>3. EpochsBefore(scratch)'
    BY DEF Inv
<1>4. SaidTrue' /\ FillsBounded'
    BY DEF Inv, SaidTrue, FillsBounded
<1>5. Sound(heap, iter)' /\ Reads(iter, reader)'
    OBVIOUS
<1> QED
    BY <1>1, <1>2, <1>3, <1>4, <1>5 DEF Inv

\* A call outside a set takes its scratch above everything held.
LEMMA FreeAbove ==
    ASSUME NEW h, NEW its, Sound(h, its)
    PROVE  FreeBase(h) \in Nat /\ h.bump <= FreeBase(h)
<1>1. h.base \in Nat /\ h.size \in Nat /\ h.bump \in Nat /\ h.bump <= h.size
    BY SoundTypes, HeapTypes
<1>2. h.bump <= h.base \/ h.bump = StaticTop
    BY DEF Sound, Arena
<1> QED
    BY <1>1, <1>2, Sizes DEF FreeBase, Larger

\* What the module leaves is a word.
LEMMA JunkWord == Junk \in Words
    BY DEF Words

\* The scratch of a call outside a set spares everything held.
LEMMA CallScratch ==
    ASSUME NEW h, NEW its, Sound(h, its), NEW use \in Nat,
           CanHold(h, FreeBase(h) + use)
    PROVE  LET g == Store(Hold(h, FreeBase(h) + use), FreeBase(h), use, Junk)
           IN  Sound(g, its) /\ Spares(h, g, h.bump) /\ Shaped(g)
<1> DEFINE from == FreeBase(h)
           k == Hold(h, from + use)
           g == Store(k, from, use, Junk)
<1>1. from \in Nat /\ h.bump \in Nat /\ h.bump <= from /\ Shaped(h)
    BY FreeAbove, SoundTypes, HeapTypes
<1>2. from + use \in Nat /\ h.bump \in Int
    BY <1>1
<1> HIDE DEF from
<1>3. CanHold(h, from + use)
    BY DEF from
<1>4. Spares(h, k, h.bump) /\ Shaped(k)
    BY <1>1, <1>2, <1>3, Holds
<1> HIDE DEF k
<1>5. Spares(k, g, h.bump)
    <2>1. from \in Int /\ use \in Int
        BY <1>1
    <2> QED
        BY <1>1, <1>2, <1>4, <2>1, JunkWord, StoreSpares
<1>6. Spares(h, g, h.bump)
    BY <1>1, <1>2, <1>4, <1>5, SparesChain
<1> HIDE DEF g
<1>7. Sound(g, its) /\ Shaped(g)
    BY <1>1, <1>2, <1>6, SoundSpared, SparesFits
<1> QED
    BY <1>6, <1>7 DEF g, k, from

\* An iterator opened gets a region of its own, or nothing is reserved.
LEMMA OpenStep ==
    ASSUME Inv, ArenaBelowSign, call = NoCall, NEW i \in Iters, NEW o \in Openings,
           NEW cache \in Caches, Open(i, o[1], o[2], cache)
    PROVE  Inv'
<1> DEFINE t == o[2]
           out == Align(heap.bump + InCap(t))
<1>1. o = <<o[1], t>> /\ t \in Texts /\ cache \in Nat
    BY Sizes
<1>2. <<o[1], t>> \in Openings
    BY <1>1
<1>3. /\ Sound(heap, iter) /\ Shaped(heap) /\ Reads(iter, reader) /\ search \in Nat
      /\ iter \in [Iters -> Iterators]
    BY SoundTypes DEF Inv, TypeInv
<1>4. heap.bump + InCap(t) + Unit <= Half
    BY <1>1 DEF ArenaBelowSign
<1>5. /\ UNCHANGED <<search, scratch, call, said, spent>> /\ iter[i].status = "idle"
      /\ o[1] = "find" => cache = 0
    BY DEF Open
<1>6. CASE Throws(heap, out + 1)
    <2>1. heap' = heap /\ iter' = iter /\ reader' = reader
        BY <1>6 DEF Open, Reserved
    <2> QED
        BY <1>3, <1>5, <2>1, StubKeeps
<1>7. CASE ~Throws(heap, out + 1)
    <2> DEFINE kind == o[1]
               n == Written(GrowTo(heap, out + 1), t, heap.bump)
               written == Store(GrowTo(heap, out + 1), heap.bump, n, Input(i))
               cached == Cached(written, out + 1, cache)
               cleared == IF kind = "find" THEN Filled(cached.heap, out, 1, Block(FALSE, 0))
                          ELSE Store(cached.heap, out, 1 + cached.words, Out(i))
               it == [Idle EXCEPT !.status = "live", !.kind = kind, !.text = t,
                                  !.at = heap.bump, !.len = n, !.out = out,
                                  !.cache = cached.words]
               view == cleared.size
    <2>1. /\ heap' = Reserved(cleared, out + 1 + cached.words)
          /\ iter' = [iter EXCEPT ![i] = it]
          /\ reader' = [reader EXCEPT ![i] = [Unread EXCEPT !.view = view]]
        BY <1>7 DEF Open
    <2>2. /\ Sound(Reserved(cleared, out + 1 + cached.words), [iter EXCEPT ![i] = it])
          /\ view \in Nat
        <3>1. /\ Sound(heap, iter) /\ iter[i].status = "idle" /\ <<kind, t>> \in Openings
              /\ heap.bump + InCap(t) + Unit <= Half /\ out = Align(heap.bump + InCap(t))
              /\ ~Throws(heap, out + 1) /\ cache \in Nat /\ (kind = "find" => cache = 0)
            BY <1>1, <1>2, <1>3, <1>4, <1>5, <1>7
        <3> HIDE DEF kind, t, out
        <3>2. LET at == heap.bump
                  m == Written(GrowTo(heap, out + 1), t, at)
                  staged == Store(GrowTo(heap, out + 1), at, m, Input(i))
                  more == Cached(staged, out + 1, cache)
                  clear == IF kind = "find" THEN Filled(more.heap, out, 1, Block(FALSE, 0))
                           ELSE Store(more.heap, out, 1 + more.words, Out(i))
              IN  /\ Sound(Reserved(clear, out + 1 + more.words),
                           [iter EXCEPT ![i] = [Idle EXCEPT !.status = "live", !.kind = kind, !.text = t,
                                                            !.at = at, !.len = m, !.out = out,
                                                            !.cache = more.words]])
                  /\ clear.size \in Nat
            BY ZenonT(120), <3>1, SoundOpened
        <3> QED
            BY <3>2
    <2> HIDE DEF it, cleared, cached, view
    <2>3. Reads(iter', reader')
        <3> DEFINE r == [Unread EXCEPT !.view = view]
        <3>1. r \in Readers /\ r.got = Zero
            BY <2>2 DEF Unread, Readers, Words
        <3>2. \A j \in Iters : j # i => iter'[j] = iter[j]
            BY <2>1
        <3>3. r.got \in Owned(i, iter'[i])
            BY <3>1 DEF Owned
        <3> HIDE DEF r
        <3>4. reader' = [reader EXCEPT ![i] = r]
            BY <2>1 DEF r
        <3> QED
            BY <1>3, <3>1, <3>2, <3>3, <3>4, ReadsMoved
    <2> QED
        BY <1>3, <1>5, <2>1, <2>2, <2>3, StubKeeps
<1> QED
    BY <1>6, <1>7

\* A close frees one region, and the last one the arena.
LEMMA CloseStep ==
    ASSUME Inv, call = NoCall, NEW i \in Iters, Close(i)
    PROVE  Inv'
<1>1. /\ Sound(heap, iter) /\ i \in LiveIn(iter) /\ Reads(iter, reader) /\ search \in Nat
      /\ iter \in [Iters -> Iterators]
    BY LiveIsLiveIn DEF Inv, Close, TypeInv
<1>2. Sound(heap', iter') /\ Reads(iter', reader')
    BY <1>1, SoundEnded, ReadsEnded DEF Close, End
<1>3. UNCHANGED <<search, scratch, call, said, spent>>
    BY DEF Close
<1> QED
    BY <1>1, <1>2, <1>3, StubKeeps

\* A find's last call.
LEMMA FindEndsStep ==
    ASSUME Inv, call = NoCall, NEW i \in Iters, NEW use \in Uses, FindEnds(i, use)
    PROVE  Inv'
<1>1. /\ Sound(heap, iter) /\ i \in LiveIn(iter) /\ Reads(iter, reader) /\ search \in Nat
      /\ use \in Nat /\ iter[i].out \in Nat /\ iter \in [Iters -> Iterators]
    BY LiveIsLiveIn, SoundTypes, IteratorTypes, Sizes DEF Inv, FindEnds, TypeInv
<1>2. search' \in Nat
    BY <1>1 DEF FindEnds, Named
<1>3. Sound(heap', iter')
    <2> DEFINE from == FreeBase(heap)
               h == Store(Hold(heap, from + use), from, use, Junk)
    <2>1. CASE End(i, heap)
        BY <1>1, <2>1, SoundEnded DEF End
    <2>2. CASE CanHold(heap, from + use) /\ End(i, h)
        <3>1. Sound(h, iter)
            BY <1>1, <2>2, CallScratch
        <3> QED
            BY <1>1, <2>2, <3>1, SoundEnded DEF End
    <2> QED
        BY <2>1, <2>2 DEF FindEnds
<1>4. UNCHANGED <<scratch, call, said, spent>> /\ Reads(iter', reader')
    BY <1>1, ReadsEnded DEF FindEnds, End
<1> QED
    BY <1>1, <1>2, <1>3, <1>4, StubKeeps

\* A one-shot call stages above everything held.
LEMMA OneShotStep ==
    ASSUME Inv, ArenaBelowSign, call = NoCall, NEW t \in Texts, NEW use \in Uses, OneShot(t, use)
    PROVE  Inv'
<1> DEFINE top == Align(heap.bump + InCap(t)) + Page
           h == GrowTo(heap, top)
           staged == Store(h, heap.bump, top - heap.bump, Junk)
           from == FreeBase(staged)
           b == heap.bump
<1>1. /\ Sound(heap, iter) /\ Shaped(heap) /\ Reads(iter, reader) /\ search \in Nat
      /\ use \in Nat /\ b \in Nat
    BY SoundTypes, HeapTypes, Sizes DEF Inv, TypeInv
<1>2. UNCHANGED <<iter, search, reader, scratch, call, said, spent>>
    BY DEF OneShot
<1>3. CASE Throws(heap, top)
    <2>1. heap' = heap
        BY <1>3 DEF OneShot
    <2> QED
        BY <1>1, <1>2, <2>1, StubKeeps
<1>4. CASE ~Throws(heap, top)
    <2>1. top \in Nat
        <3>1. b + t.cap \in Nat /\ (b + t.cap) + Unit <= Half
            BY <1>1, TextSizes, Sizes DEF ArenaBelowSign, InCap
        <3>2. top = AlignUp(b + t.cap) + Page
            BY <3>1, AlignsBelowSign DEF InCap
        <3> QED
            BY <3>1, <3>2, AlignsUp, Sizes
    <2> HIDE DEF top
    <2>2. Spares(heap, h, b) /\ Shaped(h) /\ h.view = h.size
        BY <1>1, <1>4, <2>1, GrowsTo
    <2> HIDE DEF h
    <2>3. Spares(h, staged, b) /\ Shaped(staged)
        <3>1. b \in Int /\ top - b \in Int /\ b <= b
            BY <1>1, <2>1
        <3> HIDE DEF b
        <3> QED
            BY <2>2, <3>1, JunkWord, StoreSpares DEF b
    <2>4. Spares(heap, staged, b)
        BY <1>1, <2>2, <2>3, SparesChain
    <2> HIDE DEF staged
    <2>5. Sound(staged, iter)
        BY <1>1, <2>4, SoundSpared
    <2>6. CanHold(staged, from + use) =>
            Sound(Store(Hold(staged, from + use), from, use, Junk), iter)
        BY <1>1, <2>5, CallScratch
    <2>7. heap' = IF CanHold(staged, from + use)
                  THEN Store(Hold(staged, from + use), from, use, Junk)
                  ELSE staged
        BY <1>4 DEF OneShot, staged, h, top
    <2>8. Sound(heap', iter')
        BY <1>2, <2>5, <2>6, <2>7
    <2> QED
        BY <1>1, <1>2, <2>8, StubKeeps
<1> QED
    BY <1>3, <1>4

\* What the module leaves in the block and the notes of the search it was handed.
LEMMA SoundNoted ==
    ASSUME NEW h, Sound(h, iter), NEW i \in LiveIn(iter), iter[i].kind = "find",
           NEW arms \in BOOLEAN, iter[i].pos <= iter[i].len
    PROVE  /\ Sound(Noted(i, h, iter[i].out, arms), iter)
           /\ Noted(i, h, iter[i].out, arms).bump = h.bump
<1> DEFINE blk == iter[i].out
           n == iter[i].notes
<1>1. /\ h \in Heaps /\ i \in Iters /\ blk \in Nat /\ n \in Nat /\ iter[i].pos \in Nat
      /\ iter[i].len \in Nat
    BY SoundTypes, IteratorTypes DEF LiveIn
<1>2. h.mem[blk][2] \in BOOLEAN /\ h.mem[blk][3] = n
    BY BlockSays
<1>3. CASE n = 0
    <2> DEFINE word == Block(h.mem[blk][2] \/ arms, 0)
    <2>1. Noted(i, h, blk, arms) = Store(h, blk, 1, word)
        BY <1>2, <1>3 DEF Noted
    <2>2. (h.mem[blk][2] \/ arms) \in BOOLEAN
        OBVIOUS
    <2>3. word \in Words /\ word \in {Block(b, n) : b \in BOOLEAN}
        BY <1>3, <2>2 DEF Words, Block
    <2> HIDE DEF word
    <2>4. Sound(Store(h, blk, 1, word), iter)
        <3>1. blk \in Int
            BY <1>1
        <3> QED
            BY <2>3, <3>1, SoundWritten
    <2>5. Store(h, blk, 1, word).bump = h.bump
        <3>1. blk \in Int /\ 1 \in Int
            BY <1>1
        <3> HIDE DEF blk
        <3> QED
            BY <1>1, <2>3, <3>1, Stores
    <2> QED
        BY <2>1, <2>4, <2>5
<1>4. CASE n # 0
    <2> DEFINE x == n + iter[i].pos
    <2>1. Noted(i, h, blk, arms) = Store(h, x, 1, Note(i))
        BY <1>2, <1>4 DEF Noted
    <2>2. Note(i) \in Words
        BY <1>1 DEF Words, Note
    <2>3. x \in Int /\ x \in n..(n + iter[i].len) /\ 1 \in Int
        BY <1>1
    <2> HIDE DEF x
    <2>4. Sound(Store(h, x, 1, Note(i)), iter)
        BY <1>4, <2>2, <2>3, SoundWritten
    <2>5. Store(h, x, 1, Note(i)).bump = h.bump
        BY <1>1, <2>2, <2>3, Stores
    <2> QED
        BY <2>1, <2>4, <2>5
<1> QED
    BY <1>3, <1>4

\* A find that matches, and the notes the stub carves after it.
LEMMA FindMatchesStep ==
    ASSUME Inv, ArenaBelowSign, call = NoCall, NEW i \in Iters, NEW arms \in BOOLEAN,
           NEW use \in Uses, FindMatches(i, arms, use)
    PROVE  Inv'
<1> DEFINE from == FreeBase(heap)
           held == Store(Hold(heap, from + use), from, use, Junk)
           called == Noted(i, held, Named(i), arms)
           after == After(i, called)
           blk == iter[i].out
           n == iter[i].len + 1
           p == iter[i].pos + 1
<1>1. /\ Sound(heap, iter) /\ i \in LiveIn(iter) /\ Reads(iter, reader) /\ search \in Nat
      /\ use \in Nat /\ iter \in [Iters -> Iterators] /\ heap.bump \in Int
    BY LiveIsLiveIn, SoundTypes, HeapTypes, Sizes DEF Inv, FindMatches, TypeInv
<1>2. /\ iter[i].out \in Nat /\ iter[i].pos \in Nat /\ iter[i].notes \in Nat /\ iter[i].text \in Texts
      /\ p \in Nat
    BY <1>1, IteratorTypes DEF Sound, Lies
<1>3. /\ iter[i].kind = "find" /\ iter[i].pos <= iter[i].len /\ CanHold(heap, from + use)
      /\ search' = blk
      /\ heap' = after.heap
      /\ reader' = [reader EXCEPT ![i] = Slots(i, called, after.heap)]
      /\ iter' = [iter EXCEPT ![i].pos = p, ![i].fail = after.fail,
                              ![i].notes = after.heap.mem[blk][3]]
      /\ scratch' = scratch /\ call' = call /\ said' = said /\ spent' = spent
    BY <1>1 DEF FindMatches, Named, Iterators
<1>4. Sound(held, iter) /\ held.bump = heap.bump
    BY <1>1, <1>3, CallScratch DEF Spares
<1> HIDE DEF held
<1>5. Sound(called, iter) /\ called.bump = heap.bump
    BY <1>1, <1>3, <1>4, SoundNoted DEF Named
<1> HIDE DEF called
<1>6. /\ called.mem[blk][3] = iter[i].notes
      /\ NotesWanted(called, blk) <=> called.mem[blk][2] /\ iter[i].notes = 0
    BY <1>1, <1>3, <1>5, BlockSays DEF NotesWanted
\* The slots are read through a view of the memory as it then is.
<1>9. ASSUME Sound(heap', iter'), i \in LiveIn(iter'), iter'[i].out = blk
      PROVE  Reads(iter', reader') /\ search' \in Nat
    <2> DEFINE r == Slots(i, called, after.heap)
               g == after.heap
    <2>1. reader[i] \in Readers
        BY <1>1 DEF Reads
    <2>2. g.size \in Nat /\ g.mem[blk] \in Owned(i, iter'[i]) /\ g.mem[blk] \in Words
        BY <1>3, <1>9, OwnRead, SoundTypes, HeapTypes
    <2>3. r = [reader[i] EXCEPT !.view = g.size, !.got = g.mem[blk]]
        <3> HIDE DEF g, blk
        <3> QED
            BY Attached DEF Slots, g, blk
    <2> HIDE DEF r, g
    <2>4. r \in Readers /\ r.got \in Owned(i, iter'[i])
        BY <2>1, <2>2, <2>3 DEF Readers
    <2>5. \A j \in Iters : j # i => iter'[j] = iter[j]
        <3> HIDE DEF after, p
        <3> QED
            BY <1>1, <1>3
    <2>6. reader' = [reader EXCEPT ![i] = r]
        BY <1>3 DEF r
    <2>7. Reads(iter', [reader EXCEPT ![i] = r])
        <3> HIDE DEF blk
        <3> QED
            BY <1>1, <2>4, <2>5, ReadsMoved
    <2> QED
        BY <1>2, <1>3, <2>6, <2>7
<1>7. CASE after.heap = called /\ after.fail \in BOOLEAN
    <2> DEFINE f == after.fail
    <2>1. iter' = [iter EXCEPT ![i].pos = p, ![i].fail = f, ![i].notes = iter[i].notes]
        BY <1>3, <1>6, <1>7
    <2>2. f \in BOOLEAN
        BY <1>7
    <2> HIDE DEF f, p
    <2>3. Sound(called, [iter EXCEPT ![i].pos = p, ![i].fail = f, ![i].notes = iter[i].notes])
        BY <1>2, <1>5, <2>2, SoundMoved
    <2>4. Sound(heap', iter')
        BY <1>3, <1>7, <2>1, <2>3
    <2>5. i \in LiveIn(iter') /\ iter'[i].out = blk
        BY <1>1, <2>1 DEF LiveIn, Iterators
    <2> QED
        BY <1>1, <1>3, <1>9, <2>4, <2>5, StubKeeps
<1>8. CASE ~(after.heap = called /\ after.fail \in BOOLEAN)
    <2>1. /\ NotesWanted(called, blk) /\ ~Throws(called, NotesTop(called, n))
          /\ after = [heap |-> Carve(called, blk, n), fail |-> FALSE]
        BY <1>8 DEF After
    <2> DEFINE g == Carve(called, blk, n)
               at == Align(called.bump)
               its == [iter EXCEPT ![i].notes = at]
    <2>2. iter[i].notes = 0 /\ called.bump + Unit <= Half
        <3>1. heap.bump + InCap(iter[i].text) + Unit <= Half
            BY <1>2 DEF ArenaBelowSign
        <3>2. iter[i].text.cap \in Nat
            BY <1>2, TextSizes
        <3> QED
            BY <1>1, <1>5, <1>6, <2>1, <3>1, <3>2, Sizes DEF InCap
    <2>3. Sound(g, its) /\ g.view = g.size /\ g.mem[blk] = Block(TRUE, at)
        <3>1. ~Throws(called, NotesTop(called, iter[i].len + 1))
            BY <2>1
        <3>2. LET k == Carve(called, iter[i].out, iter[i].len + 1) IN
              /\ Sound(k, [iter EXCEPT ![i].notes = Align(called.bump)])
              /\ k.view = k.size /\ k.mem[iter[i].out] = Block(TRUE, Align(called.bump))
            BY <1>1, <1>3, <1>5, <2>2, <3>1, SoundCarved
        <3> QED
            BY <3>2
    <2>12. after.heap = g /\ after.fail = FALSE
        BY <2>1
    <2> HIDE DEF after
    <2>4. g.mem[blk][3] = at
        BY <2>3 DEF Block
    <2>5. at \in Nat
        <3>1. called.bump \in Nat
            BY <1>5, SoundTypes, HeapTypes
        <3> QED
            BY <2>2, <3>1, AlignsBelowSign, AlignsUp
    <2> HIDE DEF g, at
    <2>6. iter' = [iter EXCEPT ![i].pos = p, ![i].fail = FALSE, ![i].notes = at]
        BY <1>3, <2>4, <2>12
    <2>7. its[i].notes = at
        BY <1>1, <2>5 DEF Iterators
    <2>8. [its EXCEPT ![i].pos = p, ![i].fail = FALSE, ![i].notes = at] = iter'
        BY <1>1, <2>6 DEF Iterators
    <2> HIDE DEF its, p
    <2>9. Sound(g, [its EXCEPT ![i].pos = p, ![i].fail = FALSE, ![i].notes = at])
        BY <1>2, <2>3, <2>5, <2>7, SoundMoved
    <2>10. Sound(heap', iter')
        BY <1>3, <2>8, <2>9, <2>12
    <2>11. i \in LiveIn(iter') /\ iter'[i].out = blk
        BY <1>1, <2>6 DEF LiveIn, Iterators
    <2> QED
        BY <1>2, <1>3, <1>9, <2>10, <2>11, StubKeeps
<1> QED
    BY <1>7, <1>8

\* A yield delivers the iterator's own tuple.
LEMMA YieldsStep ==
    ASSUME Inv, call = NoCall, NEW i \in Iters, Yields(i)
    PROVE  Inv'
<1> DEFINE left == reader[i].left - 1
           r == Tuple(i, heap, left)
<1>1. /\ Sound(heap, iter) /\ i \in LiveIn(iter) /\ Reads(iter, reader) /\ search \in Nat
    BY LiveIsLiveIn DEF Inv, Yields, TypeInv
<1>2. /\ reader' = [reader EXCEPT ![i] = r]
      /\ UNCHANGED <<heap, iter, search, scratch, call, said, spent>>
    BY DEF Yields
<1>3. left \in Int
    BY <1>1 DEF Reads, Readers
<1> HIDE DEF left
<1>4. r \in Readers /\ r.got \in Owned(i, iter[i])
    BY <1>1, <1>3, TupleIs
<1> HIDE DEF r
<1>5. Reads(iter', reader')
    BY <1>1, <1>2, <1>4, ReadsMoved
<1> QED
    BY <1>1, <1>2, <1>5, StubKeeps
-----------------------------------------------------------------------------
(* The members' programs. *)

\* The order of the naturals, as a relation.
Below == {ss \in Nat \X Nat : ss[1] < ss[2]}
\* A nonempty set of naturals has a least element.
LEMMA LeastNat ==
    ASSUME NEW T, T \subseteq Nat, T # {}
    PROVE  \E x \in T : \A y \in T : x <= y
<1>1. OpToRel(<, Nat) = Below
    BY DEF OpToRel, Below
<1>2. IsWellFoundedOn(Below, Nat)
    BY <1>1, NatLessThanWellFounded, Zenon
<1>3. PICK x \in T : \A y \in T : ~(<<y, x>> \in Below)
    BY <1>2, WFMin, Zenon
<1>4. ASSUME NEW y \in T PROVE x <= y
    <2>1. x \in Nat /\ y \in Nat /\ (y < x => <<y, x>> \in Below)
        BY DEF Below
    <2> QED BY <1>3, <2>1
<1> QED BY <1>4

\* A member's instruction at a position; past the text it fails.
LEMMA KindTypes ==
    ASSUME NEW t \in SetTexts, NEW m \in Members, NEW p \in 0..t.len
    PROVE  /\ t.len \in Nat /\ Kind(t, m, p) \in {"go", "fail", "match"}
           /\ Kind(t, m, t.len) = "fail"
<1>1. t \in Texts /\ t.len \in Nat
    BY SetTextTypes, TextSizes
<1>2. p # t.len => p \in 0..(t.len - 1)
    BY <1>1
<1> QED
    BY <1>1, <1>2, SetTextTypes DEF Kind

\* A member stops at the first instruction that does not go on.
LEMMA Stops ==
    ASSUME NEW t \in SetTexts, NEW m \in Members, NEW c \in 0..t.len
    PROVE  /\ Stop(t, m, c) \in c..t.len /\ Kind(t, m, Stop(t, m, c)) # "go"
           /\ \A q \in c..(Stop(t, m, c) - 1) : Kind(t, m, q) = "go"
<1>1. t.len \in Nat
    BY KindTypes
<1> DEFINE T == {p \in c..t.len : Kind(t, m, p) # "go"}
<1>2. T \subseteq Nat
    BY <1>1
<1>3. t.len \in T
    BY <1>1, KindTypes
<1>4. PICK p \in T : \A y \in T : p <= y
    BY <1>2, <1>3, LeastNat
<1>5. \A q \in c..(p - 1) : Kind(t, m, q) = "go"
    <2> TAKE q \in c..(p - 1)
    <2>1. q \in c..t.len /\ ~(p <= q)
        BY <1>1, <1>4
    <2> QED
        BY <1>4, <2>1
<1>6. \E k \in c..t.len : Kind(t, m, k) # "go" /\ \A q \in c..(k - 1) : Kind(t, m, q) = "go"
    BY <1>4, <1>5
<1> QED
    BY <1>6 DEF Stop

\* It stops where the walk found it to.
LEMMA StopsAt ==
    ASSUME NEW t \in SetTexts, NEW m \in Members, NEW c \in 0..t.len, NEW p \in c..t.len,
           Kind(t, m, p) # "go", \A q \in c..(p - 1) : Kind(t, m, q) = "go"
    PROVE  Stop(t, m, c) = p
<1>1. /\ Stop(t, m, c) \in c..t.len /\ Kind(t, m, Stop(t, m, c)) # "go"
      /\ \A q \in c..(Stop(t, m, c) - 1) : Kind(t, m, q) = "go"
    BY Stops
<1>2. t.len \in Nat
    BY KindTypes
<1> DEFINE k == Stop(t, m, c)
<1> HIDE DEF k
<1>3. k \in Int /\ p \in Int /\ c <= k /\ c <= p
    BY <1>1, <1>2 DEF k
<1>4. ~(k < p)
    <2> SUFFICES ASSUME k < p PROVE FALSE
        OBVIOUS
    <2>1. k \in c..(p - 1)
        BY <1>3
    <2> QED
        BY <1>1, <2>1 DEF k
<1>5. ~(p < k)
    <2> SUFFICES ASSUME p < k PROVE FALSE
        OBVIOUS
    <2>1. p \in c..(k - 1)
        BY <1>3
    <2> QED
        BY <1>1, <2>1 DEF k
<1> QED
    BY <1>3, <1>4, <1>5 DEF k

\* The positions passed do not tell candidates apart.
LEMMA TruthPassed ==
    ASSUME NEW t \in SetTexts, NEW m \in Members, NEW c \in 0..t.len, NEW p \in c..t.len,
           \A q \in c..(p - 1) : Kind(t, m, q) = "go"
    PROVE  Truth(t, m, c) = Truth(t, m, p)
<1>0. t.len \in Nat /\ p \in 0..t.len
    BY KindTypes
<1>1. /\ Stop(t, m, p) \in p..t.len /\ Kind(t, m, Stop(t, m, p)) # "go"
      /\ \A q \in p..(Stop(t, m, p) - 1) : Kind(t, m, q) = "go"
    BY <1>0, Stops
<1> DEFINE k == Stop(t, m, p)
<1> HIDE DEF k
<1>2. k \in c..t.len /\ Kind(t, m, k) # "go"
    BY <1>0, <1>1 DEF k
<1>3. \A q \in c..(k - 1) : Kind(t, m, q) = "go"
    <2> TAKE q \in c..(k - 1)
    <2>1. q \in c..(p - 1) \/ q \in p..(k - 1)
        BY <1>0
    <2> QED
        BY <1>1, <2>1 DEF k
<1>4. Stop(t, m, c) = k
    BY <1>2, <1>3, StopsAt
<1> QED
    BY <1>4 DEF Truth, k

\* The answer at the position where a walk stops.
LEMMA TruthAt ==
    ASSUME NEW t \in SetTexts, NEW m \in Members, NEW c \in 0..t.len
    PROVE  /\ Truth(t, m, c) \in Nat \cup {NoMatch}
           /\ Kind(t, m, c) = "fail" => Truth(t, m, c) = NoMatch
           /\ Kind(t, m, c) = "match" => Truth(t, m, c) = c + 1
<1>1. t.len \in Nat /\ Stop(t, m, c) \in c..t.len
    BY KindTypes, Stops
<1>2. Truth(t, m, c) \in Nat \cup {NoMatch}
    BY <1>1 DEF Truth
<1>3. ASSUME Kind(t, m, c) # "go" PROVE Stop(t, m, c) = c
    BY <1>1, <1>3, StopsAt
<1> QED
    BY <1>2, <1>3 DEF Truth
-----------------------------------------------------------------------------
(* The globals. *)

\* The types of the call-scoped globals.
LEMMA ScratchTypes ==
    ASSUME NEW s \in Scratches, NEW m \in Members
    PROVE  /\ s.epoch \in Nat /\ s.topEpoch \in Nat /\ s.top \in Nat
           /\ s.member \in [Members -> MemberStates] /\ s.member[m] \in MemberStates
           /\ s.member[m].budgetEpoch \in Nat /\ s.member[m].budget \in Nat
           /\ s.member[m].memoEpoch \in Nat /\ s.member[m].base \in Nat
           /\ s.member[m].origin \in Nat /\ s.member[m].end \in Nat /\ s.member[m].cleared \in Nat
<1>1. s.member[m] \in MemberStates
    BY DEF Scratches
<1> QED
    BY <1>1 DEF Scratches, MemberStates

\* The types of the spending.
LEMMA SpendingTypes ==
    ASSUME NEW sp \in [Members -> Spendings], NEW m \in Members
    PROVE  sp[m].pops \in Nat /\ sp[m].walked \in Nat /\ sp[m].filled \in Nat /\ sp[m].hits \in Nat
    BY DEF Spendings

\* One member's globals replaced.
With(s, m, r) == [s EXCEPT !.member = [s.member EXCEPT ![m] = r]]

\* One member changed.
LEMMA WithTypes ==
    ASSUME NEW s \in Scratches, NEW m \in Members, NEW r \in MemberStates
    PROVE  /\ With(s, m, r) \in Scratches /\ With(s, m, r).epoch = s.epoch
           /\ With(s, m, r).topEpoch = s.topEpoch /\ With(s, m, r).top = s.top
           /\ With(s, m, r).member[m] = r
           /\ \A n \in Members : n # m => With(s, m, r).member[n] = s.member[n]
<1> DEFINE mm == [s.member EXCEPT ![m] = r]
<1>1. s.member \in [Members -> MemberStates]
    BY ScratchTypes
<1>2. /\ mm \in [Members -> MemberStates] /\ mm[m] = r
      /\ \A n \in Members : n # m => mm[n] = s.member[n]
    BY <1>1
<1>3. With(s, m, r) = [s EXCEPT !.member = mm]
    BY DEF With
<1> HIDE DEF mm
<1>4. /\ [s EXCEPT !.member = mm] \in Scratches /\ [s EXCEPT !.member = mm].epoch = s.epoch
      /\ [s EXCEPT !.member = mm].topEpoch = s.topEpoch /\ [s EXCEPT !.member = mm].top = s.top
      /\ [s EXCEPT !.member = mm].member = mm
    BY <1>2 DEF Scratches
<1> QED
    BY <1>2, <1>3, <1>4

\* emitBTWorkInitMember changes the budget of the member only.
LEMMA BudgetedIs ==
    ASSUME NEW s \in Scratches, NEW m \in Members, NEW span \in Nat
    PROVE  LET g == Budgeted(s, m, span) IN
           /\ g \in Scratches /\ g.epoch = s.epoch /\ g.topEpoch = s.topEpoch /\ g.top = s.top
           /\ \A n \in Members : n # m => g.member[n] = s.member[n]
           /\ g.member[m].budgetEpoch = s.epoch
           /\ g.member[m].memoEpoch = s.member[m].memoEpoch
           /\ g.member[m].budget = IF s.member[m].budgetEpoch = s.epoch THEN s.member[m].budget
                                   ELSE (span + 1) * Factor
<1> DEFINE b == (span + 1) * Factor
           r == [s.member[m] EXCEPT !.budget = b, !.budgetEpoch = s.epoch]
<1>1. s.member \in [Members -> MemberStates] /\ s.member[m] \in MemberStates /\ s.epoch \in Nat
    BY ScratchTypes
<1>2. b \in Nat
    BY MemberTypes, Products
<1>3. CASE s.member[m].budgetEpoch = s.epoch
    BY <1>3 DEF Budgeted
<1>4. CASE s.member[m].budgetEpoch # s.epoch
    <2> HIDE DEF b
    <2>1. /\ r \in MemberStates /\ r.budgetEpoch = s.epoch /\ r.budget = b
          /\ r.memoEpoch = s.member[m].memoEpoch
        BY <1>1, <1>2 DEF MemberStates
    <2>2. Budgeted(s, m, span) = With(s, m, r)
        BY <1>1, <1>4 DEF Budgeted, With, b, Scratches
    <2> HIDE DEF r
    <2> QED
        BY <1>4, <2>1, <2>2, WithTypes DEF b
<1> QED
    BY <1>3, <1>4

\* emitBTScratchBase: the base is recorded, above everything held.
LEMMA BasedIs ==
    ASSUME NEW s \in Scratches, NEW h, NEW its, Sound(h, its),
           s.topEpoch = s.epoch => h.bump <= s.top
    PROVE  LET g == Based(s, h) IN
           /\ g \in Scratches /\ g.epoch = s.epoch /\ g.topEpoch = s.epoch /\ g.member = s.member
           /\ h.bump <= g.top /\ (s.topEpoch = s.epoch => g.top = s.top)
<1>1. s.epoch \in Nat /\ s.topEpoch \in Nat /\ s.top \in Nat
    BY DEF Scratches
<1>2. CASE s.topEpoch = s.epoch
    BY <1>2 DEF Based
<1>3. CASE s.topEpoch # s.epoch
    <2> DEFINE b == FreeBase(h)
    <2>1. b \in Nat /\ h.bump <= b
        BY FreeAbove
    <2>2. Based(s, h) = [s EXCEPT !.top = b, !.topEpoch = s.epoch]
        BY <1>3 DEF Based
    <2> HIDE DEF b
    <2> QED
        BY <1>1, <1>3, <2>1, <2>2 DEF Scratches
<1> QED
    BY <1>2, <1>3

\* A region placed for m: above the top, from the candidate to the end.
LEMMA PlacedIs ==
    ASSUME NEW s \in Scratches, NEW m \in Members, NEW h, NEW c \in Nat, NEW len \in Nat, c <= len
    PROVE  LET g == Placed(s, h, m, c, len)  r == g.member[m] IN
           /\ g \in Scratches /\ g.epoch = s.epoch /\ g.topEpoch = s.topEpoch
           /\ \A n \in Members : n # m => g.member[n] = s.member[n]
           /\ r.base = AlignUp(s.top) /\ r.origin = c /\ r.end = r.base + (len - c) + 1
           /\ r.cleared = r.base /\ r.memoEpoch = s.epoch
           /\ r.budgetEpoch = s.member[m].budgetEpoch /\ r.budget = s.member[m].budget
           /\ g.top = r.end
<1> DEFINE b == AlignUp(s.top)
           e == b + (len - c) + 1
           r == [s.member[m] EXCEPT !.base = b, !.end = e, !.cleared = b, !.origin = c,
                                    !.memoEpoch = s.epoch]
           k == With(s, m, r)
<1>1. s.member \in [Members -> MemberStates] /\ s.member[m] \in MemberStates /\ s.epoch \in Nat /\ s.top \in Nat
    BY ScratchTypes
<1>2. b \in Nat /\ e \in Nat
    BY <1>1, AlignsUp
<1>8. Placed(s, h, m, c, len) =
        [s EXCEPT !.member[m] = [@ EXCEPT !.base = b, !.end = e, !.cleared = b, !.origin = c,
                                          !.memoEpoch = s.epoch],
                  !.top = e]
    BY DEF Placed
<1> HIDE DEF b, e
<1>3. Placed(s, h, m, c, len) = [k EXCEPT !.top = e]
    <2> HIDE DEF r
    <2>1. Placed(s, h, m, c, len) = [s EXCEPT !.member[m] = r, !.top = e]
        BY <1>1, <1>8 DEF r, Scratches
    <2> QED
        BY <1>1, <2>1 DEF With, Scratches
<1>4. /\ r \in MemberStates /\ r.base = b /\ r.end = e /\ r.cleared = b /\ r.origin = c
      /\ r.memoEpoch = s.epoch /\ r.budgetEpoch = s.member[m].budgetEpoch
      /\ r.budget = s.member[m].budget
    BY <1>1, <1>2 DEF MemberStates
<1> HIDE DEF r
<1>5. /\ k \in Scratches /\ k.epoch = s.epoch /\ k.topEpoch = s.topEpoch /\ k.member[m] = r
      /\ \A n \in Members : n # m => k.member[n] = s.member[n]
    BY <1>4, WithTypes
<1> HIDE DEF k
<1>6. /\ [k EXCEPT !.top = e] \in Scratches /\ [k EXCEPT !.top = e].top = e
      /\ [k EXCEPT !.top = e].epoch = k.epoch /\ [k EXCEPT !.top = e].topEpoch = k.topEpoch
      /\ [k EXCEPT !.top = e].member = k.member
    BY <1>2, <1>5 DEF Scratches
<1>7. e = b + (len - c) + 1
    BY DEF e
<1> QED
    BY <1>3, <1>4, <1>5, <1>6, <1>7 DEF b

\* emitBTMemberMatched: the watermark is moved, not above where it was.
LEMMA MatchedIs ==
    ASSUME NEW s \in Scratches, NEW m \in Members, NEW c \in Nat
    PROVE  LET g == Matched(s, m, c)  r == s.member[m] IN
           /\ g \in Scratches /\ g.epoch = s.epoch /\ g.topEpoch = s.topEpoch /\ g.top = s.top
           /\ \A n \in Members : n # m => g.member[n] = s.member[n]
           /\ g.member[m].base = r.base /\ g.member[m].origin = r.origin
           /\ g.member[m].end = r.end /\ g.member[m].memoEpoch = r.memoEpoch
           /\ g.member[m].budgetEpoch = r.budgetEpoch /\ g.member[m].budget = r.budget
           /\ g.member[m].cleared = IF c < r.origin THEN r.base
                                    ELSE Smaller(r.base + (c - r.origin), r.cleared)
<1> DEFINE o == s.member[m]
           x == IF c < o.origin THEN o.base ELSE Smaller(o.base + (c - o.origin), o.cleared)
           r == [s.member[m] EXCEPT !.cleared = x]
<1>1. /\ s.member \in [Members -> MemberStates] /\ s.member[m] \in MemberStates
      /\ o.origin \in Nat /\ o.base \in Nat /\ o.cleared \in Nat
    BY ScratchTypes
<1>2. x \in Nat
    BY <1>1 DEF Smaller
<1>3. Matched(s, m, c) = With(s, m, r)
    BY <1>1 DEF Matched, With, Scratches
<1> HIDE DEF x
<1>4. /\ r \in MemberStates /\ r.cleared = x /\ r.base = s.member[m].base
      /\ r.origin = s.member[m].origin /\ r.end = s.member[m].end
      /\ r.memoEpoch = s.member[m].memoEpoch /\ r.budgetEpoch = s.member[m].budgetEpoch
      /\ r.budget = s.member[m].budget
    BY <1>1, <1>2 DEF MemberStates
<1> HIDE DEF r
<1> QED
    BY <1>3, <1>4, WithTypes DEF x

\* The memory that can be had.
LEMMA MaxSizeIs ==
    ASSUME NEW h, Shaped(h), NEW end \in Nat, end <= MaxSize(h)
    PROVE  MaxSize(h) \in Nat /\ CanHold(h, end)
<1> DEFINE k == (MaxWords - h.size) \div Page
<1>1. h.size \in Nat /\ h.size <= MaxWords /\ MaxWords \in Nat /\ Page \in Nat /\ Page > 0
    BY HeapTypes, Sizes DEF Shaped
<1>2. MaxWords - h.size \in Nat
    BY <1>1
<1>3. k \in Nat /\ Page * k <= MaxWords - h.size
    BY <1>1, <1>2, Divides
<1>4. MaxSize(h) = h.size + k * Page
    BY DEF MaxSize
<1> HIDE DEF k
<1>5. k * Page \in Nat /\ k * Page <= MaxWords - h.size
    BY <1>1, <1>3, Products
<1>6. CASE end <= h.size
    BY <1>1, <1>4, <1>5, <1>6 DEF CanHold
<1>7. CASE ~(end <= h.size)
    <2>1. end - h.size \in Nat /\ end - h.size <= k * Page
        BY <1>1, <1>4, <1>5, <1>7
    <2>2. Pages(end - h.size) * Page <= k * Page /\ Pages(end - h.size) \in Nat
        BY <1>3, <2>1, PagesHold
    <2>3. Pages(end - h.size) * Page \in Nat
        BY <1>1, <2>2, Products
    <2>4. h.size + Pages(end - h.size) * Page <= MaxWords
        BY <1>1, <1>5, <2>2, <2>3
    <2>5. MaxSize(h) \in Nat
        BY <1>1, <1>4, <1>5
    <2> QED
        BY <2>4, <2>5 DEF CanHold, CanGrow
<1> QED
    BY <1>6, <1>7

\* Frames are written from their base up, in memory that is there.
LEMMA Framing ==
    ASSUME NEW h, Shaped(h), NEW base \in Nat, NEW n \in Nat, n # 0 => CanHold(h, base + n)
    PROVE  Spares(h, Framed(h, base, n), base) /\ Shaped(Framed(h, base, n))
<1> DEFINE k == IF n = 0 THEN h ELSE Hold(h, base + n)
<1>1. base + n \in Nat /\ base \in Int /\ n \in Int /\ h.size \in Nat /\ h.base \in Nat
    BY HeapTypes DEF Shaped
<1>2. Spares(h, k, base) /\ Shaped(k)
    <2>1. CASE n = 0
        BY <1>1, <2>1 DEF Spares, Shaped
    <2>2. CASE n # 0
        BY <1>1, <2>2, Holds
    <2> QED
        BY <2>1, <2>2
<1>3. Framed(h, base, n) = Store(k, base, n, Junk)
    BY DEF Framed
<1> HIDE DEF k
<1> DEFINE g == Store(k, base, n, Junk)
<1>4. Spares(k, g, base) /\ Shaped(g)
    BY <1>1, <1>2, JunkWord, StoreSpares
<1> HIDE DEF g
<1>5. Spares(h, g, base)
    BY <1>1, <1>2, <1>4, SparesChain
<1> QED
    BY <1>3, <1>4, <1>5 DEF g

\* As many frames as fit are held.
LEMMA FitsIn ==
    ASSUME NEW h, Shaped(h), NEW base \in Nat, NEW n \in Nat
    PROVE  /\ Fits(h, base, n) \in Nat /\ Fits(h, base, n) <= n
           /\ Fits(h, base, n) # 0 => CanHold(h, base + Fits(h, base, n))
<1>1. MaxSize(h) \in Nat
    <2>1. h.size \in Nat /\ h.size <= MaxWords
        BY HeapTypes DEF Shaped
    <2>2. MaxWords - h.size \in Nat /\ Page \in Nat /\ Page > 0
        BY <2>1, Sizes
    <2>3. (MaxWords - h.size) \div Page \in Nat
        BY <2>2, Divides
    <2>4. ((MaxWords - h.size) \div Page) * Page \in Nat
        BY <2>2, <2>3, Products
    <2> QED
        BY <2>1, <2>4 DEF MaxSize
<1> DEFINE f == Fits(h, base, n)
           x == MaxSize(h)
<1>2. /\ f \in Nat /\ f <= n /\ (f # 0 => base + f <= x)
    <2> HIDE DEF x
    <2>1. x \in Nat
        BY <1>1 DEF x
    <2>2. f = Larger(0, Smaller(n, x - base))
        BY DEF Fits, x
    <2> HIDE DEF f
    <2> QED
        BY <2>1, <2>2 DEF Larger, Smaller
<1> HIDE DEF f
<1>3. f # 0 => CanHold(h, base + f)
    <2> SUFFICES ASSUME f # 0 PROVE CanHold(h, base + f)
        OBVIOUS
    <2>1. base + f \in Nat /\ base + f <= MaxSize(h)
        BY <1>2
    <2> QED
        BY <2>1, MaxSizeIs
<1> QED
    BY <1>2, <1>3 DEF f
-----------------------------------------------------------------------------
(* A member between two steps. *)

\* The facts about a member with a region that the steps keep needing.
LEMMA PlacementTypes ==
    ASSUME NEW h \in Heaps, NEW s \in Scratches, NEW t \in SetTexts, NEW from \in Nat,
           NEW m \in Members, NEW due \in Nat, Placement(h, s, t, from, m, due),
           h.size <= MaxWords
    PROVE  LET r == s.member[m] IN
           /\ r.base \in Nat /\ r.origin \in Nat /\ r.end \in Nat /\ r.cleared \in Nat
           /\ h.bump \in Nat /\ h.bump <= r.base /\ r.base <= r.cleared /\ r.cleared <= r.end
           /\ r.origin <= due /\ from <= r.origin
           /\ r.end = r.base + (t.len - r.origin) + 1 /\ t.len \in Nat
           /\ \A x \in r.base..(r.end - 1) : x \in Addresses
<1>1. /\ s.member[m].base \in Nat /\ s.member[m].origin \in Nat /\ s.member[m].end \in Nat
      /\ s.member[m].cleared \in Nat /\ h.bump \in Nat /\ h.size \in Nat
    BY ScratchTypes, HeapTypes
<1>2. t.len \in Nat
    BY SetTextTypes, TextSizes
<1>3. s.member[m].end <= h.size
    BY DEF Placement
<1>4. \A x \in s.member[m].base..(s.member[m].end - 1) : x \in Addresses
    BY <1>1, <1>3, Sizes DEF Addresses
<1> QED
    BY <1>1, <1>2, <1>4 DEF Placement

\* What others do leaves a member as it was.
LEMMA MemberFrame ==
    ASSUME NEW h, NEW g, NEW s, NEW s2, NEW sp, NEW sp2, NEW m \in Members, NEW t, NEW from,
           NEW due, NEW pos, MemberInv(h, s, sp, t, from, m, due, pos),
           h \in Heaps, g \in Heaps, s \in Scratches, s2 \in Scratches,
           s2.member[m] = s.member[m], s2.epoch = s.epoch, sp2[m] = sp[m],
           g.bump = h.bump, h.size <= g.size, t \in SetTexts, from \in Nat, due \in Nat,
           h.size <= MaxWords,
           HasRegion(s, m) =>
               /\ s2.topEpoch = s2.epoch /\ s.top <= s2.top
               /\ \A x \in Addresses : s.member[m].base <= x /\ x < s.member[m].end =>
                     g.mem[x] = h.mem[x]
    PROVE  MemberInv(g, s2, sp2, t, from, m, due, pos)
<1> DEFINE r == s.member[m]
<1>1. HasRegion(s2, m) <=> HasRegion(s, m)
    BY DEF HasRegion
<1>2. Within(s2, sp2, t, from, m)
    BY DEF MemberInv, Within
<1>3. CASE ~HasRegion(s, m)
    BY <1>1, <1>2, <1>3 DEF MemberInv
<1>4. CASE HasRegion(s, m)
    <2>1. /\ Placement(h, s, t, from, m, due) /\ Marked(h, s, t, m, due, pos)
          /\ s2.topEpoch = s2.epoch /\ s.top <= s2.top
        BY <1>4 DEF MemberInv
    <2>2. /\ r.base \in Nat /\ r.origin \in Nat /\ r.end \in Nat /\ r.cleared \in Nat
          /\ r.base <= r.cleared /\ r.cleared <= r.end /\ r.origin <= due
          /\ \A x \in r.base..(r.end - 1) : x \in Addresses
        BY <2>1, PlacementTypes
    <2>3. s.top \in Nat /\ s2.top \in Nat /\ h.size \in Nat /\ g.size \in Nat
        BY ScratchTypes, HeapTypes
    <2>4. \A x \in r.base..(r.cleared - 1) : g.mem[x] = h.mem[x]
        <3> TAKE x \in r.base..(r.cleared - 1)
        <3>1. x \in r.base..(r.end - 1) /\ r.base <= x /\ x < r.end
            BY <2>2
        <3> QED
            BY <1>4, <2>2, <3>1
    <2>5. Placement(g, s2, t, from, m, due)
        <3>1. r.end <= s2.top /\ r.end <= g.size
            BY <2>1, <2>2, <2>3 DEF Placement
        <3>2. Tripped(s2, m) <=> Tripped(s, m)
            BY DEF Tripped
        <3> QED
            BY <2>1, <3>1, <3>2 DEF Placement
    <2>6. Marked(g, s2, t, m, due, pos)
        BY <2>1, <2>4 DEF Marked
    <2>7. PICK w \in 0..(t.len + 1) : Paid(h, s, sp, m, due, IF pos = NoWalk THEN due ELSE pos, w)
        BY <1>4 DEF MemberInv
    <2>8. ASSUME NEW q \in (due - r.origin)..(w - 1) PROVE g.mem[r.base + q] # Zero
        <3>1. q < r.cleared - r.base /\ h.mem[r.base + q] # Zero
            BY <2>7 DEF Paid
        <3>2. r.base + q \in r.base..(r.cleared - 1)
            <4>1. t.len \in Nat
                BY SetTextTypes, TextSizes
            <4> QED
                BY <2>2, <3>1, <4>1
        <3> QED
            BY <2>4, <3>1, <3>2
    <2>9. Paid(g, s2, sp2, m, due, IF pos = NoWalk THEN due ELSE pos, w)
        BY <2>7, <2>8 DEF Paid
    <2> QED
        BY <1>1, <1>2, <1>4, <2>5, <2>6, <2>9 DEF MemberInv
<1> QED
    BY <1>3, <1>4

\* Fills that are paid for are bounded.
LEMMA FillsPaid ==
    ASSUME NEW h, NEW s, NEW sp, NEW m \in Members, NEW t, NEW from, NEW due, NEW pos,
           MemberInv(h, s, sp, t, from, m, due, pos), h \in Heaps, s \in Scratches,
           sp \in [Members -> Spendings], t \in SetTexts
    PROVE  sp[m].filled < sp[m].walked + Chunk * (sp[m].hits + 1)
<1>1. /\ sp[m].filled \in Nat /\ sp[m].walked \in Nat /\ sp[m].hits \in Nat
      /\ Chunk \in Nat /\ Chunk > 0
    BY SpendingTypes, MemberTypes
<1>2. Chunk * sp[m].hits \in Nat /\ Chunk * (sp[m].hits + 1) = Chunk * sp[m].hits + Chunk
    BY <1>1
<1>3. CASE ~HasRegion(s, m)
    BY <1>1, <1>2, <1>3 DEF MemberInv
<1>4. CASE HasRegion(s, m)
    <2>1. PICK w \in 0..(t.len + 1) : Paid(h, s, sp, m, due, IF pos = NoWalk THEN due ELSE pos, w)
        BY <1>4 DEF MemberInv
    <2>2. s.member[m].cleared \in Nat /\ s.member[m].base \in Nat /\ t.len \in Nat
        BY ScratchTypes, SetTextTypes, TextSizes
    <2> DEFINE x == s.member[m].cleared - s.member[m].base
    <2>3. x \in Int
        BY <2>2
    <2>4. sp[m].filled <= sp[m].walked + Chunk * sp[m].hits + (x - w) /\ x - w < Chunk
        BY <2>1 DEF Paid
    <2> HIDE DEF x
    <2> DEFINE y == Chunk * sp[m].hits
    <2>5. y \in Nat /\ Chunk * (sp[m].hits + 1) = y + Chunk /\ w \in Int
        BY <1>2, <2>2
    <2>6. sp[m].filled <= sp[m].walked + y + (x - w)
        BY <2>4
    <2> HIDE DEF y
    <2> QED
        BY <1>1, <2>3, <2>4, <2>5, <2>6
<1> QED
    BY <1>3, <1>4

\* The types of a running call.
LEMMA CallTypes ==
    ASSUME Inv, call # NoCall
    PROVE  /\ call \in Calls /\ call.it \in Iters /\ call.it \in LiveIn(iter) /\ InCall
           /\ iter[call.it].text \in SetTexts /\ iter[call.it].len = iter[call.it].text.len
           /\ iter[call.it].len \in Nat /\ call.from \in Nat /\ call.cand \in Nat
           /\ call.from <= call.cand /\ call.cand <= iter[call.it].len
           /\ call.member \in Members /\ call.member \in Nat /\ call.hit \in BOOLEAN
           /\ call.pos \in Nat \cup {NoWalk}
           /\ heap \in Heaps /\ Shaped(heap) /\ heap.size <= MaxWords /\ scratch \in Scratches
           /\ spent \in [Members -> Spendings] /\ Sound(heap, iter)
           /\ iter \in [Iters -> Iterators]
<1>1. call \in Calls /\ InCall /\ Sound(heap, iter)
    BY DEF Inv, TypeInv
<1>2. call.it \in LiveIn(iter) /\ iter[call.it].kind = "set"
    BY <1>1, LiveIsLiveIn DEF InCall, CallInv
<1>3. iter[call.it].text \in SetTexts /\ iter[call.it].len = iter[call.it].text.len
    BY <1>1, <1>2 DEF Sound, Lies
<1>4. iter[call.it].len \in Nat
    BY <1>3, SetTextTypes, TextSizes
<1>5. call.member \in Members /\ call.member \in Nat
    BY <1>1, MemberTypes DEF Calls
<1>6. call.from \in Nat /\ call.cand \in Nat /\ call.hit \in BOOLEAN /\ call.pos \in Nat \cup {NoWalk} /\ call.it \in Iters
    BY <1>1 DEF Calls
<1>7. heap \in Heaps /\ Shaped(heap) /\ heap.size <= MaxWords /\ iter \in [Iters -> Iterators]
    BY <1>1, SoundTypes DEF Shaped
<1> QED
    BY <1>1, <1>2, <1>3, <1>4, <1>5, <1>6, <1>7 DEF Inv, TypeInv, InCall, CallInv

\* An answer takes the call on, to the next member or candidate or to its end,
\* when it is the member's own and leaves the members as they are to be.
LEMMA AnswersStep ==
    ASSUME Inv, call # NoCall, NEW ans \in Answered, NEW h, NEW s, NEW sp, Answers(ans, h, s, sp),
           search' = search, Sound(h, iter),
           scratch' \in Scratches, spent' \in [Members -> Spendings],
           EpochsBefore(scratch'), FillsBounded',
           ans \in {Unknown, Truth(iter[call.it].text, call.member, call.cand)},
           ans # Unknown =>
               /\ RegionsApart(h, scratch')
               /\ \A n \in Members :
                     MemberInv(h, scratch', spent', iter[call.it].text, call.from, n,
                               IF n <= call.member THEN call.cand + 1 ELSE call.cand, NoWalk)
    PROVE  Inv'
<1> DEFINE i == call.it
           t == iter[i].text
           m == call.member
           c == call.cand
           N == Cardinality(Members)
<1>1. /\ call \in Calls /\ i \in Iters /\ i \in LiveIn(iter) /\ InCall /\ t \in SetTexts
      /\ iter[i].len = t.len /\ iter[i].len \in Nat /\ call.from \in Nat /\ c \in Nat
      /\ call.from <= c /\ c <= iter[i].len /\ m \in Members /\ m \in Nat /\ call.hit \in BOOLEAN
      /\ iter \in [Iters -> Iterators]
    BY CallTypes
<1>2. N \in Nat /\ Members = 1..N
    BY MemberTypes
<1>3. said' = <<ans, Truth(t, m, c)>> /\ Onward(ans, h)
    BY DEF Answers
<1>4. Truth(t, m, c) \in Answered
    <2>1. c \in 0..t.len
        BY <1>1
    <2> QED
        BY <1>1, <2>1, TruthAt DEF Answered
<1>5. said' \in Answered \X Answered /\ SaidTrue'
    BY <1>3, <1>4 DEF SaidTrue
<1>6. Reads(iter', reader') /\ search' \in Nat
    <2> DEFINE tuples == reader[i].left + (IF ans >= 0 THEN 1 ELSE 0)
    <2>1. Reads(iter, reader) /\ search \in Nat /\ reader[i] \in Readers
        BY <1>1 DEF Inv, TypeInv, Reads
    <2>2. tuples \in Int /\ tuples - 1 \in Int
        BY <2>1 DEF Readers
    <2> HIDE DEF tuples
    <2>3. CASE iter' = iter /\ reader' = [reader EXCEPT ![i].left = tuples]
        <3> DEFINE r == [reader[i] EXCEPT !.left = tuples]
        <3>1. r \in Readers /\ r.got = reader[i].got
            BY <2>1, <2>2 DEF Readers
        <3>2. reader' = [reader EXCEPT ![i] = r]
            BY <2>1, <2>3
        <3>3. r.got \in Owned(i, iter[i])
            BY <1>1, <2>1, <3>1 DEF Reads
        <3> HIDE DEF r, i
        <3>4. Reads(iter, [reader EXCEPT ![i] = r])
            BY <1>1, <2>1, <3>1, <3>3, ReadsMoved
        <3> QED
            BY <2>1, <2>3, <3>2, <3>4
    <2>4. CASE /\ iter' = [iter EXCEPT ![i].pos = c + 1]
               /\ reader' = [reader EXCEPT ![i] = Tuple(i, h, tuples - 1)]
        <3> DEFINE r == Tuple(i, h, tuples - 1)
        <3>1. r \in Readers /\ r.got \in Owned(i, iter[i])
            BY <1>1, <2>2, TupleIs
        <3>2. /\ iter'[i].kind = iter[i].kind /\ iter'[i].notes = iter[i].notes
              /\ \A j \in Iters : j # i => iter'[j] = iter[j]
            BY <1>1, <2>4 DEF Iterators
        <3>3. r.got \in Owned(i, iter'[i])
            BY <3>1, <3>2 DEF Owned
        <3> HIDE DEF r
        <3>4. reader' = [reader EXCEPT ![i] = r]
            BY <2>4 DEF r
        <3> QED
            BY <1>1, <2>1, <3>1, <3>2, <3>3, <3>4, ReadsMoved
    <2>5. CASE End(i, h)
        BY <1>1, <2>1, <2>5, ReadsEnded DEF End
    <2> QED
        BY <1>3, <2>1, <2>3, <2>4, <2>5 DEF Onward, tuples
<1>7. ASSUME call' \in Calls \cup {NoCall}, Sound(heap', iter'), call' # NoCall => InCall'
      PROVE  Inv'
    <2>1. TypeInv'
        BY <1>5, <1>6, <1>7 DEF TypeInv, Sound
    <2> QED
        BY <1>5, <1>6, <1>7, <2>1 DEF Inv
<1>8. CASE call' = NoCall
    <2>1. Sound(heap', iter')
        <3>1. CASE heap' = h /\ iter' = [iter EXCEPT ![i].pos = c + 1]
            <4> DEFINE p == c + 1
            <4>1. p \in Nat /\ iter[i].notes \in Nat /\ FALSE \in BOOLEAN
                BY <1>1, IteratorTypes
            <4>2. iter' = [iter EXCEPT ![i].pos = p] /\ heap' = h
                BY <3>1
            <4> HIDE DEF p, i
            <4> QED
                BY <1>1, <4>1, <4>2, SoundMoved
        <3>2. CASE End(i, h)
            BY <1>1, <3>2, SoundEnded DEF End
        <3>3. NoCall.it = "none" /\ NoCall.member = 0
            BY DEF NoCall
        <3>4. CASE call' = [call EXCEPT !.member = @ + 1, !.hit = call.hit \/ ans >= 0, !.pos = NoWalk]
            <4>1. call'.member = m + 1
                BY <1>1, <3>4 DEF Calls
            <4> QED
                BY <1>1, <1>8, <3>3, <4>1
        <3>5. CASE call' = [call EXCEPT !.member = 1, !.cand = @ + 1, !.hit = FALSE, !.pos = NoWalk]
            <4>1. call'.member = 1
                BY <1>1, <3>5 DEF Calls
            <4> QED
                BY <1>8, <3>3, <4>1
        <3> QED
            BY <1>3, <3>1, <3>2, <3>4, <3>5 DEF Onward
    <2> QED
        BY <1>7, <1>8, <2>1
<1>9. CASE call' # NoCall
    <2>1. PICK n \in Members, d \in Nat, b \in BOOLEAN :
            /\ call' = [call EXCEPT !.member = n, !.cand = d, !.hit = b, !.pos = NoWalk]
            /\ heap' = h /\ iter' = iter /\ ans # Unknown
            /\ c <= d /\ d <= iter[i].len
            /\ \A k \in Members : (IF k < n THEN d + 1 ELSE d) = (IF k <= m THEN c + 1 ELSE c)
        <3>1. CASE /\ ans # Unknown /\ m < N
                   /\ call' = [call EXCEPT !.member = @ + 1, !.hit = call.hit \/ ans >= 0, !.pos = NoWalk]
                   /\ heap' = h /\ iter' = iter
            <4>1. m + 1 \in Members /\ (call.hit \/ ans >= 0) \in BOOLEAN
                BY <1>1, <1>2, <3>1
            <4>2. call' = [call EXCEPT !.member = m + 1, !.cand = c, !.hit = call.hit \/ ans >= 0, !.pos = NoWalk]
                BY <1>1, <3>1 DEF Calls
            <4>3. \A k \in Members : (IF k < m + 1 THEN c + 1 ELSE c) = (IF k <= m THEN c + 1 ELSE c)
                BY <1>1, <1>2
            <4>4. c \in Nat /\ c <= c /\ c <= iter[i].len
                BY <1>1
            <4> DEFINE z == call.hit \/ ans >= 0
                       n == m + 1
            <4> HIDE DEF z, n, m, c, i
            <4> QED
                BY <3>1, <4>1, <4>2, <4>3, <4>4, Zenon DEF z, n
        <3>2. CASE /\ ans # Unknown /\ m = N /\ c < iter[i].len
                   /\ call' = [call EXCEPT !.member = 1, !.cand = @ + 1, !.hit = FALSE, !.pos = NoWalk]
                   /\ heap' = h /\ iter' = iter
            <4>1. 1 \in Members /\ FALSE \in BOOLEAN /\ c + 1 \in Nat /\ c <= c + 1 /\ c + 1 <= iter[i].len
                BY <1>1, <1>2, <3>2
            <4>2. call' = [call EXCEPT !.member = 1, !.cand = c + 1, !.hit = FALSE, !.pos = NoWalk]
                BY <1>1, <3>2 DEF Calls
            <4>3. \A k \in Members : (IF k < 1 THEN (c + 1) + 1 ELSE c + 1) = (IF k <= m THEN c + 1 ELSE c)
                BY <1>1, <1>2, <3>2
            <4> QED
                BY <1>1, <3>2, <4>1, <4>2, <4>3
        <3>3. m # N => m < N
            BY <1>1, <1>2
        <3>4. \/ /\ ans # Unknown /\ m # N
                 /\ call' = [call EXCEPT !.member = @ + 1, !.hit = call.hit \/ ans >= 0, !.pos = NoWalk]
                 /\ heap' = h /\ iter' = iter
              \/ /\ ans # Unknown /\ m = N /\ c < iter[i].len
                 /\ call' = [call EXCEPT !.member = 1, !.cand = @ + 1, !.hit = FALSE, !.pos = NoWalk]
                 /\ heap' = h /\ iter' = iter
            <4> HIDE DEF NoCall
            <4> QED
                BY <1>3, <1>9 DEF Onward
        <3> QED
            BY <3>1, <3>2, <3>3, <3>4
    <2>2. /\ call' \in Calls /\ call'.it = i /\ call'.from = call.from /\ call'.cand = d
          /\ call'.member = n /\ call'.hit = b /\ call'.pos = NoWalk
        <3>1. NoWalk \in Nat \cup {NoWalk}
            OBVIOUS
        <3> HIDE DEF NoWalk
        <3> QED
            BY <1>1, <2>1, <3>1 DEF Calls
    <2>3. CallInv'
        <3>1. i \in LiveIn(iter') /\ iter'[i].kind = "set" /\ Live' = LiveIn(iter')
            <4>1. Live' = LiveIn(iter')
                BY DEF Live, LiveIn
            <4> QED
                BY <1>1, <2>1, <4>1 DEF InCall, CallInv
        <3>2. call.from <= d /\ d <= iter[i].len
            BY <1>1, <2>1
        <3> QED
            BY <2>1, <2>2, <3>1, <3>2 DEF CallInv
    <2>4. WalkInv'
        BY <2>2 DEF WalkInv
    <2>5. RegionsApart(heap', scratch')
        BY <2>1
    <2>6. ASSUME NEW k \in Members
          PROVE  MemberInv(heap', scratch', spent', iter'[call'.it].text, call'.from, k, Due(k)', WalkOf(k)')
        <3>1. Due(k)' = IF k <= m THEN c + 1 ELSE c
            BY <2>1, <2>2 DEF Due
        <3>2. WalkOf(k)' = NoWalk
            BY <2>2 DEF WalkOf
        <3> QED
            BY <2>1, <2>2, <3>1, <3>2
    <2>7. InCall'
        BY <2>3, <2>4, <2>5, <2>6 DEF InCall
    <2>8. Sound(heap', iter')
        BY <2>1
    <2> QED
        BY <1>7, <2>2, <2>7, <2>8
<1> QED
    BY <1>8, <1>9
-----------------------------------------------------------------------------
(* The set's steps, one by one. *)

\* In a new host call nobody has a region.
LEMMA SetBeginsStep ==
    ASSUME Inv, NEW i \in Iters, SetBegins(i)
    PROVE  Inv'
<1>1. /\ i \in LiveIn(iter) /\ iter[i].kind = "set" /\ call = NoCall
      /\ iter[i].pos <= iter[i].len
      /\ scratch' = NextEpoch(scratch)
      /\ call' = [it |-> i, from |-> iter[i].pos, cand |-> iter[i].pos, member |-> 1,
                hit |-> FALSE, pos |-> NoWalk]
      /\ spent' = NothingSpent
      /\ heap' = heap /\ iter' = iter /\ search' = search /\ reader' = reader /\ said' = said
    BY LiveIsLiveIn DEF SetBegins
<1>2. /\ Sound(heap, iter) /\ EpochsBefore(scratch) /\ SaidTrue /\ Reads(iter, reader) /\ scratch \in Scratches
      /\ iter \in [Iters -> Iterators] /\ search \in Nat /\ said \in Answered \X Answered
      /\ heap \in Heaps
    BY DEF Inv, TypeInv
<1>3. /\ scratch' \in Scratches /\ scratch'.epoch = scratch.epoch + 1
      /\ scratch'.topEpoch = scratch.topEpoch /\ scratch'.member = scratch.member
    <2> DEFINE e == scratch.epoch + 1
    <2>1. e \in Nat
        BY <1>2 DEF Scratches
    <2>2. scratch' = [scratch EXCEPT !.epoch = e]
        BY <1>1, <1>2 DEF NextEpoch, Scratches
    <2> HIDE DEF e
    <2>3. /\ scratch' \in Scratches /\ scratch'.epoch = e
          /\ scratch'.topEpoch = scratch.topEpoch /\ scratch'.member = scratch.member
        BY <1>2, <2>1, <2>2 DEF Scratches
    <2> QED
        BY <2>3 DEF e
<1>4. scratch'.topEpoch # scratch'.epoch /\ scratch'.topEpoch <= scratch'.epoch
    <2>1. scratch.topEpoch \in Nat /\ scratch.epoch \in Nat /\ scratch.topEpoch <= scratch.epoch
        BY <1>2 DEF Scratches, EpochsBefore
    <2> QED
        BY <1>3, <2>1
<1>5. ASSUME NEW m \in Members
      PROVE  /\ scratch'.member[m].memoEpoch # scratch'.epoch
             /\ scratch'.member[m].budgetEpoch # scratch'.epoch
             /\ scratch'.member[m].memoEpoch <= scratch'.epoch
             /\ scratch'.member[m].budgetEpoch <= scratch'.epoch
    <2>1. /\ scratch.member[m].memoEpoch \in Nat /\ scratch.member[m].budgetEpoch \in Nat
          /\ scratch.epoch \in Nat
        BY <1>2, ScratchTypes
    <2>2. /\ scratch.member[m].memoEpoch <= scratch.epoch
          /\ scratch.member[m].budgetEpoch <= scratch.epoch
        BY <1>2 DEF EpochsBefore
    <2> QED
        BY <1>3, <2>1, <2>2
<1>6. EpochsBefore(scratch')
    BY <1>4, <1>5 DEF EpochsBefore
<1>7. \A m \in Members : /\ spent'[m].pops = 0 /\ spent'[m].walked = 0
                         /\ spent'[m].filled = 0 /\ spent'[m].hits = 0
    BY <1>1 DEF NothingSpent
<1>8. spent' \in [Members -> Spendings]
    <2>1. [pops |-> 0, walked |-> 0, filled |-> 0, hits |-> 0] \in Spendings
        BY DEF Spendings
    <2> QED
        BY <1>1, <2>1 DEF NothingSpent
<1>9. FillsBounded'
    <2>1. Chunk \in Nat /\ Chunk > 0
        BY MemberTypes
    <2>2. 0 < 0 + Chunk * (0 + 1)
        BY <2>1
    <2> QED
        BY <1>7, <2>2 DEF FillsBounded
<1>10. /\ call' \in Calls /\ call'.it = i /\ call'.from = iter[i].pos /\ call'.cand = iter[i].pos
       /\ call'.pos = NoWalk /\ iter[i].pos \in Nat
    <2>1. 1 \in Members /\ NoWalk \in Nat \cup {NoWalk} /\ FALSE \in BOOLEAN
        <3>1. PICK k \in Members : TRUE
            BY MemberTypes
        <3> QED
            BY MemberTypes, <3>1
    <2>2. i \in Iters /\ iter[i].pos \in Nat
        BY <1>1, <1>2, IteratorTypes DEF LiveIn
    <2> HIDE DEF NoWalk
    <2> QED
        BY <1>1, <2>1, <2>2 DEF Calls
<1>11. CallInv'
    <2>1. Live' = LiveIn(iter)
        BY <1>1 DEF Live, LiveIn
    <2> QED
        BY <1>1, <1>10, <2>1 DEF CallInv
<1>12. WalkInv'
    BY <1>10 DEF WalkInv
<1>13. RegionsApart(heap', scratch')
    BY <1>4, <1>5 DEF RegionsApart, HasRegion
<1>14. ASSUME NEW m \in Members
       PROVE  MemberInv(heap', scratch', spent', iter'[call'.it].text, call'.from, m, Due(m)', WalkOf(m)')
    BY <1>5, <1>7 DEF MemberInv, HasRegion, Within
<1>15. InCall'
    BY <1>11, <1>12, <1>13, <1>14 DEF InCall
<1>16. TypeInv'
    BY <1>1, <1>2, <1>3, <1>8, <1>10 DEF TypeInv
<1>17. SaidTrue' /\ Reads(iter', reader') /\ Sound(heap', iter')
    BY <1>1, <1>2 DEF SaidTrue
<1> QED
    BY <1>6, <1>9, <1>15, <1>16, <1>17 DEF Inv

\* The members that are not asked stay as they are.
LEMMA OthersKept ==
    ASSUME Inv, call # NoCall, NEW n \in Members, n # call.member,
           NEW g \in Heaps, NEW s2 \in Scratches, NEW sp2,
           g.bump = heap.bump, heap.size <= g.size,
           s2.member[n] = scratch.member[n], s2.epoch = scratch.epoch, sp2[n] = spent[n],
           HasRegion(scratch, n) =>
               /\ s2.topEpoch = s2.epoch /\ scratch.top <= s2.top
               /\ \A x \in Addresses : scratch.member[n].base <= x /\ x < scratch.member[n].end =>
                     g.mem[x] = heap.mem[x]
    PROVE  /\ MemberInv(g, s2, sp2, iter[call.it].text, call.from, n, Due(n), NoWalk)
           /\ Due(n) = IF n <= call.member THEN call.cand + 1 ELSE call.cand
           /\ WalkOf(n) = NoWalk
<1> DEFINE t == iter[call.it].text
           d == Due(n)
<1>1. /\ InCall /\ t \in SetTexts /\ call.from \in Nat /\ call.cand \in Nat /\ call.member \in Nat
      /\ heap \in Heaps /\ heap.size <= MaxWords /\ scratch \in Scratches
    BY CallTypes
<1>2. n \in Nat
    BY MemberTypes
<1>3. Due(n) = IF n <= call.member THEN call.cand + 1 ELSE call.cand
    BY <1>1, <1>2 DEF Due
<1>4. d \in Nat
    BY <1>1 DEF Due
<1>5. WalkOf(n) = NoWalk
    BY DEF WalkOf
<1>6. MemberInv(heap, scratch, spent, t, call.from, n, d, NoWalk)
    BY <1>1, <1>5 DEF InCall
<1> HIDE DEF d, t, NoWalk
<1>7. MemberInv(g, s2, sp2, t, call.from, n, d, NoWalk)
    BY <1>1, <1>4, <1>6, MemberFrame
<1> QED
    BY <1>3, <1>5, <1>7 DEF d, t

\* A member with a region has tripped, and its region is below the top.
LEMMA RegionsBelow ==
    ASSUME Inv, call # NoCall, NEW n \in Members, HasRegion(scratch, n)
    PROVE  LET r == scratch.member[n] IN
           /\ scratch.topEpoch = scratch.epoch /\ Tripped(scratch, n)
           /\ r.end <= scratch.top /\ r.end <= heap.size /\ heap.bump <= r.base /\ r.base <= r.end
           /\ \A x \in r.base..(r.end - 1) : x \in Addresses
<1>1. /\ InCall /\ iter[call.it].text \in SetTexts /\ call.from \in Nat /\ call.cand \in Nat
      /\ heap \in Heaps /\ heap.size <= MaxWords /\ scratch \in Scratches
    BY CallTypes
<1>2. Placement(heap, scratch, iter[call.it].text, call.from, n, Due(n))
    BY <1>1 DEF InCall, MemberInv
<1>3. Due(n) \in Nat
    BY <1>1 DEF Due
<1>4. LET r == scratch.member[n] IN
           /\ r.base \in Nat /\ r.origin \in Nat /\ r.end \in Nat /\ r.cleared \in Nat
           /\ r.base <= r.cleared /\ r.cleared <= r.end /\ heap.bump <= r.base
           /\ \A x \in r.base..(r.end - 1) : x \in Addresses
    BY <1>1, <1>2, <1>3, PlacementTypes
<1> QED
    BY <1>2, <1>4 DEF Placement

\* The pops stay within the budget of the host call.
LEMMA BudgetPaid ==
    ASSUME NEW len \in Nat, NEW from \in Nat, NEW c \in Nat, from <= c, c <= len,
           NEW old \in Nat, NEW left \in Nat, NEW pops \in Nat, pops <= left, NEW rest \in Nat,
           rest <= left - pops,
           \/ old + left <= (len - from + 1) * Factor
           \/ old = 0 /\ left = ((len - c) + 1) * Factor
    PROVE  (old + pops) + rest <= (len - from + 1) * Factor
<1> DEFINE a == (len - c) + 1
           b == len - from + 1
<1>1. a \in Nat /\ b \in Nat /\ a <= b /\ Factor \in Nat
    BY MemberTypes
<1> HIDE DEF a, b
<1>2. a * Factor <= b * Factor /\ a * Factor \in Nat /\ b * Factor \in Nat
    BY <1>1, Products
<1> DEFINE x == a * Factor
           y == b * Factor
<1>3. x <= y /\ x \in Nat /\ y \in Nat
    BY <1>2
<1>4. old + left <= y \/ (old = 0 /\ left = x)
    BY DEF a, b
<1> HIDE DEF x, y
<1>5. (old + pops) + rest <= y
    BY <1>3, <1>4
<1> QED
    BY <1>5 DEF y, b

\* What the ordinary body pays out of what is left.
LEMMA PopsPaid ==
    ASSUME NEW fits \in Nat, NEW steps \in Nat, NEW cost \in Nat, NEW left \in Nat, left >= 1,
           NEW fails \in BOOLEAN
    PROVE  LET pops == IF fits < steps THEN Smaller(fits, 1)
                       ELSE IF fails THEN Smaller(cost, left) ELSE 0
               all == fits < steps \/ (fails /\ cost >= left)
               rest == IF all THEN 0 ELSE left - pops
           IN  pops \in Nat /\ pops <= left /\ rest \in Nat /\ rest <= left - pops
    BY DEF Smaller

\* The ordinary body leaves what is held and the regions alone.
LEMMA OrdinaryLeaves ==
    ASSUME Inv, call # NoCall, call.pos = NoWalk, ~Tripped(scratch, call.member)
    PROVE  LET m == call.member  t == iter[call.it].text
               o == Ordinary(heap, scratch, t, m, call.cand)
               sp == [spent EXCEPT ![m].pops = @ + o.pops]
           IN  /\ Sound(o.heap, iter) /\ o.scratch \in Scratches /\ sp \in [Members -> Spendings]
               /\ o.heap.bump = heap.bump /\ heap.size <= o.heap.size /\ o.heap \in Heaps
               /\ o.scratch.epoch = scratch.epoch /\ o.scratch.topEpoch = scratch.epoch
               /\ heap.bump <= o.scratch.top
               /\ \A n \in Members : n # m => /\ o.scratch.member[n] = scratch.member[n]
                                              /\ sp[n] = spent[n]
               /\ \A n \in Members : HasRegion(scratch, n) =>
                     /\ scratch.top <= o.scratch.top /\ n # m
                     /\ \A x \in Addresses :
                           x < scratch.member[n].end => o.heap.mem[x] = heap.mem[x]
               /\ o.scratch.member[m].memoEpoch = scratch.member[m].memoEpoch
               /\ o.scratch.member[m].budgetEpoch = scratch.epoch
               /\ ~HasRegion(scratch, m)
               /\ sp[m].filled = 0 /\ sp[m].walked = 0 /\ sp[m].hits = spent[m].hits
               /\ Within(o.scratch, sp, t, call.from, m)
<1> DEFINE m == call.member
           t == iter[call.it].text
           c == call.cand
           span == t.len - c
           s1 == Budgeted(scratch, m, span)
           s == Based(s1, heap)
           base == AlignUp(s.top)
           steps == Stop(t, m, c) - c
           fits == Fits(heap, base, steps)
           left == s.member[m].budget
           cost == steps * Charge[m]
           fails == Truth(t, m, c) = NoMatch
           pops == IF fits < steps THEN Smaller(fits, 1)
                   ELSE IF fails THEN Smaller(cost, left) ELSE 0
           all == fits < steps \/ (fails /\ cost >= left)
           rest == IF all THEN 0 ELSE left - pops
           k == [s EXCEPT !.member[m].budget = rest]
           g == Framed(heap, base, fits)
           sp == [spent EXCEPT ![m].pops = @ + pops]
<1>1. /\ InCall /\ t \in SetTexts /\ call.from \in Nat /\ c \in Nat /\ call.from <= c /\ c <= t.len
      /\ m \in Members /\ heap \in Heaps /\ Shaped(heap) /\ scratch \in Scratches
      /\ spent \in [Members -> Spendings] /\ Sound(heap, iter) /\ t.len \in Nat
    BY CallTypes
<1>2. Ordinary(heap, scratch, t, m, c) = [heap |-> g, scratch |-> k, pops |-> pops, trips |-> all]
    BY DEF Ordinary
<1>3. span \in Nat
    BY <1>1
<1>4. ~HasRegion(scratch, m)
    BY <1>1, RegionsBelow
<1>5. spent[m].filled = 0 /\ spent[m].walked = 0 /\ Within(scratch, spent, t, call.from, m)
    BY <1>1, <1>4 DEF InCall, MemberInv
<1> HIDE DEF m, t, c, span
<1>6. /\ s1 \in Scratches /\ s1.epoch = scratch.epoch /\ s1.topEpoch = scratch.topEpoch
      /\ s1.top = scratch.top
      /\ \A n \in Members : n # m => s1.member[n] = scratch.member[n]
      /\ s1.member[m].budgetEpoch = scratch.epoch
      /\ s1.member[m].memoEpoch = scratch.member[m].memoEpoch
      /\ s1.member[m].budget = IF scratch.member[m].budgetEpoch = scratch.epoch
                               THEN scratch.member[m].budget ELSE (span + 1) * Factor
    BY Z3, ZenonT(60), <1>1, <1>3, BudgetedIs
<1> HIDE DEF s1
<1>7. /\ s \in Scratches /\ s.epoch = s1.epoch /\ s.topEpoch = s1.epoch /\ s.member = s1.member
      /\ heap.bump <= s.top /\ (s1.topEpoch = s1.epoch => s.top = s1.top)
    <2>1. s1.topEpoch = s1.epoch => heap.bump <= s1.top
        BY <1>1, <1>6 DEF InCall, RegionsApart
    <2> QED
        BY <1>1, <1>6, <2>1, BasedIs
<1> HIDE DEF s
<1>8. s.top \in Nat /\ heap.bump \in Nat /\ base \in Nat /\ s.top <= base /\ heap.bump <= base /\ heap.size \in Nat
    <2>1. s.top \in Nat /\ heap.bump \in Nat /\ heap.size \in Nat
        BY <1>1, <1>7, ScratchTypes, HeapTypes
    <2> QED
        BY <1>7, <2>1, AlignsUp
<1> HIDE DEF base
<1>9. steps \in Nat
    <2>1. c \in 0..t.len
        BY <1>1
    <2> QED
        BY <1>1, <2>1, Stops
<1> HIDE DEF steps
<1>10. fits \in Nat /\ fits <= steps /\ (fits # 0 => CanHold(heap, base + fits))
    BY <1>1, <1>8, <1>9, FitsIn
<1> HIDE DEF fits
<1>11. Spares(heap, g, base) /\ Shaped(g)
    BY <1>1, <1>8, <1>10, Framing
<1> HIDE DEF g
<1>12. Sound(g, iter) /\ g.bump = heap.bump /\ heap.size <= g.size /\ g \in Heaps
    <2>1. base \in Int
        BY <1>8
    <2> QED
        BY <1>1, <1>8, <1>11, <2>1, SoundSpared DEF Spares
<1>13. left \in Nat /\ left >= 1
    <2>1. left \in Nat
        BY <1>1, <1>7, ScratchTypes
    <2>2. left = s1.member[m].budget
        BY <1>7
    <2>3. CASE scratch.member[m].budgetEpoch = scratch.epoch
        BY <1>6, <2>1, <2>2, <2>3 DEF Tripped, m
    <2>4. CASE scratch.member[m].budgetEpoch # scratch.epoch
        <3>1. left = (span + 1) * Factor
            BY <1>6, <2>2, <2>4
        <3>2. Factor \in Nat /\ Factor > 0 /\ 1 * Factor <= (span + 1) * Factor /\ 1 * Factor = Factor
            <4>1. Factor \in Nat /\ Factor > 0 /\ span + 1 \in Nat /\ 1 <= span + 1
                BY <1>3, MemberTypes
            <4> QED
                BY <4>1, Products
        <3> HIDE DEF left
        <3> QED
            BY <2>1, <3>1, <3>2
    <2> QED
        BY <2>3, <2>4
<1>14. cost \in Nat /\ fails \in BOOLEAN
    BY <1>1, <1>9, MemberTypes, Products
<1>15. \/ spent[m].pops + left <= (t.len - call.from + 1) * Factor
       \/ spent[m].pops = 0 /\ left = ((t.len - c) + 1) * Factor
    <2>1. left = s1.member[m].budget
        BY <1>7
    <2> HIDE DEF left
    <2>2. CASE scratch.member[m].budgetEpoch = scratch.epoch
        BY <1>5, <1>6, <2>1, <2>2 DEF Within
    <2>3. CASE scratch.member[m].budgetEpoch # scratch.epoch
        BY <1>5, <1>6, <2>1, <2>3 DEF Within, span
    <2> QED
        BY <2>2, <2>3
<1> HIDE DEF left, cost, fails
<1>16. pops \in Nat /\ pops <= left /\ rest \in Nat /\ rest <= left - pops
    BY <1>9, <1>10, <1>13, <1>14, PopsPaid
<1> HIDE DEF pops, all, rest
<1>17. (spent[m].pops + pops) + rest <= (t.len - call.from + 1) * Factor
    <2>1. spent[m].pops \in Nat
        BY <1>1, SpendingTypes
    <2> QED
        BY <1>1, <1>13, <1>15, <1>16, <2>1, BudgetPaid
<1>18. /\ k \in Scratches /\ k.epoch = s.epoch /\ k.topEpoch = s.topEpoch /\ k.top = s.top
       /\ \A n \in Members : n # m => k.member[n] = s.member[n]
       /\ k.member[m].budget = rest /\ k.member[m].memoEpoch = s.member[m].memoEpoch
       /\ k.member[m].budgetEpoch = s.member[m].budgetEpoch
    <2> DEFINE r == [s.member[m] EXCEPT !.budget = rest]
    <2>1. s.member[m] \in MemberStates /\ s.member \in [Members -> MemberStates]
        BY <1>1, <1>7, ScratchTypes
    <2>2. /\ r \in MemberStates /\ r.budget = rest /\ r.memoEpoch = s.member[m].memoEpoch
          /\ r.budgetEpoch = s.member[m].budgetEpoch
        BY <1>16, <2>1 DEF MemberStates
    <2>3. k = With(s, m, r)
        BY <1>1, <1>7, <2>1 DEF With, Scratches
    <2> HIDE DEF r, k
    <2> QED
        BY <1>1, <1>7, <2>2, <2>3, WithTypes
<1> HIDE DEF k
<1>19. /\ sp \in [Members -> Spendings] /\ sp[m].pops = spent[m].pops + pops
       /\ sp[m].filled = spent[m].filled /\ sp[m].walked = spent[m].walked
       /\ sp[m].hits = spent[m].hits
       /\ \A n \in Members : n # m => sp[n] = spent[n]
    <2> DEFINE p == spent[m].pops + pops
               y == [spent[m] EXCEPT !.pops = p]
    <2>1. spent[m] \in Spendings /\ p \in Nat
        BY <1>1, <1>16, SpendingTypes
    <2>2. sp = [spent EXCEPT ![m] = y]
        BY <1>1
    <2> HIDE DEF p
    <2>3. y \in Spendings /\ y.pops = p /\ y.filled = spent[m].filled /\ y.walked = spent[m].walked /\ y.hits = spent[m].hits
        BY <2>1 DEF Spendings
    <2> HIDE DEF y, sp
    <2>4. sp \in [Members -> Spendings] /\ sp[m] = y /\ \A n \in Members : n # m => sp[n] = spent[n]
        BY <1>1, <2>2, <2>3
    <2> QED
        BY <2>3, <2>4 DEF p
<1> HIDE DEF sp
<1>20. Within(k, sp, t, call.from, m)
    BY <1>6, <1>7, <1>17, <1>18, <1>19 DEF Within
<1>21. ASSUME NEW n \in Members, HasRegion(scratch, n)
       PROVE  /\ scratch.top <= k.top /\ n # m
              /\ \A x \in Addresses : x < scratch.member[n].end => g.mem[x] = heap.mem[x]
    <2>1. scratch.topEpoch = scratch.epoch /\ scratch.member[n].end <= scratch.top
        BY <1>21, RegionsBelow
    <2>2. s.top = scratch.top
        BY <1>6, <1>7, <2>1
    <2>3. scratch.top \in Nat /\ scratch.member[n].end \in Nat
        BY <1>1, ScratchTypes
    <2>4. ASSUME NEW x \in Addresses, x < scratch.member[n].end PROVE g.mem[x] = heap.mem[x]
        <3>1. x \in Int
            BY Sizes DEF Addresses
        <3>2. x < base
            BY <1>8, <2>1, <2>2, <2>3, <2>4, <3>1
        <3> QED
            BY <1>11, <3>2 DEF Spares
    <2> QED
        BY <1>4, <1>8, <1>18, <1>21, <2>2, <2>3, <2>4
<1>22. heap.bump <= k.top /\ k.epoch = scratch.epoch /\ k.topEpoch = scratch.epoch
    BY <1>6, <1>7, <1>18
<1>23. /\ \A n \in Members : n # m => k.member[n] = scratch.member[n]
       /\ k.member[m].memoEpoch = scratch.member[m].memoEpoch
       /\ k.member[m].budgetEpoch = scratch.epoch
    BY <1>6, <1>7, <1>18
<1> DEFINE o == Ordinary(heap, scratch, t, m, c)
<1>24. o.heap = g /\ o.scratch = k /\ o.pops = pops
    BY <1>2
<1>25. sp = [spent EXCEPT ![m].pops = @ + o.pops]
    BY <1>24 DEF sp
<1> HIDE DEF o
<1>26. /\ Sound(o.heap, iter) /\ o.scratch \in Scratches /\ sp \in [Members -> Spendings]
       /\ o.heap.bump = heap.bump /\ heap.size <= o.heap.size /\ o.heap \in Heaps
       /\ o.scratch.epoch = scratch.epoch /\ o.scratch.topEpoch = scratch.epoch
       /\ heap.bump <= o.scratch.top
       /\ \A n \in Members : n # m => /\ o.scratch.member[n] = scratch.member[n]
                                      /\ sp[n] = spent[n]
       /\ \A n \in Members : HasRegion(scratch, n) =>
             /\ scratch.top <= o.scratch.top /\ n # m
             /\ \A x \in Addresses :
                   x < scratch.member[n].end => o.heap.mem[x] = heap.mem[x]
       /\ o.scratch.member[m].memoEpoch = scratch.member[m].memoEpoch
       /\ o.scratch.member[m].budgetEpoch = scratch.epoch
       /\ ~HasRegion(scratch, m)
       /\ sp[m].filled = 0 /\ sp[m].walked = 0 /\ sp[m].hits = spent[m].hits
       /\ Within(o.scratch, sp, t, call.from, m)
    BY <1>4, <1>5, <1>12, <1>18, <1>19, <1>20, <1>21, <1>22, <1>23, <1>24
<1> QED
    BY <1>25, <1>26 DEF m, t, c, o

\* A match counts.
LEMMA HitsTypes ==
    ASSUME NEW sp \in [Members -> Spendings], NEW m \in Members
    PROVE  LET g == [sp EXCEPT ![m].hits = @ + 1] IN
           /\ g \in [Members -> Spendings] /\ \A n \in Members : n # m => g[n] = sp[n]
           /\ g[m].pops = sp[m].pops /\ g[m].walked = sp[m].walked /\ g[m].filled = sp[m].filled
           /\ g[m].hits = sp[m].hits + 1
<1> DEFINE p == sp[m].hits + 1
           y == [sp[m] EXCEPT !.hits = p]
           g == [sp EXCEPT ![m].hits = @ + 1]
<1>1. sp[m] \in Spendings /\ p \in Nat
    BY SpendingTypes
<1>2. g = [sp EXCEPT ![m] = y]
    OBVIOUS
<1> HIDE DEF p
<1>3. y \in Spendings /\ y.hits = p /\ y.filled = sp[m].filled /\ y.walked = sp[m].walked /\ y.pops = sp[m].pops
    BY <1>1 DEF Spendings
<1> HIDE DEF y, g
<1>4. g \in [Members -> Spendings] /\ g[m] = y /\ \A n \in Members : n # m => g[n] = sp[n]
    BY <1>2, <1>3
<1> QED
    BY <1>3, <1>4 DEF p, g

\* The ordinary body, whether it answers or trips.
LEMMA OrdinaryRunsStep ==
    ASSUME Inv, OrdinaryRuns
    PROVE  Inv'
<1> DEFINE m == call.member
           i == call.it
           t == iter[i].text
           c == call.cand
           o == Ordinary(heap, scratch, t, m, c)
           sp == [spent EXCEPT ![m].pops = @ + o.pops]
           ans == Truth(t, m, c)
<1>1. call # NoCall /\ call.pos = NoWalk /\ ~Tripped(scratch, m) /\ search' = search
    BY DEF OrdinaryRuns
<1>2. /\ InCall /\ t \in SetTexts /\ c \in Nat /\ c <= t.len /\ t.len \in Nat /\ m \in Members
      /\ m \in Nat /\ Sound(heap, iter) /\ call \in Calls /\ scratch \in Scratches
      /\ iter \in [Iters -> Iterators] /\ i \in LiveIn(iter)
    BY <1>1, CallTypes
<1>3. /\ Sound(o.heap, iter) /\ o.scratch \in Scratches /\ sp \in [Members -> Spendings]
      /\ o.heap.bump = heap.bump /\ heap.size <= o.heap.size /\ o.heap \in Heaps
      /\ o.scratch.epoch = scratch.epoch /\ o.scratch.topEpoch = scratch.epoch
      /\ heap.bump <= o.scratch.top
      /\ \A n \in Members : n # m => /\ o.scratch.member[n] = scratch.member[n]
                                     /\ sp[n] = spent[n]
      /\ \A n \in Members : HasRegion(scratch, n) =>
            /\ scratch.top <= o.scratch.top /\ n # m
            /\ \A x \in Addresses :
                  x < scratch.member[n].end => o.heap.mem[x] = heap.mem[x]
      /\ o.scratch.member[m].memoEpoch = scratch.member[m].memoEpoch
      /\ o.scratch.member[m].budgetEpoch = scratch.epoch
      /\ ~HasRegion(scratch, m)
      /\ sp[m].filled = 0 /\ sp[m].walked = 0 /\ sp[m].hits = spent[m].hits
      /\ Within(o.scratch, sp, t, call.from, m)
    BY <1>1, OrdinaryLeaves
<1>4. IF o.trips
      THEN /\ heap' = o.heap /\ scratch' = o.scratch /\ spent' = sp
           /\ iter' = iter /\ reader' = reader /\ call' = call /\ said' = said
      ELSE Answers(ans, o.heap, o.scratch, sp)
    BY DEF OrdinaryRuns
<1> HIDE DEF o, sp
\* What holds of the globals s2 and the spending sp2 that the body, or its match, leaves.
<1>5. ASSUME NEW s2 \in Scratches, NEW sp2 \in [Members -> Spendings],
             s2.epoch = scratch.epoch, s2.topEpoch = scratch.epoch, s2.top = o.scratch.top,
             \A n \in Members : n # m => s2.member[n] = scratch.member[n] /\ sp2[n] = spent[n],
             s2.member[m].memoEpoch = scratch.member[m].memoEpoch,
             s2.member[m].budgetEpoch = scratch.epoch,
             s2.member[m].budget = o.scratch.member[m].budget,
             sp2[m].pops = sp[m].pops, sp2[m].filled = 0, sp2[m].walked = 0
      PROVE  /\ EpochsBefore(s2) /\ RegionsApart(o.heap, s2)
             /\ \A n \in Members : n # m =>
                   /\ MemberInv(o.heap, s2, sp2, t, call.from, n, Due(n), NoWalk)
                   /\ Due(n) = IF n <= call.member THEN call.cand + 1 ELSE call.cand
                   /\ WalkOf(n) = NoWalk
             /\ \A d, p : MemberInv(o.heap, s2, sp2, t, call.from, m, d, p)
             /\ \A n \in Members : sp2[n].filled < sp2[n].walked + Chunk * (sp2[n].hits + 1)
    <2>1. EpochsBefore(s2)
        <3>1. EpochsBefore(scratch) /\ scratch.epoch \in Nat
            BY <1>2, ScratchTypes DEF Inv
        <3> QED
            BY <1>5, <3>1 DEF EpochsBefore
    <2>2. \A n \in Members : HasRegion(s2, n) <=> HasRegion(scratch, n)
        BY <1>5 DEF HasRegion
    <2>3. RegionsApart(o.heap, s2)
        <3>1. RegionsApart(heap, scratch)
            BY <1>2 DEF InCall
        <3> QED
            BY <1>3, <1>5, <2>2, <3>1 DEF RegionsApart
    <2>4. ASSUME NEW n \in Members, n # m
          PROVE  /\ MemberInv(o.heap, s2, sp2, t, call.from, n, Due(n), NoWalk)
                 /\ Due(n) = IF n <= call.member THEN call.cand + 1 ELSE call.cand
                 /\ WalkOf(n) = NoWalk
        <3>1. s2.member[n] = scratch.member[n] /\ sp2[n] = spent[n]
            BY <1>5, <2>4
        <3>2. HasRegion(scratch, n) =>
               /\ s2.topEpoch = s2.epoch /\ scratch.top <= s2.top
               /\ \A x \in Addresses : scratch.member[n].base <= x /\ x < scratch.member[n].end =>
                     o.heap.mem[x] = heap.mem[x]
            BY <1>3, <1>5
        <3> HIDE DEF NoWalk
        <3> QED
            BY <1>1, <1>3, <1>5, <2>4, <3>1, <3>2, OthersKept
    <2>5. Within(s2, sp2, t, call.from, m)
        BY <1>3, <1>5 DEF Within
    <2>6. \A d, p : MemberInv(o.heap, s2, sp2, t, call.from, m, d, p)
        <3> TAKE d, p
        <3>1. ~HasRegion(s2, m) /\ sp2[m].filled = 0 /\ sp2[m].walked = 0
            BY <1>2, <1>3, <1>5, <2>2
        <3> HIDE DEF m
        <3> QED
            BY <2>5, <3>1 DEF MemberInv
    <2>7. ASSUME NEW n \in Members
          PROVE  sp2[n].filled < sp2[n].walked + Chunk * (sp2[n].hits + 1)
        <3>1. CASE n = m
            BY <1>2, <1>3, <1>5, <2>6, <3>1, FillsPaid
        <3>2. CASE n # m
            BY <1>2, <1>3, <1>5, <2>4, <3>2, FillsPaid
        <3> QED
            BY <3>1, <3>2
    <2> QED
        BY <2>1, <2>3, <2>4, <2>6, <2>7
<1>6. CASE o.trips
    <2>1. /\ heap' = o.heap /\ scratch' = o.scratch /\ spent' = sp
          /\ iter' = iter /\ reader' = reader /\ call' = call /\ said' = said
        BY <1>4, <1>6
    <2>2. /\ EpochsBefore(o.scratch) /\ RegionsApart(o.heap, o.scratch)
          /\ \A n \in Members : n # m =>
                /\ MemberInv(o.heap, o.scratch, sp, t, call.from, n, Due(n), NoWalk)
                /\ WalkOf(n) = NoWalk
          /\ \A d, p : MemberInv(o.heap, o.scratch, sp, t, call.from, m, d, p)
          /\ \A n \in Members : sp[n].filled < sp[n].walked + Chunk * (sp[n].hits + 1)
        BY <1>3, <1>5
    <2>3. ASSUME NEW n \in Members
          PROVE  MemberInv(heap', scratch', spent', iter'[call'.it].text, call'.from, n, Due(n)', WalkOf(n)')
        <3>1. Due(n)' = Due(n) /\ WalkOf(n)' = WalkOf(n)
            BY <2>1 DEF Due, WalkOf
        <3>2. MemberInv(o.heap, o.scratch, sp, t, call.from, n, Due(n), WalkOf(n))
            BY <2>2
        <3> QED
            BY <2>1, <3>1, <3>2
    <2>4. CallInv' /\ WalkInv'
        BY <1>1, <1>2, <2>1 DEF InCall, CallInv, WalkInv, Live
    <2>5. InCall'
        BY <2>1, <2>2, <2>3, <2>4 DEF InCall
    <2>6. TypeInv'
        BY <1>1, <1>3, <2>1 DEF Inv, TypeInv
    <2>7. FillsBounded' /\ SaidTrue' /\ Reads(iter', reader') /\ Sound(heap', iter') /\ EpochsBefore(scratch')
        BY <1>1, <1>3, <2>1, <2>2 DEF FillsBounded, SaidTrue, Inv
    <2> QED
        BY <2>5, <2>6, <2>7 DEF Inv
<1>7. CASE ~o.trips
    <2>1. Answers(ans, o.heap, o.scratch, sp)
        BY <1>4, <1>7
    <2>2. ans \in Nat \cup {NoMatch} /\ ans \in Answered /\ ans # Unknown
        <3>1. c \in 0..t.len
            BY <1>2
        <3>2. ans \in Nat \cup {NoMatch}
            BY <1>2, <3>1, TruthAt
        <3> QED
            BY <3>2 DEF Answered, NoMatch, Unknown
    <2> HIDE DEF ans
    <2>3. /\ scratch' \in Scratches /\ scratch'.epoch = scratch.epoch /\ scratch'.topEpoch = scratch.epoch
          /\ scratch'.top = o.scratch.top
          /\ \A n \in Members : n # m => scratch'.member[n] = scratch.member[n]
          /\ scratch'.member[m].memoEpoch = scratch.member[m].memoEpoch
          /\ scratch'.member[m].budgetEpoch = scratch.epoch
          /\ scratch'.member[m].budget = o.scratch.member[m].budget
        <3>1. CASE ans >= 0
            <4>1. scratch' = Matched(o.scratch, m, c)
                BY <2>1, <3>1 DEF Answers
            <4>2. o.scratch \in Scratches /\ m \in Members /\ c \in Nat
                BY <1>2, <1>3
            <4> DEFINE b == Matched(o.scratch, m, c)
            <4> HIDE DEF m, c
            <4>3. /\ b \in Scratches /\ b.epoch = o.scratch.epoch /\ b.topEpoch = o.scratch.topEpoch
                  /\ b.top = o.scratch.top
                  /\ \A n \in Members : n # m => b.member[n] = o.scratch.member[n]
                  /\ b.member[m].memoEpoch = o.scratch.member[m].memoEpoch
                  /\ b.member[m].budgetEpoch = o.scratch.member[m].budgetEpoch
                  /\ b.member[m].budget = o.scratch.member[m].budget
                BY <4>2, MatchedIs
            <4> HIDE DEF b
            <4>4. scratch' = b
                BY <4>1 DEF b
            <4> QED
                BY <1>3, <4>3, <4>4
        <3>2. CASE ~(ans >= 0)
            <4>1. scratch' = o.scratch
                BY <2>1, <3>2 DEF Answers
            <4> QED
                BY <1>3, <4>1
        <3> QED
            BY <3>1, <3>2
    <2>4. /\ spent' \in [Members -> Spendings] /\ spent'[m].pops = sp[m].pops
          /\ spent'[m].filled = 0 /\ spent'[m].walked = 0
          /\ \A n \in Members : n # m => spent'[n] = spent[n]
        <3>1. CASE ans >= 0
            <4>1. spent' = [sp EXCEPT ![m].hits = @ + 1]
                BY <2>1, <3>1 DEF Answers
            <4> QED
                BY <1>2, <1>3, <4>1, HitsTypes
        <3>2. CASE ~(ans >= 0)
            <4>1. spent' = sp
                BY <2>1, <3>2 DEF Answers
            <4> QED
                BY <1>3, <4>1
        <3> QED
            BY <3>1, <3>2
    <2>5. /\ EpochsBefore(scratch') /\ RegionsApart(o.heap, scratch')
          /\ \A n \in Members : n # m =>
                /\ MemberInv(o.heap, scratch', spent', t, call.from, n, Due(n), NoWalk)
                /\ Due(n) = IF n <= call.member THEN call.cand + 1 ELSE call.cand
          /\ \A d, p : MemberInv(o.heap, scratch', spent', t, call.from, m, d, p)
          /\ \A n \in Members : spent'[n].filled < spent'[n].walked + Chunk * (spent'[n].hits + 1)
        BY <1>5, <2>3, <2>4
    <2>6. FillsBounded'
        BY <2>5 DEF FillsBounded
    <2>7. \A n \in Members :
                MemberInv(o.heap, scratch', spent', iter[call.it].text, call.from, n,
                          IF n <= call.member THEN call.cand + 1 ELSE call.cand, NoWalk)
        BY <2>5
    <2>8. ans \in {Unknown, Truth(iter[call.it].text, call.member, call.cand)}
        BY DEF ans
    <2> QED
        BY <1>1, <1>3, <2>1, <2>2, <2>3, <2>4, <2>5, <2>6, <2>7, <2>8, AnswersStep
<1> QED
    BY <1>6, <1>7

\* A member that is due at cand needs a region only when it has none.
LEMMA NeedsIs ==
    ASSUME Inv, call # NoCall
    PROVE  /\ NeedsRegion(scratch, call.member, call.cand) <=> ~HasRegion(scratch, call.member)
           /\ Due(call.member) = call.cand /\ WalkOf(call.member) = call.pos
<1> DEFINE m == call.member
<1>1. InCall /\ scratch \in Scratches /\ m \in Members /\ call.cand \in Nat /\ m \in Nat
    BY CallTypes
<1>2. Due(m) = call.cand /\ WalkOf(m) = call.pos
    BY <1>1 DEF Due, WalkOf
<1>3. HasRegion(scratch, m) => scratch.member[m].origin <= call.cand
    BY <1>1, <1>2 DEF InCall, MemberInv, Placement
<1>4. scratch.member[m].origin \in Nat
    BY <1>1, ScratchTypes
<1> HIDE DEF m
<1>5. NeedsRegion(scratch, m, call.cand) <=> ~HasRegion(scratch, m)
    BY <1>1, <1>3, <1>4 DEF NeedsRegion, HasRegion
<1> QED
    BY <1>2, <1>5 DEF m

\* The fallback's entry places the member's region, above the others, or finds it.
LEMMA RegionedIs ==
    ASSUME Inv, call # NoCall, NEW m, m = call.member, NEW c, c = call.cand,
           NEW len, len = iter[call.it].text.len
    PROVE  LET s == Regioned(scratch, heap, m, c, len)  r == s.member[m] IN
           /\ s \in Scratches /\ s.epoch = scratch.epoch /\ s.topEpoch = scratch.epoch
           /\ heap.bump <= s.top
           /\ scratch.topEpoch = scratch.epoch => scratch.top <= s.top
           /\ \A n \in Members : n # m => s.member[n] = scratch.member[n]
           /\ r.budgetEpoch = scratch.member[m].budgetEpoch /\ r.budget = scratch.member[m].budget
           /\ r.memoEpoch = scratch.epoch
           /\ HasRegion(scratch, m) => s = scratch
           /\ ~HasRegion(scratch, m) =>
                /\ r.origin = c /\ r.cleared = r.base /\ r.end = r.base + (len - c) + 1
                /\ s.top = r.end /\ heap.bump <= r.base
                /\ scratch.topEpoch = scratch.epoch => scratch.top <= r.base
           /\ Based(scratch, heap) \in Scratches /\ Based(scratch, heap).epoch = scratch.epoch
           /\ Based(scratch, heap).topEpoch = scratch.epoch
           /\ Based(scratch, heap).member = scratch.member
<1> DEFINE b == Based(scratch, heap)
           p == Placed(b, heap, m, c, len)
           s == Regioned(scratch, heap, m, c, len)
<1>1. /\ InCall /\ scratch \in Scratches /\ m \in Members /\ c \in Nat /\ len \in Nat /\ c <= len
      /\ Sound(heap, iter) /\ heap \in Heaps
    BY CallTypes
<1>2. NeedsRegion(scratch, m, c) <=> ~HasRegion(scratch, m)
    BY NeedsIs
<1>3. /\ b \in Scratches /\ b.epoch = scratch.epoch /\ b.topEpoch = scratch.epoch
      /\ b.member = scratch.member /\ heap.bump <= b.top
      /\ scratch.topEpoch = scratch.epoch => b.top = scratch.top
    <2>1. scratch.topEpoch = scratch.epoch => heap.bump <= scratch.top
        BY <1>1 DEF InCall, RegionsApart
    <2> QED
        BY <1>1, <2>1, BasedIs
<1>4. CASE HasRegion(scratch, m)
    <2>1. s = scratch
        BY <1>2, <1>4 DEF Regioned
    <2>2. scratch.topEpoch = scratch.epoch
        BY <1>1, <1>4, RegionsBelow
    <2>3. scratch.member[m].memoEpoch = scratch.epoch
        BY <1>4 DEF HasRegion
    <2>4. heap.bump <= scratch.top
        BY <1>1, <2>2 DEF InCall, RegionsApart
    <2>5. scratch.top <= scratch.top
        BY <1>1, ScratchTypes
    <2> HIDE DEF s, b
    <2>6. \A n \in Members : n # m => s.member[n] = scratch.member[n]
        BY <2>1
    <2> QED
        BY <1>1, <1>3, <1>4, <2>1, <2>2, <2>3, <2>4, <2>5, <2>6 DEF s, b
<1>5. CASE ~HasRegion(scratch, m)
    <2>1. s = p
        BY <1>2, <1>5 DEF Regioned
    <2>2. /\ b.top \in Nat /\ AlignUp(b.top) \in Nat /\ b.top <= AlignUp(b.top) /\ heap.bump \in Nat
          /\ scratch.top \in Nat
        BY <1>1, <1>3, AlignsUp, ScratchTypes, HeapTypes
    <2> HIDE DEF b
    <2>3. /\ p \in Scratches /\ p.epoch = b.epoch /\ p.topEpoch = b.topEpoch
          /\ \A n \in Members : n # m => p.member[n] = b.member[n]
          /\ p.member[m].base = AlignUp(b.top) /\ p.member[m].origin = c
          /\ p.member[m].end = p.member[m].base + (len - c) + 1
          /\ p.member[m].cleared = p.member[m].base /\ p.member[m].memoEpoch = b.epoch
          /\ p.member[m].budgetEpoch = b.member[m].budgetEpoch
          /\ p.member[m].budget = b.member[m].budget
          /\ p.top = p.member[m].end
        <3>1. b \in Scratches /\ m \in Members /\ c \in Nat /\ len \in Nat /\ c <= len
            BY <1>1, <1>3
        <3>2. LET g == Placed(b, heap, m, c, len)  r == g.member[m] IN
              /\ g \in Scratches /\ g.epoch = b.epoch /\ g.topEpoch = b.topEpoch
              /\ \A n \in Members : n # m => g.member[n] = b.member[n]
              /\ r.base = AlignUp(b.top) /\ r.origin = c /\ r.end = r.base + (len - c) + 1
              /\ r.cleared = r.base /\ r.memoEpoch = b.epoch
              /\ r.budgetEpoch = b.member[m].budgetEpoch /\ r.budget = b.member[m].budget
              /\ g.top = r.end
            BY Z3, SMT, <3>1, PlacedIs
        <3> QED
            BY <3>2
    <2> HIDE DEF p
    <2>4. /\ heap.bump <= p.member[m].base /\ heap.bump <= p.top
          /\ scratch.topEpoch = scratch.epoch => scratch.top <= p.member[m].base
          /\ scratch.topEpoch = scratch.epoch => scratch.top <= p.top
        <3> DEFINE x == p.member[m].base
                   y == p.top
                   z == AlignUp(b.top)
        <3>1. x = z /\ y = x + (len - c) + 1
            BY <2>3
        <3>2. z \in Nat /\ b.top <= z /\ b.top \in Nat
            BY <2>2
        <3> HIDE DEF x, y, z
        <3>3. /\ heap.bump <= x /\ heap.bump <= y
              /\ scratch.topEpoch = scratch.epoch => scratch.top <= x
              /\ scratch.topEpoch = scratch.epoch => scratch.top <= y
            BY <1>1, <1>3, <2>2, <3>1, <3>2
        <3> QED
            BY <3>3 DEF x, y
    <2> HIDE DEF s
    <2> QED
        BY <1>3, <1>5, <2>1, <2>3, <2>4 DEF s, b
<1> QED
    BY <1>4, <1>5

\* The entry of the fallback, its region placed or kept.
LEMMA FallbackBeginsStep ==
    ASSUME Inv, FallbackBegins
    PROVE  Inv'
<1> DEFINE m == call.member
           i == call.it
           t == iter[i].text
           c == call.cand
           s == Regioned(scratch, heap, m, c, t.len)
           b == Based(scratch, heap)
           first == StackBase(s) + 1
           g == Hold(heap, first)
           r == s.member[m]
<1>1. call # NoCall /\ call.pos = NoWalk /\ Tripped(scratch, m) /\ search' = search
    BY DEF FallbackBegins
<1>2. /\ InCall /\ t \in SetTexts /\ c \in Nat /\ c <= t.len /\ t.len \in Nat /\ m \in Members
      /\ m \in Nat /\ Sound(heap, iter) /\ call \in Calls /\ scratch \in Scratches
      /\ iter \in [Iters -> Iterators] /\ i \in LiveIn(iter) /\ heap \in Heaps /\ Shaped(heap)
      /\ spent \in [Members -> Spendings] /\ call.from \in Nat /\ call.from <= c
      /\ iter[i].len = t.len /\ heap.size <= MaxWords
    BY <1>1, CallTypes
<1>3. EpochsBefore(scratch) /\ scratch.epoch \in Nat /\ scratch.top \in Nat /\ heap.bump \in Nat /\ heap.size \in Nat
    BY <1>2, ScratchTypes, HeapTypes DEF Inv
<1>4. /\ s \in Scratches /\ s.epoch = scratch.epoch /\ s.topEpoch = scratch.epoch
      /\ heap.bump <= s.top
      /\ scratch.topEpoch = scratch.epoch => scratch.top <= s.top
      /\ \A n \in Members : n # m => s.member[n] = scratch.member[n]
      /\ r.budgetEpoch = scratch.member[m].budgetEpoch /\ r.budget = scratch.member[m].budget
      /\ r.memoEpoch = scratch.epoch
      /\ HasRegion(scratch, m) => s = scratch
      /\ ~HasRegion(scratch, m) =>
           /\ r.origin = c /\ r.cleared = r.base /\ r.end = r.base + (t.len - c) + 1
           /\ s.top = r.end /\ heap.bump <= r.base
           /\ scratch.topEpoch = scratch.epoch => scratch.top <= r.base
      /\ b \in Scratches /\ b.epoch = scratch.epoch /\ b.topEpoch = scratch.epoch
      /\ b.member = scratch.member
    <2> DEFINE len == t.len
    <2>1. m = call.member /\ c = call.cand /\ len = iter[call.it].text.len
        OBVIOUS
    <2> HIDE DEF len, m, c
    <2> QED
        BY Z3, SMT, <1>1, <2>1, RegionedIs DEF len
<1>5. NeedsRegion(scratch, m, c) <=> ~HasRegion(scratch, m)
    BY <1>1, NeedsIs
<1>6. IF CanHold(heap, first)
      THEN heap' = g /\ scratch' = s /\ call' = [call EXCEPT !.pos = c]
           /\ iter' = iter /\ reader' = reader /\ said' = said /\ spent' = spent
      ELSE Answers(Unknown, heap, Refused(scratch, heap, m, c, t.len), spent)
    BY DEF FallbackBegins
<1>7. Refused(scratch, heap, m, c, t.len) \in {s, b}
    BY DEF Refused
<1> HIDE DEF s, b
<1>8. EpochsBefore(s) /\ EpochsBefore(b)
    <2>1. EpochsBefore(b)
        BY <1>3, <1>4 DEF EpochsBefore
    <2>2. ASSUME NEW n \in Members
          PROVE  s.member[n].budgetEpoch <= s.epoch /\ s.member[n].memoEpoch <= s.epoch
        <3>1. CASE n = m
            BY <1>2, <1>3, <1>4, <3>1 DEF EpochsBefore
        <3>2. CASE n # m
            BY <1>3, <1>4, <3>2 DEF EpochsBefore
        <3> QED
            BY <3>1, <3>2
    <2> QED
        BY <1>3, <1>4, <2>1, <2>2 DEF EpochsBefore
<1>9. CASE ~CanHold(heap, first)
    <2> DEFINE f == Refused(scratch, heap, m, c, t.len)
    <2>1. Answers(Unknown, heap, f, spent)
        BY <1>6, <1>9
    <2>2. f \in Scratches /\ EpochsBefore(f)
        BY <1>4, <1>7, <1>8
    <2> HIDE DEF f
    <2>3. scratch' = f /\ spent' = spent
        BY <2>1 DEF Answers, Unknown
    <2>4. FillsBounded'
        BY <2>3 DEF Inv, FillsBounded
    <2>5. Unknown \in Answered
        BY DEF Answered
    <2> QED
        BY <1>1, <1>2, <2>1, <2>2, <2>3, <2>4, <2>5, AnswersStep
<1>10. CASE CanHold(heap, first)
    <2>1. /\ heap' = g /\ scratch' = s /\ iter' = iter /\ reader' = reader /\ said' = said /\ spent' = spent
          /\ call' = [call EXCEPT !.pos = c]
        BY <1>6, <1>10
    <2>2. s.top \in Nat /\ StackBase(s) \in Nat /\ s.top <= StackBase(s) /\ first \in Nat
        <3>1. s.top \in Nat
            BY <1>4 DEF Scratches
        <3>2. AlignUp(s.top) \in Nat /\ s.top <= AlignUp(s.top)
            BY <3>1, AlignsUp
        <3> QED
            BY <3>1, <3>2 DEF StackBase
    <2> HIDE DEF first
    <2>3. /\ Spares(heap, g, heap.bump) /\ Shaped(g) /\ first <= g.size /\ g.mem = heap.mem
        BY <1>2, <1>3, <1>10, <2>2, Holds
    <2> HIDE DEF g
    <2>4. Sound(g, iter) /\ g.bump = heap.bump /\ heap.size <= g.size /\ g \in Heaps /\ g.size \in Nat
        <3>1. heap.bump \in Int /\ heap.bump <= heap.bump
            BY <1>3
        <3>2. Sound(g, iter)
            BY <1>2, <2>3, <3>1, SoundSpared
        <3> QED
            BY <2>3, <3>2, HeapTypes DEF Spares
    <2>5. /\ call' \in Calls /\ call'.it = i /\ call'.from = call.from /\ call'.cand = c
          /\ call'.member = m /\ call'.pos = c /\ call' # NoCall
        <3>1. /\ call' \in Calls /\ call'.it = i /\ call'.from = call.from /\ call'.cand = c
              /\ call'.member = m /\ call'.pos = c
            BY <1>2, <2>1 DEF Calls
        <3>2. NoCall.pos = NoWalk /\ NoWalk \notin Nat
            BY DEF NoCall, NoWalk
        <3> QED
            BY <1>2, <3>1, <3>2
    <2>6. s.top < g.size
        BY <2>2, <2>3, <2>4 DEF first
    <2>7. MemberInv(g, s, spent, t, call.from, m, c, c)
        <3>1. HasRegion(s, m) /\ Tripped(s, m)
            BY <1>1, <1>4 DEF HasRegion, Tripped
        <3>2. c # NoWalk
            BY <1>2 DEF NoWalk
        <3>3. MemberInv(heap, scratch, spent, t, call.from, m, c, NoWalk)
            BY <1>1, <1>2, NeedsIs DEF InCall
        <3>4. Within(s, spent, t, call.from, m)
            BY <1>4, <3>3 DEF MemberInv, Within
        <3>5. CASE HasRegion(scratch, m)
            <4>1. s = scratch
                BY <1>4, <3>5
            <4>2. scratch.topEpoch = scratch.epoch /\ scratch.top <= scratch.top
                BY <1>3, <1>4, <4>1
            <4>3. MemberInv(g, scratch, spent, t, call.from, m, c, NoWalk)
                <5> HIDE DEF m, c, t, NoWalk
                <5> QED
                    BY <1>2, <2>3, <2>4, <3>3, <4>2, MemberFrame
            <4>4. /\ Placement(g, s, t, call.from, m, c) /\ Marked(g, s, t, m, c, NoWalk)
                  /\ \E w \in 0..(t.len + 1) : Paid(g, s, spent, m, c, c, w)
                BY <3>1, <4>1, <4>3 DEF MemberInv
            <4>5. Marked(g, s, t, m, c, c)
                BY SMTT(30), <1>2, <4>4 DEF Marked, NoWalk
            <4> QED
                BY <3>1, <3>2, <3>4, <4>4, <4>5 DEF MemberInv
        <3>6. CASE ~HasRegion(scratch, m)
            <4>1. /\ r.origin = c /\ r.cleared = r.base /\ r.end = r.base + (t.len - c) + 1
                  /\ s.top = r.end /\ heap.bump <= r.base
                BY <1>4, <3>6
            <4>2. r.base \in Nat /\ r.end \in Nat
                BY <1>2, <1>4, ScratchTypes
            <4>3. Placement(g, s, t, call.from, m, c)
                <5>1. r.end <= s.top /\ r.end <= g.size /\ r.base <= r.cleared /\ r.cleared <= r.end
                    BY <1>2, <2>4, <2>6, <4>1, <4>2
                <5>2. call.from <= r.origin /\ r.origin <= c
                    BY <1>2, <4>1
                <5> QED
                    BY <1>4, <2>4, <3>1, <4>1, <5>1, <5>2 DEF Placement
            <4>4. Marked(g, s, t, m, c, c)
                BY <4>1, <4>2 DEF Marked
            <4>5. spent[m].filled = 0 /\ spent[m].walked = 0
                BY <3>3, <3>6 DEF MemberInv
            <4>6. Paid(g, s, spent, m, c, c, 0)
                <5>1. Chunk \in Nat /\ Chunk > 0 /\ spent[m].hits \in Nat /\ Chunk * spent[m].hits \in Nat
                    BY SMTT(30), <1>2, MemberTypes, SpendingTypes
                <5>2. r.cleared - r.base = 0 /\ c - r.origin = 0
                    BY <1>2, <4>1, <4>2
                <5> DEFINE x == Chunk * spent[m].hits
                <5>3. x \in Nat
                    BY <5>1
                <5> HIDE DEF x
                <5>4. spent[m].filled <= spent[m].walked + x + (0 - 0)
                    BY <4>5, <5>3
                <5>5. \A q \in (c - r.origin)..(0 - 1) : q < r.cleared - r.base /\ g.mem[r.base + q] # Zero
                    BY <5>2
                <5> QED
                    BY <5>1, <5>2, <5>4, <5>5 DEF Paid, x
            <4>7. 0 \in 0..(t.len + 1)
                BY <1>2
            <4> QED
                BY <3>1, <3>2, <3>4, <4>3, <4>4, <4>6, <4>7 DEF MemberInv
        <3> QED
            BY <3>5, <3>6
    <2>8. ASSUME NEW n \in Members, n # m
          PROVE  MemberInv(g, s, spent, t, call.from, n, Due(n), NoWalk) /\ WalkOf(n) = NoWalk
        <3>1. HasRegion(scratch, n) =>
               /\ s.topEpoch = s.epoch /\ scratch.top <= s.top
               /\ \A x \in Addresses : scratch.member[n].base <= x /\ x < scratch.member[n].end =>
                     g.mem[x] = heap.mem[x]
            BY <1>1, <1>4, <2>3, RegionsBelow
        <3> HIDE DEF NoWalk
        <3> QED
            BY <1>1, <1>4, <2>4, <2>8, <3>1, OthersKept
    <2>9. ASSUME NEW n \in Members
          PROVE  MemberInv(heap', scratch', spent', iter'[call'.it].text, call'.from, n, Due(n)', WalkOf(n)')
        <3>1. Due(n)' = Due(n)
            BY <2>5 DEF Due
        <3>2. CASE n = m
            <4>1. Due(n)' = c /\ WalkOf(n)' = c
                BY <1>1, <2>5, <3>1, <3>2, NeedsIs DEF WalkOf
            <4> QED
                BY <2>1, <2>5, <2>7, <3>2, <4>1
        <3>3. CASE n # m
            <4>1. WalkOf(n)' = NoWalk
                BY <2>5, <3>3 DEF WalkOf
            <4> QED
                BY <2>1, <2>5, <2>8, <3>1, <3>3, <4>1
        <3> QED
            BY <3>2, <3>3
    <2>10. RegionsApart(heap', scratch')
        <3>1. RegionsApart(heap, scratch)
            BY <1>2 DEF InCall
        <3>2. \A n \in Members : n # m => (HasRegion(s, n) <=> HasRegion(scratch, n))
            BY <1>4 DEF HasRegion
        <3>3. CASE HasRegion(scratch, m)
            <4>1. s = scratch
                BY <1>4, <3>3
            <4> QED
                BY <1>4, <2>1, <2>4, <3>1, <4>1 DEF RegionsApart
        <3>4. CASE ~HasRegion(scratch, m)
            <4>1. ASSUME NEW n \in Members, n # m, HasRegion(scratch, n)
                  PROVE  s.member[n].end <= s.member[m].base
                <5>1. scratch.topEpoch = scratch.epoch /\ scratch.member[n].end <= scratch.top
                    BY <1>1, <4>1, RegionsBelow
                <5>2. scratch.top <= r.base
                    BY <1>4, <3>4, <5>1
                <5>3. scratch.member[n].end \in Nat /\ r.base \in Nat
                    BY <1>2, <1>4, ScratchTypes
                <5>4. s.member[n] = scratch.member[n]
                    BY <1>4, <4>1
                <5> HIDE DEF m
                <5> QED
                    BY <1>3, <5>1, <5>2, <5>3, <5>4
            <4>2. ASSUME NEW n \in Members, NEW k \in Members, n # k, HasRegion(s, n), HasRegion(s, k)
                  PROVE  s.member[n].end <= s.member[k].base \/ s.member[k].end <= s.member[n].base
                <5>1. CASE n = m
                    BY <3>2, <4>1, <4>2, <5>1
                <5>2. CASE k = m
                    BY <3>2, <4>1, <4>2, <5>2
                <5>3. CASE n # m /\ k # m
                    BY <1>4, <3>1, <3>2, <4>2, <5>3 DEF RegionsApart
                <5> QED
                    BY <5>1, <5>2, <5>3
            <4> QED
                BY <1>4, <2>1, <2>4, <4>2 DEF RegionsApart
        <3> QED
            BY <3>3, <3>4
    <2>11. CallInv'
        BY <1>2, <2>1, <2>5 DEF InCall, CallInv, Live
    <2>12. WalkInv'
        <3>1. HasRegion(scratch', m)
            BY <1>4, <2>1 DEF HasRegion
        <3>2. c <= c /\ c <= t.len /\ c..(c - 1) = {}
            BY <1>2
        <3> QED
            BY <1>2, <2>1, <2>5, <3>1, <3>2 DEF WalkInv
    <2>13. InCall'
        BY <2>9, <2>10, <2>11, <2>12 DEF InCall
    <2>14. TypeInv'
        BY <1>1, <1>4, <2>1, <2>4, <2>5 DEF Inv, TypeInv
    <2>15. FillsBounded' /\ SaidTrue' /\ Reads(iter', reader') /\ Sound(heap', iter') /\ EpochsBefore(scratch')
        BY <1>1, <1>8, <2>1, <2>4 DEF FillsBounded, SaidTrue, Inv
    <2> QED
        BY <2>13, <2>14, <2>15 DEF Inv
<1> QED
    BY <1>9, <1>10

\* A walk writes in its own region, from the watermark on and at its own row.
LEMMA WalkHeaps ==
    ASSUME Inv, call # NoCall, call.pos # NoWalk
    PROVE  LET m == call.member
               r == scratch.member[m]
               at == r.base + (call.pos - r.origin)
               cl == IF at < r.cleared THEN r.cleared ELSE ClearEnd(r, at)
               zeroed == Store(heap, r.cleared, cl - r.cleared, Zero)
               marked == Store(zeroed, at, 1, Junk)
           IN
           /\ r.base \in Nat /\ r.origin \in Nat /\ r.end \in Nat /\ r.cleared \in Nat
           /\ at \in Nat /\ cl \in Nat /\ call.pos \in Nat /\ call.cand <= call.pos
           /\ call.pos <= iter[call.it].text.len /\ r.origin <= call.cand /\ HasRegion(scratch, m)
           /\ r.base <= at /\ at < cl /\ r.base <= r.cleared /\ r.cleared <= cl /\ cl <= r.end
           /\ at < r.cleared => cl = r.cleared
           /\ r.cleared <= at => cl <= at + Chunk
           /\ r.end = r.base + (iter[call.it].text.len - r.origin) + 1
           /\ \A x \in r.base..(r.end - 1) : x \in Addresses
           /\ \A x \in Addresses : /\ zeroed.mem[x] = IF r.cleared <= x /\ x < cl THEN Zero ELSE heap.mem[x]
                                   /\ marked.mem[x] = IF x = at THEN Junk ELSE zeroed.mem[x]
           /\ \A g \in {zeroed, marked} :
                 /\ Sound(g, iter) /\ Shaped(g) /\ g \in Heaps /\ g.bump = heap.bump
                 /\ g.size = heap.size
                 /\ \A n \in Members : n # m /\ HasRegion(scratch, n) =>
                       \A x \in Addresses :
                          scratch.member[n].base <= x /\ x < scratch.member[n].end =>
                             g.mem[x] = heap.mem[x]
<1> DEFINE t == iter[call.it].text
           pos == call.pos
           c == call.cand
           m == call.member
           r == scratch.member[m]
           at == r.base + (pos - r.origin)
           cl == IF at < r.cleared THEN r.cleared ELSE ClearEnd(r, at)
           zeroed == Store(heap, r.cleared, cl - r.cleared, Zero)
           marked == Store(zeroed, at, 1, Junk)
<1>1. /\ InCall /\ t \in SetTexts /\ c \in Nat /\ t.len \in Nat /\ m \in Members
      /\ Sound(heap, iter) /\ scratch \in Scratches /\ heap \in Heaps /\ Shaped(heap)
      /\ heap.size <= MaxWords /\ iter[call.it].len = t.len /\ call.from \in Nat /\ pos \in Nat
    BY CallTypes
<1>2. HasRegion(scratch, m) /\ c <= pos /\ pos <= t.len
    BY <1>1 DEF InCall, WalkInv
<1>3. Placement(heap, scratch, t, call.from, m, c)
    BY <1>1, <1>2, NeedsIs DEF InCall, MemberInv
<1>4. /\ r.base \in Nat /\ r.origin \in Nat /\ r.end \in Nat /\ r.cleared \in Nat
      /\ heap.bump \in Nat /\ heap.bump <= r.base /\ r.base <= r.cleared /\ r.cleared <= r.end
      /\ r.origin <= c /\ r.end = r.base + (t.len - r.origin) + 1
      /\ \A x \in r.base..(r.end - 1) : x \in Addresses
    BY <1>1, <1>3, PlacementTypes
<1> HIDE DEF t, pos, c, m, r
<1>5. at \in Nat /\ r.base <= at /\ at < r.end
    BY <1>1, <1>2, <1>4
<1> HIDE DEF at
<1>6. /\ cl \in Nat /\ at < cl /\ r.cleared <= cl /\ cl <= r.end
      /\ at < r.cleared => cl = r.cleared
      /\ r.cleared <= at => cl <= at + Chunk
    <2>1. Chunk \in Nat /\ Chunk > 0
        BY MemberTypes
    <2> QED
        BY <1>4, <1>5, <2>1 DEF ClearEnd, Smaller
<1> HIDE DEF cl
<1>7. Zero \in Words /\ Junk \in Words
    BY DEF Words
<1> DEFINE n0 == cl - r.cleared
<1>8. n0 \in Nat /\ zeroed = Store(heap, r.cleared, n0, Zero)
    BY <1>4, <1>6
<1> HIDE DEF zeroed, marked
<1>17. marked = Store(zeroed, at, 1, Junk)
    BY DEF marked
<1>9. /\ zeroed \in Heaps /\ zeroed.size = heap.size /\ zeroed.bump = heap.bump
      /\ \A x \in Addresses : zeroed.mem[x] = IF r.cleared <= x /\ x < r.cleared + n0 THEN Zero ELSE heap.mem[x]
    <2> HIDE DEF n0
    <2>1. r.cleared \in Int /\ n0 \in Int
        BY <1>4, <1>8
    <2> QED
        BY <1>1, <1>7, <1>8, <2>1, Stores
<1>10. Spares(heap, zeroed, heap.bump) /\ Shaped(zeroed)
    <2>1. r.cleared \in Int /\ n0 \in Int /\ heap.bump \in Int /\ heap.bump <= r.cleared
        BY <1>4, <1>8
    <2> HIDE DEF n0
    <2> QED
        BY <1>1, <1>7, <1>8, <2>1, StoreSpares
<1>11. /\ marked \in Heaps /\ marked.size = heap.size /\ marked.bump = heap.bump
       /\ \A x \in Addresses : marked.mem[x] = IF at <= x /\ x < at + 1 THEN Junk ELSE zeroed.mem[x]
    <2>1. at \in Int /\ 1 \in Int
        BY <1>5
    <2>2. zeroed \in Heaps /\ zeroed.size = heap.size /\ zeroed.bump = heap.bump
        BY <1>9
    <2> HIDE DEF n0
    <2> QED
        BY Z3, ZenonT(60), <1>7, <1>17, <2>1, <2>2, Stores
<1>12. Spares(zeroed, marked, heap.bump) /\ Shaped(marked)
    <2>1. at \in Int /\ 1 \in Int /\ heap.bump \in Int /\ heap.bump <= at
        BY <1>4, <1>5
    <2> QED
        BY <1>7, <1>10, <1>17, <2>1, StoreSpares
<1>13. Sound(zeroed, iter) /\ Sound(marked, iter)
    <2>1. heap.bump \in Int /\ heap.bump <= heap.bump /\ zeroed.bump <= heap.bump
        BY <1>4, <1>9
    <2>2. Sound(zeroed, iter)
        BY <1>1, <1>10, <2>1, SoundSpared
    <2> QED
        BY <1>12, <2>1, <2>2, SoundSpared
<1>14. \A x \in Addresses : x \in Int
    BY Sizes DEF Addresses
<1>15. \A x \in Addresses : /\ zeroed.mem[x] = IF r.cleared <= x /\ x < cl THEN Zero ELSE heap.mem[x]
                            /\ marked.mem[x] = IF x = at THEN Junk ELSE zeroed.mem[x]
    <2> TAKE x \in Addresses
    <2>1. x \in Int
        BY <1>14
    <2>2. (x < r.cleared + n0 <=> x < cl) /\ ((at <= x /\ x < at + 1) <=> x = at)
        BY <1>4, <1>5, <1>6, <2>1
    <2> HIDE DEF n0
    <2> QED
        BY <1>9, <1>11, <2>2
<1>16. ASSUME NEW n \in Members, n # m, HasRegion(scratch, n), NEW x \in Addresses,
              scratch.member[n].base <= x, x < scratch.member[n].end
       PROVE  zeroed.mem[x] = heap.mem[x] /\ marked.mem[x] = heap.mem[x]
    <2>1. scratch.member[n].end <= r.base \/ r.end <= scratch.member[n].base
        BY <1>1, <1>2, <1>16 DEF InCall, RegionsApart, r
    <2>2. scratch.member[n].base \in Nat /\ scratch.member[n].end \in Nat /\ x \in Int
        BY <1>1, <1>14, ScratchTypes
    <2>3. ~(r.cleared <= x /\ x < cl) /\ x # at
        BY <1>4, <1>5, <1>6, <1>16, <2>1, <2>2
    <2> QED
        BY <1>15, <2>3
<1>18. ASSUME NEW g \in {zeroed, marked}
       PROVE  /\ Sound(g, iter) /\ Shaped(g) /\ g \in Heaps /\ g.bump = heap.bump
              /\ g.size = heap.size
              /\ \A n \in Members : n # m /\ HasRegion(scratch, n) =>
                    \A x \in Addresses :
                       scratch.member[n].base <= x /\ x < scratch.member[n].end =>
                          g.mem[x] = heap.mem[x]
    BY <1>9, <1>10, <1>11, <1>12, <1>13, <1>16, <1>18
<1>19. /\ r.base \in Nat /\ r.origin \in Nat /\ r.end \in Nat /\ r.cleared \in Nat
       /\ at \in Nat /\ cl \in Nat /\ pos \in Nat /\ c <= pos
       /\ pos <= t.len /\ r.origin <= c /\ HasRegion(scratch, m)
       /\ r.base <= at /\ at < cl /\ r.base <= r.cleared /\ r.cleared <= cl /\ cl <= r.end
       /\ at < r.cleared => cl = r.cleared
       /\ r.cleared <= at => cl <= at + Chunk
       /\ r.end = r.base + (t.len - r.origin) + 1
       /\ \A x \in r.base..(r.end - 1) : x \in Addresses
    BY <1>1, <1>2, <1>4, <1>5, <1>6
<1> QED
    BY <1>15, <1>18, <1>19, Zenon DEF t, pos, c, m, r, at, cl, zeroed, marked

\* The globals and the spending a step of a walk leaves.
LEMMA ClearedIs ==
    ASSUME NEW s0 \in Scratches, NEW m \in Members, NEW cl \in Nat
    PROVE  LET s == [s0 EXCEPT !.member[m].cleared = cl] IN
           /\ s \in Scratches /\ s.epoch = s0.epoch /\ s.topEpoch = s0.topEpoch /\ s.top = s0.top
           /\ \A n \in Members : n # m => s.member[n] = s0.member[n]
           /\ s.member[m].base = s0.member[m].base /\ s.member[m].origin = s0.member[m].origin
           /\ s.member[m].end = s0.member[m].end /\ s.member[m].cleared = cl
           /\ s.member[m].memoEpoch = s0.member[m].memoEpoch
           /\ s.member[m].budgetEpoch = s0.member[m].budgetEpoch
           /\ s.member[m].budget = s0.member[m].budget
<1> DEFINE r == [s0.member[m] EXCEPT !.cleared = cl]
           s == [s0 EXCEPT !.member[m].cleared = cl]
<1>1. s0.member[m] \in MemberStates /\ s0.member \in [Members -> MemberStates]
    BY ScratchTypes
<1>2. /\ r \in MemberStates /\ r.cleared = cl /\ r.base = s0.member[m].base
      /\ r.origin = s0.member[m].origin /\ r.end = s0.member[m].end
      /\ r.memoEpoch = s0.member[m].memoEpoch /\ r.budgetEpoch = s0.member[m].budgetEpoch
      /\ r.budget = s0.member[m].budget
    BY <1>1 DEF MemberStates
<1>3. s = With(s0, m, r)
    BY <1>1 DEF With, Scratches
<1> HIDE DEF r, s
<1>4. /\ s \in Scratches /\ s.epoch = s0.epoch /\ s.topEpoch = s0.topEpoch /\ s.top = s0.top
      /\ s.member[m] = r /\ \A n \in Members : n # m => s.member[n] = s0.member[n]
    BY <1>2, <1>3, WithTypes
<1> QED
    BY <1>2, <1>4 DEF s

\* The spending of one position.
LEMMA WalkedIs ==
    ASSUME NEW sp0 \in [Members -> Spendings], NEW m \in Members, NEW fill \in Nat
    PROVE  LET sp == [sp0 EXCEPT ![m].walked = @ + 1, ![m].filled = @ + fill] IN
           /\ sp \in [Members -> Spendings]
           /\ \A n \in Members : n # m => sp[n] = sp0[n]
           /\ sp[m].pops = sp0[m].pops /\ sp[m].hits = sp0[m].hits
           /\ sp[m].walked = sp0[m].walked + 1 /\ sp[m].filled = sp0[m].filled + fill
<1> DEFINE w == sp0[m].walked + 1
           f == sp0[m].filled + fill
           y == [sp0[m] EXCEPT !.walked = w, !.filled = f]
           sp == [sp0 EXCEPT ![m].walked = @ + 1, ![m].filled = @ + fill]
<1>5. sp0[m] \in Spendings /\ w \in Nat /\ f \in Nat
    BY SpendingTypes
<1>6. sp = [sp0 EXCEPT ![m] = y]
    BY <1>5 DEF Spendings
<1> HIDE DEF w, f
<1>7. y \in Spendings /\ y.pops = sp0[m].pops /\ y.walked = w /\ y.filled = f /\ y.hits = sp0[m].hits
    BY <1>5 DEF Spendings
<1> HIDE DEF y, sp
<1>8. sp \in [Members -> Spendings] /\ sp[m] = y /\ \A n \in Members : n # m => sp[n] = sp0[n]
    BY <1>6, <1>7
<1> QED
    BY <1>7, <1>8 DEF sp, w, f

\* After a step of a walk that found or left its row marked.
LEMMA WalkMarks ==
    ASSUME Inv, call # NoCall, call.pos # NoWalk
    PROVE  LET m == call.member
               r == scratch.member[m]
               at == r.base + (call.pos - r.origin)
               cl == IF at < r.cleared THEN r.cleared ELSE ClearEnd(r, at)
               zeroed == Store(heap, r.cleared, cl - r.cleared, Zero)
               marked == Store(zeroed, at, 1, Junk)
               s == [scratch EXCEPT !.member[m].cleared = cl]
               sp == [spent EXCEPT ![m].walked = @ + 1, ![m].filled = @ + (cl - r.cleared)]
           IN  \A g \in {zeroed, marked} :
                 g.mem[at] # Zero =>
                   MemberInv(g, s, sp, iter[call.it].text, call.from, m, call.cand, call.pos + 1)
<1> DEFINE t == iter[call.it].text
           pos == call.pos
           c == call.cand
           m == call.member
           r == scratch.member[m]
           at == r.base + (pos - r.origin)
           cl == IF at < r.cleared THEN r.cleared ELSE ClearEnd(r, at)
           zeroed == Store(heap, r.cleared, cl - r.cleared, Zero)
           marked == Store(zeroed, at, 1, Junk)
           fill == cl - r.cleared
           s == [scratch EXCEPT !.member[m].cleared = cl]
           sp == [spent EXCEPT ![m].walked = @ + 1, ![m].filled = @ + fill]
<1>1. /\ InCall /\ t \in SetTexts /\ c \in Nat /\ t.len \in Nat /\ m \in Members
      /\ scratch \in Scratches /\ heap \in Heaps /\ spent \in [Members -> Spendings]
    BY CallTypes
<1>2. /\ r.base \in Nat /\ r.origin \in Nat /\ r.end \in Nat /\ r.cleared \in Nat
      /\ at \in Nat /\ cl \in Nat /\ pos \in Nat /\ c <= pos
      /\ pos <= t.len /\ r.origin <= c /\ HasRegion(scratch, m)
      /\ r.base <= at /\ at < cl /\ r.base <= r.cleared /\ r.cleared <= cl /\ cl <= r.end
      /\ at < r.cleared => cl = r.cleared
      /\ r.cleared <= at => cl <= at + Chunk
      /\ \A x \in r.base..(r.end - 1) : x \in Addresses
    BY WalkHeaps
<1>3. /\ \A x \in Addresses : /\ zeroed.mem[x] = IF r.cleared <= x /\ x < cl THEN Zero ELSE heap.mem[x]
                              /\ marked.mem[x] = IF x = at THEN Junk ELSE zeroed.mem[x]
      /\ \A g \in {zeroed, marked} : g.bump = heap.bump /\ g.size = heap.size
    BY WalkHeaps
<1>4. MemberInv(heap, scratch, spent, t, call.from, m, c, pos)
    BY <1>1, NeedsIs DEF InCall
<1>5. fill \in Nat
    <2> HIDE DEF cl, at, r
    <2> QED
        BY <1>2
<1> HIDE DEF fill, cl
<1>6. /\ s \in Scratches /\ s.epoch = scratch.epoch /\ s.topEpoch = scratch.topEpoch /\ s.top = scratch.top
      /\ s.member[m].base = scratch.member[m].base /\ s.member[m].origin = scratch.member[m].origin
      /\ s.member[m].end = scratch.member[m].end /\ s.member[m].cleared = cl
      /\ s.member[m].memoEpoch = scratch.member[m].memoEpoch
      /\ s.member[m].budgetEpoch = scratch.member[m].budgetEpoch
      /\ s.member[m].budget = scratch.member[m].budget
      /\ sp[m].pops = spent[m].pops /\ sp[m].hits = spent[m].hits
      /\ sp[m].walked = spent[m].walked + 1 /\ sp[m].filled = spent[m].filled + fill
    <2> HIDE DEF m, r
    <2>1. scratch \in Scratches /\ m \in Members /\ cl \in Nat /\ spent \in [Members -> Spendings] /\ fill \in Nat
        BY <1>1, <1>2, <1>5
    <2>2. LET s2 == [scratch EXCEPT !.member[m].cleared = cl] IN
          /\ s2 \in Scratches /\ s2.epoch = scratch.epoch /\ s2.topEpoch = scratch.topEpoch
          /\ s2.top = scratch.top
          /\ s2.member[m].base = scratch.member[m].base /\ s2.member[m].origin = scratch.member[m].origin
          /\ s2.member[m].end = scratch.member[m].end /\ s2.member[m].cleared = cl
          /\ s2.member[m].memoEpoch = scratch.member[m].memoEpoch
          /\ s2.member[m].budgetEpoch = scratch.member[m].budgetEpoch
          /\ s2.member[m].budget = scratch.member[m].budget
        BY <2>1, ClearedIs
    <2>3. LET sp2 == [spent EXCEPT ![m].walked = @ + 1, ![m].filled = @ + fill] IN
          /\ sp2[m].pops = spent[m].pops /\ sp2[m].hits = spent[m].hits
          /\ sp2[m].walked = spent[m].walked + 1 /\ sp2[m].filled = spent[m].filled + fill
        BY <2>1, WalkedIs
    <2> QED
        BY <2>2, <2>3
<1> HIDE DEF zeroed, marked, s, sp, r, at, m, t, pos, c
<1>7. ASSUME NEW g \in {zeroed, marked}, g.mem[at] # Zero
      PROVE  MemberInv(g, s, sp, t, call.from, m, c, pos + 1)
    <2>1. /\ Placement(heap, scratch, t, call.from, m, c) /\ Marked(heap, scratch, t, m, c, pos)
          /\ Within(scratch, spent, t, call.from, m)
        BY <1>2, <1>4 DEF MemberInv
    <2>2. PICK w \in 0..(t.len + 1) : Paid(heap, scratch, spent, m, c, pos, w)
        <3>1. pos # NoWalk
            BY DEF pos
        <3> QED
            BY <1>2, <1>4, <3>1 DEF MemberInv
    <2>3. HasRegion(s, m) /\ Within(s, sp, t, call.from, m)
        BY <1>2, <1>6, <2>1 DEF HasRegion, Within
    <2>4. Placement(g, s, t, call.from, m, c)
        <3>1. Tripped(s, m)
            BY <1>6, <2>1 DEF Placement, Tripped
        <3>2. g.bump = heap.bump /\ g.size = heap.size
            BY <1>3
        <3>3. r.base <= cl /\ cl <= r.end
            BY <1>2
        <3> QED
            BY <1>6, <2>1, <3>1, <3>2, <3>3 DEF Placement, r
    <2>5. \A x \in Addresses : x # at => g.mem[x] = zeroed.mem[x]
        BY <1>3
    <2>6. Marked(g, s, t, m, c, pos + 1)
        <3>1. SUFFICES ASSUME NEW x \in r.base..(cl - 1), g.mem[x] # Zero
                       PROVE  \/ Truth(t, m, r.origin + (x - r.base)) = NoMatch
                              \/ r.origin + (x - r.base) \in c..((pos + 1) - 1)
            BY <1>6 DEF Marked, r
        <3>2. x \in Addresses /\ x \in Int
            BY <1>2
        <3>3. CASE x = at
            <4>1. r.origin + (x - r.base) = pos
                BY <1>2, <3>3 DEF at
            <4> QED
                BY <1>1, <1>2, <4>1
        <3>4. CASE x # at
            <4>1. zeroed.mem[x] # Zero
                BY <2>5, <3>1, <3>2, <3>4
            <4>2. ~(r.cleared <= x /\ x < cl) /\ heap.mem[x] # Zero
                BY <1>3, <3>2, <4>1
            <4>3. x \in r.base..(r.cleared - 1)
                BY <1>2, <3>1, <3>2, <4>2
            <4>4. \/ Truth(t, m, r.origin + (x - r.base)) = NoMatch
                  \/ r.origin + (x - r.base) \in c..(pos - 1)
                BY <2>1, <4>2, <4>3 DEF Marked, r
            <4> QED
                BY <1>1, <1>2, <4>4
        <3> QED
            BY <3>3, <3>4
    <2>7. \E w2 \in 0..(t.len + 1) : Paid(g, s, sp, m, c, pos + 1, w2)
        <3> DEFINE S == {q \in Int : q < r.cleared - r.base /\ heap.mem[r.base + q] # Zero}
                   y == Chunk * spent[m].hits
                   filled == spent[m].filled
                   walked == spent[m].walked
        <3>1. y \in Nat /\ filled \in Nat /\ walked \in Nat
            BY <1>1, MemberTypes, SpendingTypes, Products
        <3>2. /\ pos - r.origin <= w /\ filled <= walked + y + ((r.cleared - r.base) - w)
              /\ (r.cleared - r.base) - w < Chunk
            BY <2>2 DEF Paid, r
        <3>3. \A q \in (c - r.origin)..(w - 1) : q < r.cleared - r.base /\ q \in S
            <4> TAKE q \in (c - r.origin)..(w - 1)
            <4>1. q < r.cleared - r.base /\ heap.mem[r.base + q] # Zero
                BY <2>2 DEF Paid, r
            <4>2. q \in Int
                BY <1>1, <1>2
            <4> QED
                BY <4>1, <4>2
        <3> HIDE DEF S, y, filled, walked
        <3> DEFINE base == r.base
                   origin == r.origin
                   cleared == r.cleared
                   len == t.len
        <3>4. /\ base \in Nat /\ origin \in Nat /\ cleared \in Nat /\ cl \in Nat /\ pos \in Nat
              /\ c \in Nat /\ len \in Nat /\ w \in 0..(len + 1)
              /\ origin <= c /\ c <= pos /\ pos <= len /\ base <= cleared /\ cleared <= cl
              /\ base + (pos - origin) < cl
              /\ base + (pos - origin) < cleared => cl = cleared
              /\ cleared <= base + (pos - origin) => cl <= base + (pos - origin) + Chunk
              /\ pos - origin <= w /\ filled <= walked + y + ((cleared - base) - w)
              /\ (cleared - base) - w < Chunk
              /\ \A q \in (c - origin)..(w - 1) : q < cleared - base /\ q \in S
            BY <1>1, <1>2, <3>2, <3>3 DEF at
        <3> HIDE DEF base, origin, cleared, len
        <3>5. PICK w2 \in 0..(len + 1) :
                /\ (pos + 1) - origin <= w2
                /\ filled + (cl - cleared) <= (walked + 1) + y + ((cl - base) - w2)
                /\ (cl - base) - w2 < Chunk
                /\ \A q \in (c - origin)..(w2 - 1) : q < cl - base /\ (q \in S \/ q = pos - origin)
            <4> DEFINE row == pos - origin
                       v == IF row < w THEN w ELSE row + 1
            <4>1. row \in Nat /\ Chunk \in Nat /\ Chunk > 0 /\ row + 1 <= len + 1 /\ row <= w
                BY <3>4, MemberTypes
            <4>2. CASE row < w
                <5>1. row \in (c - origin)..(w - 1)
                    BY <3>4, <4>1, <4>2
                <5>2. row < cleared - base
                    BY <3>4, <5>1
                <5>3. cl = cleared /\ v = w
                    BY <3>4, <4>2, <5>2
                <5> HIDE DEF v
                <5>4. /\ (pos + 1) - origin <= v
                      /\ filled + (cl - cleared) <= (walked + 1) + y + ((cl - base) - v)
                      /\ (cl - base) - v < Chunk
                    BY <3>1, <3>4, <4>1, <4>2, <5>3
                <5> QED
                    BY <3>4, <5>3, <5>4
            <4>3. CASE ~(row < w)
                <5>1. row = w /\ v = row + 1
                    BY <4>1, <4>3
                <5> HIDE DEF v
                <5>2. v \in 0..(len + 1)
                    BY <4>1, <5>1
                <5>3. base + row < cl
                    BY <3>4
                <5>4. (cl - base) - v < Chunk
                    <6>1. CASE base + row < cleared
                        BY <3>4, <4>1, <5>1, <6>1
                    <6>2. CASE cleared <= base + row
                        BY <3>4, <4>1, <5>1, <6>2
                    <6> QED
                        BY <3>4, <4>1, <6>1, <6>2
                <5>5. filled + (cl - cleared) <= (walked + 1) + y + ((cl - base) - v)
                    BY <3>1, <3>4, <4>1, <5>1
                <5>6. ASSUME NEW q \in (c - origin)..(v - 1)
                      PROVE  q < cl - base /\ (q \in S \/ q = pos - origin)
                    <6>1. q \in Int /\ (q = row \/ q \in (c - origin)..(w - 1))
                        BY <3>4, <4>1, <5>1, <5>6
                    <6>2. CASE q = row
                        BY <3>4, <4>1, <5>3, <6>2
                    <6>3. CASE q \in (c - origin)..(w - 1)
                        <7>1. q < cleared - base /\ q \in S
                            BY <3>4, <6>3
                        <7> QED
                            BY <3>4, <6>1, <7>1
                    <6> QED
                        BY <6>1, <6>2, <6>3
                <5>7. (pos + 1) - origin <= v
                    BY <3>4, <5>1
                <5> QED
                    BY <5>2, <5>4, <5>5, <5>6, <5>7
            <4> QED
                BY <4>2, <4>3
        <3>6. ASSUME NEW q \in (c - origin)..(w2 - 1)
              PROVE  q < cl - base /\ g.mem[base + q] # Zero
            <4>1. q \in Int /\ q >= 0 /\ q < cl - base /\ (q \in S \/ q = pos - origin)
                BY <3>4, <3>5
            <4>2. CASE base + q = at
                BY <1>7, <4>1, <4>2
            <4>3. CASE base + q # at
                <5>1. q \in S
                    BY <3>4, <4>1, <4>3 DEF at, base, origin
                <5>2. q < cleared - base /\ heap.mem[base + q] # Zero
                    BY <5>1 DEF S, cleared, base
                <5>3. base + q \in Addresses /\ ~(cleared <= base + q)
                    <6>1. base + q \in base..(r.end - 1)
                        BY <1>2, <3>4, <4>1
                    <6> QED
                        BY <1>2, <3>4, <4>1, <5>2, <6>1 DEF base
                <5>4. zeroed.mem[base + q] = heap.mem[base + q]
                    BY <1>3, <5>3 DEF cleared
                <5> QED
                    BY <2>5, <4>1, <4>3, <5>2, <5>3, <5>4
            <4> QED
                BY <4>2, <4>3
        <3>7. /\ s.member[m].base = base /\ s.member[m].origin = origin /\ s.member[m].cleared = cl
              /\ sp[m].filled = filled + (cl - cleared) /\ sp[m].walked = walked + 1
              /\ Chunk * sp[m].hits = y
            BY <1>6 DEF base, origin, cleared, filled, walked, y, fill, r
        <3>8. Paid(g, s, sp, m, c, pos + 1, w2)
            BY <3>5, <3>6, <3>7 DEF Paid
        <3> QED
            BY <3>5, <3>8 DEF len
    <2>8. pos + 1 # NoWalk
        BY <1>2 DEF NoWalk
    <2> QED
        BY <2>3, <2>4, <2>6, <2>7, <2>8 DEF MemberInv
<1> QED
    BY <1>7 DEF zeroed, marked, s, sp, r, at, m, t, pos, c, cl, fill

\* A walk that ends in a failure leaves only failures behind.
LEMMA WalkFails ==
    ASSUME NEW g \in Heaps, g.size <= MaxWords, NEW s \in Scratches, NEW sp, NEW t \in SetTexts,
           NEW from \in Nat, NEW m \in Members, NEW c \in Nat, NEW pos \in Nat, c <= pos,
           MemberInv(g, s, sp, t, from, m, c, pos + 1), HasRegion(s, m),
           \A p \in c..pos : Truth(t, m, p) = NoMatch
    PROVE  MemberInv(g, s, sp, t, from, m, c + 1, NoWalk)
<1> DEFINE r == s.member[m]
<1>1. /\ Placement(g, s, t, from, m, c) /\ Marked(g, s, t, m, c, pos + 1)
      /\ Within(s, sp, t, from, m)
    BY DEF MemberInv
<1>2. PICK w \in 0..(t.len + 1) : Paid(g, s, sp, m, c, pos + 1, w)
    <2>1. pos + 1 # NoWalk
        BY DEF NoWalk
    <2> QED
        BY <2>1 DEF MemberInv
<1>3. r.origin \in Nat /\ r.base \in Nat /\ r.cleared \in Nat /\ r.origin <= c /\ t.len \in Nat
    BY <1>1, PlacementTypes
<1>4. Placement(g, s, t, from, m, c + 1)
    <2>1. r.origin <= c + 1
        BY <1>3
    <2> QED
        BY <1>1, <2>1 DEF Placement
<1>5. Marked(g, s, t, m, c + 1, NoWalk)
    <2>1. SUFFICES ASSUME NEW x \in r.base..(r.cleared - 1), g.mem[x] # Zero
                   PROVE  Truth(t, m, r.origin + (x - r.base)) = NoMatch
        BY DEF Marked
    <2>2. \/ Truth(t, m, r.origin + (x - r.base)) = NoMatch
          \/ r.origin + (x - r.base) \in c..((pos + 1) - 1)
        BY <1>1, <2>1 DEF Marked
    <2>3. c..((pos + 1) - 1) = c..pos
        OBVIOUS
    <2> QED
        BY <2>2, <2>3
<1>6. Paid(g, s, sp, m, c + 1, c + 1, w)
    <2>1. (pos + 1) - r.origin <= w
        BY <1>2 DEF Paid
    <2>2. (c + 1) - r.origin <= w
        BY <1>3, <2>1
    <2>3. \A q \in ((c + 1) - r.origin)..(w - 1) : q \in (c - r.origin)..(w - 1)
        BY <1>3
    <2> QED
        BY <1>2, <2>2, <2>3 DEF Paid
<1> QED
    BY <1>1, <1>2, <1>4, <1>5, <1>6 DEF MemberInv

\* A match takes the marks of its walk back, and a chunk pays for filling them again.
LEMMA WalkMatches ==
    ASSUME NEW g \in Heaps, g.size <= MaxWords, NEW s \in Scratches, NEW sp \in [Members -> Spendings],
           NEW t \in SetTexts,
           NEW from \in Nat, NEW m \in Members, NEW c \in Nat, NEW pos \in Nat, c <= pos,
           pos <= t.len,
           MemberInv(g, s, sp, t, from, m, c, pos + 1), HasRegion(s, m),
           s.member[m].base + (c - s.member[m].origin) <= s.member[m].cleared
    PROVE  MemberInv(g, Matched(s, m, c), [sp EXCEPT ![m].hits = @ + 1], t, from, m, c + 1, NoWalk)
<1> DEFINE r == s.member[m]
           s2 == Matched(s, m, c)
           sp2 == [sp EXCEPT ![m].hits = @ + 1]
           new == r.base + (c - r.origin)
<1>1. /\ Placement(g, s, t, from, m, c) /\ Marked(g, s, t, m, c, pos + 1)
      /\ Within(s, sp, t, from, m)
    BY DEF MemberInv
<1>2. PICK w \in 0..(t.len + 1) : Paid(g, s, sp, m, c, pos + 1, w)
    <2>1. pos + 1 # NoWalk
        BY DEF NoWalk
    <2> QED
        BY <2>1 DEF MemberInv
<1>3. /\ r.origin \in Nat /\ r.base \in Nat /\ r.cleared \in Nat /\ r.end \in Nat /\ r.origin <= c
      /\ t.len \in Nat /\ r.cleared <= r.end
    BY <1>1, PlacementTypes
<1>4. new \in Nat /\ r.base <= new /\ new <= r.cleared /\ new <= r.end
    BY <1>3
<1>5. /\ s2 \in Scratches /\ s2.epoch = s.epoch /\ s2.topEpoch = s.topEpoch /\ s2.top = s.top
      /\ s2.member[m].base = r.base /\ s2.member[m].origin = r.origin
      /\ s2.member[m].end = r.end /\ s2.member[m].memoEpoch = r.memoEpoch
      /\ s2.member[m].budgetEpoch = r.budgetEpoch /\ s2.member[m].budget = r.budget
      /\ s2.member[m].cleared = IF c < r.origin THEN r.base
                                ELSE Smaller(r.base + (c - r.origin), r.cleared)
    BY MatchedIs
<1>6. s2.member[m].cleared = new
    <2>1. ~(c < r.origin)
        BY <1>3
    <2> DEFINE old == r.cleared
    <2>3. new <= old /\ new \in Nat /\ old \in Nat
        BY <1>3, <1>4
    <2> HIDE DEF s2, new, old
    <2>4. Smaller(new, old) = new
        BY <2>3 DEF Smaller
    <2>2. Smaller(new, r.cleared) = new
        BY <2>4 DEF old
    <2> USE DEF new
    <2> QED
        BY <1>5, <2>1, <2>2
<1>7. /\ sp2[m].pops = sp[m].pops /\ sp2[m].walked = sp[m].walked /\ sp2[m].filled = sp[m].filled
      /\ sp2[m].hits = sp[m].hits + 1
    BY HitsTypes
<1> HIDE DEF s2, sp2, new
<1>8. HasRegion(s2, m) /\ Within(s2, sp2, t, from, m)
    BY <1>1, <1>5, <1>7 DEF HasRegion, Within
<1>9. Placement(g, s2, t, from, m, c + 1)
    <2>1. r.origin <= c + 1
        BY <1>3
    <2>2. Tripped(s2, m)
        BY <1>1, <1>5 DEF Placement, Tripped
    <2> HIDE DEF r
    <2> QED
        BY <1>1, <1>4, <1>5, <1>6, <2>1, <2>2 DEF Placement, r
<1>10. Marked(g, s2, t, m, c + 1, NoWalk)
    <2>1. SUFFICES ASSUME NEW x \in r.base..(new - 1), g.mem[x] # Zero
                   PROVE  Truth(t, m, r.origin + (x - r.base)) = NoMatch
        BY <1>5, <1>6 DEF Marked
    <2>2. x \in r.base..(r.cleared - 1)
        BY <1>3, <1>4
    <2>3. \/ Truth(t, m, r.origin + (x - r.base)) = NoMatch
          \/ r.origin + (x - r.base) \in c..((pos + 1) - 1)
        BY <1>1, <2>1, <2>2 DEF Marked
    <2>4. ~(r.origin + (x - r.base) \in c..((pos + 1) - 1))
        BY <1>3 DEF new
    <2> QED
        BY <2>3, <2>4
<1>11. \E v \in 0..(t.len + 1) : Paid(g, s2, sp2, m, c + 1, c + 1, v)
    <2> DEFINE v == (c + 1) - r.origin
               y == Chunk * sp[m].hits
               filled == sp[m].filled
               walked == sp[m].walked
               marks == r.cleared - r.base
    <2>1. v \in 0..(t.len + 1) /\ new - r.base = v - 1
        BY <1>3 DEF new
    <2>2. Chunk \in Nat /\ Chunk > 0 /\ sp[m].hits \in Nat /\ filled \in Nat /\ walked \in Nat
        BY MemberTypes, SpendingTypes
    <2>3. Chunk * (sp[m].hits + 1) = y + Chunk /\ y \in Nat
        BY <2>2
    <2>4. filled <= walked + y + (marks - w) /\ marks - w < Chunk
        BY <1>2 DEF Paid
    <2>5. marks \in Int /\ w \in Int
        BY <1>3
    <2> HIDE DEF v, y, filled, walked, marks
    <2>6. filled <= walked + (y + Chunk) + ((v - 1) - v) /\ (v - 1) - v < Chunk
        BY <2>1, <2>2, <2>3, <2>4, <2>5
    <2>7. \A q \in ((c + 1) - r.origin)..(v - 1) : FALSE
        BY <1>3 DEF v
    <2>8. (c + 1) - r.origin <= v
        BY <1>3 DEF v
    <2>9. Paid(g, s2, sp2, m, c + 1, c + 1, v)
        <3>1. /\ s2.member[m].cleared - s2.member[m].base = v - 1
              /\ s2.member[m].origin = r.origin
              /\ sp2[m].filled = filled /\ sp2[m].walked = walked
              /\ Chunk * sp2[m].hits = y + Chunk
            BY <1>5, <1>6, <1>7, <2>1, <2>3 DEF filled, walked
        <3> HIDE DEF r
        <3> QED
            BY <2>6, <2>7, <2>8, <3>1 DEF Paid
    <2> QED
        BY <2>1, <2>9
<1> QED
    BY <1>8, <1>9, <1>10, <1>11 DEF MemberInv, s2, sp2

\* A step of a walk leaves the other members as they are.
LEMMA WalkLeaves ==
    ASSUME Inv, call # NoCall, call.pos # NoWalk, NEW s2 \in Scratches, NEW sp2, NEW g \in Heaps,
           s2.epoch = scratch.epoch, s2.topEpoch = scratch.topEpoch, s2.top = scratch.top,
           \A n \in Members : n # call.member => s2.member[n] = scratch.member[n] /\ sp2[n] = spent[n],
           s2.member[call.member].base = scratch.member[call.member].base,
           s2.member[call.member].end = scratch.member[call.member].end,
           s2.member[call.member].memoEpoch = scratch.member[call.member].memoEpoch,
           s2.member[call.member].budgetEpoch = scratch.member[call.member].budgetEpoch,
           g.bump = heap.bump, heap.size <= g.size,
           \A n \in Members : n # call.member /\ HasRegion(scratch, n) =>
               \A x \in Addresses : scratch.member[n].base <= x /\ x < scratch.member[n].end =>
                  g.mem[x] = heap.mem[x]
    PROVE  /\ EpochsBefore(s2) /\ RegionsApart(g, s2)
           /\ \A n \in Members : n # call.member =>
                 /\ MemberInv(g, s2, sp2, iter[call.it].text, call.from, n, Due(n), NoWalk)
                 /\ Due(n) = IF n <= call.member THEN call.cand + 1 ELSE call.cand
                 /\ WalkOf(n) = NoWalk
<1>1. InCall /\ EpochsBefore(scratch) /\ scratch \in Scratches
    BY CallTypes DEF Inv
<1>2. EpochsBefore(s2)
    <2>1. ASSUME NEW n \in Members
          PROVE  s2.member[n].budgetEpoch <= s2.epoch /\ s2.member[n].memoEpoch <= s2.epoch
        <3>1. CASE n = call.member
            BY <1>1, <3>1 DEF EpochsBefore
        <3>2. CASE n # call.member
            BY <1>1, <3>2 DEF EpochsBefore
        <3> QED
            BY <3>1, <3>2
    <2> QED
        BY <1>1, <2>1 DEF EpochsBefore
<1>3. \A n \in Members : /\ HasRegion(s2, n) <=> HasRegion(scratch, n)
                         /\ s2.member[n].base = scratch.member[n].base
                         /\ s2.member[n].end = scratch.member[n].end
    <2> TAKE n \in Members
    <2>1. CASE n = call.member
        BY <2>1 DEF HasRegion
    <2>2. CASE n # call.member
        BY <2>2 DEF HasRegion
    <2> QED
        BY <2>1, <2>2
<1>4. RegionsApart(g, s2)
    BY <1>1, <1>3 DEF InCall, RegionsApart
<1>5. ASSUME NEW n \in Members, n # call.member
      PROVE  /\ MemberInv(g, s2, sp2, iter[call.it].text, call.from, n, Due(n), NoWalk)
             /\ Due(n) = IF n <= call.member THEN call.cand + 1 ELSE call.cand
             /\ WalkOf(n) = NoWalk
    <2>1. HasRegion(scratch, n) =>
               /\ s2.topEpoch = s2.epoch /\ scratch.top <= s2.top
               /\ \A x \in Addresses : scratch.member[n].base <= x /\ x < scratch.member[n].end =>
                     g.mem[x] = heap.mem[x]
        <3>1. scratch.top <= scratch.top
            BY <1>1, ScratchTypes
        <3> QED
            BY <1>5, <3>1, RegionsBelow
    <2>2. s2.member[n] = scratch.member[n] /\ sp2[n] = spent[n]
        BY <1>5
    <2> HIDE DEF NoWalk
    <2> QED
        BY <1>5, <2>1, <2>2, OthersKept
<1> QED
    BY <1>2, <1>4, <1>5

\* One position of the fallback, in each of its outcomes.
LEMMA FallbackWalksStep ==
    ASSUME Inv, FallbackWalks
    PROVE  Inv'
<1> DEFINE t == iter[call.it].text
           pos == call.pos
           c == call.cand
           m == call.member
           r == scratch.member[m]
           at == r.base + (pos - r.origin)
           cl == IF at < r.cleared THEN r.cleared ELSE ClearEnd(r, at)
           fill == cl - r.cleared
           zeroed == Store(heap, r.cleared, fill, Zero)
           marked == Store(zeroed, at, 1, Junk)
           s == [scratch EXCEPT !.member[m].cleared = cl]
           sp == [spent EXCEPT ![m].walked = @ + 1, ![m].filled = @ + fill]
           stack == StackBase(scratch)
           frames == pos - c + 1
<1>1. call # NoCall /\ pos # NoWalk /\ search' = search
    BY DEF FallbackWalks
<1>2. /\ InCall /\ t \in SetTexts /\ c \in Nat /\ c <= t.len /\ t.len \in Nat /\ m \in Members
      /\ m \in Nat /\ Sound(heap, iter) /\ call \in Calls /\ scratch \in Scratches
      /\ heap \in Heaps /\ spent \in [Members -> Spendings] /\ call.from \in Nat
      /\ iter[call.it].len = t.len /\ heap.size <= MaxWords
    BY <1>1, CallTypes
<1>3. /\ r.base \in Nat /\ r.origin \in Nat /\ r.end \in Nat /\ r.cleared \in Nat
      /\ at \in Nat /\ cl \in Nat /\ pos \in Nat /\ c <= pos
      /\ pos <= t.len /\ r.origin <= c /\ HasRegion(scratch, m)
      /\ r.base <= at /\ at < cl /\ r.base <= r.cleared /\ r.cleared <= cl /\ cl <= r.end
      /\ \A x \in r.base..(r.end - 1) : x \in Addresses
    BY <1>1, WalkHeaps
<1>4. /\ \A x \in Addresses : /\ zeroed.mem[x] = IF r.cleared <= x /\ x < cl THEN Zero ELSE heap.mem[x]
                              /\ marked.mem[x] = IF x = at THEN Junk ELSE zeroed.mem[x]
      /\ \A g \in {zeroed, marked} :
            /\ Sound(g, iter) /\ Shaped(g) /\ g \in Heaps /\ g.bump = heap.bump
            /\ g.size = heap.size
            /\ \A n \in Members : n # m /\ HasRegion(scratch, n) =>
                  \A x \in Addresses :
                     scratch.member[n].base <= x /\ x < scratch.member[n].end =>
                        g.mem[x] = heap.mem[x]
    BY <1>1, WalkHeaps
<1>5. \A g \in {zeroed, marked} :
         g.mem[at] # Zero => MemberInv(g, s, sp, t, call.from, m, c, pos + 1)
    BY <1>1, WalkMarks
<1>6. \/ /\ zeroed.mem[at] # Zero
         /\ Answers(NoMatch, zeroed, s, sp)
      \/ /\ zeroed.mem[at] = Zero /\ Kind(t, m, pos) = "fail"
         /\ Answers(NoMatch, marked, s, sp)
      \/ /\ zeroed.mem[at] = Zero /\ Kind(t, m, pos) = "match"
         /\ Answers(pos + 1, marked, s, sp)
      \/ /\ zeroed.mem[at] = Zero /\ Kind(t, m, pos) = "go"
         /\ CanHold(marked, stack + frames)
         /\ heap' = Framed(marked, stack, frames)
         /\ scratch' = s /\ spent' = sp
         /\ call' = [call EXCEPT !.pos = @ + 1]
         /\ iter' = iter /\ reader' = reader /\ said' = said
      \/ /\ zeroed.mem[at] = Zero /\ Kind(t, m, pos) = "go"
         /\ ~CanHold(marked, stack + frames)
         /\ Answers(Unknown, marked, s, sp)
    BY DEF FallbackWalks
<1>7. fill \in Nat
    <2> HIDE DEF cl, at, r
    <2> QED
        BY <1>3
<1>8. \A q \in c..(pos - 1) : Kind(t, m, q) = "go"
    BY <1>1, <1>2 DEF InCall, WalkInv
<1> HIDE DEF cl, fill
<1>9. /\ s \in Scratches /\ s.epoch = scratch.epoch /\ s.topEpoch = scratch.topEpoch
      /\ s.top = scratch.top
      /\ \A n \in Members : n # m => s.member[n] = scratch.member[n]
      /\ s.member[m].base = scratch.member[m].base /\ s.member[m].origin = scratch.member[m].origin
      /\ s.member[m].end = scratch.member[m].end /\ s.member[m].cleared = cl
      /\ s.member[m].memoEpoch = scratch.member[m].memoEpoch
      /\ s.member[m].budgetEpoch = scratch.member[m].budgetEpoch
    <2> HIDE DEF m, r
    <2> QED
        BY SMTT(40), <1>2, <1>3, ClearedIs
<1>10. sp \in [Members -> Spendings] /\ \A n \in Members : n # m => sp[n] = spent[n]
    <2> HIDE DEF m
    <2> QED
        BY ZenonT(60), <1>2, <1>7, WalkedIs
<1>11. at \in Addresses /\ marked.mem[at] # Zero
    <2>1. at \in Addresses
        BY <1>3
    <2>2. Junk # Zero
        BY DEF Junk, Zero
    <2> QED
        BY <1>4, <2>1, <2>2
<1> HIDE DEF zeroed, marked, s, sp, at
<1>12. MemberInv(marked, s, sp, t, call.from, m, c, pos + 1)
    BY <1>5, <1>11
<1>13. HasRegion(s, m)
    BY <1>3, <1>9 DEF HasRegion
<1>14. \A p \in c..pos : Truth(t, m, p) = Truth(t, m, pos)
    <2> TAKE p \in c..pos
    <2>1. p \in 0..t.len /\ pos \in p..t.len
        BY <1>2, <1>3
    <2>2. \A q \in p..(pos - 1) : Kind(t, m, q) = "go"
        BY <1>2, <1>3, <1>8
    <2> QED
        BY <1>2, <2>1, <2>2, TruthPassed
<1>15. pos \in 0..t.len /\ c \in c..pos /\ pos \in c..pos
    BY <1>2, <1>3
\* What holds whatever the globals s2 and the spending sp2 the walk leaves.
<1>16. ASSUME NEW s2 \in Scratches, NEW sp2 \in [Members -> Spendings], NEW g \in Heaps,
              s2.epoch = scratch.epoch, s2.topEpoch = scratch.topEpoch, s2.top = scratch.top,
              \A n \in Members : n # m => s2.member[n] = scratch.member[n] /\ sp2[n] = spent[n],
              s2.member[m].base = scratch.member[m].base,
              s2.member[m].end = scratch.member[m].end,
              s2.member[m].memoEpoch = scratch.member[m].memoEpoch,
              s2.member[m].budgetEpoch = scratch.member[m].budgetEpoch,
              g.bump = heap.bump, heap.size <= g.size,
              \A n \in Members : n # m /\ HasRegion(scratch, n) =>
                  \A x \in Addresses : scratch.member[n].base <= x /\ x < scratch.member[n].end =>
                     g.mem[x] = heap.mem[x],
              \E d, p : MemberInv(g, s2, sp2, t, call.from, m, d, p)
       PROVE  /\ EpochsBefore(s2) /\ RegionsApart(g, s2)
              /\ \A n \in Members : n # m =>
                    /\ MemberInv(g, s2, sp2, t, call.from, n, Due(n), NoWalk)
                    /\ Due(n) = IF n <= call.member THEN call.cand + 1 ELSE call.cand
                    /\ WalkOf(n) = NoWalk
              /\ \A n \in Members : sp2[n].filled < sp2[n].walked + Chunk * (sp2[n].hits + 1)
    <2>1. /\ EpochsBefore(s2) /\ RegionsApart(g, s2)
          /\ \A n \in Members : n # m =>
                /\ MemberInv(g, s2, sp2, t, call.from, n, Due(n), NoWalk)
                /\ Due(n) = IF n <= call.member THEN call.cand + 1 ELSE call.cand
                /\ WalkOf(n) = NoWalk
        <3> HIDE DEF NoWalk
        <3> QED
            BY Z3, ZenonT(60), <1>1, <1>16, WalkLeaves
    <2>2. ASSUME NEW n \in Members
          PROVE  sp2[n].filled < sp2[n].walked + Chunk * (sp2[n].hits + 1)
        <3>1. CASE n = m
            BY <1>2, <1>16, <3>1, FillsPaid
        <3>2. CASE n # m
            BY <1>2, <1>16, <2>1, <3>2, FillsPaid
        <3> QED
            BY <3>1, <3>2
    <2> QED
        BY <2>1, <2>2
<1>17. heap.size \in Nat /\ heap.size <= heap.size
    <2>1. heap.size \in Nat
        BY <1>2, HeapTypes
    <2> QED
        BY <2>1
<1>18. ASSUME NEW ans \in Answered, NEW g \in {zeroed, marked}, Answers(ans, g, s, sp),
              scratch' \in {s, Matched(s, m, c)}, spent' \in {sp, [sp EXCEPT ![m].hits = @ + 1]},
              ans \in {Unknown, Truth(t, m, c)},
              \E d, p : MemberInv(g, scratch', spent', t, call.from, m, d, p),
              ans # Unknown => MemberInv(g, scratch', spent', t, call.from, m, c + 1, NoWalk)
       PROVE  Inv'
    <2>1. /\ scratch' \in Scratches /\ scratch'.epoch = scratch.epoch
          /\ scratch'.topEpoch = scratch.topEpoch /\ scratch'.top = scratch.top
          /\ \A n \in Members : n # m => scratch'.member[n] = scratch.member[n]
          /\ scratch'.member[m].base = scratch.member[m].base
          /\ scratch'.member[m].end = scratch.member[m].end
          /\ scratch'.member[m].memoEpoch = scratch.member[m].memoEpoch
          /\ scratch'.member[m].budgetEpoch = scratch.member[m].budgetEpoch
        <3>1. CASE scratch' = s
            BY <1>9, <3>1
        <3>2. CASE scratch' = Matched(s, m, c)
            <4> DEFINE b == Matched(s, m, c)
            <4> HIDE DEF m, c, r
            <4>1. /\ b \in Scratches /\ b.epoch = s.epoch /\ b.topEpoch = s.topEpoch /\ b.top = s.top
                  /\ \A n \in Members : n # m => b.member[n] = s.member[n]
                  /\ b.member[m].base = s.member[m].base /\ b.member[m].end = s.member[m].end
                  /\ b.member[m].memoEpoch = s.member[m].memoEpoch
                  /\ b.member[m].budgetEpoch = s.member[m].budgetEpoch
                BY <1>2, <1>9, MatchedIs
            <4> HIDE DEF b
            <4>2. scratch' = b
                BY <3>2 DEF b
            <4> QED
                BY <1>9, <4>1, <4>2
        <3> QED
            BY <1>18, <3>1, <3>2
    <2>2. /\ spent' \in [Members -> Spendings]
          /\ \A n \in Members : n # m => spent'[n] = spent[n]
        <3>1. CASE spent' = sp
            BY <1>10, <3>1
        <3>2. CASE spent' = [sp EXCEPT ![m].hits = @ + 1]
            <4> HIDE DEF m
            <4> QED
                BY <1>2, <1>10, <3>2, HitsTypes
        <3> QED
            BY <1>18, <3>1, <3>2
    <2>3. /\ g \in Heaps /\ g.bump = heap.bump /\ heap.size <= g.size /\ Sound(g, iter)
          /\ \A n \in Members : n # m /\ HasRegion(scratch, n) =>
                \A x \in Addresses :
                   scratch.member[n].base <= x /\ x < scratch.member[n].end =>
                      g.mem[x] = heap.mem[x]
        BY <1>4, <1>17, <1>18
    <2>4. /\ EpochsBefore(scratch') /\ RegionsApart(g, scratch')
          /\ \A n \in Members : n # m =>
                /\ MemberInv(g, scratch', spent', t, call.from, n, Due(n), NoWalk)
                /\ Due(n) = IF n <= call.member THEN call.cand + 1 ELSE call.cand
          /\ \A n \in Members : spent'[n].filled < spent'[n].walked + Chunk * (spent'[n].hits + 1)
        <3>1. \E d, p : MemberInv(g, scratch', spent', t, call.from, m, d, p)
            BY <1>18
        <3> HIDE DEF t, m, c, r
        <3> QED
            BY <1>16, <2>1, <2>2, <2>3, <3>1
    <2>5. FillsBounded'
        BY <2>4 DEF FillsBounded
    <2>6. ans # Unknown =>
            \A n \in Members :
                MemberInv(g, scratch', spent', iter[call.it].text, call.from, n,
                          IF n <= call.member THEN call.cand + 1 ELSE call.cand, NoWalk)
        <3> SUFFICES ASSUME ans # Unknown, NEW n \in Members
                     PROVE  MemberInv(g, scratch', spent', iter[call.it].text, call.from, n,
                                IF n <= call.member THEN call.cand + 1 ELSE call.cand, NoWalk)
            OBVIOUS
        <3>1. CASE n = m
            <4>1. n <= call.member
                BY <1>2, <3>1
            <4> HIDE DEF NoWalk
            <4> QED
                BY <1>18, <3>1, <4>1
        <3>2. CASE n # m
            BY <2>4, <3>2
        <3> QED
            BY <3>1, <3>2
    <2>7. ans \in {Unknown, Truth(iter[call.it].text, call.member, call.cand)}
        BY <1>18
    <2> QED
        BY <1>1, <1>18, <2>1, <2>2, <2>3, <2>4, <2>5, <2>6, <2>7, AnswersStep
<1>19. ASSUME NEW g \in {zeroed, marked}, Answers(NoMatch, g, s, sp), g.mem[at] # Zero,
              Truth(t, m, pos) = NoMatch
       PROVE  Inv'
    <2>1. scratch' = s /\ spent' = sp
        BY <1>19 DEF Answers, NoMatch
    <2>2. MemberInv(g, s, sp, t, call.from, m, c, pos + 1)
        BY <1>5, <1>19
    <2>3. MemberInv(g, s, sp, t, call.from, m, c + 1, NoWalk)
        <3>1. \A p \in c..pos : Truth(t, m, p) = NoMatch
            BY <1>14, <1>19
        <3>2. g \in Heaps /\ g.size <= MaxWords
            BY <1>2, <1>4
        <3> HIDE DEF t, m, c, pos, NoWalk, NoMatch
        <3> QED
            BY <1>2, <1>3, <1>9, <1>13, <2>2, <3>1, <3>2, WalkFails
    <2>4. Truth(t, m, c) = NoMatch
        BY <1>14, <1>15, <1>19
    <2>5. NoMatch \in Answered
        BY DEF Answered
    <2> HIDE DEF t, m, c, pos, NoWalk, NoMatch
    <2> QED
        BY <1>18, <1>19, <2>1, <2>3, <2>4, <2>5
\* The mark is met: below the watermark, of no position of this walk, so of a failure.
<1>20. CASE zeroed.mem[at] # Zero /\ Answers(NoMatch, zeroed, s, sp)
    <2>1. ~(r.cleared <= at /\ at < cl) /\ heap.mem[at] # Zero
        BY <1>4, <1>11, <1>20
    <2>2. at \in r.base..(r.cleared - 1) /\ r.origin + (at - r.base) = pos
        BY <1>3, <2>1 DEF at
    <2>3. Marked(heap, scratch, t, m, c, pos)
        BY <1>1, <1>2, <1>3, NeedsIs DEF InCall, MemberInv
    <2>4. Truth(t, m, pos) = NoMatch \/ pos \in c..(pos - 1)
        BY <2>1, <2>2, <2>3 DEF Marked
    <2>5. Truth(t, m, pos) = NoMatch
        BY <1>3, <2>4
    <2> QED
        BY <1>19, <1>20, <2>5
<1>21. CASE Kind(t, m, pos) = "fail" /\ Answers(NoMatch, marked, s, sp)
    <2>1. Truth(t, m, pos) = NoMatch
        BY <1>2, <1>15, <1>21, TruthAt
    <2> QED
        BY <1>11, <1>19, <1>21, <2>1
<1>22. CASE Kind(t, m, pos) = "match" /\ Answers(pos + 1, marked, s, sp)
    <2>1. pos + 1 >= 0 /\ pos + 1 \in Answered /\ pos + 1 # Unknown
        BY <1>3 DEF Answered, Unknown
    <2>2. scratch' = Matched(s, m, c) /\ spent' = [sp EXCEPT ![m].hits = @ + 1]
        BY <1>22, <2>1 DEF Answers
    <2>3. Truth(t, m, c) = pos + 1
        BY <1>2, <1>14, <1>15, <1>22, TruthAt
    <2>4. MemberInv(marked, Matched(s, m, c), [sp EXCEPT ![m].hits = @ + 1], t, call.from, m, c + 1, NoWalk)
        <3>1. s.member[m].base + (c - s.member[m].origin) <= s.member[m].cleared
            BY <1>2, <1>3, <1>9 DEF at
        <3>2. marked \in Heaps /\ marked.size <= MaxWords
            BY <1>2, <1>4
        <3> HIDE DEF t, m, c, pos, NoWalk, r
        <3> QED
            BY <1>2, <1>3, <1>9, <1>10, <1>12, <1>13, <3>1, <3>2, WalkMatches
    <2> HIDE DEF t, m, c, pos, NoWalk
    <2> QED
        BY <1>18, <1>22, <2>1, <2>2, <2>3, <2>4
<1>23. CASE Answers(Unknown, marked, s, sp)
    <2>1. scratch' = s /\ spent' = sp
        BY <1>23 DEF Answers, Unknown
    <2>2. Unknown \in Answered
        BY DEF Answered
    <2> QED
        BY <1>12, <1>18, <1>23, <2>1, <2>2
\* A step of the walk: its mark below the watermark, its frames above every region.
<1>24. CASE /\ Kind(t, m, pos) = "go"
            /\ CanHold(marked, stack + frames)
            /\ heap' = Framed(marked, stack, frames)
            /\ scratch' = s /\ spent' = sp
            /\ call' = [call EXCEPT !.pos = @ + 1]
            /\ iter' = iter /\ reader' = reader /\ said' = said
    <2> DEFINE g == Framed(marked, stack, frames)
    <2>1. scratch.top \in Nat /\ stack \in Nat /\ scratch.top <= stack
        <3>1. scratch.top \in Nat
            BY <1>2, ScratchTypes
        <3> QED
            BY <3>1, AlignsUp DEF StackBase
    <2>2. frames \in Nat
        BY <1>2, <1>3
    <2>3. /\ scratch.topEpoch = scratch.epoch /\ r.end <= scratch.top /\ r.base <= r.end
          /\ heap.bump <= r.base
        BY <1>1, <1>2, <1>3, RegionsBelow
    <2>4. /\ Shaped(marked) /\ marked \in Heaps /\ Sound(marked, iter) /\ marked.bump = heap.bump
          /\ marked.size = heap.size /\ heap.bump \in Nat
        BY <1>2, <1>4, HeapTypes
    <2> HIDE DEF stack, frames, g
    <2>5. Spares(marked, g, stack) /\ Shaped(g)
        BY <1>24, <2>1, <2>2, <2>4, Framing DEF g
    <2>6. Sound(g, iter)
        <3>1. stack \in Int /\ marked.bump <= stack
            BY <1>3, <2>1, <2>3, <2>4
        <3> QED
            BY <2>4, <2>5, <3>1, SoundSpared
    <2>7. /\ g \in Heaps /\ g.bump = heap.bump /\ heap.size <= g.size
          /\ \A x \in Addresses : x < stack => g.mem[x] = marked.mem[x]
        BY <2>4, <2>5 DEF Spares
    <2>8. /\ heap' = g /\ scratch' = s /\ spent' = sp /\ iter' = iter /\ reader' = reader /\ said' = said
          /\ call' = [call EXCEPT !.pos = @ + 1]
        BY <1>24 DEF g
    <2>9. pos # t.len
        BY <1>2, <1>15, <1>24, KindTypes
    <2>10. pos + 1 \in Nat /\ pos + 1 <= t.len /\ c <= pos + 1 /\ pos + 1 # NoWalk
           /\ \A q \in c..((pos + 1) - 1) : Kind(t, m, q) = "go"
        <3>1. \A q \in c..((pos + 1) - 1) : q \in c..(pos - 1) \/ q = pos
            BY <1>2, <1>3
        <3>2. \A q \in c..((pos + 1) - 1) : Kind(t, m, q) = "go"
            BY <1>8, <1>24, <3>1
        <3> QED
            BY <1>2, <1>3, <2>9, <3>2 DEF NoWalk
    <2>11. /\ call' \in Calls /\ call'.it = call.it /\ call'.from = call.from /\ call'.cand = c
           /\ call'.member = m /\ call'.pos = pos + 1 /\ call' # NoCall
        <3>1. /\ call' \in Calls /\ call'.it = call.it /\ call'.from = call.from /\ call'.cand = c
              /\ call'.member = m /\ call'.pos = pos + 1
            BY <1>2, <2>8, <2>10 DEF Calls
        <3>2. NoCall.pos = NoWalk
            BY DEF NoCall
        <3> QED
            BY <2>10, <3>1, <3>2
    <2>12. \A n \in Members : HasRegion(scratch, n) =>
              \A x \in Addresses : scratch.member[n].base <= x /\ x < scratch.member[n].end =>
                 g.mem[x] = marked.mem[x]
        <3> SUFFICES ASSUME NEW n \in Members, HasRegion(scratch, n), NEW x \in Addresses,
                            x < scratch.member[n].end
                     PROVE  g.mem[x] = marked.mem[x]
            OBVIOUS
        <3>1. scratch.member[n].end <= scratch.top
            BY <1>1, RegionsBelow
        <3>2. scratch.member[n].end \in Nat /\ x \in Nat
            BY <1>2, ScratchTypes DEF Addresses
        <3>3. x < stack
            BY <2>1, <3>1, <3>2
        <3> QED
            BY <2>7, <3>3
    <2>13. MemberInv(g, s, sp, t, call.from, m, c, pos + 1)
        <3>1. \A x \in Addresses : s.member[m].base <= x /\ x < s.member[m].end =>
                  g.mem[x] = marked.mem[x]
            BY <1>2, <1>3, <1>9, <2>12
        <3>2. /\ s.topEpoch = s.epoch /\ s.top <= s.top /\ s.member[m] = s.member[m]
              /\ sp[m] = sp[m] /\ s.epoch = s.epoch
            BY <1>9, <2>1, <2>3
        <3>3. g.bump = marked.bump /\ marked.size <= g.size /\ marked.size <= MaxWords
            BY <1>2, <2>4, <2>7
        <3> HIDE DEF t, m, c, pos, NoWalk
        <3> QED
            BY <1>2, <1>9, <1>12, <2>4, <2>7, <3>1, <3>2, <3>3, MemberFrame
    <2>14. /\ EpochsBefore(s) /\ RegionsApart(g, s)
           /\ \A n \in Members : n # m =>
                 /\ MemberInv(g, s, sp, t, call.from, n, Due(n), NoWalk)
                 /\ WalkOf(n) = NoWalk
           /\ \A n \in Members : sp[n].filled < sp[n].walked + Chunk * (sp[n].hits + 1)
        <3>1. \A n \in Members : n # m /\ HasRegion(scratch, n) =>
                  \A x \in Addresses : scratch.member[n].base <= x /\ x < scratch.member[n].end =>
                     g.mem[x] = heap.mem[x]
            BY <1>4, <2>12
        <3>2. \E d, p : MemberInv(g, s, sp, t, call.from, m, d, p)
            BY <2>13
        <3> HIDE DEF t, m, c, pos, r, NoWalk
        <3> QED
            BY <1>9, <1>10, <1>16, <2>7, <3>1, <3>2
    <2>15. ASSUME NEW n \in Members
           PROVE  MemberInv(heap', scratch', spent', iter'[call'.it].text, call'.from, n, Due(n)', WalkOf(n)')
        <3>1. Due(n)' = Due(n)
            BY <2>11 DEF Due
        <3>2. CASE n = m
            <4>1. Due(n)' = c /\ WalkOf(n)' = pos + 1
                BY <1>1, <2>11, <3>1, <3>2, NeedsIs DEF WalkOf
            <4> QED
                BY <2>8, <2>11, <2>13, <3>2, <4>1
        <3>3. CASE n # m
            <4>1. WalkOf(n)' = NoWalk
                BY <2>11, <3>3 DEF WalkOf
            <4> QED
                BY <2>8, <2>11, <2>14, <3>1, <3>3, <4>1
        <3> QED
            BY <3>2, <3>3
    <2>16. CallInv'
        BY <1>2, <2>8, <2>11 DEF InCall, CallInv, Live
    <2>17. WalkInv'
        BY <1>2, <1>13, <2>8, <2>10, <2>11 DEF WalkInv
    <2>18. InCall'
        BY <2>8, <2>14, <2>15, <2>16, <2>17 DEF InCall
    <2>19. TypeInv'
        BY <1>1, <1>9, <1>10, <2>7, <2>8, <2>11 DEF Inv, TypeInv
    <2>20. FillsBounded' /\ SaidTrue' /\ Reads(iter', reader') /\ Sound(heap', iter') /\ EpochsBefore(scratch')
        BY <1>1, <2>6, <2>8, <2>14 DEF FillsBounded, SaidTrue, Inv
    <2> QED
        BY <2>18, <2>19, <2>20 DEF Inv
<1> QED
    BY <1>6, <1>20, <1>21, <1>22, <1>23, <1>24

\* The invariant holds of a fresh instance.
LEMMA InitInv == Init => Inv
<1> SUFFICES ASSUME Init PROVE Inv
    OBVIOUS
<1>1. /\ heap = InitHeap /\ iter = [i \in Iters |-> Idle] /\ search = 0
      /\ reader = [i \in Iters |-> Unread]
      /\ scratch = InitScratch /\ call = NoCall /\ said = <<NoMatch, NoMatch>>
      /\ spent = NothingSpent
    BY DEF Init, InitStub
<1>2. /\ heap.mem = [x \in Addresses |-> IF x < StaticTop THEN Table ELSE Zero]
      /\ heap.size = StaticTop + 2 * Page /\ heap.view = StaticTop + 2 * Page
      /\ heap.bump = StaticTop /\ heap.live = 0 /\ heap.base = 0 /\ heap.opens = 0
    BY <1>1 DEF InitHeap
<1>3. StaticTop + 2 * Page \in Nat /\ StaticTop <= StaticTop + 2 * Page /\ 0 \in Nat
    BY Sizes
<1>4. heap \in Heaps
    <2>1. heap.mem \in [Addresses -> Words]
        BY <1>2 DEF Words
    <2> QED
        BY <1>1, <1>3, <2>1, Sizes DEF InitHeap, Heaps
<1>5. iter \in [Iters -> Iterators]
    BY <1>1 DEF Iterators, Idle, AnyText
<1>6. LiveIn(iter) = {}
    BY <1>1 DEF LiveIn, Idle
<1>7. Sound(heap, iter)
    <2>1. Arena(heap, LiveIn(iter))
        BY <1>2, <1>3, <1>6, Sizes, FS_EmptySet DEF Arena
    <2>2. TablesIntact(heap)
        <3>1. \A x \in 0..(StaticTop - 1) : x \in Addresses /\ x < StaticTop
            BY Sizes DEF Addresses
        <3> QED
            BY <1>2, <3>1 DEF TablesIntact
    <2> QED
        BY <1>4, <1>5, <1>6, <2>1, <2>2 DEF Sound
<1>8. scratch \in Scratches /\ EpochsBefore(scratch)
    BY <1>1 DEF InitScratch, Scratches, MemberStates, EpochsBefore
<1>9. spent \in [Members -> Spendings] /\ FillsBounded
    <2>1. Chunk \in Nat /\ Chunk > 0
        BY MemberTypes
    <2> QED
        BY <1>1, <2>1 DEF NothingSpent, Spendings, FillsBounded
<1>10. said \in Answered \X Answered /\ SaidTrue
    BY <1>1 DEF Answered, SaidTrue
<1>11. TypeInv
    BY <1>1, <1>3, <1>4, <1>5, <1>8, <1>9, <1>10 DEF TypeInv
<1>12. Reads(iter, reader)
    BY <1>1, <1>3, <1>6 DEF Reads, Readers, Unread, Words
<1> QED
    BY <1>1, <1>7, <1>8, <1>9, <1>10, <1>11, <1>12 DEF Inv

\* Every step keeps it, while regions are reserved below the sign bit.
LEMMA NextInv == Inv /\ ArenaBelowSign /\ [Next]_vars => Inv'
<1> SUFFICES ASSUME Inv, ArenaBelowSign, [Next]_vars PROVE Inv'
    OBVIOUS
<1>1. CASE call = NoCall /\ StubNext
    <2>1. CASE \E i \in Iters, o \in Openings, cache \in Caches : Open(i, o[1], o[2], cache)
        BY <1>1, <2>1, OpenStep
    <2>2. CASE \E i \in Iters : Close(i)
        BY <1>1, <2>2, CloseStep
    <2>3. CASE \E t \in Texts, use \in Uses : OneShot(t, use)
        BY <1>1, <2>3, OneShotStep
    <2>4. CASE \E i \in Iters, arms \in BOOLEAN, use \in Uses : FindMatches(i, arms, use)
        BY <1>1, <2>4, FindMatchesStep
    <2>5. CASE \E i \in Iters, use \in Uses : FindEnds(i, use)
        BY <1>1, <2>5, FindEndsStep
    <2>6. CASE \E i \in Iters : Yields(i)
        BY <1>1, <2>6, YieldsStep
    <2> QED
        BY <1>1, <2>1, <2>2, <2>3, <2>4, <2>5, <2>6 DEF StubNext
<1>2. CASE \E i \in Iters : SetBegins(i)
    BY <1>2, SetBeginsStep
<1>3. CASE OrdinaryRuns
    BY <1>3, OrdinaryRunsStep
<1>4. CASE FallbackBegins
    BY <1>4, FallbackBeginsStep
<1>5. CASE FallbackWalks
    BY <1>5, FallbackWalksStep
<1>6. CASE UNCHANGED vars
    <2>1. /\ heap' = heap /\ iter' = iter /\ search' = search /\ reader' = reader /\ scratch' = scratch
          /\ call' = call /\ said' = said /\ spent' = spent
        BY <1>6 DEF vars
    <2>2. TypeInv' /\ SaidTrue' /\ FillsBounded' /\ Reads(iter', reader')
        BY <2>1 DEF Inv, TypeInv, SaidTrue, FillsBounded
    <2>3. ASSUME call' # NoCall PROVE InCall'
        <3>1. InCall
            BY <2>1, <2>3 DEF Inv
        <3>2. CallInv' /\ WalkInv'
            BY <2>1, <3>1 DEF InCall, CallInv, WalkInv, Live
        <3>3. \A m \in Members : Due(m)' = Due(m) /\ WalkOf(m)' = WalkOf(m)
            BY <2>1 DEF Due, WalkOf
        <3>4. RegionsApart(heap', scratch')
            BY <2>1, <3>1 DEF InCall
        <3>5. ASSUME NEW m \in Members
              PROVE  MemberInv(heap', scratch', spent', iter'[call'.it].text, call'.from, m, Due(m)', WalkOf(m)')
            <4>1. MemberInv(heap, scratch, spent, iter[call.it].text, call.from, m, Due(m), WalkOf(m))
                BY <3>1 DEF InCall
            <4> QED
                BY <2>1, <3>3, <4>1
        <3> QED
            BY <3>2, <3>4, <3>5 DEF InCall
    <2>4. Sound(heap', iter') /\ EpochsBefore(scratch')
        BY <2>1 DEF Inv
    <2> QED
        BY <2>2, <2>3, <2>4 DEF Inv
<1> QED
    BY <1>1, <1>2, <1>3, <1>4, <1>5, <1>6 DEF Next
-----------------------------------------------------------------------------
(* The properties, of every behaviour whose regions are reserved below the   *)
(* sign bit of an address.                                                   *)

\* The inductive invariant, of every behaviour.
LEMMA InvHolds == Spec /\ []ArenaBelowSign => []Inv
    BY InitInv, NextInv, PTL DEF Spec

\* What an iterator staged, was handed or keeps is its own for as long as it
\* lives, and so are the module's tables, whatever iterators are opened,
\* suspended and closed around it and whatever scratch their calls take
\* (js_stub.go _open, _notes, _close; bt_scratch.go emitBTScratchBaseFree).
THEOREM HeldIsUntouched == Spec /\ []ArenaBelowSign => []RegionsIntact
<1>1. Inv => RegionsIntact
    <2> SUFFICES ASSUME Inv PROVE RegionsIntact
        OBVIOUS
    <2>1. Sound(heap, iter) /\ Live = LiveIn(iter)
        BY LiveIsLiveIn DEF Inv
    <2> QED
        BY <2>1 DEF Sound, TablesIntact, HeldIntact, RegionsIntact, Last
<1> QED
    BY <1>1, InvHolds, PTL

\* An iterator's input is staged whole and every word it reads, in its calls
\* and at its yields, is its own: the view is attached again before each read,
\* and nobody has written what it shows since (js_stub.go _grow, _att,
\* genJSSetAll; search_stub.go _notes).
THEOREM OwnWordsAreRead == Spec /\ []ArenaBelowSign => []ReadsItsOwn
<1>1. Inv => ReadsItsOwn
    <2> SUFFICES ASSUME Inv PROVE ReadsItsOwn
        OBVIOUS
    <2>1. Sound(heap, iter) /\ Reads(iter, reader) /\ Live = LiveIn(iter)
        BY LiveIsLiveIn DEF Inv
    <2>2. \A i \in Live : iter[i].len = iter[i].text.len
        BY <2>1 DEF Sound, Lies
    <2>3. \A i \in Live : reader[i].got \in Owned(i, iter[i])
        BY <2>1 DEF Reads
    <2> QED
        BY <2>2, <2>3 DEF ReadsItsOwn, Owned
<1> QED
    BY <1>1, InvHolds, PTL

\* The arena's bookkeeping: _live counts the regions, the last one to close
\* gives the whole arena back, and the running call is a live iterator's.
THEOREM ArenaKept == Spec /\ []ArenaBelowSign => []TypeOK
<1>1. Inv => TypeOK
    <2> SUFFICES ASSUME Inv PROVE TypeOK
        OBVIOUS
    <2>1. /\ Arena(heap, Live) /\ heap \in Heaps /\ scratch \in Scratches
        BY LiveIsLiveIn DEF Inv, Sound, TypeInv
    <2>2. /\ heap.size \in Nat /\ heap.view \in Nat /\ heap.bump \in Nat /\ heap.base \in Nat
          /\ StaticTop \in Nat /\ MaxWords \in Nat
        BY <2>1, HeapTypes, Sizes
    <2>3. /\ heap.size \in StaticTop..MaxWords /\ heap.view \in 0..heap.size
          /\ heap.bump \in StaticTop..MaxWords /\ heap.base \in 0..MaxWords
        BY <2>1, <2>2 DEF Arena
    <2>4. heap.live = Cardinality(Live) /\ (Live = {} => heap.bump = StaticTop)
        BY <2>1 DEF Arena
    <2>5. call.it = "none" \/ call.it \in Live
        BY DEF Inv, InCall, CallInv, NoCall
    <2>6. \A m \in Members : scratch.member[m].budget >= 0
        BY <2>1 DEF Scratches, MemberStates
    <2> QED
        BY <2>3, <2>4, <2>5, <2>6 DEF TypeOK
<1> QED
    BY <1>1, InvHolds, PTL

\* A mark that a fallback reads is a failure of its own member on the text of
\* its own host call: a region is placed for one member and one call, above
\* every other, and a match takes its marks back (emitBTScratchInitMember,
\* emitBTMemberMatched, emitBitStateGuardDyn).
THEOREM MarksAreTrue == Spec /\ []ArenaBelowSign => []MarksAreFailures
<1>1. Inv => MarksAreFailures
    <2> SUFFICES ASSUME Inv, call # NoCall, NEW m \in Members, HasRegion(scratch, m),
                        NEW x \in scratch.member[m].base..
                                    (Smaller(scratch.member[m].cleared, scratch.member[m].end) - 1),
                        heap.mem[x] # Zero
                 PROVE  LET r == scratch.member[m]  p == r.origin + (x - r.base) IN
                        \/ Truth(iter[call.it].text, m, p) = NoMatch
                        \/ m = call.member /\ p \in call.cand..(call.pos - 1)
        BY DEF MarksAreFailures, HasRegion
    <2> DEFINE r == scratch.member[m]
               p == r.origin + (x - r.base)
    <2>1. /\ InCall /\ scratch \in Scratches /\ call.cand \in Nat
          /\ iter[call.it].text \in SetTexts /\ call.from \in Nat
          /\ heap \in Heaps /\ heap.size <= MaxWords
        BY CallTypes
    <2>2. MemberInv(heap, scratch, spent, iter[call.it].text, call.from, m, Due(m), WalkOf(m))
        BY <2>1 DEF InCall
    <2>3. r.base \in Nat /\ r.origin \in Nat /\ r.end \in Nat /\ r.cleared \in Nat
        BY <2>1, ScratchTypes
    <2>4. x \in r.base..(r.cleared - 1)
        BY <2>3 DEF Smaller
    <2>5. Truth(iter[call.it].text, m, p) = NoMatch \/ p \in Due(m)..(WalkOf(m) - 1)
        BY <2>2, <2>4 DEF MemberInv, Marked
    <2>6. Due(m) \in Nat
        BY <2>1 DEF Due
    <2>7. CASE m = call.member
        <3>1. Due(m) = call.cand /\ WalkOf(m) = call.pos
            BY <2>7, NeedsIs DEF WalkOf
        <3> QED
            BY <2>5, <2>7, <3>1
    <2>8. CASE m # call.member
        <3>1. Due(m)..(WalkOf(m) - 1) = {}
            BY <2>6, <2>8 DEF WalkOf, NoWalk
        <3> QED
            BY <2>5, <3>1
    <2> QED
        BY <2>7, <2>8
<1> QED
    BY <1>1, InvHolds, PTL

\* A member answers what its program does at the candidate, or that it does not
\* know, whichever body runs and whatever the other members, candidates and
\* iterators left in the memory (set_bt.go, bt_scratch.go).
THEOREM AnswersAreTrue == Spec /\ []ArenaBelowSign => []SaidTrue
<1>1. Inv => SaidTrue
    BY DEF Inv
<1> QED
    BY <1>1, InvHolds, PTL

\* What a set's members cost a host call is linear in its text: one budget for
\* all the candidates, and marks zeroed once and again by what a match takes
\* back (emitBTWorkInitMember, emitBitStateGuardDyn).
THEOREM MembersStayLinear == Spec /\ []ArenaBelowSign => []MembersLinear
<1>1. Inv => MembersLinear
    <2> SUFFICES ASSUME Inv PROVE MembersLinear
        OBVIOUS
    <2>1. ASSUME call # NoCall, NEW m \in Members
          PROVE  spent[m].pops <= (iter[call.it].len - call.from + 1) * Factor
        <3> DEFINE len == iter[call.it].len
                   b == (len - call.from + 1) * Factor
        <3>1. /\ InCall /\ scratch \in Scratches /\ spent \in [Members -> Spendings]
              /\ iter[call.it].text.len = len /\ len \in Nat
              /\ call.from \in Nat /\ call.cand \in Nat /\ call.from <= call.cand /\ call.cand <= len
            BY <2>1, CallTypes
        <3>2. Within(scratch, spent, iter[call.it].text, call.from, m)
            BY <3>1 DEF InCall, MemberInv
        <3>3. spent[m].pops \in Nat /\ scratch.member[m].budget \in Nat
            BY <3>1, SpendingTypes, ScratchTypes
        <3>4. b \in Nat
            <4>1. len - call.from + 1 \in Nat /\ Factor \in Nat
                BY <3>1, MemberTypes
            <4> QED
                BY <4>1, Products
        <3>5. spent[m].pops + scratch.member[m].budget <= b \/ spent[m].pops = 0
            BY <3>1, <3>2 DEF Within
        <3> HIDE DEF b
        <3>6. spent[m].pops <= b
            BY <3>3, <3>4, <3>5
        <3> QED
            BY <3>6 DEF b
    <2> QED
        BY <2>1 DEF Inv, MembersLinear, BudgetHolds
<1> QED
    BY <1>1, InvHolds, PTL

\* A memory that may not grow to the sign bit of an address, less the largest
\* input, keeps every region below it (js_stub.go _align, _open): the theorems
\* above hold of it outright.
THEOREM BelowSign ==
    ASSUME \A t \in Texts : MaxWords + InCap(t) + Unit <= Half
    PROVE  Spec => []ArenaBelowSign
<1>1. Inv => ArenaBelowSign
    <2> SUFFICES ASSUME Inv, NEW t \in Texts PROVE heap.bump + InCap(t) + Unit <= Half
        BY DEF ArenaBelowSign
    <2>1. heap.bump \in Nat /\ heap.bump <= MaxWords
        BY SoundTypes, HeapTypes, Sizes DEF Inv, Shaped
    <2>2. InCap(t) \in Nat /\ Unit \in Nat /\ MaxWords \in Nat /\ Half \in Nat
        BY TextSizes, Sizes DEF InCap
    <2>3. MaxWords + InCap(t) + Unit <= Half
        OBVIOUS
    <2> QED
        BY <2>1, <2>2, <2>3
<1>2. Inv /\ [Next]_vars => Inv'
    BY <1>1, NextInv
<1> QED
    BY <1>1, <1>2, InitInv, PTL DEF Spec

=============================================================================
