---------------------------- MODULE StubMemory ----------------------------
(***************************************************************************)
(* The linear memory a JavaScript or TypeScript stub shares with the module *)
(* it drives (generate/js_stub.go, generate/search_stub.go).  Every live    *)
(* iterator keeps a region of its own: its input, what a call writes out,   *)
(* its search block and, once the search arms, its notes.  Calls of any     *)
(* iterator interleave at their yields; a call of a one-shot export stages  *)
(* its input above the regions; and a Backtracking call takes its scratch   *)
(* above the base the stub keeps in a global of the module.                 *)
(*                                                                          *)
(* A word of the model stands for the unit its data needs: a byte of input, *)
(* a whole block, a frame.                                                  *)
(***************************************************************************)
EXTENDS Integers, FiniteSets

CONSTANTS
    Iters,      \* the iterators, by the variable that holds them
    Members,    \* the Backtracking members of the set, see SetScratch
    Texts,      \* the inputs, as [units, cap, len, world]
    Openings,   \* what an iterator is opened on: <<"find" or "set", text>>
    Caches,     \* words an opening asks for its answer cache
    MaxOpens,   \* bound: iterators opened in all
    StaticTop,  \* words the module's tables take
    Page,       \* words of a page
    MaxWords,   \* words the memory may grow to
    Half,       \* 2^31 in words: the sign bit of an i32 address
    Unit,       \* what _align rounds up to
    Uses        \* scratch words a find or one-shot call takes

ASSUME SizeAssumption ==
    /\ StaticTop \in Nat \ {0} /\ Page \in Nat \ {0} /\ MaxWords \in Nat
    /\ StaticTop + 2 * Page <= MaxWords
    /\ Half \in Nat \ {0} /\ Unit \in Nat \ {0} /\ Uses \subseteq Nat
    /\ MaxOpens \in Nat /\ Openings \subseteq {"find", "set"} \X Texts
    /\ Caches \subseteq Nat
\* len bytes of UTF-8 from a string of fewer code units; cap is three a unit.
ASSUME TextAssumption ==
    \A t \in Texts : /\ t.units \in Nat /\ t.cap \in Nat /\ t.len \in Nat
                      /\ t.units <= t.len /\ t.len <= t.cap

VARIABLES
    heap,    \* the stub's module variables and the memory, see Init
    iter,    \* the iterators
    search,  \* the global regexped:search, which names the current block
    reader,  \* the iterators' own views of the buffer, see Unread
    scratch, \* the set's call-scoped globals, see SetScratch
    call,    \* the running call of the set, see SetScratch
    said,    \* ghost: the last answer of a member
    spent    \* ghost: the pops each member's ordinary body paid in this call

stubVars == <<heap, iter, search, reader>>

Larger(a, b) == IF a > b THEN a ELSE b
Smaller(a, b) == IF a < b THEN a ELSE b
Addresses == 0..(MaxWords - 1)

\* What a word holds: nothing, something the module left, the tables, the input
\* of an iterator, its call's results, its block, a note of its search.
Zero == <<"zero">>
Junk == <<"junk">>
Table == <<"table">>
Input(i) == <<"input", i>>
Out(i) == <<"out", i>>
Block(armed, notes) == <<"block", armed, notes>>
Note(i) == <<"note", i>>
\* What a read through a detached view yields.
Undefined == <<"undefined">>

Idle == [status |-> "idle", kind |-> "find", text |-> CHOOSE t \in Texts : TRUE,
         at |-> 0, len |-> 0, out |-> 0, cache |-> 0, notes |-> 0, fail |-> FALSE, pos |-> 0]
\* An iterator's view of its results, as the size of the memory it was made
\* over; the tuples of its last call not delivered yet; and, a ghost, the word
\* it read last.
Unread == [view |-> 0, left |-> 0, got |-> Zero]
Live == {i \in Iters : iter[i].status = "live"}
-----------------------------------------------------------------------------
(* The stub's helpers. *)

\* (x + 7) & ~7, on an i32.
Align(x) == LET up == ((x + Unit - 1) \div Unit) * Unit
            IN  IF up >= Half THEN up - 2 * Half ELSE up
Pages(words) == (words + Page - 1) \div Page

CanGrow(h, pages) == h.size + pages * Page <= MaxWords
Grown(h, pages) == [h EXCEPT !.size = @ + pages * Page]

\* _grow throws a RangeError, and has changed nothing.
Throws(h, top) == top > h.size /\ ~CanGrow(h, Pages(top - h.size))
\* Mutant: the view is taken again only when this call is the one that grew.
GrowKeepsView(h, top) ==
    LET g == IF top > h.size THEN [Grown(h, Pages(top - h.size)) EXCEPT
                                     !.view = h.size + Pages(top - h.size) * Page]
             ELSE h
    IN  [g EXCEPT !.base = Larger(@, top)]
\* _grow: memory until top fits, the view taken again, the scratch base raised.
GrowTo(h, top) ==
    LET g == IF top > h.size THEN Grown(h, Pages(top - h.size)) ELSE h
    IN  [g EXCEPT !.view = g.size, !.base = Larger(@, top)]

\* n words from lo on hold v.
Store(h, lo, n, v) ==
    [h EXCEPT !.mem = [x \in Addresses |-> IF lo <= x /\ x < lo + n THEN v ELSE @[x]]]

\* A view is detached once the memory has grown past what it was made over.
Detached(view, h) == view # h.size
\* _att
Att(view, h) == IF Detached(view, h) THEN h.size ELSE view
Through(view, h, x) == IF Detached(view, h) THEN Undefined ELSE h.mem[x]

\* _write through _mem: what does not fit in the memory is left out, and
\* nothing is written through a detached view.
Written(h, t, at) ==
    IF Detached(h.view, h) THEN 0 ELSE Larger(0, Smaller(t.len, h.size - at))
\* _mem.fill
Filled(h, lo, n, v) == IF Detached(h.view, h) THEN h ELSE Store(h, lo, n, v)

\* Mutant: the region is reserved before the memory is there.
Reserve(h, top) == [h EXCEPT !.bump = top, !.live = @ + 1, !.opens = @ + 1]
ReservedFirst(h, top) == Reserve(h, top)
\* Nothing is reserved until the grow has succeeded.
Reserved(h, top) == IF Throws(h, top) THEN h ELSE Reserve(h, top)

\* _close: the last live iterator resets the arena.
Released(h) == [h EXCEPT !.live = @ - 1, !.bump = IF h.live = 1 THEN StaticTop ELSE @]

\* Where a Backtracking call outside a set takes its scratch
\* (emitBTScratchBaseFree).
FreeBase(h) == IF h.base = 0 THEN h.size ELSE Larger(h.base, StaticTop)

\* The module grows until end fits, or not at all; it never tells the stub.
CanHold(h, end) == end <= h.size \/ CanGrow(h, Pages(end - h.size))
Hold(h, end) == IF end <= h.size THEN h ELSE Grown(h, Pages(end - h.size))
-----------------------------------------------------------------------------
(* Opening and closing. *)

InitHeap ==
    [mem |-> [x \in Addresses |-> IF x < StaticTop THEN Table ELSE Zero],
     size |-> StaticTop + 2 * Page, view |-> StaticTop + 2 * Page,
     bump |-> StaticTop, live |-> 0, base |-> 0, opens |-> 0]

InitStub ==
    /\ heap = InitHeap
    /\ iter = [i \in Iters |-> Idle]
    /\ search = 0
    /\ reader = [i \in Iters |-> Unread]

\* _inCap: the worst case of the encoding.
InCap(t) == t.cap

\* Mutant: the cache the grow was refused for is reserved all the same.
CachedAnyway(h, top, cache) == [heap |-> IF Throws(h, top + cache) THEN h ELSE GrowTo(h, top + cache),
                                words |-> cache]
\* The answer cache above what was opened: a refused grow declines it.
Cached(h, top, cache) ==
    IF cache = 0 \/ Throws(h, top + cache) THEN [heap |-> h, words |-> 0]
    ELSE [heap |-> GrowTo(h, top + cache), words |-> cache]

\* The generator's first next(): _open, its block or its out area and its cache
\* set up, and its view of them made.
Open(i, kind, t, cache) ==
    LET at == heap.bump
        out == Align(at + InCap(t))
        top == out + 1
        h == GrowTo(heap, top)
        n == Written(h, t, at)
        written == Store(h, at, n, Input(i))
        cached == Cached(written, top, cache)
        cleared == IF kind = "find" THEN Filled(cached.heap, out, 1, Block(FALSE, 0))
                   ELSE Store(cached.heap, out, 1 + cached.words, Out(i))
    IN  /\ iter[i].status = "idle"
        /\ kind = "find" => cache = 0
        /\ heap.opens < MaxOpens
        /\ IF Throws(heap, top)
           THEN heap' = Reserved(heap, top) /\ UNCHANGED <<iter, reader>>
           ELSE /\ heap' = Reserved(cleared, top + cached.words)
                /\ iter' = [iter EXCEPT ![i] =
                               [Idle EXCEPT !.status = "live", !.kind = kind, !.text = t, !.at = at,
                                            !.len = n, !.out = out, !.cache = cached.words]]
                /\ reader' = [reader EXCEPT ![i] = [Unread EXCEPT !.view = cleared.size]]
        /\ UNCHANGED <<search, scratch, call, said, spent>>

End(i, h) ==
    /\ heap' = Released(h)
    /\ iter' = [iter EXCEPT ![i] = Idle]
    /\ reader' = [reader EXCEPT ![i] = Unread]

\* The consumer leaves the loop, or the scan is over: finally _close().
Close(i) ==
    /\ i \in Live
    /\ End(i, heap)
    /\ UNCHANGED <<search, scratch, call, said, spent>>

\* A call that cannot suspend: staged above the regions, nothing reserved.  What
\* it stages, what comes out and its scratch are junk to everybody else.
OneShot(t, use) ==
    LET top == Align(heap.bump + InCap(t)) + Page
        h == GrowTo(heap, top)
        staged == Store(h, heap.bump, top - heap.bump, Junk)
        from == FreeBase(staged)
    IN  /\ heap' = IF Throws(heap, top) THEN heap
                   ELSE IF CanHold(staged, from + use)
                        THEN Store(Hold(staged, from + use), from, use, Junk)
                        ELSE staged
        /\ UNCHANGED <<iter, search, reader, scratch, call, said, spent>>
-----------------------------------------------------------------------------
(* One call of a find iterator and what the stub does around it. *)

\* _notes: nothing, the notes carved from the bump and written in the block, or
\* an error for the next call.
NotesWanted(h, blk) == h.mem[blk][2] /\ h.mem[blk][3] = 0
NotesTop(h, n) == Align(h.bump) + n
Carve(h, blk, n) ==
    LET at == Align(h.bump)
        zeroed == Filled([GrowTo(h, at + n) EXCEPT !.bump = at + n], at, n, Zero)
    IN  Store(zeroed, blk, 1, Block(TRUE, at))

\* The module's side: a note is written at the position of the call, the search
\* may arm, and a Backtracking call uses words above the base.
Noted(i, h, blk, arms) ==
    IF h.mem[blk][3] = 0
    THEN Store(h, blk, 1, Block(h.mem[blk][2] \/ arms, 0))
    ELSE Store(h, h.mem[blk][3] + iter[i].pos, 1, Note(i))

\* Mutant: the block is handed over before the first call only.
NamedOnce(i) == IF iter[i].pos = 0 THEN iter[i].out ELSE search
\* `global.value = _blk' right before every call.
Named(i) == iter[i].out

\* The stub asks for what the search wants.
After(i, h) ==
    LET blk == iter[i].out
        n == iter[i].len + 1
    IN  IF ~NotesWanted(h, blk) THEN [heap |-> h, fail |-> FALSE]
        ELSE IF Throws(h, NotesTop(h, n)) THEN [heap |-> h, fail |-> TRUE]
        ELSE [heap |-> Carve(h, blk, n), fail |-> FALSE]

\* Mutant: the slots are attached after the call, and not again after the notes.
SlotsOnce(i, called, after) ==
    LET v == Att(Att(reader[i].view, heap), called)
    IN  [reader[i] EXCEPT !.view = v, !.got = Through(v, after, iter[i].out)]
\* The slots of a find, cleared before the call and read after it: attached
\* before, after the call and after the notes, each of which may grow memory.
Slots(i, called, after) ==
    LET v == Att(Att(Att(reader[i].view, heap), called), after)
    IN  [reader[i] EXCEPT !.view = v, !.got = Through(v, after, iter[i].out)]

FindMatches(i, arms, use) ==
    LET from == FreeBase(heap)
        held == Store(Hold(heap, from + use), from, use, Junk)
        called == Noted(i, held, Named(i), arms)
        after == After(i, called)
    IN  /\ i \in Live /\ iter[i].kind = "find"
        /\ ~iter[i].fail /\ iter[i].pos <= iter[i].len
        /\ CanHold(heap, from + use)
        /\ search' = Named(i)
        /\ heap' = after.heap
        /\ reader' = [reader EXCEPT ![i] = Slots(i, called, after.heap)]
        /\ iter' = [iter EXCEPT ![i].pos = @ + 1, ![i].fail = after.fail,
                                ![i].notes = after.heap.mem[iter[i].out][3]]
        /\ UNCHANGED <<scratch, call, said, spent>>

\* -1, or -2 because memory was refused, or the error kept from the last call.
FindEnds(i, use) ==
    LET from == FreeBase(heap)
    IN  /\ i \in Live /\ iter[i].kind = "find"
        /\ search' = IF iter[i].fail \/ iter[i].pos > iter[i].len THEN search ELSE Named(i)
        /\ IF iter[i].fail \/ iter[i].pos > iter[i].len \/ use = 0 \/ ~CanHold(heap, from + use)
           THEN End(i, heap)
           ELSE End(i, Store(Hold(heap, from + use), from, use, Junk))
        /\ UNCHANGED <<scratch, call, said, spent>>
-----------------------------------------------------------------------------
(* What a set's iterator yields. *)

\* The tuple read through the view, which is attached again first.
Tuple(i, h, left) ==
    LET v == Att(reader[i].view, h)
    IN  [view |-> v, left |-> left, got |-> Through(v, h, iter[i].out)]

\* Mutant: the view is attached after the call, and not at every step.
YieldsStale(i) ==
    /\ i \in Live /\ iter[i].kind = "set" /\ reader[i].left > 0
    /\ reader' = [reader EXCEPT ![i].left = @ - 1,
                                ![i].got = Through(reader[i].view, heap, iter[i].out)]
    /\ UNCHANGED <<heap, iter, search, scratch, call, said, spent>>
\* The generator goes on from a yield, to the next tuple of its last call.
Yields(i) ==
    /\ i \in Live /\ iter[i].kind = "set" /\ reader[i].left > 0
    /\ reader' = [reader EXCEPT ![i] = Tuple(i, heap, reader[i].left - 1)]
    /\ UNCHANGED <<heap, iter, search, scratch, call, said, spent>>

StubNext ==
    \/ \E i \in Iters, o \in Openings, cache \in Caches : Open(i, o[1], o[2], cache)
    \/ \E i \in Iters : Close(i)
    \/ \E t \in Texts, use \in Uses : OneShot(t, use)
    \/ \E i \in Iters, arms \in BOOLEAN, use \in Uses : FindMatches(i, arms, use)
    \/ \E i \in Iters, use \in Uses : FindEnds(i, use)
    \/ \E i \in Iters : Yields(i)
=============================================================================
