---------------------------- MODULE SetScratch ----------------------------
(***************************************************************************)
(* What a set's Backtracking members keep for one host call                 *)
(* (compile/bt_scratch.go, "Set members"), in the memory that StubMemory    *)
(* describes: a budget for the ordinary body, a region with the visited     *)
(* marks of the fallback, and the watermark below which the region is known *)
(* to be zeroed.  A host call drives every member at every candidate; all   *)
(* three are told from the last call's by an epoch.                         *)
(***************************************************************************)
EXTENDS StubMemory

CONSTANTS
    Factor,     \* k * N: the budget's charges per position
    Charge,     \* what a pop is charged, by member (emitBTWorkChargeMemberN)
    Chunk,      \* btScratchClearChunk
    MaxEpoch    \* bound: the epoch after the last host call of the set

ASSUME ScratchAssumption ==
    /\ IsFiniteSet(Members) /\ Members # {} /\ Members = 1..Cardinality(Members)
    /\ Factor \in Nat \ {0} /\ Charge \in [Members -> Nat \ {0}] /\ Chunk \in Nat \ {0} /\ MaxEpoch \in Nat
\* What a set's members do at each position of its texts.
ASSUME WorldAssumption ==
    \A o \in Openings : o[1] = "set" =>
        \A m \in Members, p \in 0..(o[2].len - 1) : o[2].world[m][p] \in {"go", "fail", "match"}

vars == <<heap, iter, search, reader, scratch, call, said, spent>>

NoMatch == -1
Unknown == -2
NoWalk == -1
NoCall == [it |-> "none", from |-> 0, cand |-> 0, member |-> 0, hit |-> FALSE, pos |-> NoWalk]
NothingSpent == [m \in Members |-> [pops |-> 0, walked |-> 0, filled |-> 0, hits |-> 0]]

\* A member is a program with one guarded instruction: at each position it goes
\* on to the next, fails or matches.
Kind(t, m, p) == IF p = t.len THEN "fail" ELSE t.world[m][p]
Stop(t, m, c) == CHOOSE p \in c..t.len :
                    Kind(t, m, p) # "go" /\ \A q \in c..(p - 1) : Kind(t, m, q) = "go"
\* The answer at candidate c.
Truth(t, m, c) == IF Kind(t, m, Stop(t, m, c)) = "match" THEN Stop(t, m, c) + 1 ELSE NoMatch
-----------------------------------------------------------------------------
(* The call-scoped globals. *)

\* (x + 3) & ~3 is taken in i64, so it does not wrap.
AlignUp(x) == ((x + Unit - 1) \div Unit) * Unit

InitScratch ==
    [epoch |-> 1, topEpoch |-> 0, top |-> 0,
     member |-> [m \in Members |->
         [budgetEpoch |-> 0, budget |-> 0, memoEpoch |-> 0, base |-> 0,
          origin |-> 0, end |-> 0, cleared |-> 0]]]

\* emitBTDrivePrologue: a new host call.
NextEpoch(s) == [s EXCEPT !.epoch = @ + 1]

\* Mutant: a budget for every candidate.
BudgetPerCandidate(s, m, span) ==
    [s EXCEPT !.member[m].budget = (span + 1) * Factor, !.member[m].budgetEpoch = s.epoch]
\* emitBTWorkInitMember: the member's budget, once per host call.
Budgeted(s, m, span) ==
    IF s.member[m].budgetEpoch = s.epoch THEN s
    ELSE [s EXCEPT !.member[m].budget = (span + 1) * Factor,
                   !.member[m].budgetEpoch = s.epoch]

\* emitBTMemberTripped
Tripped(s, m) == s.member[m].budgetEpoch = s.epoch /\ s.member[m].budget < 1

\* emitBTScratchBase: the first body to need scratch in this host call finds
\* where it may start, and records it.
Based(s, h) ==
    IF s.topEpoch = s.epoch THEN s
    ELSE [s EXCEPT !.top = FreeBase(h), !.topEpoch = s.epoch]

\* The member's region: above everything placed so far in this host call.
Placed(s, h, m, c, len) ==
    LET base == AlignUp(s.top) end == base + (len - c) + 1
    IN  [s EXCEPT !.member[m] = [@ EXCEPT !.base = base, !.end = end, !.cleared = base,
                                          !.origin = c, !.memoEpoch = s.epoch],
                  !.top = end]
\* Mutant: whose host call placed the region is not asked.
OriginAlone(s, m, c) == c < s.member[m].origin
NeedsRegion(s, m, c) == \/ s.member[m].memoEpoch # s.epoch
                        \/ c < s.member[m].origin

\* Mutant: the marks of a match stand.
MarksStand(s, m, c) == s
\* emitBTMemberMatched: the marks from the candidate's row on are not failures.
Matched(s, m, c) ==
    LET r == s.member[m]
    IN  [s EXCEPT !.member[m].cleared =
            IF c < r.origin THEN r.base ELSE Smaller(r.base + (c - r.origin), r.cleared)]
-----------------------------------------------------------------------------
(* A member at a candidate. *)

\* Frames from base on: as many of n as memory can be had for.
MaxSize(h) == h.size + ((MaxWords - h.size) \div Page) * Page
Fits(h, base, n) == Larger(0, Smaller(n, MaxSize(h) - base))
Framed(h, base, n) == Store(IF n = 0 THEN h ELSE Hold(h, base + n), base, n, Junk)

\* The ordinary body: no marks, a frame at every step, a pop for each of them
\* when it fails.  `trips' when the budget or the memory is spent.
Ordinary(h, s0, t, m, c) ==
    LET s == Based(Budgeted(s0, m, t.len - c), h)
        base == AlignUp(s.top)
        steps == Stop(t, m, c) - c
        fits == Fits(h, base, steps)
        left == s.member[m].budget
        cost == steps * Charge[m]
        fails == Truth(t, m, c) = NoMatch
        pops == IF fits < steps THEN Smaller(fits, 1)
                ELSE IF fails THEN Smaller(cost, left) ELSE 0
        spentAll == fits < steps \/ (fails /\ cost >= left)
    IN  [heap |-> Framed(h, base, fits),
         scratch |-> [s EXCEPT !.member[m].budget = IF spentAll THEN 0 ELSE left - pops],
         pops |-> pops, trips |-> spentAll]

\* The lazy clear's end: btScratchClearChunk past the word, within the memo.
ClearEnd(r, at) == Smaller(at + Chunk, r.end)

\* emitBTScratchInitMember: the region placed, unless the member has one; then
\* one frame is to fit above every region.
Regioned(s, h, m, c, len) ==
    IF NeedsRegion(s, m, c) THEN Placed(Based(s, h), h, m, c, len) ELSE s
StackBase(s) == AlignUp(s.top)
\* Past the ceiling nothing is recorded but the base.
Refused(s, h, m, c, len) ==
    IF NeedsRegion(s, m, c) /\ Regioned(s, h, m, c, len).top + 1 > MaxWords
    THEN Based(s, h) ELSE Regioned(s, h, m, c, len)
-----------------------------------------------------------------------------
(* The set's host calls. *)

SetBegins(i) ==
    /\ i \in Live /\ iter[i].kind = "set" /\ call = NoCall /\ reader[i].left = 0
    /\ iter[i].pos <= iter[i].len
    /\ scratch.epoch < MaxEpoch
    /\ scratch' = NextEpoch(scratch)
    /\ call' = [it |-> i, from |-> iter[i].pos, cand |-> iter[i].pos, member |-> 1,
                hit |-> FALSE, pos |-> NoWalk]
    /\ spent' = NothingSpent
    /\ UNCHANGED <<heap, iter, search, reader, said>>

\* The next member, the next candidate, the yield of the first tuple or the end
\* of the scan.  A batch call may go on after a match, and reports it at its end.
Onward(ans, h) ==
    LET i == call.it
        hit == call.hit \/ ans >= 0
        tuples == reader[i].left + (IF ans >= 0 THEN 1 ELSE 0)
        last == call.member = Cardinality(Members)
        goesOn == heap' = h /\ reader' = [reader EXCEPT ![i].left = tuples] /\ UNCHANGED iter
    IN  \/ /\ ans # Unknown /\ ~last
           /\ call' = [call EXCEPT !.member = @ + 1, !.hit = hit, !.pos = NoWalk]
           /\ goesOn
        \/ /\ ans # Unknown /\ last /\ call.cand < iter[i].len
           /\ call' = [call EXCEPT !.member = 1, !.cand = @ + 1, !.hit = FALSE, !.pos = NoWalk]
           /\ goesOn
        \/ /\ ans # Unknown /\ last
           /\ hit \/ (call.cand = iter[i].len /\ tuples > 0)
           /\ call' = NoCall
           /\ heap' = h
           /\ iter' = [iter EXCEPT ![i].pos = call.cand + 1]
           /\ reader' = [reader EXCEPT ![i] = Tuple(i, h, tuples - 1)]
        \/ /\ ans = Unknown \/ (last /\ call.cand = iter[i].len /\ tuples = 0)
           /\ call' = NoCall
           /\ End(i, h)

\* The member's answer at the candidate, over the heap, the globals and the
\* spending its body leaves.
Answers(ans, h, s, sp) ==
    /\ said' = <<ans, Truth(iter[call.it].text, call.member, call.cand)>>
    /\ scratch' = IF ans >= 0 THEN Matched(s, call.member, call.cand) ELSE s
    /\ spent' = IF ans >= 0 THEN [sp EXCEPT ![call.member].hits = @ + 1] ELSE sp
    /\ Onward(ans, h)

\* The ordinary body answers, or trips and leaves the member to the fallback.
OrdinaryRuns ==
    LET m == call.member  t == iter[call.it].text
        o == Ordinary(heap, scratch, t, m, call.cand)
        sp == [spent EXCEPT ![m].pops = @ + o.pops]
    IN  /\ call # NoCall /\ call.pos = NoWalk
        /\ ~Tripped(scratch, m)
        /\ IF o.trips
           THEN /\ heap' = o.heap /\ scratch' = o.scratch /\ spent' = sp
                /\ UNCHANGED <<iter, reader, call, said>>
           ELSE Answers(Truth(t, m, call.cand), o.heap, o.scratch, sp)
        /\ UNCHANGED search

\* The fallback's entry.
FallbackBegins ==
    LET m == call.member  c == call.cand  len == iter[call.it].text.len
        s == Regioned(scratch, heap, m, c, len)
        first == StackBase(s) + 1
    IN  /\ call # NoCall /\ call.pos = NoWalk
        /\ Tripped(scratch, m)
        /\ IF CanHold(heap, first)
           THEN /\ heap' = Hold(heap, first) /\ scratch' = s
                /\ call' = [call EXCEPT !.pos = c]
                /\ UNCHANGED <<iter, reader, said, spent>>
           ELSE Answers(Unknown, heap, Refused(scratch, heap, m, c, len), spent)
        /\ UNCHANGED search

\* emitBitStateGuardDyn and the push after it, for one position: the marks
\* zeroed up to here, then the mark met or set, and the instruction.
FallbackWalks ==
    LET m == call.member  t == iter[call.it].text  pos == call.pos
        r == scratch.member[m]
        at == r.base + (pos - r.origin)
        cleared == IF at < r.cleared THEN r.cleared ELSE ClearEnd(r, at)
        zeroed == Store(heap, r.cleared, cleared - r.cleared, Zero)
        marked == Store(zeroed, at, 1, Junk)
        s == [scratch EXCEPT !.member[m].cleared = cleared]
        sp == [spent EXCEPT ![m].walked = @ + 1, ![m].filled = @ + (cleared - r.cleared)]
        stack == StackBase(scratch)
        frames == pos - call.cand + 1
    IN  /\ call # NoCall /\ call.pos # NoWalk
        /\ \/ /\ zeroed.mem[at] # Zero
              /\ Answers(NoMatch, zeroed, s, sp)
           \/ /\ zeroed.mem[at] = Zero /\ Kind(t, m, pos) = "fail"
              /\ Answers(NoMatch, marked, s, sp)
           \/ /\ zeroed.mem[at] = Zero /\ Kind(t, m, pos) = "match"
              /\ Answers(pos + 1, marked, s, sp)
           \/ /\ zeroed.mem[at] = Zero /\ Kind(t, m, pos) = "go"
              /\ CanHold(marked, stack + frames)
              /\ heap' = Framed(marked, stack, frames)
              /\ scratch' = s /\ spent' = sp
              /\ call' = [call EXCEPT !.pos = @ + 1]
              /\ UNCHANGED <<iter, reader, said>>
           \/ /\ zeroed.mem[at] = Zero /\ Kind(t, m, pos) = "go"
              /\ ~CanHold(marked, stack + frames)
              /\ Answers(Unknown, marked, s, sp)
        /\ UNCHANGED search

Init ==
    /\ InitStub
    /\ scratch = InitScratch
    /\ call = NoCall
    /\ said = <<NoMatch, NoMatch>>
    /\ spent = NothingSpent

Next ==
    \/ call = NoCall /\ StubNext
    \/ \E i \in Iters : SetBegins(i)
    \/ OrdinaryRuns
    \/ FallbackBegins
    \/ FallbackWalks

Spec == Init /\ [][Next]_vars
-----------------------------------------------------------------------------
(* Properties of the stub's memory (generate/js_stub.go, search_stub.go). *)

\* Types, and the bookkeeping of the arena: _live counts the iterators that
\* hold a region, and the bump is back at the tables when none does, also after
\* an _open that could get no memory (js_stub.go:489).
TypeOK ==
    /\ heap.size \in StaticTop..MaxWords /\ heap.view \in 0..heap.size
    /\ heap.bump \in StaticTop..MaxWords /\ heap.base \in 0..MaxWords
    /\ heap.live = Cardinality(Live)
    /\ Live = {} => heap.bump = StaticTop
    /\ call.it = "none" \/ call.it \in Live
    /\ \A m \in Members : scratch.member[m].budget >= 0

\* What a live iterator staged or keeps is untouched by every other iterator,
\* by the one-shot calls between its yields and by the scratch of any call: its
\* input, what it will read, its block, and its notes, which only its own
\* search writes.  The module's tables are untouched too.
RegionsIntact ==
    /\ \A x \in 0..(StaticTop - 1) : heap.mem[x] = Table
    /\ \A i \in Live :
        LET it == iter[i] IN
        /\ \A x \in it.at..(it.at + it.len - 1) : heap.mem[x] = Input(i)
        /\ it.kind = "set" => \A x \in it.out..(it.out + it.cache) : heap.mem[x] = Out(i)
        /\ it.kind = "find" =>
             /\ heap.mem[it.out] \in {Block(a, it.notes) : a \in BOOLEAN}
             /\ it.notes # 0 =>
                  \A x \in it.notes..(it.notes + it.len) : heap.mem[x] \in {Zero, Note(i)}

\* What goes through the stub's views arrives, whoever grew the memory since
\* they were made, at the iterator's yields or in the call (js_stub.go:518,
\* 564): an iterator's input is staged whole, and every word it has read was
\* one of its own, a tuple of its call or its search's.
ReadsItsOwn ==
    \A i \in Live :
        /\ iter[i].len = iter[i].text.len
        /\ reader[i].got \in {Zero} \cup
               IF iter[i].kind = "set" THEN {Out(i)}
               ELSE {Block(a, iter[i].notes) : a \in BOOLEAN}

-----------------------------------------------------------------------------
(* Properties of the members' scratch (compile/bt_scratch.go:666). *)

\* A mark below the watermark stands for a position explored and failed, in
\* every region of the running host call, but for those of the walk under way:
\* no mark of a match, of another host call or of another member is read as a
\* failure.
MarksAreFailures ==
    call # NoCall =>
    \A m \in Members :
        LET r == scratch.member[m]  t == iter[call.it].text IN
        r.memoEpoch = scratch.epoch =>
        \A x \in r.base..(Smaller(r.cleared, r.end) - 1) :
            LET p == r.origin + (x - r.base) IN
            heap.mem[x] # Zero =>
                \/ Truth(t, m, p) = NoMatch
                \/ m = call.member /\ p \in call.cand..(call.pos - 1)

\* A member's answer is that of its program, or unknown.
SaidTrue == said[1] \in {Unknown, said[2]}

\* All the candidates of a host call share one budget of the ordinary body.
BudgetHolds ==
    call # NoCall =>
    \A m \in Members :
        spent[m].pops <= (iter[call.it].len - call.from + 1) * Factor

\* The visited marks are zeroed once over the host call, a chunk ahead of the
\* walk, and again only by what a match takes back.
FillsBounded ==
    \A m \in Members : spent[m].filled < spent[m].walked + Chunk * (spent[m].hits + 1)

\* What a set's Backtracking members cost a host call is linear in its text,
\* however many candidates and members there are.
MembersLinear == BudgetHolds /\ FillsBounded
=============================================================================
