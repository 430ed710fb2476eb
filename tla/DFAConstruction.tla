-------------------------- MODULE DFAConstruction --------------------------
(***************************************************************************)
(* From the programs of a set's bucket to one deterministic automaton       *)
(* (compile/engine_dfa.go newDFAImpl, compile/set.go unionProgs).  A state  *)
(* is the list of program counters, in priority order, that the bytes read   *)
(* may have led to, with what the last byte was.  An assertion that looks at *)
(* the next byte is resolved when that byte is known: a state has one set of *)
(* accepting patterns for each thing that may come next.                     *)
(***************************************************************************)
EXTENDS Programs, SequencesExt

\* A union's instructions are numbered through; `owner' tells whose each is.
\* unionProgs: instruction 0, the shared fail, is everyone's.
Offset(progs, k) == FoldLeft(LAMBDA sum, d : sum + Cardinality(DOMAIN d.inst) - 1, 0,
                             SubSeq(progs, 1, k - 1))
Renumbered(progs, k, p) == IF p = 0 THEN 0 ELSE p + Offset(progs, k)
Start(progs, k) == Renumbered(progs, k, progs[k].start)

\* The copies, and the chain of Alts that tries them in the patterns' order.
Union(progs) ==
    LET K == Len(progs)
        copied == Offset(progs, K + 1)
        total == copied + K - 1
        owner == [p \in 0..total |->
                    IF p = 0 \/ p > copied THEN 0
                    ELSE CHOOSE k \in 1..K : p > Offset(progs, k) /\ p <= Offset(progs, k + 1)]
        copy(p) == LET k == owner[p]
                       i == progs[k].inst[p - Offset(progs, k)]
                   IN  [i EXCEPT !.out = Renumbered(progs, k, @), !.arg = Renumbered(progs, k, @)]
        link(j) == [progs[1].inst[0] EXCEPT
                      !.op = "alt", !.out = Start(progs, j),
                      !.arg = IF j = K - 1 THEN Start(progs, K) ELSE copied + j + 1]
    IN  [start |-> IF K = 1 THEN Start(progs, 1) ELSE copied + 1,
         inst |-> [p \in 0..total |-> IF p = 0 THEN progs[1].inst[0]
                                      ELSE IF p <= copied THEN copy(p) ELSE link(p - copied)],
         owner |-> owner, longest |-> FALSE]

\* One program taken leftmost-longest: no thread outranks another.
LeftmostLongest(prog) == [Union(<<prog>>) EXCEPT !.longest = TRUE]

Needs(d, needs) == \E p \in DOMAIN d.inst : d.inst[p].op = "empty" /\ d.inst[p].need \in needs
HasWordBoundary(d) == Needs(d, {"wordBoundary", "noWordBoundary"})
HasNewlineBoundary(d) == Needs(d, {"beginLine", "endLine"})
-----------------------------------------------------------------------------
(* Closures.  A context is the set of assertions known to hold. *)

Fires(need, ctx) ==
    CASE need = "beginLine" -> ctx \cap {"beginText", "beginLine"} # {}
      [] need = "endLine"   -> ctx \cap {"endText", "endLine"} # {}
      [] OTHER -> need \in ctx

\* Where pc goes in context ctx, the preferred way first.
Ways(d, pc, ctx) ==
    LET i == d.inst[pc]
    IN  CASE i.op = "alt" -> IF d.longest THEN <<i.arg, i.out>> ELSE <<i.out, i.arg>>
          [] i.op = "nop" \/ (i.op = "empty" /\ Fires(i.need, ctx)) -> <<i.out>>
          [] OTHER -> << >>

\* Depth first: `visited' with what the stack leads to appended.
RECURSIVE Explore(_, _, _, _)
Explore(d, stack, visited, ctx) ==
    IF stack = << >> THEN visited
    ELSE LET pc == Head(stack)
         IN  IF \E j \in DOMAIN visited : visited[j] = pc
             THEN Explore(d, Tail(stack), visited, ctx)
             ELSE Explore(d, Ways(d, pc, ctx) \o Tail(stack), Append(visited, pc), ctx)

\* nfaEpsilonClosure
Closure(d, list, ctx) == Explore(d, IF d.longest THEN Reverse(list) ELSE list, << >>, ctx)

\* The assertions nfaExpandWithWB resolves late.
ResolvedBy(d, pc, ctx) ==
    /\ d.inst[pc].op = "empty"
    /\ d.inst[pc].need \in {"wordBoundary", "noWordBoundary", "endLine"}
    /\ Fires(d.inst[pc].need, ctx)

\* nfaExpandWithWB: what an assertion opens comes right after it.
Expand(d, list, ctx) ==
    LET step(acc, pc) ==
            LET seen == IF ResolvedBy(d, pc, ctx)
                        THEN Explore(d, <<d.inst[pc].out>>, acc.seen, ctx) ELSE acc.seen
                new == SubSeq(seen, Len(acc.seen) + 1, Len(seen))
            IN  [seen |-> seen, out |-> Append(acc.out, pc) \o new]
    IN  FoldLeft(step, [seen |-> list, out |-> << >>], list).out

\* acceptBitsFor
Accepts(d, list, ctx) ==
    LET c == Closure(d, list, ctx)
    IN  {d.owner[c[j]] : j \in {i \in DOMAIN c : OpAt(d, c[i]) = "match"}}

\* Waits for a byte, or for the next byte to be known.
Pending(d, pc) == \/ OpAt(d, pc) = "byte"
                  \/ /\ OpAt(d, pc) = "empty"
                     /\ d.inst[pc].need \in {"wordBoundary", "noWordBoundary", "endLine"}
Matched(d, pc) == OpAt(d, pc) = "match"

\* isImmediateAccepting: the list's match comes before anything that waits.
Immediate(d, list) ==
    /\ ~d.longest
    /\ \E j \in DOMAIN list : /\ Matched(d, list[j])
                              /\ \A i \in 1..(j - 1) : ~Pending(d, list[i])

\* The same for each pattern of a union by itself (getOrAddState).
ImmediateOf(d, list) ==
    {d.owner[list[j]] : j \in {x \in DOMAIN list :
        /\ ~d.longest /\ Matched(d, list[x])
        /\ \A i \in 1..(x - 1) : d.owner[list[i]] = d.owner[list[x]] => ~Pending(d, list[i])}}

\* isDominantAccept: in ctx a match comes before anything that may still live.
Dominant(d, list, ctx) ==
    LET c == Closure(d, list, ctx)
        blocked(pc) == \/ OpAt(d, pc) = "byte"
                       \/ OpAt(d, pc) = "empty" /\ ~Fires(d.inst[pc].need, ctx)
    IN  /\ ~d.longest
        /\ \E j \in DOMAIN c : Matched(d, c[j]) /\ \A i \in 1..(j - 1) : ~blocked(c[i])

\* boundaryOutranksCtx0: before the match base leads to comes an assertion that
\* only ctx resolves.
Outranks(d, list, base, ctx) ==
    LET c == Closure(d, list, base)
        resolved(pc) == OpAt(d, pc) = "empty" /\ Fires(d.inst[pc].need, ctx)
                                             /\ ~Fires(d.inst[pc].need, base)
    IN  \E j \in DOMAIN c : resolved(c[j]) /\ \A i \in 1..(j - 1) : ~Matched(d, c[i])

\* nfaBuildInputMap: after a pattern's match, nothing of that pattern goes on.
Read(d, list, b) ==
    LET goesOn(j) == /\ OpAt(d, list[j]) = "byte" /\ b \in d.inst[list[j]].set
                     /\ \/ d.longest
                        \/ \A i \in 1..(j - 1) : ~(Matched(d, list[i])
                                                   /\ d.owner[list[i]] = d.owner[list[j]])
        js == SelectSeq([j \in DOMAIN list |-> j], goesOn)
    IN  [i \in DOMAIN js |-> d.inst[list[js[i]]].out]

\* boundaryTargetReachesLaterState: where in the list the ways from the stack
\* first come back to it.
RECURSIVE Meets(_, _, _, _, _)
Meets(d, list, stack, seen, ctx) ==
    IF stack = << >> THEN {}
    ELSE LET pc == Head(stack)
             at == {j \in DOMAIN list : list[j] = pc}
             ways == IF pc \in seen \/ at # {} THEN << >> ELSE Ways(d, pc, ctx)
         IN  (at \ {j \in at : pc \in seen})
                \union Meets(d, list, ways \o Tail(stack), seen \union {pc}, ctx)

\* nfaBoundaryTargetIsAmbiguous: an assertion only ctx resolves leads to what
\* the list holds after it already, and Expand would leave it there.
Ambiguous(d, list, base, ctx) ==
    \E i \in DOMAIN list :
        /\ OpAt(d, list[i]) = "empty"
        /\ ~Fires(d.inst[list[i]].need, base) /\ Fires(d.inst[list[i]].need, ctx)
        /\ \E j \in Meets(d, list, <<d.inst[list[i]].out>>, {}, ctx) : j > i
-----------------------------------------------------------------------------
(* The states.  `begin' is what is known of the text before the list: that it *)
(* is empty, that a line begins, or nothing.                                   *)

Same(word) == IF word THEN "wordBoundary" ELSE "noWordBoundary"
Other(word) == Same(~word)

\* What comes after the list: a non-word byte, a word byte, '\n'.
Before(d, word, begin) ==
    [nw |-> begin \union {Same(word)}, w |-> begin \union {Other(word)}] @@
    (IF HasNewlineBoundary(d) THEN [nl |-> begin \union {Same(word), "endLine"}] ELSE << >>)
Next3 == {"nw", "w", "nl"}

\* The four bootstrap states and getOrAddState's: what is accepted at the end
\* of the text, whatever follows, and by what follows (markDominant and
\* markOutranked with it).
StateBefore(d, list, word, begin, mid, imm, before) ==
    [list |-> list, word |-> word, begin |-> begin, imm |-> imm,
     eof |-> Accepts(d, list, begin \union {"endText", Same(word)}),
     mid |-> mid,
     by |-> [x \in Next3 |-> IF x \in DOMAIN before THEN Accepts(d, list, before[x]) ELSE {}],
     dominant |-> {x \in DOMAIN before : Dominant(d, list, before[x])},
     outranked |-> {x \in DOMAIN before : mid # {} /\ Outranks(d, list, begin, before[x])}]
NewState(d, list, word, begin, mid, imm) ==
    StateBefore(d, list, word, begin, Accepts(d, list, mid), imm, Before(d, word, begin))

\* A bucket past the mask's width keeps its accepting patterns as lists: then
\* the maps by state that the construction compares hold a single bit.
Recorded(accepts, wide) == IF wide THEN accepts # {} ELSE accepts

\* setToKey
Key(d, list, word, nl, wide) ==
    <<list, word, nl, IF wide THEN {} ELSE Accepts(d, list, {})>>

Registered(c, key) == key \in DOMAIN c.ids
Register(c, key, state) ==
    [c EXCEPT !.states = Append(@, state),
              !.ids = (key :> Len(c.states) + 1) @@ @]

\* What a bootstrap state accepts at once.
BootstrapImm(d, list) == IF Immediate(d, list) THEN Accepts(d, list, {}) ELSE {}

\* beginContextMatters
BeginMatters(d, list) ==
    \E wb \in {"wordBoundary", "noWordBoundary"} :
    \E eol \in {{}} \union IF HasNewlineBoundary(d) THEN {{"endLine"}} ELSE {} :
        Expand(d, list, {wb} \union eol) # Expand(d, list, {wb, "beginText"} \union eol)

\* The start at 0, then the starts after a non-word byte, a word byte, a '\n'.
Bootstrap(d, c, list, word, begin, nl, wide) ==
    Register(c, Key(d, list, word, nl, wide),
             NewState(d, list, word, begin, {}, BootstrapImm(d, list)))
Nothing == [states |-> << >>, ids |-> << >>, start |-> 1, midStart |-> 1,
            midStartWord |-> 1, midStartNewline |-> 1]
AtStart(d, wide) ==
    Bootstrap(d, Nothing, Closure(d, <<d.start>>, {"beginText"}), FALSE, {"beginText"},
              FALSE, wide)

\* midStart is the start itself when nothing tells them apart.
SharesStart(d, c, list, key, wide) ==
    /\ Registered(c, key)
    /\ Recorded(c.states[c.ids[key]].eof, wide)
         = Recorded(Accepts(d, list, {"endText", "noWordBoundary"}), wide)
    /\ ~BeginMatters(d, list)
AtMidStart(d, c, list, wide) ==
    IF SharesStart(d, c, list, Key(d, list, FALSE, FALSE, wide), wide) THEN c
    ELSE Bootstrap(d, [c EXCEPT !.midStart = Len(c.states) + 1], list, FALSE, {}, FALSE, wide)
AtMidStartWord(d, c, list, wide) ==
    Bootstrap(d, [c EXCEPT !.midStartWord = Len(c.states) + 1], list, TRUE, {}, FALSE, wide)
AtMidStartNewline(d, c, list, wide) ==
    IF ~HasNewlineBoundary(d) THEN [c EXCEPT !.midStartNewline = c.midStart]
    ELSE Bootstrap(d, [c EXCEPT !.midStartNewline = Len(c.states) + 1], list, FALSE,
                   {"beginLine"}, TRUE, wide)

\* getOrAddState: a state with the same key is shared if it accepts the same
\* at the end of the text.
Shared(c, key, state, wide) ==
    IF /\ Registered(c, key)
       /\ Recorded(c.states[c.ids[key]].eof, wide) = Recorded(state.eof, wide)
    THEN [c |-> c, to |-> c.ids[key]]
    ELSE [c |-> Register(c, key, state), to |-> Len(c.states) + 1]
GetOrAdd(d, c, list, word, begin, wide) ==
    Shared(c, Key(d, list, word, begin # {}, wide),
           NewState(d, list, word, begin, begin,
                    IF ~wide THEN ImmediateOf(d, list)
                    ELSE IF Immediate(d, list) THEN Accepts(d, list, begin) ELSE {}), wide)

\* What is known when the byte after the state's list is b.
Sees(d, state, b) ==
    state.begin \union
    (IF b \in Word \/ ~(HasWordBoundary(d) \/ (HasNewlineBoundary(d) /\ b = NewLine))
     THEN {Other(state.word)} ELSE {Same(state.word)}) \union
    (IF HasNewlineBoundary(d) /\ b = NewLine THEN {"endLine"} ELSE {})

\* One step of the work list: the state's transition on b.
Arrive(d, c, read, b, begin, wide) ==
    IF read = << >> THEN [c |-> c, to |-> DeadState]
    ELSE GetOrAdd(d, c, Closure(d, read, begin), b \in Word, begin, wide)
Step(d, c, state, b, wide) ==
    Arrive(d, c, Read(d, Expand(d, state.list, Sees(d, state, b)), b), b,
           IF HasNewlineBoundary(d) /\ b = NewLine THEN {"beginLine"} ELSE {}, wide)

\* dfa.hasAmbiguousBoundaryTarget, of one state.
AmbiguousAt(d, state) ==
    \/ /\ HasWordBoundary(d)
       /\ \E wb \in {"wordBoundary", "noWordBoundary"} :
             Ambiguous(d, state.list, state.begin, state.begin \union {wb})
    \/ /\ HasNewlineBoundary(d)
       /\ Ambiguous(d, state.list, state.begin,
                    state.begin \union {Same(state.word), "endLine"})

Alphabet == SetToSeq(Bytes)
Row(d, c, state, wide) ==
    FoldLeft(LAMBDA acc, b : LET r == Step(d, acc.c, state, b, wide)
                             IN  [c |-> r.c, row |-> (b :> r.to) @@ acc.row],
             [c |-> c, row |-> << >>], Alphabet)

\* The work list: a row for every state.
RECURSIVE Rows(_, _, _, _)
Rows(d, c, rows, wide) ==
    IF Len(rows) = Len(c.states)
    THEN [start |-> c.start, midStart |-> c.midStart, midStartWord |-> c.midStartWord,
          midStartNewline |-> c.midStartNewline, states |-> c.states, next |-> rows,
          words |-> HasWordBoundary(d), lines |-> HasNewlineBoundary(d),
          beginAccept |-> Accepts(d, c.states[c.start].list, {"beginText"}) # {},
          ambiguous |-> \E s \in DOMAIN c.states : AmbiguousAt(d, c.states[s])]
    ELSE LET r == Row(d, c, c.states[Len(rows) + 1], wide)
         IN  Rows(d, r.c, Append(rows, r.row), wide)

\* newDFAImpl, for a build that stays below its cap of states.
Grown(d, mid, afterNewline, wide) ==
    Rows(d, AtMidStartNewline(d, AtMidStartWord(d, AtMidStart(d, AtStart(d, wide), mid, wide),
                                                mid, wide), afterNewline, wide), << >>, wide)
AutomatonOf(d, wide) ==
    Grown(d, Closure(d, <<d.start>>, {}), Closure(d, <<d.start>>, {"beginLine"}), wide)
Automaton(progs, wide) == AutomatonOf(Union(progs), wide)
=============================================================================
