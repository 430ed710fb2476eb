----------------------------- MODULE MCSetFind -----------------------------
(* Small instances of CachedFind: the tables are built from the programs. *)
EXTENDS CachedFind, DFATables

CONSTANTS a, b, dash, nl, MaxLen

Strings(A, k) == UNION {[1..i -> A] : i \in 0..k}
TextOf(s) == [ptr |-> 1, bytes |-> s]

Blank == [op |-> "fail", set |-> {}, need |-> "beginText", out |-> 0, arg |-> 0]
Byte(A, to) == [Blank EXCEPT !.op = "byte", !.set = A, !.out = to]
Either(to, other) == [Blank EXCEPT !.op = "alt", !.out = to, !.arg = other]
At(need, to) == [Blank EXCEPT !.op = "empty", !.need = need, !.out = to]
Accept == [Blank EXCEPT !.op = "match"]
Code(insts) == [start |-> 1, inst |-> [p \in 0..Len(insts) |-> IF p = 0 THEN Blank ELSE insts[p]]]

\* The patterns.
ManyA == Code(<<Byte({a}, 2), Either(1, 3), Accept>>)                       \* a+
LazyA == Code(<<Byte({a}, 2), Either(3, 1), Accept>>)                       \* a+?
AnyA == Code(<<Either(2, 3), Byte({a}, 1), Accept>>)                        \* a*
ManyAThenB == Code(<<Byte({a}, 2), Either(1, 3), Byte({b}, 4), Accept>>)    \* a+b
AB == Code(<<Byte({a}, 2), Byte({b}, 3), Accept>>)                          \* ab
BA == Code(<<Byte({b}, 2), Byte({a}, 3), Accept>>)                          \* ba
ABA == Code(<<Byte({a}, 2), Byte({b}, 3), Byte({a}, 4), Accept>>)           \* aba
OneB == Code(<<Byte({b}, 2), Accept>>)                                      \* b
Words == Code(<<Byte({a, b}, 2), Either(1, 3), Accept>>)                    \* [ab]+
AWord == Code(<<Byte({a}, 2), Either(1, 3), At("wordBoundary", 4), Accept>>)     \* a+\b
Inside == Code(<<Byte({a, b}, 2), Either(1, 3), At("noWordBoundary", 4), Accept>>) \* [ab]+\B
FirstDash == Code(<<At("wordBoundary", 2), Byte({dash}, 3), Accept>>)       \* \b-
ToWord == Code(<<Byte({dash}, 2), Either(1, 3), At("wordBoundary", 4), Accept>>)  \* -+\b
LineEnd == Code(<<Byte({b}, 2), At("endLine", 3), Accept>>)                 \* b(?m:$)
LineStart == Code(<<At("beginLine", 2), Byte({a}, 3), Accept>>)             \* (?m:^)a
TextEnd == Code(<<Either(2, 3), Byte({a}, 1), At("endText", 4), Accept>>)   \* a*$
RestOfLine == Code(<<Either(2, 3), Byte({a, b, dash}, 1), Accept>>)         \* [^\n]*
FirstAB == Code(<<At("beginText", 2), Byte({a}, 3), Byte({b}, 4), Accept>>) \* \Aab
LineB == Code(<<At("beginLine", 2), Byte({b}, 3), Either(4, 5), Byte({a}, 3),
                Accept>>)                                                   \* (?m:^)ba*
\* What follows a literal.
Empty == Code(<<Accept>>)
-----------------------------------------------------------------------------
(* The buckets as they are designed, and with their tables. *)

Fallback(ids, progs, wide) ==
    [wide |-> wide, ids |-> ids, progs |-> progs, lit |-> << >>,
     groups |-> <<[L |-> 0, ks |-> DOMAIN ids]>>, anchored |-> {}, lined |-> {},
     prefix |-> [k \in DOMAIN ids |-> << >>]]
Literal(ids, lit, groups, prefix, anchored, lined, progs) ==
    [Fallback(ids, progs, FALSE) EXCEPT
        !.lit = lit, !.groups = groups, !.prefix = prefix,
        !.anchored = anchored, !.lined = lined]

Built(d) ==
    [wide |-> d.wide, ids |-> d.ids, lit |-> d.lit, groups |-> d.groups,
     anchored |-> d.anchored, lined |-> d.lined, prefix |-> d.prefix,
     table |-> Table(d.progs, d.wide, TRUE),
     firsts |-> [c \in Bytes |-> {k \in DOMAIN d.ids : c \in FirstBytes(d.progs[k])}]]
\* The patterns a failed walk of which may be as long as the text.
NonLinear == {ManyAThenB, AWord, TextEnd}
IdsOf(d) == FlattenSeq([i \in DOMAIN d.buckets |-> d.buckets[i].ids])
InOrder(d) == [k \in DOMAIN IdsOf(d) |-> d.programs[IdsOf(d)[k] + 1]]
BuiltSet(d, sweep) ==
    [gated |-> d.gated, jump |-> TRUE, batch |-> FALSE,
     buckets |-> [i \in DOMAIN d.buckets |-> Built(d.buckets[i])],
     programs |-> [id \in 0..(Len(d.programs) - 1) |-> d.programs[id + 1]],
     sweep |-> sweep]

Design(gated, buckets, programs) ==
    [gated |-> gated, buckets |-> buckets, programs |-> programs]
Single(gated, wide, progs) ==
    Design(gated, <<Fallback([k \in DOMAIN progs |-> k - 1], progs, wide)>>, progs)

\* Literal b: ab, ba, (?m:^)ba* and, by itself, [^\n]*.
AroundB == <<Literal(<<0, 1, 2>>, <<b>>, <<[L |-> 1, ks |-> {1}], [L |-> 0, ks |-> {2, 3}]>>,
                     <<<<{a}>>, << >>, << >>>>, {}, {3},
                     <<Empty, Code(<<Byte({a}, 2), Accept>>), AnyA>>),
             Fallback(<<3>>, <<RestOfLine>>, FALSE)>>
WithB == <<AB, BA, LineB, RestOfLine>>
\* A lazy pattern has a bucket of its own; \Aab has a literal.
Apart == <<Fallback(<<1>>, <<LazyA>>, FALSE),
           Literal(<<2>>, <<a, b>>, <<[L |-> 0, ks |-> {1}]>>, <<<< >>>>, {1}, {}, <<Empty>>),
           Fallback(<<0>>, <<Words>>, FALSE)>>

BodyDesigns ==
    {Single(TRUE, FALSE, <<ManyA, ManyAThenB, AB>>),
     Single(TRUE, FALSE, <<AWord, FirstDash, TextEnd>>),
     Single(TRUE, FALSE, <<ToWord, AWord, OneB>>),
     Single(FALSE, FALSE, <<LineEnd, LineStart, Words>>),
     Single(FALSE, FALSE, <<AWord>>),
     Design(TRUE, Apart, <<Words, LazyA, FirstAB>>),
     Design(TRUE, AroundB, WithB),
     Design(FALSE, AroundB, WithB),
     Single(TRUE, TRUE, <<ManyA, AnyA, ABA>>),
     Single(FALSE, TRUE, <<Words, ManyAThenB, OneB>>),
     Single(FALSE, FALSE, <<ManyAThenB, LineEnd>>),
     Single(FALSE, FALSE, <<LineStart, TextEnd>>)}
Overlapping == {d \in BodyDesigns : ~d.gated}
Together == [d \in Overlapping |-> Minimized(Automaton(InOrder(d), FALSE))]
SweepFor(d) == SweepOf(Together[d], IdsOf(d), Range(InOrder(d)) \cap NonLinear # {})
BodySets ==
    {BuiltSet(d, << >>) : d \in BodyDesigns \ Overlapping}
        \union {BuiltSet(d, <<SweepFor(d)>>) : d \in Overlapping}

\* No region; one of the right size, at several strides; one that is too small.
BodyOffers ==
    {[stride |-> 0, short |-> 0], [stride |-> 2, short |-> 4]}
        \union {[stride |-> k, short |-> 0] : k \in {2, 3, Longest + 1}}
NoOffers == {[stride |-> 0, short |-> 0]}

\* Patterns that end inside a run of bytes that all lead back to one state.
SkippedSets == {BuiltSet(Single(TRUE, FALSE, <<Words, Inside>>), << >>)}

BodyTexts ==
    {TextOf(s) : s \in Strings({a, b, dash, nl}, MaxLen)
        \union Strings({a, b, dash}, MaxLen + 1) \union Strings({a, b}, MaxLen + 2) \union
        {<<a, nl, b, a>>, <<a, b, nl, a>>, <<dash, nl, nl, a>>, <<nl, a, b, nl>>, <<a, dash, nl, b>>,
         <<a, a, a, a, a, dash>>, <<a, a, a, b, dash, a, a>>, <<b, a, a, nl, b, a>>,
         <<dash, a, b, a, a, a, b>>, <<a, a, nl, nl, a, b, b>>,
         <<a, a, a, a, a, a, a>>, <<a, a, a, a, a, a, b>>}}
SkippedTexts == {TextOf(<<a, a, a, dash, dash>>), TextOf(<<a, b, a, a, a, dash>>)}
=============================================================================
