-------------------------- MODULE MCStartAnywhere --------------------------
(* Small instances of StartAnywhere: the automata are built from the patterns. *)
EXTENDS StartAnywhere, TLC

CONSTANTS a, b, dash, nl, x, y, MaxLen, MaxStates

T == INSTANCE PatternTrees WITH
        DominantMin <- 1, DominantExits <- 1, MemberMax <- 1, MemberStatesMax <- 1

A == T!Class({a})
B == T!Class({b})
D == T!Class({dash})
XY == T!Cat(<<T!Class({x}), T!Class({y})>>)
Wd == T!Class(Word)
AnyByte == T!Class(Bytes)
NotB == T!Class(Bytes \ {b})
NotD == T!Class(Bytes \ {dash})
Cat(trees) == T!Cat(trees)
Either(trees) == T!Either(trees)
Many(t) == T!Star(t, FALSE)
Some(t) == T!Plus(t, FALSE)
Maybe(t) == T!Quest(t, FALSE)
At(need) == T!At(need)

Built(tree, rule) ==
    LET built == T!Automata(tree)
        laid == [pass \in DOMAIN built |-> T!FindLayout(built[pass], MaxStates, rule)]
    IN  [dfa |-> laid["today"], fwd |-> laid["forward"], rev |-> laid["backward"],
         ambiguous |-> built["forward"].ambiguous \/ built["backward"].ambiguous,
         ctx |-> T!HasAssertion(tree), lead |-> T!LeadingRepeat(tree),
         prog |-> T!Compiled(tree)]

Trees ==
    {Cat(<<Many(A), B>>),                                      \* a*b
     Either(<<Cat(<<Many(A), B>>), A>>),                       \* a*b|a
     Maybe(Cat(<<Many(A), B>>)),                               \* (?:a*b)?
     Cat(<<Some(A), B>>),                                      \* a+b: both skips
     Cat(<<Some(Wd), D, Some(Wd)>>),                           \* \w+-\w+
     Cat(<<Some(NotB), B, D>>),                                \* [^b]+b-
     Either(<<Cat(<<A, B>>), Cat(<<B, A>>)>>),                 \* ab|ba: bounded
     Cat(<<Many(NotD), D>>),                                   \* [^-]*-
     Cat(<<A, Many(NotD), D>>),                                \* a[^-]*-
     Cat(<<At("wordBoundary"), Some(A), B>>),                  \* \ba+b
     Cat(<<Some(A), At("wordBoundary")>>),                     \* a+\b
     Cat(<<A, Many(AnyByte), At("noWordBoundary"), D>>),           \* a(?s:.)*\B-
     Cat(<<At("beginLine"), Many(A), At("endLine")>>),         \* (?m:^a*$)
     Cat(<<Some(A), D, At("endText")>>),                       \* a+-$
     Cat(<<Many(A), Either(<<D, At("beginText")>>)>>),         \* a*(?:-|^)
     Either(<<Cat(<<A, B, At("wordBoundary")>>), B>>),         \* ab\b|b
     Cat(<<A, Many(Cat(<<A, A, A>>)), B>>),                    \* a(?:aaa)*b
     Cat(<<T!Plus(Wd, TRUE), Many(D), B>>),                    \* \w+?-*b
     Cat(<<T!Star(AnyByte, TRUE), B>>),                            \* (?s:.)*?b
     Cat(<<A, Either(<<Many(A), At("wordBoundary")>>), D>>)}   \* a(?:a*|\b)-: ambiguous
Seeded == {Cat(<<Many(XY), At("endText")>>),                   \* (?:xy)*$
           Maybe(Cat(<<Many(XY), A>>))}                        \* (?:(?:xy)*a)?
Scanned == {Cat(<<Maybe(Cat(<<Many(XY), A>>)), At("noWordBoundary")>>)}

AllPatterns ==
    {Built(p[1], p[2]) : p \in (Trees \X {"none"}) \union (Seeded \X {"seed"})
                                  \union (Scanned \X {"scan"})}

Strings(S, k) == UNION {[1..i -> S] : i \in 0..k}
Repeat(s, k) == [i \in 1..(k * Len(s)) |-> s[((i - 1) % Len(s)) + 1]]
LongTexts == {Repeat(<<a>>, 22), Repeat(<<a>>, 9) \o <<b>>, Repeat(<<a, b>>, 9) \o <<dash>>,
              Repeat(<<a, a, a, b, nl>>, 3), Repeat(<<x, y>>, 5) \o <<a>>,
              Repeat(<<a>>, 8) \o Repeat(<<dash, a>>, 3)}
\* Where a walk is long enough to be charged.
MediumTexts == {p \o q : p \in {<<a, a, a, a>>, <<b, a, a, a>>, <<dash, b, dash, b, dash>>,
                               <<a, dash, a, a, a>>},
                         q \in Strings({a, b, dash, nl}, 2)}
AllTexts == {[bytes |-> s] : s \in Strings({a, b, dash, nl}, MaxLen) \union MediumTexts
                                 \union Strings({x, y, a}, MaxLen) \union LongTexts}
=============================================================================
