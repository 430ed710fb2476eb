----------------------------- MODULE MCBTSearch -----------------------------
(* Small instances of BTSearch. *)
EXTENDS BTSearch, TLC

CONSTANTS a, b, c, nl, MaxLen

Strings(S, k) == UNION {[1..i -> S] : i \in 0..k}
Repeat(s, k) == [i \in 1..(k * Len(s)) |-> s[((i - 1) % Len(s)) + 1]]
TextsAt(P, S) == {[ptr |-> p, bytes |-> s] : p \in P, s \in S}

Blank == [op |-> "fail", set |-> {}, need |-> "beginText", out |-> 0, arg |-> 0]
Byte(S, out) == [Blank EXCEPT !.op = "byte", !.set = S, !.out = out]
Either(out, arg) == [Blank EXCEPT !.op = "alt", !.out = out, !.arg = arg]
At(need, out) == [Blank EXCEPT !.op = "empty", !.need = need, !.out = out]
Capture(out) == [Blank EXCEPT !.op = "nop", !.out = out]
Accept == [Blank EXCEPT !.op = "match"]
Code(insts) == [start |-> 1,
                inst |-> [p \in Pcs |-> IF p \in DOMAIN insts THEN insts[p] ELSE Blank]]

\* [ab]*a[ab]c|a: every start runs on, and reports one byte
RunsOn == Code(<<Either(2, 7), Either(3, 4), Byte({a, b}, 2), Byte({a}, 5),
                 Byte({a, b}, 6), Byte({c}, 8), Byte({a}, 8), Accept>>)
\* (?:aa?)*b|a: exponential without marks
TwoWays == Code(<<Either(2, 7), Either(3, 6), Byte({a}, 4), Either(5, 2),
                  Byte({a}, 2), Byte({b}, 8), Byte({a}, 8), Accept>>)
\* (?:a*)*b|a: a cycle that reads nothing
Cycle == Code(<<Either(2, 6), Either(3, 5), Either(4, 2), Byte({a}, 3),
                Byte({b}, 7), Byte({a}, 7), Accept>>)
\* (?:a*?)*?b?: the lazy cycle, which matches empty
LazyCycle == Code(<<Either(4, 2), Either(1, 3), Byte({a}, 2),
                    Either(5, 6), Byte({b}, 6), Accept>>)
\* (a|\b)*c|$
BoundaryCycle == Code(<<Either(2, 8), Either(3, 7), Capture(4), Either(5, 6),
                        Byte({a}, 2), At("wordBoundary", 2), Byte({c}, 9),
                        At("endText", 9), Accept>>)
\* \A(?:\B|a)*
AnchoredCycle == Code(<<At("beginText", 2), Either(3, 6), Either(4, 5),
                        At("noWordBoundary", 2), Byte({a}, 2), Accept>>)
\* (?m:^)(?:aa|a)*(?m:$)
Lines == Code(<<At("beginLine", 2), Either(3, 7), Either(4, 6), Byte({a}, 5),
                Byte({a}, 2), Byte({a}, 2), At("endLine", 8), Accept>>)
\* (?:[\x{D800}]|a)*b: a code point no text holds is lowered to a "fail"
NoCharacter == Code(<<Either(2, 5), Either(3, 4), Blank, Byte({a}, 1), Byte({b}, 6),
                      Accept>>)

Patterns == {RunsOn, TwoWays, Cycle, LazyCycle, BoundaryCycle, AnchoredCycle, Lines,
             NoCharacter}
ReuseTexts == TextsAt({1}, {<<a, a, a, b>>, <<a, a, a, a>>, <<b, a, c>>, Repeat(<<a>>, 6)})
                \union TextsAt({2}, {<<a, b, a, c>>})
PatternTexts ==
    ReuseTexts \union
    TextsAt({1}, Strings({a, b, c}, MaxLen) \union
                 {<<a, nl, a, a, nl, nl>>, <<c, a, c, b, a, c>>, <<a, b, a, a, c, a>>,
                  Repeat(<<a>>, 20), Repeat(<<a, a, b>>, 5)})
\* A host that may run out of memory, and one that keeps its block.
PatternModes == {[again |-> {}, refuse |-> TRUE], [again |-> ReuseTexts, refuse |-> FALSE]}
=============================================================================
