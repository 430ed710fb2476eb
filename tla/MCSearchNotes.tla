--------------------------- MODULE MCSearchNotes ---------------------------
(* Small instances of SearchNotes. *)
EXTENDS SearchNotes, TLC

CONSTANTS q0, q1, q2, q3, q4, dead, a, b, x, y, MaxLen

Strings(S, k) == UNION {[1..i -> S] : i \in 0..k}
Repeat(s, k) == [i \in 1..(k * Len(s)) |-> s[((i - 1) % Len(s)) + 1]]
TextsAt(P, S) == {[ptr |-> p, bytes |-> s] : p \in P, s \in S}

\* The automata of a few patterns, over a and b and the two-byte character xy.
\* Goes(u, v): u on a, v on b.
To(moves) == [z \in Bytes |-> IF z \in DOMAIN moves THEN moves[z] ELSE dead]
Goes(u, v) == To((a :> u) @@ (b :> v))
Stuck == To(<< >>)
NoPre == [s \in All |-> {}]
Pattern(delta, acc) ==
    [start |-> q0, midStart |-> q0, mid |-> [z \in Bytes |-> q0],
     delta |-> [s \in All |-> IF s \in DOMAIN delta THEN delta[s] ELSE Stuck],
     acc |-> acc, eof |-> acc, imm |-> {},
     begin |-> FALSE, bound |-> FALSE, pre |-> NoPre, dom |-> NoPre, rule |-> "none"]

\* a*b|a
StarOrOne == [Pattern((q0 :> Goes(q1, q3)) @@ (q1 :> Goes(q2, q3)) @@
                      (q2 :> Goes(q2, q3)), {q1, q3}) EXCEPT !.imm = {q3}]
\* (?:a*b)?
MaybeStar == Pattern((q0 :> Goes(q2, q3)) @@
                     (q2 :> Goes(q2, q3)), {q0, q3})
\* a+b: both skips are safe
SkipSafe == [Pattern((q0 :> Goes(q2, dead)) @@
                     (q2 :> Goes(q2, q3)), {q3}) EXCEPT !.imm = {q3}]
\* a(?:.*b)?
LongTail == Pattern((q0 :> Goes(q1, dead)) @@ (q1 :> Goes(q2, q3)) @@
                    (q2 :> Goes(q2, q3)) @@ (q3 :> Goes(q2, q3)), {q1, q3})
\* a(?:(?:aa)*b)?: what a point is worth depends on the parity
Parity == [Pattern((q0 :> Goes(q1, dead)) @@ (q1 :> Goes(q2, q4)) @@
                   (q2 :> Goes(q3, dead)) @@ (q3 :> Goes(q2, q4)), {q1, q4})
             EXCEPT !.imm = {q4}]
\* a+(?:\bb+$|\b), a a word byte and b not
Boundary == [Pattern((q0 :> Goes(q2, dead)) @@ (q1 :> Goes(dead, q1)) @@
                     (q2 :> Goes(q2, q1)), {})
               EXCEPT !.eof = {q1, q2}, !.bound = TRUE, !.pre[q2] = {b, x, y}]
\* a+(?:\b|\bb+$): the boundary wins
BoundaryFirst == [Boundary EXCEPT !.dom[q2] = Bytes]
\* \ba+b: nothing begins after a word byte
LeadingBoundary == [SkipSafe EXCEPT !.bound = TRUE, !.mid[a] = q1]
\* a*b|^
BeginAccept == [Pattern((q0 :> Goes(q2, q3)) @@ (q1 :> Goes(q2, q3)) @@
                        (q2 :> Goes(q2, q3)), {q3})
                  EXCEPT !.begin = TRUE, !.eof = {q0, q3}, !.midStart = q1, !.mid = [z \in Bytes |-> q1]]

\* (?:(?:xy)*a)? in Unicode mode can match empty: its find rounds `from' up to
\* a start position.
Characters ==
    [Pattern((q0 :> To((x :> q1) @@ (a :> q3))) @@ (q1 :> To(y :> q2)) @@
             (q2 :> To((x :> q1) @@ (a :> q3))), {q0, q3})
       EXCEPT !.imm = {q3}, !.rule = "seed"]
\* (?:(?:xy)*a)?\B can through \B: its find checks every candidate.
NoBoundary ==
    [Pattern((q0 :> To((x :> q1) @@ (a :> q3))) @@ (q1 :> To(y :> q2)) @@
             (q2 :> To((x :> q1) @@ (a :> q3))) @@ (q4 :> To((x :> q1) @@ (a :> q3))), {})
       EXCEPT !.mid[a] = q4, !.eof = {q0}, !.bound = TRUE, !.rule = "scan",
              !.pre[q0] = {b, x, y}, !.pre[q3] = {a}, !.pre[q4] = {a}]

\* Every automaton over q0 and q1 that keeps notes, q1 accepting.
TwoStates ==
    LET moves == {q0, q1, dead}
    IN  {m \in {Pattern((q0 :> Goes(i, j)) @@ (q1 :> Goes(k, l)), {q1}) :
                   i \in moves, j \in moves, k \in moves, l \in moves} : Rows(m) # {}}

Patterns == {StarOrOne, Parity, MaybeStar, SkipSafe, LongTail, Boundary, BoundaryFirst,
             LeadingBoundary, BeginAccept, NoBoundary} \union TwoStates
LongTexts == {Repeat(<<a>>, 16), Repeat(<<a>>, 9) \o <<b>>, Repeat(<<a, b>>, 5),
              Repeat(<<b>>, 4) \o Repeat(<<a>>, 6), Repeat(<<a, b, b, b>>, 3),
              Repeat(<<a, a, a, a, b>>, 2)}
CharacterTexts == {Repeat(<<x, y>>, 6), Repeat(<<x, y>>, 4) \o <<a>>,
                   Repeat(<<x, y, a>>, 3), Repeat(<<y, x>>, 3) \o <<a, a>>,
                   <<x, a, y, x, y, x>>, <<a, a, x, y, b, x, y, x, y>>}
PatternTexts == TextsAt({1}, Strings({a, b}, MaxLen) \union LongTexts \union CharacterTexts)

ReusePatterns == {StarOrOne, MaybeStar, Parity, Characters}
ReuseTexts == TextsAt({1}, {Repeat(<<a>>, 4), <<a, a, a, b>>, <<b, a, a, a>>,
                            <<a, a, b>>, Repeat(<<a>>, 5),
                            Repeat(<<x, y>>, 4), Repeat(<<x, y>>, 3) \o <<a, a>>})
                \union TextsAt({2}, {Repeat(<<a>>, 4)})

CharacterAutomata == {Characters}
CharacterOnlyTexts == TextsAt({1}, CharacterTexts)
=============================================================================
