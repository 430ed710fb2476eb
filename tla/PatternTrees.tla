---------------------------- MODULE PatternTrees ----------------------------
(***************************************************************************)
(* The parsed pattern (syntax.Regexp, Go's library): what the start-anywhere *)
(* find derives from it before any automaton is built.  The library's         *)
(* compiler turns a tree into a program; a repeat is of what reads a byte.    *)
(***************************************************************************)
EXTENDS DFATables

Class(A) == [op |-> "class", set |-> A]
At(need) == [op |-> "at", need |-> need]
Cat(subs) == [op |-> "cat", subs |-> subs]
Either(subs) == [op |-> "either", subs |-> subs]
\* Zero or more, one or more, at most one; lazily or not.
Star(sub, lazy) == [op |-> "star", lazy |-> lazy, subs |-> <<sub>>]
Plus(sub, lazy) == [op |-> "plus", lazy |-> lazy, subs |-> <<sub>>]
Quest(sub, lazy) == [op |-> "quest", lazy |-> lazy, subs |-> <<sub>>]
-----------------------------------------------------------------------------
(* syntax.Compile.  Code is a sequence of instructions numbered from 1; a tree *)
(* is compiled in front of the instruction `to' it goes on to.                  *)

Blank == [op |-> "fail", set |-> {}, need |-> "beginText", out |-> 0, arg |-> 0]
Emit(code, i) == [code |-> Append(code, i), start |-> Len(code) + 1]
Try(code, lazy, in, past) ==
    Emit(code, [Blank EXCEPT !.op = "alt", !.out = IF lazy THEN past ELSE in,
                             !.arg = IF lazy THEN in ELSE past])

RECURSIVE Compile(_, _, _)
Compile(tree, code, to) ==
    CASE tree.op = "class" ->
           Emit(code, [Blank EXCEPT !.op = "byte", !.set = tree.set, !.out = to])
      [] tree.op = "at" ->
           Emit(code, [Blank EXCEPT !.op = "empty", !.need = tree.need, !.out = to])
      [] tree.op = "cat" ->
           IF tree.subs = << >> THEN [code |-> code, start |-> to]
           ELSE LET rest == Compile(Cat(Tail(tree.subs)), code, to)
                IN  Compile(Head(tree.subs), rest.code, rest.start)
      [] tree.op = "either" ->
           LET first == Compile(Head(tree.subs), code, to)
               rest == Compile(Either(Tail(tree.subs)), first.code, to)
           IN  IF Len(tree.subs) = 1 THEN first
               ELSE Try(rest.code, FALSE, first.start, rest.start)
      [] tree.op = "quest" ->
           LET sub == Compile(Head(tree.subs), code, to)
           IN  Try(sub.code, tree.lazy, sub.start, to)
      [] OTHER ->
           LET loop == Len(code) + 1
               sub == Compile(Head(tree.subs), Append(code, Blank), loop)
               again == Try(<< >>, tree.lazy, sub.start, to).code[1]
           IN  [code |-> [sub.code EXCEPT ![loop] = again],
                start |-> IF tree.op = "star" THEN loop ELSE sub.start]

Program1(code, start) ==
    [start |-> start, inst |-> [p \in 0..Len(code) |-> IF p = 0 THEN Blank ELSE code[p]]]
Compiled(tree) ==
    LET c == Compile(tree, <<[Blank EXCEPT !.op = "match"]>>, 1)
    IN  Program1(c.code, c.start)
-----------------------------------------------------------------------------
Mirrored(need) ==
    CASE need = "beginText" -> "endText"
      [] need = "endText"   -> "beginText"
      [] need = "beginLine" -> "endLine"
      [] need = "endLine"   -> "beginLine"
      [] OTHER -> need

\* reverseRegexp: concatenations turned round, assertions mirrored.
RECURSIVE Reversed(_)
Reversed(tree) ==
    CASE tree.op = "class" -> tree
      [] tree.op = "at" -> [tree EXCEPT !.need = Mirrored(@)]
      [] tree.op = "cat" ->
           [tree EXCEPT !.subs = LET r == Reverse(tree.subs)
                                 IN  [i \in DOMAIN r |-> Reversed(r[i])]]
      [] OTHER -> [tree EXCEPT !.subs = [i \in DOMAIN @ |-> Reversed(@[i])]]

\* hasEmptyWidthAssertion
RECURSIVE HasAssertion(_)
HasAssertion(tree) ==
    \/ tree.op = "at"
    \/ tree.op # "class" /\ tree.op # "at"
         /\ \E i \in DOMAIN tree.subs : HasAssertion(tree.subs[i])

\* leadingRepeatBytes: the class the pattern repeats first, if it does.
RECURSIVE LeadingRepeat(_)
LeadingRepeat(tree) ==
    IF tree.op = "cat" /\ tree.subs # << >> THEN LeadingRepeat(Head(tree.subs))
    ELSE IF tree.op \in {"star", "plus"} /\ Head(tree.subs).op = "class"
    THEN Head(tree.subs).set ELSE {}

\* (?s:.)*? before the pattern.
AnywhereIn(tree) == Cat(<<Star(Class(Bytes), TRUE), tree>>)

\* The automata of a pattern: today's body's, and the passes'.
Trees(tree) == [today |-> tree, forward |-> AnywhereIn(tree), backward |-> Reversed(tree)]
UnionOf(prog, pass) == IF pass = "backward" THEN LeftmostLongest(prog) ELSE Union(<<prog>>)
Automata(tree) ==
    LET trees == Trees(tree)
    IN  [pass \in DOMAIN trees |->
            Minimized(AutomatonOf(UnionOf(Compiled(trees[pass]), pass), FALSE))]
=============================================================================
