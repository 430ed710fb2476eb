---------------------------- MODULE MCSetScratch ----------------------------
(* Small instances of SetScratch. *)
EXTENDS SetScratch, Sequences, TLC

CONSTANTS i1, i2

\* What the two members do at each position.
World(a, b) == <<[p \in 0..(Len(a) - 1) |-> a[p + 1]], [p \in 0..(Len(b) - 1) |-> b[p + 1]]>>

\* One code unit of three bytes: a member that fails after a step and then
\* matches, and one that fails after a step twice.
Euro == [units |-> 1, cap |-> 3, len |-> 3,
         world |-> World(<<"go", "fail", "match">>, <<"go", "fail", "go">>)]
\* A byte: a match at once, of both.
Letter == [units |-> 1, cap |-> 3, len |-> 1, world |-> World(<<"match">>, <<"match">>)]

TheCharge == <<4, 3>>
TheTexts == {Euro, Letter}
TheOpenings == {<<"find", Letter>>, <<"set", Euro>>, <<"set", Letter>>}
Symmetric == Permutations({i1, i2})
=============================================================================
