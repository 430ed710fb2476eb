----------------------------- MODULE MCSetMerge -----------------------------
(* Small instances of SetMerge. *)
EXTENDS SetMerge

Table(a, b, c, d) == [s \in 0..3 |-> CASE s = 0 -> a [] s = 1 -> b [] s = 2 -> c [] s = 3 -> d]
None == NoMatch

\* nothing before 1, then long matches that overlap and an empty one at their
\* end; empty everywhere; nothing
SmallTables == {Table(None, 3, 3, 3), Table(0, 1, 2, 3), Table(None, None, None, None)}
AllShapes == {[gated |-> g, batch |-> b, preflight |-> p, recovers |-> ~(g /\ b)] :
                 g \in BOOLEAN, b \in BOOLEAN, p \in BOOLEAN}
=============================================================================
