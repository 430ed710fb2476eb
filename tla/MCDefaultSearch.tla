-------------------------- MODULE MCDefaultSearch --------------------------
(* Small instances of DefaultSearch. *)
EXTENDS DefaultSearch, TLC

CONSTANTS findMemo, findNotes, batchNotes, batchMemo, d1, d2

Table(f, k) == [s \in 0..k |-> IF s \in DOMAIN f THEN f[s] ELSE NoMatch]
TextOf(f, k, fails) == [len |-> k, ends |-> Table(f, k), fails |-> fails]

KindOf(keeps, per, batch, minLen) ==
    [keeps |-> keeps, per |-> per, batch |-> batch, minLen |-> minLen]
TheExports ==
    (findMemo :> KindOf("memo", 1, FALSE, 0)) @@ (findNotes :> KindOf("notes", 1, FALSE, 2)) @@
    (batchNotes :> KindOf("notes", 1, TRUE, 0)) @@ (batchMemo :> KindOf("memo", 1, TRUE, 0))

Two == [ptr |-> 1, len |-> 2]
Three == [ptr |-> 2, len |-> 3]
TheBuffers == {Two, Three}
TheContents ==
    {TextOf((0 :> 1) @@ (1 :> 1) @@ (2 :> 2), 2, {1}), TextOf((0 :> 2), 2, {}),
     TextOf((0 :> 1) @@ (2 :> 3), 3, {2}), TextOf((0 :> 0) @@ (1 :> 3), 3, {3})}

Steady(uses, buffers) ==
    [uses |-> uses, buffers |-> buffers, hands |-> {}, zeroes |-> FALSE, refuse |-> FALSE,
     base |-> 2]
Short(uses, buffers) == [Steady(uses, buffers) EXCEPT !.refuse = TRUE]
\* Memory to spare or refused, one export or two, a scratch base or none.
TheModes ==
    {Steady({findMemo}, TheBuffers), Short({findMemo}, {Three}),
     [Steady({findMemo}, {Three}) EXCEPT !.base = 0, !.zeroes = TRUE],
     Steady({batchMemo}, TheBuffers), Short({batchNotes}, TheBuffers),
     Steady({findNotes, batchNotes}, {Three}),
     [Short({batchMemo}, {Three}) EXCEPT !.hands = {d2}, !.zeroes = TRUE]}
\* A batch export that keeps a memo, short of memory.
BatchModes == {Short({batchMemo}, {Three})}

\* abc(?:.*d)? on five bytes: after a match of three, two are too few for another.
LongExports == [TheExports EXCEPT ![findMemo].minLen = 3]
Five == [ptr |-> 1, len |-> 5]
LongBuffers == {Five}
LongTexts == {TextOf((0 :> 3), 5, {3, 4}), TextOf((0 :> 5), 5, {})}
RewriteModes == {Steady({findMemo}, {Five})}

=============================================================================
