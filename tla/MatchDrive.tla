----------------------------- MODULE MatchDrive -----------------------------
(***************************************************************************)
(* What a search promises the program that drives it, whatever the module  *)
(* keeps between its calls: a drive reports the leftmost match at or after  *)
(* its position, moves past it, and goes on until there is none.            *)
(*                                                                          *)
(* `table' is the answer the pattern has on the text: for every position    *)
(* the end of the match that starts there, or NoMatch.                      *)
(***************************************************************************)
EXTENDS Integers, Sequences

VARIABLES
    table,    \* position -> end of the match starting there, or NoMatch
    from,     \* where the next call searches from
    prevEnd,  \* the end of the last match, or NoMatch before the first
    answers,  \* the matches delivered, as <<start, end>>
    status    \* "driving", "done", or "unknown" (the host ran out of memory)

vars == <<table, from, prevEnd, answers, status>>

NoMatch == -1

\* Where the generated iterators call next: past the match, and always on.
ResumeAfter(start, end) == IF end > start THEN end ELSE start + 1

\* Go's FindAllIndex rule: an empty match where the last one ended is not
\* delivered.
Delivered(start, end) == ~(start = end /\ start = prevEnd)

IsLeftmost(s) ==
    /\ s \in DOMAIN table /\ s >= from
    /\ table[s] # NoMatch
    /\ \A k \in DOMAIN table : from <= k /\ k < s => table[k] = NoMatch

StartSearch(offset) ==
    /\ from' = offset
    /\ prevEnd' = NoMatch
    /\ answers' = << >>
    /\ status' = "driving"

Init ==
    /\ from = 0
    /\ prevEnd = NoMatch
    /\ answers = << >>
    /\ status = "driving"

Report ==
    /\ status = "driving"
    /\ \E s \in DOMAIN table :
          /\ IsLeftmost(s)
          /\ answers' = IF Delivered(s, table[s])
                        THEN Append(answers, <<s, table[s]>>) ELSE answers
          /\ from' = ResumeAfter(s, table[s])
          /\ prevEnd' = table[s]
    /\ UNCHANGED <<table, status>>

End ==
    /\ status = "driving"
    /\ \A s \in DOMAIN table : s >= from => table[s] = NoMatch
    /\ status' = "done"
    /\ UNCHANGED <<table, from, prevEnd, answers>>

\* Memory refused: what was delivered stands, the rest is not known.
GiveUp ==
    /\ status = "driving"
    /\ status' = "unknown"
    /\ UNCHANGED <<table, from, prevEnd, answers>>

\* Another search, on the same text or another.
Again ==
    /\ status # "driving"
    /\ \E offset \in DOMAIN table' : StartSearch(offset)

Next == Report \/ End \/ GiveUp \/ Again

Spec == Init /\ [][Next]_vars
=============================================================================
