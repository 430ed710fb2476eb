------------------------------ MODULE SetDrive ------------------------------
(***************************************************************************)
(* What a set's find and find_batch promise the program that drives them,  *)
(* whichever body serves which member: the matches of every member come in *)
(* the order of their starts; at one start the bucket-served members come  *)
(* before the split ones, each in the order of their ids.                   *)
(*                                                                          *)
(* `ends' is the answer each member has on the text: for every position     *)
(* the end of the match that starts there, or NoMatch.                      *)
(***************************************************************************)
EXTENDS Integers, Sequences, FiniteSets

CONSTANTS
    Kept,    \* the pattern ids the set's buckets serve
    Split,   \* the ids served by a search of their own
    Length   \* of the text

VARIABLES
    ends,    \* member -> position -> the end of its match there, or NoMatch
    shape,   \* [gated, batch, ...]: the set, and which entry drives it
    origin,  \* where the drive starts
    out,     \* the matches the caller was given
    status   \* "driving", "done", or "unknown" (memory was refused)

vars == <<ends, shape, origin, out, status>>

NoMatch == -1
Tuple(k, s) == [id |-> k, start |-> s, end |-> ends[k][s]]

\* In ascending order: the k-th has k - 1 of them before it.
Ascending(ids) ==
    [i \in 1..Cardinality(ids) |->
        CHOOSE k \in ids : Cardinality({j \in ids : j < k}) = i - 1]

\* A gated set reports as Go's FindAllIndex does, each member for itself: past
\* the member's last match, and not empty where that ended.  An overlapping
\* set reports a member at every later start.
Past(s, e, m) == IF shape.gated THEN s >= m.end /\ ~(s = e /\ s = m.end)
                                ELSE s > m.start

Pending(k) ==
    {s \in origin..Length :
        /\ ends[k][s] # NoMatch
        /\ \A i \in DOMAIN out : out[i].id = k => Past(s, ends[k][s], out[i])}

\* The matches of the next position, or none.
Owed ==
    LET all == UNION {Pending(k) : k \in Kept \union Split}
        at == CHOOSE s \in all : \A t \in all : s <= t
        Those(ids) == Ascending({k \in ids : at \in Pending(k)})
        there == Those(Kept) \o Those(Split)
    IN  IF all = {} THEN << >>
        ELSE [i \in DOMAIN there |-> Tuple(there[i], at)]

Init == out = << >> /\ status = "driving"

\* find answers a position whole; find_batch may stop inside one.
Give ==
    /\ status = "driving"
    /\ \E n \in 1..Len(Owed) :
          /\ shape.batch \/ n = Len(Owed)
          /\ out' = out \o SubSeq(Owed, 1, n)
    /\ UNCHANGED <<ends, shape, origin, status>>

End ==
    /\ status = "driving"
    /\ Owed = << >>
    /\ status' = "done"
    /\ UNCHANGED <<ends, shape, origin, out>>

\* What was given stands; whether there is more is not known.
GiveUp ==
    /\ status = "driving"
    /\ status' = "unknown"
    /\ UNCHANGED <<ends, shape, origin, out>>

Next == Give \/ End \/ GiveUp

Spec == Init /\ [][Next]_vars
=============================================================================
