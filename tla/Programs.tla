------------------------------ MODULE Programs ------------------------------
(***************************************************************************)
(* The instruction programs every engine is compiled from (syntax.Prog), and *)
(* what a program means: the match that starts at a position, priorities     *)
(* first.  No step of the program uses the meaning; properties do.            *)
(***************************************************************************)
EXTENDS Integers, Sequences, FiniteSets

CONSTANTS
    Pcs,        \* program counters
    Bytes, Word, NewLine

NoMatch == -1
DeadState == 0       \* the state of an automaton that no byte leads out of
Ops == {"byte", "alt", "empty", "nop", "match", "fail"}
Assertions == {"beginText", "endText", "beginLine", "endLine", "wordBoundary",
               "noWordBoundary"}
\* syntax.Inst; Capture is a "nop", the find body tracks no groups.
Inst == [op : Ops, set : SUBSET Bytes, need : Assertions, out : Pcs, arg : Pcs]
Program == [start : Pcs, inst : [Pcs -> Inst]]

ASSUME ByteAssumption == Word \subseteq Bytes /\ NewLine \in Bytes \ Word

LenOf(t) == Len(t.bytes)
ByteAt(t, p) == t.bytes[p + 1]

IsWord(t, p) == p >= 0 /\ p < LenOf(t) /\ ByteAt(t, p) \in Word
AtBoundary(t, p) == IsWord(t, p - 1) # IsWord(t, p)

Holds(need, t, p) ==
    CASE need = "beginText" -> p = 0
      [] need = "endText"   -> p = LenOf(t)
      [] need = "beginLine" -> p > 0 => ByteAt(t, p - 1) = NewLine
      [] need = "endLine"   -> p < LenOf(t) => ByteAt(t, p) = NewLine
      [] need = "wordBoundary"   -> AtBoundary(t, p)
      [] need = "noWordBoundary" -> ~AtBoundary(t, p)

OpAt(d, p) == d.inst[p].op

\* The match each instruction leads to, priorities first, a thread that comes
\* back to an Alt without having read a byte being dropped.
Ends(d, t) ==
    LET n == LenOf(t)
        pcs == DOMAIN d.inst
        at[p \in 0..n] ==
            LET later == IF p < n THEN at[p + 1] ELSE [q \in pcs |-> NoMatch]
                try[q \in pcs, seen \in SUBSET pcs] ==
                    LET i == d.inst[q]
                    IN  CASE i.op = "match" -> p
                          [] i.op = "fail" -> NoMatch
                          [] i.op = "byte" -> IF p < n /\ ByteAt(t, p) \in i.set
                                              THEN later[i.out] ELSE NoMatch
                          [] i.op = "nop" -> try[i.out, seen]
                          [] i.op = "empty" -> IF Holds(i.need, t, p)
                                               THEN try[i.out, seen] ELSE NoMatch
                          [] i.op = "alt" ->
                               IF q \in seen THEN NoMatch
                               ELSE LET preferred == try[i.out, seen \union {q}]
                                    IN  IF preferred # NoMatch THEN preferred
                                        ELSE try[i.arg, seen \union {q}]
            IN  [q \in pcs |-> try[q, {}]]
    IN  [p \in 0..n |-> at[p]]

\* The matches of a program: for every start, the end or NoMatch.
Matches(d, t) == LET e == Ends(d, t) IN [s \in 0..LenOf(t) |-> e[s][d.start]]
=============================================================================
