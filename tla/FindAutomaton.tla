--------------------------- MODULE FindAutomaton ---------------------------
(***************************************************************************)
(* The automaton a find body walks (engine_dfa.go dfaTable and dfaLayout):   *)
(* its accept channels, the states its walks begin in, and what the compiler *)
(* derives from it.  No state here; the bodies are in the modules that       *)
(* extend this one.                                                          *)
(***************************************************************************)
EXTENDS Integers, Sequences, FiniteSets

CONSTANTS
    States,     \* the live states of the automata
    Dead,       \* their dead state (WASM state 0)
    Bytes,
    Lead, Cont  \* the bytes that begin and continue a two-byte character

All == States \union {Dead}

\* What the compiler knows of a pattern: dfaTable's transitions (total here,
\* Dead where the code has -1), the state a walk enters at text start and after
\* each byte, and its accept channels.
Automaton ==
    [start : All,
     midStart : All,                     \* after a plain (not word, not \n) byte
     mid   : [Bytes -> All],             \* the previous byte -> entry state
     delta : [All -> [Bytes -> All]],
     acc   : SUBSET States,              \* midAcceptStates
     eof   : SUBSET States,              \* acceptStates: accept at end of text
     imm   : SUBSET States,              \* immediate accepts
     begin : BOOLEAN,                    \* startBeginAccept
     bound : BOOLEAN,                    \* hasWordBoundary || hasNewlineBoundary
     pre   : [All -> SUBSET Bytes],      \* accepts that need the next byte
     dom   : [All -> SUBSET Bytes],      \* where those beat every other thread
     rule  : {"none", "seed", "scan"}]   \* startRuleFor

ASSUME ByteAssumption ==
    Lead \subseteq Bytes /\ Cont \subseteq Bytes /\ Lead \cap Cont = {}
ASSUME StateAssumption == Dead \notin States

NoMatch == -1
Larger(a, b) == IF a > b THEN a ELSE b
Smaller(a, b) == IF a < b THEN a ELSE b

LenOf(t) == Len(t.bytes)
ByteAt(t, p) == t.bytes[p + 1]

\* p lies inside a character of t (emitUTF8Start's "continuation byte of a
\* valid sequence").
Inside(t, p) == /\ p > 0 /\ p < LenOf(t)
                /\ ByteAt(t, p) \in Cont /\ ByteAt(t, p - 1) \in Lead

\* The find-from seed: rounded up to a start position under the seed rule.
Seed(d, t, from) == IF d.rule = "seed" /\ Inside(t, from) THEN from + 1 ELSE from
-----------------------------------------------------------------------------
(* What the compiler derives from the automaton. *)

Successors(d, S) ==
    {d.delta[s][c] : s \in S, c \in Bytes} \ (d.acc \union {Dead})

\* The non-accepting states reachable from s through non-accepting states.
Ahead(d, s) ==
    LET f[k \in 0..Cardinality(States)] ==
            IF k = 0 THEN Successors(d, {s})
            ELSE f[k - 1] \union Successors(d, f[k - 1])
    IN  f[Cardinality(States)]

\* dfaCycleStates: the non-accepting states on a cycle of non-accepting states.
Rows(d) == {s \in States \ d.acc : s \in Ahead(d, s)}

Entries(d) == {d.start, d.midStart} \union {d.mid[c] : c \in Bytes}

\* The first-byte flags of the candidate scan.
FirstBytes(d) ==
    IF \/ d.start \in d.eof \/ Entries(d) \cap d.acc # {}
       \/ \E e \in Entries(d) : d.pre[e] = Bytes
    THEN Bytes
    ELSE {c \in Bytes : \E e \in Entries(d) : d.delta[e][c] # Dead \/ c \in d.pre[e]}

Class(d, m) == {c \in Bytes : d.delta[m][c] # Dead}
ExitsAccepting(d, s, C) == \A c \in Bytes \ C : d.delta[s][c] \in d.acc \union {Dead}
AnyAccept(d, s) == s \in d.acc \/ d.pre[s] # {}

\* detectSkipSafeOnDead.
SkipSafeOnDead(d) ==
    LET m == d.midStart
        C == Class(d, m)
        After == {d.delta[m][c] : c \in C}
    IN  /\ m # Dead /\ ~AnyAccept(d, m)
        /\ \E succ \in States :
              /\ After = {succ} /\ succ \notin d.acc
              /\ \A c \in C : d.delta[succ][c] = succ
              /\ ExitsAccepting(d, m, C) /\ ExitsAccepting(d, succ, C)
              /\ \A e \in Entries(d) \ {m} :
                    /\ ~AnyAccept(d, e)
                    /\ \/ Class(d, e) = {}
                       \/ \A c \in Bytes :
                             d.delta[e][c] = IF c \in C THEN succ ELSE Dead

\* What the class bytes of m lead to from it.
Chain(d, m) ==
    LET Hop(S) == S \union {d.delta[s][c] : s \in S, c \in Class(d, m)}
        f[k \in 0..Cardinality(All)] == IF k = 0 THEN {m} ELSE Hop(f[k - 1])
    IN  f[Cardinality(All)]

\* detectEOFSkipSafe: from mid-start the class bytes lead along one chain of
\* non-accepting states into a self-loop.
EofSkipSafe(d) ==
    LET m == d.midStart
        C == Class(d, m)
    IN  /\ ~d.bound
        /\ m # Dead /\ C # {}
        /\ d.start = m \/ (d.start # Dead /\ Class(d, d.start) = {})
        /\ Chain(d, m) \cap (d.acc \union d.eof \union {Dead}) = {}
        /\ \A s \in Chain(d, m) : /\ Cardinality({d.delta[s][c] : c \in C}) = 1
                                  /\ ExitsAccepting(d, s, C)
        /\ \E s \in Chain(d, m) : \A c \in C : d.delta[s][c] = s
-----------------------------------------------------------------------------
(* The match the automaton finds from a start position, read directly: the   *)
(* last accept of its walk.  Nothing below uses it but the ghost `table'.    *)

Begins(d, t, s) == IF s = 0 THEN d.start ELSE d.mid[ByteAt(t, s - 1)]

\* The walk from <<p, q>>, its last accept so far being `last'.
WalkEnd(d, t) ==
    LET n == LenOf(t)
        f[x \in (0..n) \X All \X (-1..n)] ==
            LET p == x[1]
                q == x[2]
                last == x[3]
                c == ByteAt(t, p)
                here == IF c \in d.pre[q] THEN p ELSE last
                r == d.delta[q][c]
            IN  IF p = n THEN IF q \in d.eof THEN n ELSE last
                ELSE IF r = Dead \/ c \in d.pre[q] \cap d.dom[q] THEN here
                ELSE IF r \in d.imm THEN p + 1
                ELSE f[<<p + 1, r, IF r \in d.acc THEN p + 1 ELSE here>>]
    IN  f

\* From start position s, whatever the start rule says of it.
Raw(d, t, s) ==
    LET q == Begins(d, t, s)
    IN  IF q \in d.imm THEN s
        ELSE WalkEnd(d, t)[<<s, q, IF q \in d.acc \/ (d.begin /\ s = 0) THEN s ELSE NoMatch>>]

Table(d, t) ==
    [s \in 0..LenOf(t) |->
        IF d.rule # "none" /\ Inside(t, s) THEN NoMatch ELSE Raw(d, t, s)]
=============================================================================
