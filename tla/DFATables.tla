----------------------------- MODULE DFATables -----------------------------
(***************************************************************************)
(* From the automaton to the table a body walks: equal states merged        *)
(* (engine_dfa.go minimizeDFA), what may still be accepted from a state      *)
(* (liveness.go), and the states a body may stride in: those that all but a  *)
(* few bytes (detectDominantSelfLoop), or only a few bytes                    *)
(* (memberWalkStates), lead back to.                                          *)
(***************************************************************************)
EXTENDS DFAConstruction

CONSTANTS
    DominantMin, DominantExits,   \* 240 bytes that stay, 8 that leave
    MemberMax, MemberStatesMax    \* 2 bytes that stay, 2 states

\* minimizeDFA: what two states must have alike to be one.
Signature(state) == <<state.eof, state.mid, state.by, state.imm,
                      state.dominant, state.outranked>>

ClassAt(of, s) == IF s = DeadState THEN DeadState ELSE of[s]
RECURSIVE Refined(_, _)
Refined(a, of) ==
    LET S == DOMAIN of
        alike(s, r) == /\ of[r] = of[s]
                       /\ \A b \in Bytes : ClassAt(of, a.next[r][b]) = ClassAt(of, a.next[s][b])
        finer == [s \in S |-> Min({r \in S : alike(s, r)})]
    IN  IF finer = of THEN of ELSE Refined(a, finer)

\* A state's class, named for its first state.
Classes(a) ==
    LET S == DOMAIN a.states
    IN  Refined(a, [s \in S |-> Min({r \in S : Signature(a.states[r]) = Signature(a.states[s])})])

\* The classes are numbered in the order of their first states.
Minimized(a) ==
    LET of == Classes(a)
        reps == Range(of)
        to(s) == IF s = DeadState THEN DeadState ELSE Cardinality({r \in reps : r <= of[s]})
        rep(i) == CHOOSE r \in reps : to(r) = i
        K == 1..Cardinality(reps)
    IN  [a EXCEPT !.start = to(@), !.midStart = to(@), !.midStartWord = to(@),
                  !.midStartNewline = to(@),
                  !.states = [i \in K |-> a.states[rep(i)]],
                  !.next = [i \in K |-> [b \in Bytes |-> to(a.next[rep(i)][b])]]]
-----------------------------------------------------------------------------
\* Mutant: what is accepted before a certain byte is left out.
FutureInPlain(state) == state.eof \union state.mid \union state.imm
FutureIn(state) == UNION {state.eof, state.mid, state.imm, state.by["nw"], state.by["w"],
                          state.by["nl"]}

\* futureAccepts: the patterns accepted in some state reachable from each.
RECURSIVE Reached(_, _)
Reached(a, seen) ==
    LET more == seen \union {a.next[s][b] : s \in seen \ {DeadState}, b \in Bytes}
    IN  IF more = seen THEN seen ELSE Reached(a, more)
FutureAccepts(a) ==
    [s \in DOMAIN a.states |-> UNION {FutureIn(a.states[r]) : r \in Reached(a, {s}) \ {DeadState}}]

\* livenessCanFire: a cycle of reachable states from which some but not all of
\* the patterns may still be accepted.
LivenessCanFire(a) ==
    LET f == FutureAccepts(a)
        full == UNION {f[s] : s \in DOMAIN f}
        roots == {a.start, a.midStart, a.midStartWord, a.midStartNewline}
        partial == {s \in Reached(a, roots) \ {DeadState} : f[s] # {} /\ f[s] # full}
    IN  /\ Cardinality(full) >= 2
        /\ \E s \in partial : s \in Reached(a, {a.next[s][b] : b \in Bytes})

\* firstByteSet (startable.go): what a program can begin with; every byte if it
\* can match without reading one.
FirstBytes(prog) ==
    LET d == Union(<<prog>>)
        reached == Range(Closure(d, <<d.start>>, Assertions))
        sets == UNION {d.inst[p].set : p \in {q \in reached : OpAt(d, q) = "byte"}}
    IN  IF sets = {} \/ \E p \in reached : Matched(d, p) THEN Bytes ELSE sets

SelfLoop(a, s) == {b \in Bytes : a.next[s][b] = s}

\* memberWalkStates: the widest loops, as many as there is room for.
MemberCandidates(a) ==
    {s \in DOMAIN a.states : /\ a.states[s].eof # {} \/ a.states[s].mid # {}
                             /\ Cardinality(SelfLoop(a, s)) \in 1..MemberMax}
MemberStates(a) ==
    LET wider(s, r) == LET mine == Cardinality(SelfLoop(a, s))
                           its == Cardinality(SelfLoop(a, r))
                       IN  mine > its \/ (mine = its /\ s < r)
        order == SetToSortSeq(MemberCandidates(a), wider)
    IN  {order[i] : i \in 1..Min({Len(order), MemberStatesMax})}

\* detectDominantSelfLoop: a line's end must not be strode over in a state
\* that accepts by what follows.
DominantLoop(a, s) ==
    LET by == a.states[s].by
        loop == SelfLoop(a, s) \ (IF by["nw"] \union by["w"] \union by["nl"] # {}
                                  THEN {NewLine} ELSE {})
    IN  IF /\ Cardinality(SelfLoop(a, s)) >= DominantMin /\ Cardinality(loop) >= DominantMin
           /\ Cardinality(Bytes \ loop) \in 1..DominantExits
        THEN loop ELSE {}

\* buildMemberSets: a bucket past the mask's width strides in every state
\* that loops, where the build expects matches.
Strides(a, wide, likely) ==
    [s \in DOMAIN a.states |->
        IF wide THEN IF likely THEN SelfLoop(a, s) ELSE {}
        ELSE IF s \in MemberStates(a) THEN SelfLoop(a, s) ELSE {}]

\* Row 0 is the dead state's.
WithDead(f, dead) == [s \in {DeadState} \union DOMAIN f |-> IF s = DeadState THEN dead ELSE f[s]]
Column(a, what) == WithDead([s \in DOMAIN a.states |-> a.states[s][what]], {})
ColumnBefore(a, x) == WithDead([s \in DOMAIN a.states |-> a.states[s].by[x]], {})

\* bucketLivenessExit, and the tables emitSetBucketTables lays out.
LaidOut(a, wide, likely) ==
    [start |-> a.start, midStart |-> a.midStart, midStartWord |-> a.midStartWord,
     midStartNewline |-> a.midStartNewline, words |-> a.words, lines |-> a.lines,
     next |-> WithDead(a.next, [b \in Bytes |-> DeadState]),
     eof |-> Column(a, "eof"), mid |-> Column(a, "mid"),
     imm |-> Column(a, "imm"), nw |-> ColumnBefore(a, "nw"),
     w |-> ColumnBefore(a, "w"), nl |-> ColumnBefore(a, "nl"),
     dominant |-> Column(a, "dominant"),
     livenessExit |-> ~wide /\ LivenessCanFire(a),
     future |-> WithDead(FutureAccepts(a), {}),
     loops |-> WithDead([s \in DOMAIN a.states |-> DominantLoop(a, s)], {}),
     members |-> WithDead(Strides(a, wide, likely), {})]
Table(progs, wide, likely) == LaidOut(Minimized(Automaton(progs, wide)), wide, likely)
-----------------------------------------------------------------------------
(* The tables an overlapping set is swept over (set_overlap_proj.go).           *)

\* buildOverlapProj: the states that answer alike for pattern k whatever
\* follows, each class named for its first state; the dominant ends count in an
\* automaton of one pattern only.
Answering(state, k, sole) ==
    <<k \in state.mid, k \in state.eof, [x \in DOMAIN state.by |-> k \in state.by[x]],
      IF sole THEN state.dominant ELSE {}>>
Projected(a, k, sole) ==
    LET alike(s, r) == Answering(a.states[s], k, sole) = Answering(a.states[r], k, sole)
        of == Refined(a, [s \in DOMAIN a.states |-> Min({r \in DOMAIN a.states : alike(s, r)})])
    IN  [s \in DOMAIN of |-> IF k \in FutureAccepts(a)[s] THEN of[s] ELSE DeadState]

\* vetSweep: a column with a boundary accept is always projected, another one
\* where that narrows it.
SweepOf(a, ids, counted) ==
    LET patterns == DOMAIN ids
        cellOf == [k \in patterns |-> Projected(a, k, Len(ids) = 1)]
        live == MapThenSumSet(LAMBDA k : Cardinality(Range(cellOf[k]) \ {DeadState}), patterns)
        pairs == Cardinality(DOMAIN a.states) * Len(ids)
        narrows == a.words \/ a.lines \/ live < pairs
    IN  [table |-> LaidOut(a, FALSE, TRUE), ids |-> ids, counted |-> counted,
         cells |-> IF narrows THEN 1 + live ELSE pairs + Len(ids),
         cellOf |-> [k \in patterns |->
             WithDead(IF narrows THEN cellOf[k] ELSE [s \in DOMAIN a.states |-> s], DeadState)]]
-----------------------------------------------------------------------------
(* A find body's layout, over states 1..K (buildDFALayout): FindAutomaton's     *)
(* record.                                                                        *)

\* The accept tables the byte c is looked up in.
Opened(a, c) == (IF a.words THEN {IF c \in Word THEN "w" ELSE "nw"} ELSE {})
                  \union (IF a.lines /\ c = NewLine THEN {"nl"} ELSE {})
EnteredAfter(a, c) == IF a.words /\ c \in Word THEN a.midStartWord
                      ELSE IF a.lines /\ c = NewLine THEN a.midStartNewline
                      ELSE a.midStart
FindLayout(a, K, rule) ==
    LET S == DOMAIN a.states
        opened(s, c, xs) == \E x \in xs \cap Opened(a, c) : a.states[s].by[x] # {}
        bytes(xs(_)) == [s \in 0..K |-> IF s \in S THEN {c \in Bytes : opened(s, c, xs(s))} ELSE {}]
    IN  [start |-> a.start, midStart |-> a.midStart,
         mid |-> [c \in Bytes |-> EnteredAfter(a, c)],
         delta |-> [s \in 0..K |-> IF s \in S THEN a.next[s] ELSE [c \in Bytes |-> DeadState]],
         acc |-> {s \in S : a.states[s].mid # {}},
         eof |-> {s \in S : a.states[s].eof # {}},
         imm |-> {s \in S : a.states[s].imm # {}},
         begin |-> a.beginAccept,
         bound |-> a.words \/ a.lines,
         pre |-> bytes(LAMBDA s : Next3),
         dom |-> bytes(LAMBDA s : a.states[s].dominant),
         rule |-> rule]
=============================================================================
