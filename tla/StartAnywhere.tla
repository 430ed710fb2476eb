--------------------------- MODULE StartAnywhere ---------------------------
(***************************************************************************)
(* The find that does not try one start after another                       *)
(* (compile/start_anywhere.go).  Two passes: forward, with (?s:.)*? before   *)
(* the pattern, to the end of the leftmost match, then backward from there   *)
(* with the pattern reversed to its start.  The compiler puts it in the place *)
(* of today's body, beside it behind a counter of the bytes failed attempts   *)
(* walk, or leaves it out where a failed attempt cannot walk far.             *)
(***************************************************************************)
EXTENDS FindAutomaton

CONSTANTS
    Pcs, Word, NewLine,   \* what the patterns' programs are made of
    Patterns,             \* the patterns considered
    Texts,                \* the texts, as [bytes]
    Modes,                \* LikelyMode: "none", "match", "noMatch"
    Common,               \* the classes text is full of (commonForStartAnywhere)
    Space,                \* the byte between words
    SwitchN, Slack,       \* defaultSwitchN and startAnywhereSwitchSlack
    ShortWalk             \* switchShortWalk

\* A pattern whose find is today's general body, not anchored: that body's
\* automaton, those of the passes, whether one of them has an ambiguous boundary
\* target, whether the pattern has an assertion, and the class of the repeat it
\* begins with, if any.
Pattern == [dfa : Automaton, fwd : Automaton, rev : Automaton,
            ambiguous : BOOLEAN, ctx : BOOLEAN, lead : SUBSET Bytes]

ASSUME NumberAssumption ==
    SwitchN \in Nat /\ Slack \in Nat /\ ShortWalk \in Nat
ASSUME ModeAssumption == Modes \subseteq {"none", "match", "noMatch"}
\* Each automaton is finite, and no byte leads out of the dead state: its row is
\* all zeros.
ASSUME StatesAssumption == IsFiniteSet(States)
ASSUME PatternAssumption ==
    \A p \in Patterns :
       /\ p.dfa \in Automaton /\ p.fwd \in Automaton /\ p.rev \in Automaton
       /\ p.dfa.delta[Dead] = [c \in Bytes |-> Dead]
ASSUME TextAssumption == Texts \subseteq [bytes : Seq(Bytes)]

VARIABLES
    pat,      \* the pattern, fixed
    plan,     \* what the compiler made of it, fixed
    text,     \* the text being searched
    table,    \* ghost: the match the program means at each position
    host,     \* the iterator: [from, prevEnd, answers, status]
    from,     \* the find-from global
    walked,   \* bytes of the long failed walks of this find
    pc, w,    \* where the running find is, and its locals
    work      \* ghost: where this find began, and the bytes it has read

vars == <<pat, plan, text, table, host, from, walked, pc, w, work>>

n == LenOf(text)
-----------------------------------------------------------------------------
(* failedWalkBound: how far a failed attempt of today's body can walk. *)

\* Mutant: the end of the text is forgotten.
CanFailByByte(d, s) == \E c \in Bytes \ d.pre[s] : d.delta[s][c] = Dead
CanFail(d, s) == \/ s \notin d.eof
                 \/ \E c \in Bytes \ d.pre[s] : d.delta[s][c] = Dead
Onward(d, s) == {d.delta[s][c] : c \in Bytes \ d.pre[s]} \ (d.acc \union {Dead})

Reach(d) ==
    LET f[k \in 0..Cardinality(States)] ==
            IF k = 0 THEN Entries(d)
            ELSE f[k - 1] \union {d.delta[s][c] : s \in f[k - 1], c \in Bytes}
    IN  f[Cardinality(States)] \ {Dead}

\* The states a failed attempt can be in.
Live(d) ==
    LET R == Reach(d) \ d.acc
        f[k \in 0..Cardinality(R)] ==
            {s \in R : CanFail(d, s) \/ (k > 0 /\ Onward(d, s) \cap f[k - 1] # {})}
    IN  f[Cardinality(R)]

\* longestPaths, among those: for each k, where a path of k steps begins.
Paths(d, L) ==
    LET f[k \in 0..Cardinality(L)] ==
            IF k = 0 THEN L ELSE {s \in L : Onward(d, s) \cap f[k - 1] # {}}
    IN  f
FailedWalkBound(d) ==
    LET f == Paths(d, Live(d))
        most == Cardinality(Live(d))
    IN  [bounded |-> f[most] = {}, bound |-> Cardinality({k \in 0..most : f[k] # {}})]
-----------------------------------------------------------------------------
(* classifyFind, of a pattern whose body scans for no literal. *)

AttemptsLinear(p) == ~p.ctx /\ SkipSafeOnDead(p.dfa) /\ EofSkipSafe(p.dfa)
\* Where an attempt begins with a repeat of bytes that text is full of.
ByLead(p, mode) ==
    IF Space \in p.lead THEN IF mode = "noMatch" THEN "new" ELSE "switch"
    ELSE IF mode = "match" THEN "switch" ELSE "new"
ClassifyFind(p, mode, bounded) ==
    IF bounded \/ AttemptsLinear(p) THEN "today"
    ELSE IF p.lead \in Common THEN ByLead(p, mode) ELSE "switch"

\* buildStartAnywherePasses, within the limits on states and memory.
Refused(p) == p.dfa.rule = "scan" \/ p.ambiguous

\* A find that is the passes alone, and is refused them, becomes a switch.
Plan(p, mode) ==
    LET walk == FailedWalkBound(p.dfa)
        strategy == ClassifyFind(p, mode, walk.bounded)
    IN  [strategy |-> IF strategy = "new" /\ Refused(p) THEN "switch" ELSE strategy,
         bound |-> IF walk.bounded THEN walk.bound ELSE 0,
         first |-> FirstBytes(p.dfa),
         skip |-> SkipSafeOnDead(p.dfa), eofSkip |-> EofSkipSafe(p.dfa)]
-----------------------------------------------------------------------------
(* What the program means, by its instructions. *)

Meaning == INSTANCE Programs

Meant(p, t) ==
    LET matches == Meaning!Matches(p.prog, t)
    IN  [s \in 0..LenOf(t) |->
            IF p.dfa.rule # "none" /\ Inside(t, s) THEN NoMatch ELSE matches[s]]
-----------------------------------------------------------------------------
(* The iterator, and the entry of a find. *)

NewHost == [from |-> 0, prevEnd |-> NoMatch, answers |-> << >>, status |-> "driving"]
NoLocals == [start |-> 0, pos |-> 0, st |-> Dead, last |-> NoMatch, end |-> NoMatch]

Init ==
    /\ pat \in Patterns
    /\ plan \in {Plan(pat, mode) : mode \in Modes}
    /\ text \in Texts
    /\ table = Meant(pat, text)
    /\ host = NewHost
    /\ from = 0 /\ walked = 0
    /\ pc = "host" /\ w = NoLocals
    /\ work = [begun |-> 0, bytes |-> 0]

\* The export: today's body, or the passes in its place.
Find ==
    /\ pc = "host" /\ host.status = "driving" /\ host.from <= n
    /\ from' = host.from /\ walked' = 0
    /\ w' = [NoLocals EXCEPT !.start = Seed(pat.dfa, text, host.from)]
    /\ pc' = IF plan.strategy = "new" THEN "passes" ELSE "outer"
    /\ work' = [begun |-> host.from, bytes |-> 0]
    /\ UNCHANGED <<pat, plan, text, table, host>>

ResumeAfter(start, end) == IF end > start THEN end ELSE start + 1

\* The packed return, and the iterator taking the match.
Return(start, end) ==
    /\ host' = [host EXCEPT
                  !.from = ResumeAfter(start, end), !.prevEnd = end,
                  !.answers = IF start = end /\ start = host.prevEnd THEN @
                              ELSE Append(@, <<start, end>>)]
    /\ pc' = "host" /\ w' = NoLocals
    /\ UNCHANGED <<from, walked>>

Stop(status) ==
    /\ host' = [host EXCEPT !.status = status]
    /\ pc' = "host" /\ w' = NoLocals
    /\ UNCHANGED <<from, walked>>

PastTheEnd ==
    /\ pc = "host" /\ host.status = "driving" /\ host.from > n
    /\ Stop("done")
    /\ UNCHANGED <<pat, plan, text, table, work>>
-----------------------------------------------------------------------------
(* Today's body: one attempt per start. *)

Reads == work' = [work EXCEPT !.bytes = @ + 1]

Candidate(s) == /\ s < n => ByteAt(text, s) \in plan.first
                /\ ~(pat.dfa.rule = "scan" /\ Inside(text, s))
Accepting(q, p) == q \in pat.dfa.acc \/ (pat.dfa.begin /\ p = 0)

Attempt ==
    /\ pc = "outer"
    /\ \E s \in w.start..n :
          LET q == Begins(pat.dfa, text, s)
          IN  /\ Candidate(s) /\ \A k \in w.start..(s - 1) : ~Candidate(k)
              /\ \/ q \in pat.dfa.imm /\ Return(s, s)
                 \/ /\ q \notin pat.dfa.imm
                    /\ w' = [w EXCEPT !.start = s, !.pos = s, !.st = q,
                                      !.last = IF Accepting(q, s) THEN s ELSE NoMatch]
                    /\ pc' = "walk"
                    /\ UNCHANGED <<host, from, walked>>
    /\ UNCHANGED <<pat, plan, text, table, work>>

NoMoreStarts ==
    /\ pc = "outer" /\ w.start > n
    /\ Stop("done")
    /\ UNCHANGED <<pat, plan, text, table, work>>

Byte == ByteAt(text, w.pos)

\* What is accepted when the next byte is seen, and where it leads.
LastOf(d) == IF Byte \in d.pre[w.st] THEN w.pos ELSE w.last
Outranks(d) == Byte \in d.pre[w.st] \cap d.dom[w.st]
NextOf(d) == d.delta[w.st][Byte]

Fails == /\ pc' = "failed"
         /\ UNCHANGED <<host, from, walked, w>>
Settles(last) == IF last >= 0 THEN Return(w.start, last) ELSE Fails

AtEnd ==
    /\ pc = "walk" /\ w.pos = n
    /\ Settles(IF w.st \in pat.dfa.eof THEN n ELSE w.last)
    /\ UNCHANGED <<pat, plan, text, table, work>>

Dies ==
    /\ pc = "walk" /\ w.pos < n
    /\ Outranks(pat.dfa) \/ NextOf(pat.dfa) = Dead
    /\ Settles(LastOf(pat.dfa))
    /\ Reads
    /\ UNCHANGED <<pat, plan, text, table>>

Moves ==
    /\ pc = "walk" /\ w.pos < n
    /\ ~Outranks(pat.dfa) /\ NextOf(pat.dfa) # Dead
    /\ \/ NextOf(pat.dfa) \in pat.dfa.imm /\ Return(w.start, w.pos + 1)
       \/ /\ NextOf(pat.dfa) \notin pat.dfa.imm
          /\ w' = [w EXCEPT !.st = NextOf(pat.dfa), !.pos = @ + 1,
                            !.last = IF NextOf(pat.dfa) \in pat.dfa.acc THEN w.pos + 1
                                     ELSE LastOf(pat.dfa)]
          /\ UNCHANGED <<pc, host, from, walked>>
    /\ Reads
    /\ UNCHANGED <<pat, plan, text, table>>
-----------------------------------------------------------------------------
(* A failed attempt: skipped past, charged, or the last one. *)

Skips == IF w.pos = n THEN plan.eofSkip ELSE plan.skip

FailsSkipping ==
    /\ pc = "failed" /\ Skips
    /\ \/ w.pos = n /\ Stop("done")
       \/ /\ w.pos < n
          /\ w' = [w EXCEPT !.start = w.pos + 1]
          /\ pc' = "outer"
          /\ UNCHANGED <<host, from, walked>>
    /\ UNCHANGED <<pat, plan, text, table, work>>

Walk == w.pos - w.start
\* emitFindSwitchCharge: short walks are free, and what earlier ones walked is
\* measured against the way come since `from'.
Long == plan.strategy = "switch" /\ Walk > ShortWalk
OverBudget == walked > SwitchN * (w.start - from) + Slack

FailsCharged ==
    /\ pc = "failed" /\ ~Skips /\ ~(Long /\ OverBudget)
    /\ walked' = IF Long THEN walked + Walk ELSE walked
    /\ w' = [w EXCEPT !.start = @ + 1]
    /\ pc' = "outer"
    /\ UNCHANGED <<pat, plan, text, table, host, from, work>>

\* Mutant: what the attempt read is taken for searched.
HandsOverAhead ==
    /\ pc = "failed" /\ ~Skips /\ Long /\ OverBudget
    /\ from' = w.pos
    /\ pc' = "passes"
    /\ UNCHANGED <<pat, plan, text, table, host, walked, w, work>>

\* The switch: every start up to this one is known to match nothing.
HandsOver ==
    /\ pc = "failed" /\ ~Skips /\ Long /\ OverBudget
    /\ from' = w.start + 1
    /\ pc' = "passes"
    /\ UNCHANGED <<pat, plan, text, table, host, walked, w, work>>
-----------------------------------------------------------------------------
(* The passes. *)

\* Without them the handover is to Backtracking (BTSearch).
Backtracks ==
    /\ pc = "passes" /\ Refused(pat)
    /\ LET matching == {s \in from..n : table[s] # NoMatch}
       IN  \/ matching = {} /\ Stop("done")
          \/ \E s \in matching :
                /\ \A r \in matching : s <= r
                /\ \E end \in s..n : end = table[s] /\ Return(s, end)
    /\ UNCHANGED <<pat, plan, text, table, work>>

\* The glue: `from' is rounded up to a start.  A pattern without assertions
\* is searched for in what is left as if the text began there.
StartsForward ==
    /\ pc = "passes" /\ ~Refused(pat)
    /\ LET f == Seed(pat.fwd, text, from)
       IN  /\ from' = f
           /\ w' = [NoLocals EXCEPT
                      !.pos = f,
                      !.st = IF pat.ctx THEN Begins(pat.fwd, text, f) ELSE pat.fwd.start]
    /\ pc' = "forward"
    /\ UNCHANGED <<pat, plan, text, table, host, walked, work>>

\* The last accept: of the state, or of the state and the byte ahead.
AcceptsAhead(d) ==
    IF w.pos = n THEN w.st \in d.eof ELSE w.st \in d.acc \/ Byte \in d.pre[w.st]
ForwardLast == IF AcceptsAhead(pat.fwd) THEN w.pos ELSE w.last
ForwardEnds == w.pos < n => Outranks(pat.fwd) \/ NextOf(pat.fwd) = Dead

Forwards ==
    /\ pc = "forward" /\ ~ForwardEnds
    /\ w' = [w EXCEPT !.last = ForwardLast, !.st = NextOf(pat.fwd), !.pos = @ + 1]
    /\ Reads
    /\ UNCHANGED <<pat, plan, text, table, host, from, walked, pc>>

\* The match ends at the last accept; the way back begins there.
Turns ==
    /\ pc = "forward" /\ ForwardEnds
    /\ LET end == ForwardLast
       IN  \/ end < 0 /\ Stop("done")
          \/ /\ end >= 0
             /\ w' = [NoLocals EXCEPT
                        !.pos = end, !.end = end,
                        !.st = IF pat.ctx /\ end < n THEN pat.rev.mid[ByteAt(text, end)]
                               ELSE pat.rev.start]
             /\ pc' = "backward"
             /\ UNCHANGED <<host, from, walked>>
    /\ work' = [work EXCEPT !.bytes = @ + IF w.pos < n THEN 1 ELSE 0]
    /\ UNCHANGED <<pat, plan, text, table>>

Below == ByteAt(text, w.pos - 1)
\* The text the pass knows ends at `from', but an assertion sees beyond it.
Edge == IF pat.ctx THEN w.pos = 0 ELSE w.pos = from
BackwardLast ==
    LET d == pat.rev
    IN  IF \/ w.st \in d.acc
           \/ IF Edge THEN w.st \in d.eof ELSE Below \in d.pre[w.st]
        THEN w.pos ELSE w.last
\* Mutant: the pass reads to the start of the text.
BackwardEndsAtZero == w.pos > 0 => pat.rev.delta[w.st][Below] = Dead
BackwardEnds == w.pos > from => pat.rev.delta[w.st][Below] = Dead

Backwards ==
    /\ pc = "backward" /\ ~BackwardEnds
    /\ w' = [w EXCEPT !.last = BackwardLast, !.st = pat.rev.delta[@][Below], !.pos = @ - 1]
    /\ Reads
    /\ UNCHANGED <<pat, plan, text, table, host, from, walked, pc>>

\* `the forward pass proved a match': without a start the module traps.
Meets ==
    /\ pc = "backward" /\ BackwardEnds
    /\ \/ BackwardLast < 0 /\ Stop("trapped")
       \/ BackwardLast >= 0 /\ Return(BackwardLast, w.end)
    /\ work' = [work EXCEPT !.bytes = @ + IF w.pos > from THEN 1 ELSE 0]
    /\ UNCHANGED <<pat, plan, text, table>>
-----------------------------------------------------------------------------
Host == Find \/ PastTheEnd
Search == \/ Attempt \/ NoMoreStarts \/ AtEnd \/ Dies \/ Moves
          \/ FailsSkipping \/ FailsCharged \/ HandsOver
          \/ Backtracks \/ StartsForward \/ Forwards \/ Turns \/ Backwards \/ Meets
Ended == host.status # "driving" /\ UNCHANGED vars

Next == Host \/ Search \/ Ended
Spec == Init /\ [][Next]_vars
-----------------------------------------------------------------------------
(* Properties. *)

Locals == [start : Nat, pos : Nat, st : All, last : Nat \union {NoMatch},
           end : Nat \union {NoMatch}]

\* The types, and where the locals of a running find may stand.
TypeOK ==
    /\ text \in Texts
    /\ plan.strategy \in {"today", "new", "switch"}
    /\ host.from \in 0..(n + 1) /\ host.status \in {"driving", "done", "trapped"}
    /\ from \in 0..n /\ walked \in Nat
    /\ pc \in {"host", "outer", "walk", "failed", "passes", "forward", "backward"}
    /\ w \in Locals /\ w.start <= n + 1 /\ w.pos <= n
    /\ pc = "walk" => w.start <= w.pos
    /\ pc = "backward" => from <= w.pos /\ w.pos <= w.end
    /\ work.begun <= from

\* Whichever way a pattern is searched for, and wherever the counter hands the
\* find over, the drive reports the leftmost matches, each with the end its
\* priorities give it: neither pass loses a match, finds one that begins below
\* `from', or traps (start_anywhere.go's "the forward pass proved a match").
Drive == INSTANCE MatchDrive WITH
            from <- host.from, prevEnd <- host.prevEnd,
            answers <- host.answers, status <- host.status
DrivesLeftmost == Drive!Spec

\* The bytes a find reads are linear in the text it is given, by the counter: in
\* short walks at most ShortWalk + 1 for each start, in long ones up to the
\* budget, the walk that exceeds it and the one that finds out, and two passes.
Given == n - work.begun + 1
SwitchLinear ==
    plan.strategy = "switch" => work.bytes <= (SwitchN + ShortWalk + 6) * Given + Slack

\* A find that is the passes alone reads the text twice.
PassesLinear == plan.strategy = "new" => work.bytes <= 2 * Given

\* By the classification: no failed attempt of a body left as it is walks beyond
\* the bound, or it skips what it read.
BodyLinear == plan.strategy = "today" => work.bytes <= (plan.bound + 2) * Given

\* No find is quadratic in the text (start_anywhere.go, "not provably linear").
FindLinear == SwitchLinear /\ PassesLinear /\ BodyLinear
=============================================================================
