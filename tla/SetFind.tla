------------------------------ MODULE SetFind ------------------------------
(***************************************************************************)
(* A set's find, served by the buckets position by position                 *)
(* (compile/set_emit.go emitSetMatchFnFinalScalar, compile/set_find.go),    *)
(* with the bodies that walk them, and the program that drives it.           *)
(*                                                                          *)
(* At each position every bucket without a literal is entered, and every     *)
(* bucket whose literal is there; within a bucket, once for each distance    *)
(* its patterns start before the literal.  The search stops at the first     *)
(* position past which no earlier start can come to light.                   *)
(***************************************************************************)
EXTENDS SetBodies

CONSTANTS
    Ids,      \* of the patterns
    Sets,     \* [gated, jump, batch, buckets, programs], see MCSetFind
    Texts, Longest,
    MaxCap    \* the largest buffer a caller starts with

\* bucket: [wide, ids, lit, groups, anchored, lined, prefix, table, firsts]
\*   wide     more patterns than a mask has bits: the sparse body serves it
\*   ids      the patterns' ids, in the bucket's order
\*   lit      the literal's bytes, none in a fallback bucket
\*   groups   [L, ks]: ks start L bytes before the literal, L descending
\*   anchored, lined   the patterns \A and (?m:^) were taken off
\*   prefix   k -> the sets the bytes before the literal must be in
\*   firsts   byte -> the patterns that may begin with it
\* programs: id -> the whole pattern, for the properties.

\* A pattern is in one bucket and there in one group; more patterns than a mask
\* has bits are one group, of which none has a prefix.
IsBucket(bk) ==
    /\ bk.wide \in BOOLEAN /\ bk.ids \in Seq(Ids) /\ bk.lit \in Seq(Bytes)
    /\ IsTable(bk.table, bk.ids)
    /\ bk.groups \in Seq([L : Nat, ks : SUBSET DOMAIN bk.ids]) \ {<< >>}
    /\ \A g \in DOMAIN bk.groups :
          /\ bk.wide => bk.groups[g] = [L |-> 0, ks |-> DOMAIN bk.ids]
          /\ \A h \in DOMAIN bk.groups \ {g} :
                bk.groups[g].ks \intersect bk.groups[h].ks = {}

ASSUME SetAssumption ==
    /\ IsFiniteSet(Ids) /\ MaxCap \in Nat
    /\ \A t \in Texts : t.bytes \in Seq(Bytes)
    /\ \A s \in Sets :
          /\ s.buckets \in Seq(Range(s.buckets))
          /\ \A b \in DOMAIN s.buckets : IsBucket(s.buckets[b])
          /\ \A b, c \in DOMAIN s.buckets : \A i \in DOMAIN s.buckets[b].ids :
                \A j \in DOMAIN s.buckets[c].ids :
                    s.buckets[b].ids[i] = s.buckets[c].ids[j] => b = c /\ i = j
          /\ \E b \in DOMAIN s.buckets : s.buckets[b].ids # << >>

VARIABLES
    set, text,  \* fixed, as is `ends', what each pattern matches at each position
    ends,
    gate,       \* the caller's gate array
    host,       \* [from, cap]
    out,        \* the matches the caller has
    status,     \* "driving" or "done"
    pc,         \* "host", "scan", "group", "walk" or "answered"
    scan,       \* the frontend's locals
    walk,       \* the body's
    scratch     \* bucket -> what a sparse body keeps between calls

vars == <<set, text, ends, gate, host, out, status, pc, scan, walk, scratch>>
fixed == <<set, text, ends>>

B == set.buckets
Buckets == DOMAIN B
Members == UNION {Range(B[b].ids) : b \in Buckets}
Sentinel == LenOf(text) + 1   \* minStartSentinel: past every start
NoWalk == << >>

\* setMaxLookback: how far a match may start before its candidate position.
MaxLookback == Max(UNION {{group.L : group \in Range(B[b].groups)} : b \in Buckets})
-----------------------------------------------------------------------------
(* A position's work. *)

IsFallback(b) == B[b].lit = << >>
LiteralAt(b, p) ==
    LET lit == B[b].lit
    IN  p + Len(lit) <= LenOf(text) /\ \A i \in DOMAIN lit : ByteAt(text, p + i - 1) = lit[i]

\* emitFallbackBuckets, whose literal is empty, and emitLiteralBucketsHoisted.
Work(p) == UNION {{[b |-> b, g |-> g] : g \in DOMAIN B[b].groups} :
                  b \in {c \in Buckets : LiteralAt(c, p)}}

\* In turn: the fallback buckets in their order, then litOrderFor, shorter
\* literals first and the later bucket; a bucket's groups in theirs.
Precedes(x, y) ==
    LET m == Len(B[x.b].lit)
        n == Len(B[y.b].lit)
    IN  \/ m < n
        \/ m = n /\ (IF IsFallback(x.b) THEN x.b < y.b ELSE x.b > y.b)
        \/ x.b = y.b /\ x.g < y.g

\* emitGroupMask: the anchored patterns only where their anchor holds.
GroupMask(b, group, p) ==
    IF group.L # 0 THEN group.ks
    ELSE {k \in group.ks : /\ k \in B[b].anchored => p = 0
                           /\ k \in B[b].lined => p = 0 \/ ByteAt(text, p - 1) = NewLine}

\* emitStartableMask
Startable(b, ks, p) ==
    IF IsFallback(b) /\ ~B[b].wide /\ p < LenOf(text)
    THEN ks \intersect B[b].firsts[ByteAt(text, p)] ELSE ks

\* emitGateMask, by the weaker bound: a match that is not empty.
Open(b, ks, start) ==
    {k \in ks : set.gated => 2 * start + 1 >= gate[B[b].ids[k]]}

\* emitPrefixChecks: the bytes from the start to the literal.
Prefixed(b, group, ks, p) ==
    {k \in ks : \A i \in 1..group.L : ByteAt(text, p - group.L + i - 1) \in B[b].prefix[k][i]}

Mask(b, group, p) ==
    Prefixed(b, group, Open(b, Startable(b, GroupMask(b, group, p), p), p - group.L), p)

\* A sparse bucket's answer is read from lists, no mask is consulted.
Wanted(b, group, p) ==
    LET start == p - group.L
    IN  /\ group.L # 0 => start >= host.from
        /\ MaxLookback # 0 => start <= scan.minStart
        /\ ~B[b].wide => Mask(b, group, p) # {}
-----------------------------------------------------------------------------
(* One call. *)

\* emitGateJump: no pattern matches before the lowest gate.
Jump(from) ==
    IF set.gated /\ set.jump THEN Max({from, Min({gate[k] \div 2 : k \in Members})}) ELSE from

NoScan == [pos |-> 0, minStart |-> 0, total |-> 0, todo |-> {}, buf |-> << >>]

Find ==
    /\ pc = "host" /\ status = "driving"
    /\ scan' = [NoScan EXCEPT !.pos = Jump(host.from), !.minStart = Sentinel]
    /\ pc' = "scan"
    /\ UNCHANGED <<fixed, gate, host, out, status, walk, scratch>>

\* emitDrainCheck
Drained == scan.pos - MaxLookback > scan.minStart
Scanning == pc = "scan" /\ scan.pos <= LenOf(text) /\ ~Drained

Visit ==
    /\ Scanning
    /\ scan' = [scan EXCEPT !.todo = Work(scan.pos)]
    /\ pc' = "group"
    /\ UNCHANGED <<fixed, gate, host, out, status, walk, scratch>>

NextPosition ==
    /\ pc = "group" /\ scan.todo = {}
    /\ scan' = [scan EXCEPT !.pos = @ + 1]
    /\ pc' = "scan"
    /\ UNCHANGED <<fixed, gate, host, out, status, walk, scratch>>

Turn == CHOOSE t \in scan.todo : \A u \in scan.todo \ {t} : Precedes(t, u)
TurnGroup == B[Turn.b].groups[Turn.g]
AtGroup == pc = "group" /\ scan.todo # {}

SkipGroup ==
    /\ AtGroup
    /\ ~Wanted(Turn.b, TurnGroup, scan.pos)
    /\ scan' = [scan EXCEPT !.todo = @ \ {Turn}]
    /\ UNCHANGED <<fixed, gate, host, out, status, pc, walk, scratch>>

\* emitSelectBase: an earlier start than any so far discards what is written.
Base(start) == IF start < scan.minStart THEN 0 ELSE scan.total

\* emitSuffixCall
Call(b) == [table |-> B[b].table, ids |-> B[b].ids, text |-> text, gated |-> set.gated,
            gate |-> gate, cap |-> host.cap]

TurnStart == scan.pos - TurnGroup.L
AfterLiteral == scan.pos + Len(B[Turn.b].lit)

EnterDense ==
    /\ AtGroup /\ ~B[Turn.b].wide
    /\ Wanted(Turn.b, TurnGroup, scan.pos)
    /\ walk' = DenseWalk(Call(Turn.b), AfterLiteral, TurnStart,
                         Mask(Turn.b, TurnGroup, scan.pos), Base(TurnStart), scan.buf)
    /\ pc' = "walk"
    /\ UNCHANGED <<fixed, gate, host, out, status, scan, scratch>>

EnterSparse ==
    /\ AtGroup /\ B[Turn.b].wide
    /\ Wanted(Turn.b, TurnGroup, scan.pos)
    /\ \E entered \in {SparseWalk(Call(Turn.b), AfterLiteral, TurnStart, Base(TurnStart),
                                 scan.buf, scratch[Turn.b])} :
          /\ walk' = entered.w
          /\ scratch' = [scratch EXCEPT ![Turn.b] = entered.scratch]
    /\ pc' = "walk"
    /\ UNCHANGED <<fixed, gate, host, out, status, scan>>

\* emitCommit: a group that found nothing moves nothing.
Commit(w) ==
    [scan EXCEPT !.todo = @ \ {Turn},
                 !.minStart = IF w.count # 0 THEN w.start ELSE @,
                 !.total = IF w.count # 0 THEN w.base + w.count ELSE @,
                 !.buf = IF w.count # 0 THEN w.buf ELSE @]

DenseWalks ==
    /\ pc = "walk" /\ ~B[Turn.b].wide
    /\ ~DenseOver(Call(Turn.b), walk)
    /\ walk' = DenseStep(Call(Turn.b), walk)
    /\ UNCHANGED <<fixed, gate, host, out, status, pc, scan, scratch>>

DenseReturns ==
    /\ pc = "walk" /\ ~B[Turn.b].wide
    /\ DenseOver(Call(Turn.b), walk)
    /\ scan' = Commit(DenseEnd(Call(Turn.b), walk))
    /\ walk' = NoWalk
    /\ pc' = "group"
    /\ UNCHANGED <<fixed, gate, host, out, status, scratch>>

SparseWalks ==
    /\ pc = "walk" /\ B[Turn.b].wide
    /\ ~SparseOver(Call(Turn.b), walk)
    /\ \E step \in {SparseStep(Call(Turn.b), walk, scratch[Turn.b])} :
          /\ walk' = step.w
          /\ scratch' = [scratch EXCEPT ![Turn.b] = step.scratch]
    /\ UNCHANGED <<fixed, gate, host, out, status, pc, scan>>

SparseReturns ==
    /\ pc = "walk" /\ B[Turn.b].wide
    /\ SparseOver(Call(Turn.b), walk)
    /\ \E end \in {SparseEnd(Call(Turn.b), walk, scratch[Turn.b])} :
          /\ scan' = Commit(end.w)
          /\ scratch' = [scratch EXCEPT ![Turn.b] = end.scratch]
    /\ walk' = NoWalk
    /\ pc' = "group"
    /\ UNCHANGED <<fixed, gate, host, out, status>>

\* emitGateWriteback: nothing is gated when the position does not fit.
Closed(m) == 2 * m.end + (IF m.end > m.start THEN 1 ELSE 2)
WrittenBack ==
    IF ~(set.gated /\ scan.total \in 1..host.cap) THEN gate
    ELSE [k \in Ids |-> LET of == {i \in 1..scan.total : scan.buf[i].id = k}
                        IN  IF of = {} THEN gate[k] ELSE Closed(scan.buf[Max(of)])]

FindReturns ==
    /\ pc = "scan" /\ ~Scanning
    /\ gate' = WrittenBack
    /\ pc' = "answered"
    /\ UNCHANGED <<fixed, host, out, status, scan, walk, scratch>>
-----------------------------------------------------------------------------
(* The caller: from the next position, with room for what was counted. *)

Answered == pc = "answered" /\ pc' = "host" /\ scan' = NoScan

FindEnds ==
    /\ Answered /\ scan.total = 0
    /\ status' = "done"
    /\ UNCHANGED <<fixed, gate, host, out, walk, scratch>>

Overflows ==
    /\ Answered /\ scan.total > host.cap
    /\ host' = [host EXCEPT !.cap = scan.total]
    /\ UNCHANGED <<fixed, gate, out, status, walk, scratch>>

Reports ==
    /\ Answered /\ scan.total \in 1..host.cap
    /\ out' = out \o SubSeq(scan.buf, 1, scan.total)
    /\ host' = [host EXCEPT !.from = scan.buf[1].start + 1]
    /\ UNCHANGED <<fixed, gate, status, walk, scratch>>

AnswerOf(k) ==
    LET m == IF k \in Members THEN Matches(set.programs[k], text) ELSE << >>
    IN  [s \in 0..Longest |-> IF s \in DOMAIN m THEN m[s] ELSE NoMatch]

Init ==
    /\ set \in Sets /\ text \in Texts
    /\ ends = [k \in Ids |-> AnswerOf(k)]
    /\ gate = [k \in Ids |-> 0]
    /\ \E n \in 0..MaxCap : host = [from |-> 0, cap |-> n]
    /\ out = << >> /\ status = "driving" /\ pc = "host"
    /\ scan = NoScan /\ walk = NoWalk
    /\ scratch = [b \in Buckets |-> CleanScratch]

Next == \/ Find \/ Visit \/ NextPosition \/ SkipGroup \/ EnterDense \/ EnterSparse
        \/ DenseWalks \/ DenseReturns \/ SparseWalks \/ SparseReturns
        \/ FindReturns \/ FindEnds \/ Overflows \/ Reports

Spec == Init /\ [][Next]_vars
-----------------------------------------------------------------------------
(* Properties. *)

IsTuples(list) == \A i \in DOMAIN list :
    list[i].id \in Ids /\ list[i].start \in 0..LenOf(text) /\ list[i].end \in 0..LenOf(text)

\* Every variable has the values the code gives it: gates, positions and counts
\* in range, no tuple past the buffer's capacity, a body's locals only while it
\* walks (set_find.go emitCommit, emitGateWriteback; engine_dfa.go
\* emitWriteMatchK).
TypeOK ==
    /\ gate \in [Ids -> 0..(2 * LenOf(text) + 2)]
    /\ host.from \in 0..(LenOf(text) + 1) /\ host.cap \in 0..(MaxCap + Cardinality(Ids))
    /\ IsTuples(out) /\ IsTuples(scan.buf) /\ Len(scan.buf) <= host.cap
    /\ status \in {"driving", "done"}
    /\ pc \in {"host", "scan", "group", "walk", "answered"}
    /\ scan.pos \in 0..(LenOf(text) + 1) /\ scan.minStart \in 0..Sentinel
    /\ scan.total \in 0..Cardinality(Ids)
    /\ pc = "walk" <=> walk # NoWalk

\* What a bucket's memory says has ended is what this walk has fired, and
\* nothing between the calls: a flag left behind would lose the next match of
\* its pattern (set_sparse.go, "clears exactly the entries it set").
ScratchClear ==
    \A b \in Buckets : scratch[b].seen = IF pc = "walk" /\ B[b].wide /\ Turn.b = b
                                         THEN FiredIn(walk) ELSE {}

Given == INSTANCE SetDrive WITH Kept <- Ids, Split <- {}, Length <- Longest,
                                shape <- set, origin <- 0

\* find answers exactly what the drive is owed: the matches of the first
\* position where a pattern has one left, each pattern once and with the end
\* leftmost-first semantics gives it, whatever the buckets, the strides, the
\* early exits and the gates; and counts them when they do not fit.
AnswersOwed ==
    pc = "answered" =>
        /\ scan.total = Len(Given!Owed)
        /\ scan.total <= host.cap => Range(SubSeq(scan.buf, 1, scan.total)) = Range(Given!Owed)

\* A walk that is left before the text ends leaves nothing behind: no pattern
\* it was asked for has a match that ends later (liveness.go, "Missing one here
\* would under-approximate, which is the unsafe direction").
NothingLeftBehind ==
    pc = "walk" /\ ~B[Turn.b].wide /\ DenseOver(Call(Turn.b), walk) =>
        \A k \in walk.mask \ walk.done : ends[B[Turn.b].ids[k]][walk.start] <= walk.pos
=============================================================================
