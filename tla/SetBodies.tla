----------------------------- MODULE SetBodies -----------------------------
(***************************************************************************)
(* The two bodies that walk a bucket's table from one candidate position    *)
(* and write the matches that start there: the dense one, for a bucket whose *)
(* patterns fit a mask (compile/engine_dfa.go buildSetSuffixBody), and the   *)
(* sparse one, for more of them (compile/set_sparse.go                       *)
(* buildSparseSuffixBody).                                                   *)
(*                                                                          *)
(* A walk is a record; `call' is what the frontend passes, the same through  *)
(* the walk: [table, ids, text, gated, gate, cap].  Patterns are numbered    *)
(* within the bucket, `ids' gives the ids the caller knows them by.          *)
(***************************************************************************)
EXTENDS Programs, FiniteSetsExt, SequencesExt

CONSTANTS
    Chunk,    \* bytes a vector holds
    Period,   \* a stale state is tried again every so many positions
    Reprobe   \* a stale bucket, every so many candidates

ASSUME BodyAssumption == Chunk \in Nat \ {0} /\ Period \in Nat \ {0} /\ Reprobe \in Nat \ {0}

\* A table, as laid out for the patterns ids: every state has a row; what ends at
\* once ends on arrival; a bucket of one pattern has a dominant end where it
\* has an end before such a byte.
IsTable(table, ids) ==
    /\ {table.start, table.midStart, table.midStartWord, table.midStartNewline}
            \subseteq DOMAIN table.mid
    /\ \A s \in DOMAIN table.mid :
          /\ \A c \in Bytes : table.next[s][c] \in DOMAIN table.mid
          /\ table.imm[s] \subseteq table.mid[s]
          /\ table.mid[s] \union table.eof[s] \subseteq DOMAIN ids
          /\ DOMAIN ids = {1} => /\ "w" \in table.dominant[s] => 1 \in table.w[s]
                                 /\ "nw" \in table.dominant[s] => 1 \in table.nw[s]

\* In ascending order: the k-th has k - 1 of them before it.
Ascending(ks) ==
    [i \in 1..Cardinality(ks) |->
        CHOOSE k \in ks : Cardinality({j \in ks : j < k}) = i - 1]

\* The buffer holds the tuples up to the last one written: list from place i on,
\* as far as there is room.  Mutant: one too many.
Placed(buf, i, list, room) ==
    [j \in 1..Min({room, i + Len(list)}) |-> IF j <= i THEN buf[j] ELSE list[j - i]]
WritePast(buf, i, cap, list) == Placed(buf, i, list, cap + 1)
Write(buf, i, cap, list) == Placed(buf, i, list, cap)

\* Where a stride from pos stops: before the first byte outside loop, or at
\* the last whole vector.
StrideTo(t, pos, loop) ==
    LET whole == pos + Chunk * ((LenOf(t) - pos) \div Chunk)
        leaves == {q \in pos..(whole - 1) : ByteAt(t, q) \notin loop}
    IN  IF leaves = {} THEN whole ELSE Min(leaves)
-----------------------------------------------------------------------------
(* The dense body. *)

\* emitSetEntryState: by what precedes the position the walk starts at.
Entry(call, from) ==
    IF from = 0 THEN call.table.start
    ELSE IF call.table.words /\ IsWord(call.text, from - 1) THEN call.table.midStartWord
    ELSE IF call.table.lines /\ ByteAt(call.text, from - 1) = NewLine
         THEN call.table.midStartNewline
    ELSE call.table.midStart

\* mask: the patterns wanted; start: what their matches start at; result and
\* opened: the patterns that ended after, or at, the walk's first position;
\* done: those written; over: the walk left from inside.
DenseWalk(call, from, start, mask, base, buf) ==
    LET state == Entry(call, from)
        opened == call.table.mid[state] \intersect mask
    IN  [from |-> from, start |-> start, mask |-> mask, base |-> base,
         state |-> state, pos |-> from, result |-> {}, opened |-> opened,
         ends |-> [k \in DOMAIN call.ids |-> IF k \in opened THEN from ELSE 0],
         done |-> {}, count |-> 0, buf |-> buf, over |-> FALSE]

\* The patterns of bits end at pos.
Ending(w, bits, pos) ==
    [w EXCEPT !.result = @ \union (bits \intersect w.mask),
              !.ends = [k \in DOMAIN @ |-> IF k \in bits \intersect w.mask THEN pos ELSE @[k]]]

MatchOf(call, w, k) == [id |-> call.ids[k], start |-> w.start, end |-> w.ends[k]]

\* The tuples of list, after those that are counted.
Counting(call, w, list) ==
    [w EXCEPT !.count = @ + Len(list),
              !.buf = Write(@, w.base + w.count, call.cap,
                            [i \in DOMAIN list |-> MatchOf(call, w, list[i])])]

\* emitCheckAndWriteK, emitWriteMatchK, for each of ks in turn: a gate skips the
\* tuple, not the mark.
Barred(call, w, k) ==
    call.gated /\ w.ends[k] = w.start /\ 2 * w.start < call.gate[call.ids[k]]
DeliverAll(call, w, ks) ==
    Counting(call, [w EXCEPT !.done = @ \union ks],
             Ascending({k \in ks \ w.done : ~Barred(call, w, k)}))

\* emitWBCheck: what ends before the next byte, that byte being a word byte or
\* not; in a bucket of one pattern nothing that follows can replace a dominant
\* end.
WordCheck(call, w) ==
    LET word == IsWord(call.text, w.pos)
        checked == Ending(w, (IF word THEN call.table.w ELSE call.table.nw)[w.state], w.pos)
        dominant == (IF word THEN "w" ELSE "nw") \in call.table.dominant[w.state]
    IN  IF ~call.table.words THEN w
        ELSE IF DOMAIN call.ids = {1} /\ dominant THEN DeliverAll(call, checked, {1} \intersect w.mask)
        ELSE checked

\* emitNLCheck
LineCheck(call, w) ==
    IF call.table.lines /\ ByteAt(call.text, w.pos) = NewLine
    THEN Ending(w, call.table.nl[w.state], w.pos) ELSE w

\* The liveness exit: no pattern still wanted can be accepted from here.
Hopeless(call, w, s) == call.table.livenessExit /\ call.table.future[s] \intersect w.mask = {}

\* The transition, and what ends after the byte.
Moved(call, w) ==
    LET to == call.table.next[w.state][ByteAt(call.text, w.pos)]
    IN  Ending([w EXCEPT !.state = to], call.table.mid[to], w.pos + 1)

\* emitDominantBulkSkip, then the ends of the patterns that end after any byte.
\* w.pos is the byte read last.
Strode(call, w, loop) ==
    LET at == StrideTo(call.text, w.pos + 1, loop) - 1
        bits == call.table.mid[w.state]
    IN  [Ending(w, bits, at + 1) EXCEPT !.pos = at]

\* The arm for a state nearly every byte leads back to.
DominantStride(call, w) ==
    LET loop == call.table.loops[w.state]
    IN  IF loop = {} \/ w.over THEN w
        ELSE IF Hopeless(call, w, w.state) THEN [w EXCEPT !.over = TRUE]
        ELSE Strode(call, w, loop)

\* The arm for an accepting state few bytes lead back to: tried when the next
\* byte is one of them and a whole vector is left.
MemberStride(call, w) ==
    LET members == call.table.members[w.state]
    IN  IF members = {} \/ w.over THEN w
        ELSE IF Hopeless(call, w, w.state) THEN [w EXCEPT !.over = TRUE]
        ELSE IF /\ w.pos + 1 + Chunk <= LenOf(call.text)
                /\ ByteAt(call.text, w.pos + 1) \in members
             THEN Strode(call, w, members)
        ELSE w

\* What ends at once, whatever follows; then the next byte.
Advanced(call, w) ==
    LET now == IF w.over THEN w
               ELSE DeliverAll(call, w, call.table.imm[w.state] \intersect w.mask)
    IN  IF w.over \/ w.state = DeadState THEN now ELSE [now EXCEPT !.pos = @ + 1]

DenseStep(call, w) ==
    LET read == Moved(call, LineCheck(call, WordCheck(call, w)))
    IN  Advanced(call, MemberStride(call, DominantStride(call, read)))

DenseOver(call, w) ==
    \/ w.over
    \/ w.state = DeadState
    \/ w.pos >= LenOf(call.text)
    \/ Hopeless(call, w, w.state)

\* After the loop: what ends where the text does, then everything is written.
DenseEnd(call, w) ==
    LET ended == Ending(w, call.table.eof[w.state], w.pos)
        written == DeliverAll(call, ended, ended.result)
    IN  DeliverAll(call, written, ended.opened)
-----------------------------------------------------------------------------
(* The sparse body.  Which patterns have ended is remembered in memory that   *)
(* stays between calls, `seen'; `stale' has the states a stride from which did *)
(* not move, and `verdict' is a global.                                        *)

CleanScratch == [seen |-> {}, stale |-> {}, verdict |-> 0]

\* record: the first ends are noted, the last ones kept.
Record(w, scratch, list) ==
    [w |-> [w EXCEPT !.ends = [k \in DOMAIN @ |-> IF k \in list THEN w.pos ELSE @[k]],
                     !.fired = @ \o Ascending(list \ scratch.seen)],
     scratch |-> [scratch EXCEPT !.seen = @ \union list]]

\* fired: the patterns in the order they first ended.
\* plain: this walk does not stride.  Only patterns with no prefix are here, so
\* the matches start at the candidate position.
SparseWalk(call, from, start, base, buf, scratch) ==
    LET state == IF from = 0 THEN call.table.start ELSE call.table.midStart
    IN  Record([from |-> from, start |-> start, base |-> base,
                state |-> state, pos |-> from, fired |-> << >>,
                ends |-> [k \in DOMAIN call.ids |-> 0],
                plain |-> scratch.verdict # 0 /\ start % Reprobe # 0,
                tried |-> FALSE, advanced |-> FALSE, over |-> FALSE, buf |-> buf,
                count |-> 0], scratch, call.table.mid[state])

\* emitMemberSetSkip, for a state that is not stale or is due again.
SparseStride(call, w, scratch) ==
    LET loop == call.table.members[w.state]
        due == w.state \notin scratch.stale \/ w.pos % Period = 0
        at == StrideTo(call.text, w.pos, loop)
        still == at = w.pos
    IN  IF w.plain \/ loop = {} THEN [w |-> w, scratch |-> scratch]
        ELSE IF ~due THEN [w |-> [w EXCEPT !.tried = TRUE], scratch |-> scratch]
        ELSE [w |-> [w EXCEPT !.tried = TRUE, !.pos = at, !.advanced = @ \/ ~still],
              scratch |-> [scratch EXCEPT !.stale = IF still THEN @ \union {w.state}
                                                    ELSE @ \ {w.state}]]

\* One byte: [w, scratch].
SparseStep(call, w, scratch) ==
    LET to == call.table.next[w.state][ByteAt(call.text, w.pos)]
        read == SparseStride(call, [w EXCEPT !.state = to, !.pos = @ + 1], scratch)
    IN  IF to = DeadState THEN [w |-> [w EXCEPT !.over = TRUE], scratch |-> scratch]
        ELSE Record(read.w, read.scratch, call.table.mid[to])

SparseOver(call, w) == w.over \/ w.pos >= LenOf(call.text)

\* A gate is read once the end is known.
SparseBarred(call, w, k) ==
    LET bound == 2 * w.start + (IF w.ends[k] # w.start THEN 1 ELSE 0)
    IN  call.gated /\ bound < call.gate[call.ids[k]]

\* The patterns that ended, in the order they are written.
FiredIn(w) == Range(w.fired)
SparseDeliver(call, w) ==
    LET places == Ascending({i \in DOMAIN w.fired : ~SparseBarred(call, w, w.fired[i])})
    IN  Counting(call, w, [i \in DOMAIN places |-> w.fired[places[i]]])

\* Mutant: a pattern whose gate keeps its match back stays marked.
UnmarkedWritten(call, w, seen) == seen \ {k \in FiredIn(w) : ~SparseBarred(call, w, k)}
Unmarked(call, w, seen) == seen \ FiredIn(w)

\* After the loop: the verdict on striding, the ends at the text's end, then
\* everything is written and unmarked.
SparseEnd(call, w, scratch) ==
    LET judged == IF w.plain THEN scratch
                  ELSE [scratch EXCEPT !.verdict = IF w.advanced \/ ~w.tried THEN 0
                                                   ELSE Reprobe - 1]
        last == IF w.pos = LenOf(call.text) THEN Record(w, judged, call.table.eof[w.state])
                ELSE [w |-> w, scratch |-> judged]
    IN  [w |-> SparseDeliver(call, last.w),
         scratch |-> [last.scratch EXCEPT !.seen = Unmarked(call, last.w, @)]]
=============================================================================
