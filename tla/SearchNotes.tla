---------------------------- MODULE SearchNotes ----------------------------
(***************************************************************************)
(* One search over one text: the general DFA find body in its two copies,   *)
(* the notes the marked copy keeps between calls, and the stub that drives  *)
(* the calls (compile/search_notes.go, engine_dfa.go, generate/js_stub.go). *)
(*                                                                          *)
(* A walk that ends with no accept past its last one has shown that nothing *)
(* matches from any (state, position) it visited since.  The marked copy    *)
(* notes those points, one bit each, and a later walk that arrives at one   *)
(* stops there.  The ordinary copy keeps no notes; it counts the bytes the  *)
(* search wastes and arms it when they pass a bound.                        *)
(***************************************************************************)
EXTENDS FindAutomaton

CONSTANTS
    Automata,   \* the patterns considered
    Texts,      \* the texts, as [ptr, bytes]
    Mult, Slack,\* abi.SearchRuleMult and SearchRuleSlack
    ShortWalk,  \* switchShortWalk: a failed read this long is never waste
    Reuse,      \* may the host run a new search on a block it did not zero?
    Upfront,    \* may the host hand the notes over before the search arms?
    MaxWasted   \* bound: a block that wasted more is not reused again

Text == [ptr : Nat, bytes : Seq(Bytes)]

ASSUME AutomataAssumption ==
    \A d \in Automata :
        /\ d \in Automaton
        /\ d.imm \subseteq d.acc /\ d.acc \subseteq d.eof
        /\ d.begin => d.start \in d.eof
        /\ ~d.bound => /\ \A s \in All : d.pre[s] = {}
                       /\ \A c \in Bytes : d.mid[c] = d.midStart
        /\ d.delta[Dead] = [c \in Bytes |-> Dead] /\ d.pre[Dead] = {}
\* What the seed rule rests on (find_from.go): inside a character nothing
\* begins, unless an empty match holds before every character.
ASSUME SeedAssumption ==
    \A d \in Automata : d.rule = "seed" =>
        \A l \in Lead : \A c \in Cont :
            \/ \A e \in Entries(d) : e \in d.acc \/ l \in d.pre[e]
            \/ /\ d.mid[l] \notin d.acc /\ c \notin d.pre[d.mid[l]]
               /\ d.delta[d.mid[l]][c] = Dead
ASSUME StatesAssumption == IsFiniteSet(States)
ASSUME TextAssumption == Texts \subseteq Text
ASSUME NumberAssumption ==
    Mult \in Nat /\ Slack \in Nat /\ ShortWalk \in Nat /\ MaxWasted \in Nat
ASSUME ModeAssumption == Reuse \in BOOLEAN /\ Upfront \in BOOLEAN

VARIABLES
    dfa,      \* the pattern, fixed
    plan,     \* what the compiler derived from it, fixed
    text,     \* the text being searched
    table,    \* ghost: the match the automaton alone finds at each position
    host,     \* the iterator: [from, prevEnd, answers, status]
    blk,      \* the search block (abi.go), which the host owns
    notes,    \* the notes buffer: the (state, position) bits that are set
    pc,       \* where the running call is, "host" between calls
    w,        \* the locals of the find body that is running
    proved,   \* ghost: points of the tails recorded for this text
    trail,    \* ghost: points this walk passed since its last accept
    fresh,    \* ghost: the notes describe this text
    reads     \* ghost: bytes the marked copy read in a state with a row

vars == <<dfa, plan, text, table, host, blk, notes, pc, w,
          proved, trail, fresh, reads>>

Plan(d) ==
    [rows    |-> Rows(d),
     cond    |-> d.bound,
     first   |-> FirstBytes(d),
     skip    |-> SkipSafeOnDead(d),
     eofSkip |-> EofSkipSafe(d)]
-----------------------------------------------------------------------------
(* The block and the host. *)

ZeroBlock == [wasted |-> 0, first |-> 0, armed |-> FALSE, resume |-> 0,
              ptr |-> 0, len |-> 0, given |-> FALSE, high |-> 0,
              seen |-> FALSE, cap |-> 0, far |-> 0]

\* notes_cap is counted in positions: the buffer holds (len + 1) records.
HandNotes(b, t) == [b EXCEPT !.given = TRUE, !.cap = LenOf(t) + 1]

NewHost == [from |-> 0, prevEnd |-> NoMatch, answers |-> << >>, status |-> "driving"]

NoLocals == [marked |-> FALSE, start |-> 0, pos |-> 0, st |-> Dead, last |-> NoMatch,
             lAcc |-> Dead, lStart |-> 0, lEnd |-> 0, rs |-> Dead, rp |-> 0,
             why |-> "dead"]

\* The stub opens an iterator: a zeroed block, and the notes at once when it
\* will use the batch export (jsWithSearch).
Init ==
    /\ dfa \in Automata
    /\ plan = Plan(dfa)
    /\ plan.rows # {}   \* newNotesRowsAt: no cycle state, no notes code
    /\ text \in Texts
    /\ table = Table(dfa, text)
    /\ host = NewHost
    /\ blk \in {ZeroBlock} \union (IF Upfront THEN {HandNotes(ZeroBlock, text)} ELSE {})
    /\ notes = {} /\ proved = {} /\ trail = {} /\ fresh = TRUE /\ reads = 0
    /\ pc = "host"
    /\ w = NoLocals

n == LenOf(text)

\* Where the stub calls next, and the resume point emitReturnHook stores.
ResumeAfter(start, end) == IF end > start THEN end ELSE start + 1

\* The stub calls the export with its offset; the ordinary copy runs first.
CallFind ==
    /\ pc = "host" /\ host.status = "driving" /\ host.from <= n
    /\ w' = [NoLocals EXCEPT !.start = Seed(dfa, text, host.from)]
    /\ pc' = "entry"
    /\ UNCHANGED <<dfa, plan, text, table, host, blk, notes, proved, trail, fresh, reads>>

\* off > len: the iterator ends without a call.
PastTheEnd ==
    /\ pc = "host" /\ host.status = "driving" /\ host.from > n
    /\ host' = [host EXCEPT !.status = "done"]
    /\ UNCHANGED <<dfa, plan, text, table, blk, notes, pc, w, proved, trail, fresh, reads>>

\* After a match the stub allocates what the block asks for, or cannot.
Allocate ==
    /\ pc = "after" /\ blk.armed /\ ~blk.given
    /\ blk' = HandNotes(blk, text)
    /\ pc' = "host"
    /\ UNCHANGED <<dfa, plan, text, table, host, notes, w, proved, trail, fresh, reads>>

AllocationFails ==
    /\ pc = "after" /\ blk.armed /\ ~blk.given
    /\ host' = [host EXCEPT !.status = "unknown"]
    /\ pc' = "host"
    /\ UNCHANGED <<dfa, plan, text, table, blk, notes, w, proved, trail, fresh, reads>>

NothingToAllocate ==
    /\ pc = "after" /\ ~(blk.armed /\ ~blk.given)
    /\ pc' = "host"
    /\ UNCHANGED <<dfa, plan, text, table, host, blk, notes, w, proved, trail, fresh, reads>>

\* docs/wasm.md: the one reuse of a block the module cannot notice.
Undetectable(t, b) ==
    b.ptr = t.ptr /\ b.len = LenOf(t) /\ b.resume = Seed(dfa, t, 0)

\* A host that runs a new search without zeroing the block, over the old notes
\* buffer or over one of the new text's size.  The caller's mistake.
ReuseBlock ==
    /\ Reuse /\ pc = "host" /\ host.status # "driving" /\ blk.wasted <= MaxWasted
    /\ \E t \in Texts \ {text} :
          /\ ~Undetectable(t, blk)
          /\ text' = t
          /\ table' = Table(dfa, t)
          /\ \/ UNCHANGED <<blk, notes>>
             \/ blk.given /\ blk' = HandNotes(blk, t) /\ notes' = {}
    /\ host' = NewHost
    /\ proved' = {} /\ trail' = {} /\ fresh' = FALSE /\ reads' = 0
    /\ UNCHANGED <<dfa, plan, pc, w>>
-----------------------------------------------------------------------------
(* The waste counter of the ordinary copy. *)

\* addWasted, then emitJudge: armed once the waste passes the allowance.  (A
\* `from' below the first wasteful call's wraps to an allowance never passed.)
Charge(b, amount) ==
    LET first == IF b.first = 0 THEN host.from + 1 ELSE b.first
        wasted == b.wasted + amount
        over == /\ host.from + 1 >= first
                /\ wasted > Mult * (host.from + 1 - first) + Slack
    IN  [b EXCEPT !.first = first, !.wasted = wasted,
                  !.armed = @ \/ over, !.seen = @ /\ ~over]

\* emitReturnHook's ordinary half: bytes read past the match.
ChargeReturn(b) == IF w.pos > w.last THEN Charge(b, w.pos - w.last) ELSE b

\* Mutant: no test that something was read twice.
ChargeFailSigned(b) ==
    IF w.pos - w.start <= ShortWalk THEN b
    ELSE [Charge(b, Smaller(w.pos, b.far) - w.start) EXCEPT !.far = Larger(@, w.pos)]

\* emitFailHook: of a long failed read, the part an earlier one covered.
ChargeFail(b) ==
    IF w.pos - w.start <= ShortWalk THEN b
    ELSE LET again == Smaller(w.pos, b.far) - w.start
         IN  [(IF again > 0 THEN Charge(b, again) ELSE b)
                EXCEPT !.far = Larger(@, w.pos)]
-----------------------------------------------------------------------------
(* Entering a call. *)

\* The ordinary copy: armed, with notes that cover this text.
EnterMarked ==
    /\ pc = "entry"
    /\ blk.armed /\ blk.given /\ blk.cap >= n + 1
    /\ w' = [w EXCEPT !.marked = TRUE]
    /\ pc' = "check"
    /\ UNCHANGED <<dfa, plan, text, table, host, blk, notes, proved, trail, fresh, reads>>

EnterOrdinary ==
    /\ pc = "entry"
    /\ ~(blk.armed /\ blk.given /\ blk.cap >= n + 1)
    /\ pc' = "outer"
    /\ UNCHANGED <<dfa, plan, text, table, host, blk, notes, w, proved, trail, fresh, reads>>

\* Mutant: one position short.
ClearedShort == {note \in notes : note[2] >= Smaller(blk.high, blk.cap) - 1}

\* emitClear: up to the high-water mark, never past the buffer.
Cleared == {note \in notes : note[2] >= Smaller(blk.high, blk.cap)}

\* emitTextCheck, the first marked call of this arming.
CheckFirst ==
    /\ pc = "check" /\ ~blk.seen
    /\ IF blk.high # 0 THEN notes' = Cleared /\ proved' = {}
                       ELSE UNCHANGED <<notes, proved>>
    /\ blk' = [blk EXCEPT !.high = 0, !.ptr = text.ptr, !.len = n, !.seen = TRUE]
    /\ fresh' = TRUE
    /\ pc' = "outer"
    /\ UNCHANGED <<dfa, plan, text, table, host, w, trail, reads>>

\* Mutant: the resume point is not looked at.
SamePlace == blk.ptr = text.ptr /\ blk.len = n

SameText == blk.ptr = text.ptr /\ blk.len = n /\ w.start = blk.resume

CheckSame ==
    /\ pc = "check" /\ blk.seen /\ SameText
    /\ pc' = "outer"
    /\ UNCHANGED <<dfa, plan, text, table, host, blk, notes, w, proved, trail, fresh, reads>>

\* Mutant: the search stays armed.
CheckOtherStaysArmed ==
    /\ pc = "check" /\ blk.seen /\ ~SameText
    /\ notes' = Cleared /\ proved' = {} /\ fresh' = TRUE
    /\ blk' = [blk EXCEPT !.high = 0, !.wasted = 0, !.first = 0, !.far = 0]
    /\ w' = [NoLocals EXCEPT !.start = Seed(dfa, text, host.from)]
    /\ pc' = "entry"
    /\ UNCHANGED <<dfa, plan, text, table, host, trail, reads>>

\* Another text: drop the notes and the search's state, and let the ordinary
\* copy answer.
CheckOther ==
    /\ pc = "check" /\ blk.seen /\ ~SameText
    /\ notes' = Cleared /\ proved' = {} /\ fresh' = TRUE
    /\ blk' = [blk EXCEPT !.high = 0, !.wasted = 0, !.first = 0, !.armed = FALSE,
                          !.seen = FALSE, !.far = 0]
    /\ w' = [NoLocals EXCEPT !.start = Seed(dfa, text, host.from)]
    /\ pc' = "entry"
    /\ UNCHANGED <<dfa, plan, text, table, host, trail, reads>>
-----------------------------------------------------------------------------
(* The find body. *)

Accepting(q, p) == q \in dfa.acc \/ (dfa.begin /\ p = 0)

\* Mutant: no look at the start rule.
CandidateAnywhere(s) == s < n => ByteAt(text, s) \in plan.first

\* The candidate scan: the next position whose byte can begin a match, or the
\* end of the text; under the scan rule never one inside a character.
Candidate(s) == /\ s < n => ByteAt(text, s) \in plan.first
                /\ ~(dfa.rule = "scan" /\ Inside(text, s))

\* The scan, and the prologue of the attempt it stops at.
Attempt ==
    /\ pc = "outer" /\ w.start <= n
    /\ \E s \in w.start..n :
          LET q == Begins(dfa, text, s)
          IN  /\ Candidate(s) /\ \A k \in w.start..(s - 1) : ~Candidate(k)
              /\ w' = [w EXCEPT !.start = s, !.pos = s, !.st = q,
                                !.last = IF Accepting(q, s) THEN s ELSE NoMatch,
                                !.lAcc = q, !.lStart = s]
              /\ pc' = IF q \in dfa.imm THEN "found" ELSE "scan"
    /\ trail' = {}
    /\ UNCHANGED <<dfa, plan, text, table, host, blk, notes, proved, fresh, reads>>

NoMoreStarts ==
    /\ pc = "outer" /\ w.start > n
    /\ pc' = "none"
    /\ UNCHANGED <<dfa, plan, text, table, host, blk, notes, w, proved, trail, fresh, reads>>

\* The accept that needs the byte at pos (emitWBPreAcceptCheck, and the
\* newline channel's).
PreAccept == ByteAt(text, w.pos) \in dfa.pre[w.st]
Here == IF PreAccept THEN [w EXCEPT !.last = w.pos, !.lAcc = w.st] ELSE w
NextState == dfa.delta[w.st][ByteAt(text, w.pos)]

\* The points of this walk from which nothing has been accepted.
Point == <<w.st, w.pos>>
AcceptsHere == \/ w.st \in dfa.acc
               \/ w.pos < n /\ PreAccept
               \/ w.pos = n /\ w.st \in dfa.eof
Passed == IF AcceptsHere THEN {} ELSE trail \union {Point}
Read == reads + (IF w.marked /\ w.st \in plan.rows THEN 1 ELSE 0)

\* Mutant: the tail is taken to begin where the walk did.
StartRecordEarly(v, end, why) ==
    /\ blk' = [blk EXCEPT !.high = Larger(@, end + 1)]
    /\ w' = [v EXCEPT !.lEnd = end, !.rs = v.lAcc, !.why = why, !.rp = v.lStart]
    /\ proved' = proved \union Passed
    /\ pc' = "record"

\* A handler's record of the walk v that ends at `end': emitRecord up to its
\* loop.  The tail starts at the last accept, or where the walk began.
StartRecord(v, end, why) ==
    /\ blk' = [blk EXCEPT !.high = Larger(@, end + 1)]
    /\ w' = [v EXCEPT !.lEnd = end, !.rs = v.lAcc, !.why = why,
                      !.rp = IF v.last >= 0 THEN v.last ELSE v.lStart]
    /\ proved' = proved \union Passed
    /\ pc' = "record"

\* The marked copy records every tail but those no later walk can read again.
EndWalk(v, end, why, skips) ==
    /\ \/ v.marked /\ ~(skips /\ v.last < 0) /\ StartRecord(v, end, why)
       \/ ~(v.marked /\ ~(skips /\ v.last < 0))
          /\ w' = [v EXCEPT !.why = why] /\ pc' = "settle" /\ UNCHANGED <<blk, proved>>
    /\ trail' = {}
    /\ UNCHANGED <<dfa, plan, text, table, host, notes, fresh>>

Dominant == PreAccept /\ ByteAt(text, w.pos) \in dfa.dom[w.st]
\* Mutant: the arrival test is left out.
NeverNoted == FALSE
Noted == w.marked /\ NextState \in plan.rows /\ <<NextState, w.pos + 1>> \in notes

AtEnd ==
    /\ pc = "scan" /\ w.pos >= n
    /\ EndWalk(IF w.st \in dfa.eof THEN [w EXCEPT !.last = w.pos] ELSE w,
               w.pos - 1, "eof", plan.eofSkip)
    /\ UNCHANGED reads

DominantAccept ==
    /\ pc = "scan" /\ w.pos < n /\ Dominant
    /\ w' = Here
    /\ pc' = "found"
    /\ trail' = {}
    /\ UNCHANGED <<dfa, plan, text, table, host, blk, notes, proved, fresh, reads>>

Dies ==
    /\ pc = "scan" /\ w.pos < n /\ ~Dominant /\ NextState = Dead
    /\ EndWalk(Here, w.pos, "dead", plan.skip)
    /\ reads' = Read

\* emitArrivalTest and emitStop: the next point is noted.
Stops ==
    /\ pc = "scan" /\ w.pos < n /\ ~Dominant /\ NextState # Dead /\ Noted
    /\ EndWalk(Here, w.pos, "stop", FALSE)
    /\ reads' = Read

Moves ==
    /\ pc = "scan" /\ w.pos < n /\ ~Dominant /\ NextState # Dead /\ ~Noted
    /\ LET v == [Here EXCEPT !.st = NextState]
       IN  \/ /\ NextState \notin dfa.acc
              /\ w' = [v EXCEPT !.pos = @ + 1]
              /\ pc' = "scan" /\ trail' = Passed
           \/ /\ NextState \in dfa.acc \ dfa.imm
              /\ w' = [v EXCEPT !.pos = @ + 1, !.last = w.pos + 1, !.lAcc = NextState]
              /\ pc' = "scan" /\ trail' = {}
           \/ /\ NextState \in dfa.imm
              /\ w' = [v EXCEPT !.last = w.pos + 1, !.lAcc = NextState]
              /\ pc' = "found" /\ trail' = {}
    /\ reads' = Read
    /\ UNCHANGED <<dfa, plan, text, table, host, blk, notes, proved, fresh>>
-----------------------------------------------------------------------------
(* The recording re-walk, and what follows a walk. *)

HasRow == w.rs \in plan.rows /\ ~(plan.cond /\ w.rp = w.last)
RecordPoint == <<w.rs, w.rp>>
\* Mutant: the tail's last point is left out.
RecordEndsEarly == w.rp >= w.lEnd \/ (HasRow /\ RecordPoint \in notes)
RecordEnds == w.rp > w.lEnd \/ (HasRow /\ RecordPoint \in notes)

\* Already noted: so is everything after it.
RecordStops ==
    /\ pc = "record" /\ RecordEnds
    /\ pc' = "settle"
    /\ UNCHANGED <<dfa, plan, text, table, host, blk, notes, w, proved, trail, fresh, reads>>

RecordStep ==
    /\ pc = "record" /\ ~RecordEnds
    /\ notes' = IF HasRow THEN notes \union {RecordPoint} ELSE notes
    /\ IF w.rp = w.lEnd
       THEN pc' = "settle" /\ UNCHANGED w
       ELSE /\ w' = [w EXCEPT !.rs = dfa.delta[@][ByteAt(text, w.rp)], !.rp = @ + 1]
            /\ UNCHANGED pc
    /\ UNCHANGED <<dfa, plan, text, table, host, blk, proved, trail, fresh, reads>>

\* The walk accepted: its match is the call's.
SettleFound ==
    /\ pc = "settle" /\ w.last >= 0
    /\ pc' = "found"
    /\ UNCHANGED <<dfa, plan, text, table, host, blk, notes, w, proved, trail, fresh, reads>>

\* It did not: on to the next start, past what cannot match.
SettleFailed ==
    /\ pc = "settle" /\ w.last < 0
    /\ blk' = IF w.marked THEN blk ELSE ChargeFail(blk)
    /\ \/ w.why = "eof" /\ plan.eofSkip /\ pc' = "none" /\ UNCHANGED w
       \/ /\ ~(w.why = "eof" /\ plan.eofSkip)
          /\ w' = [w EXCEPT !.start = IF w.why = "dead" /\ plan.skip
                                      THEN w.pos + 1 ELSE @ + 1]
          /\ pc' = "outer"
    /\ UNCHANGED <<dfa, plan, text, table, host, notes, proved, trail, fresh, reads>>

\* Mutant: the match's end alone.
StoredEnd == w.last
StoredResume == ResumeAfter(w.start, w.last)

\* emitReturnHook, the packed return, and the iterator taking the match.
Found ==
    /\ pc = "found"
    /\ blk' = IF w.marked THEN [blk EXCEPT !.resume = StoredResume]
                          ELSE ChargeReturn(blk)
    /\ host' = [host EXCEPT
                  !.from = ResumeAfter(w.start, w.last),
                  !.prevEnd = w.last,
                  !.answers = IF w.start = w.last /\ w.start = host.prevEnd THEN @
                              ELSE Append(@, <<w.start, w.last>>)]
    /\ pc' = "after"
    /\ w' = NoLocals
    /\ UNCHANGED <<dfa, plan, text, table, notes, proved, trail, fresh, reads>>

\* -1: the iterator ends.
None ==
    /\ pc = "none"
    /\ host' = [host EXCEPT !.status = "done"]
    /\ pc' = "host"
    /\ w' = NoLocals
    /\ UNCHANGED <<dfa, plan, text, table, blk, notes, proved, trail, fresh, reads>>
-----------------------------------------------------------------------------
Host == CallFind \/ PastTheEnd \/ Allocate \/ AllocationFails \/ NothingToAllocate

Call == \/ EnterMarked \/ EnterOrdinary \/ CheckFirst \/ CheckSame \/ CheckOther
        \/ Attempt \/ NoMoreStarts \/ AtEnd \/ DominantAccept \/ Dies \/ Stops \/ Moves
        \/ RecordStops \/ RecordStep \/ SettleFound \/ SettleFailed \/ Found \/ None

Next == Host \/ Call \/ ReuseBlock

\* A call runs to its end, and an iterator that is driven is driven on.
Spec == Init /\ [][Next]_vars
FairSpec == Spec /\ WF_vars(Host \/ Call)
-----------------------------------------------------------------------------
(* Properties. *)

Points == All \X Nat

Block ==
    [wasted : Nat, first : Nat, armed : BOOLEAN, resume : Nat, ptr : Nat, len : Nat,
     given : BOOLEAN, high : Nat, seen : BOOLEAN, cap : Nat, far : Nat]

Hosts ==
    [from : Nat, prevEnd : Nat \union {NoMatch}, answers : Seq(Nat \X Nat),
     status : {"driving", "done", "unknown"}]

Locals ==
    [marked : BOOLEAN, start : Nat, pos : Nat, st : All, last : Nat \union {NoMatch},
     lAcc : All, lStart : Nat, lEnd : Int, rs : All, rp : Nat,
     why : {"dead", "eof", "stop"}]

\* The types, and where the locals of a running body may stand.
TypeOK ==
    /\ dfa \in Automata
    /\ plan = Plan(dfa)
    /\ text \in Texts
    /\ table = Table(dfa, text)
    /\ host \in Hosts
    /\ blk \in Block
    /\ notes \subseteq Points /\ proved \subseteq Points /\ trail \subseteq Points
    /\ pc \in {"host", "entry", "check", "outer", "scan", "record", "settle",
               "found", "after", "none"}
    /\ w \in Locals
    /\ fresh \in BOOLEAN /\ reads \in Nat

\* An accept recorded from q at p, whatever was read before.
AcceptsAt(q, p) ==
    \/ q \in dfa.acc
    \/ p < n /\ ByteAt(text, p) \in dfa.pre[q]
    \/ p = n /\ q \in dfa.eof

\* A set of points a walk cannot leave but by dying, none of which accepts.
Closed(S) ==
    \A pt \in S :
        /\ ~AcceptsAt(pt[1], pt[2])
        /\ pt[2] < n =>
              LET r == dfa.delta[pt[1]][ByteAt(text, pt[2])]
              IN  r = Dead \/ <<r, pt[2] + 1>> \in S

\* The notes are this text's, or a marked walk goes by them.
InUse == fresh \/ (w.marked /\ pc # "check")

\* What is noted stands: every noted point in use is one of a recorded tail, and
\* a walk from one never meets an accept.
NotesClosed == InUse => notes \subseteq proved /\ Closed(proved)

\* The same said of the automaton alone: following the transitions from a noted
\* point to the end of the text, no point accepts.
RunFrom(q, p) ==
    LET run[i \in p..n] ==
            IF i = p THEN q ELSE dfa.delta[run[i - 1]][ByteAt(text, i - 1)]
    IN  run

Barren(q, p) ==
    LET run == RunFrom(q, p)
    IN  \A i \in p..n : ~AcceptsAt(run[i], i)

NotesTrue == InUse => \A pt \in notes : Barren(pt[1], pt[2])

\* emitRecord stops at a point already noted because "so is everything after
\* it": once the re-walk ends, every point of a recorded tail that has a row is
\* noted.  No walk arrives at position 0, and none is read from the text's end.
NotesComplete ==
    fresh /\ pc # "record" =>
        \A pt \in proved : pt[1] \in plan.rows /\ 0 < pt[2] /\ pt[2] < n => pt \in notes

\* A clear covers the high-water mark, so every note lies below it, and inside
\* the buffer the stub sized.
NotesInBuffer == \A pt \in notes : pt[2] < blk.high /\ pt[2] < blk.cap

\* The drive reports what the automaton alone would: notes change no answer.
Drive == INSTANCE MatchDrive WITH
            from <- host.from, prevEnd <- host.prevEnd,
            answers <- host.answers, status <- host.status
DrivesLeftmost == Drive!Spec

\* "Within one search that never happens": once a marked call has recorded the
\* text, no step of the search takes a note back.
NotesKept == [][blk.seen => notes \subseteq notes']_vars

\* A search that has its notes is linear: in the states a walk can sit in it
\* reads each byte once, where a walk begins or inside a match, each row's points
\* once, and for each answer the byte behind it.
MarkedLinear == reads <= n + Cardinality(plan.rows) * n + Len(host.answers)

\* Every search ends: no call bounces between the copies, no walk stays.
SearchEnds == (host.status = "driving") ~> (host.status # "driving")
=============================================================================
