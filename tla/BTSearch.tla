------------------------------ MODULE BTSearch ------------------------------
(***************************************************************************)
(* One search by the Backtracking engine, driven by a stub that hands over *)
(* a search block (compile/bt_search.go, engine_backtrack.go,              *)
(* generate/search_stub.go).                                               *)
(*                                                                         *)
(* The ordinary body keeps no marks; it counts the frames it pops, in a    *)
(* budget that lasts the whole search.  When the budget is spent, or the   *)
(* frame stack cannot grow, the search is tripped: this call and every     *)
(* later one go to the fallback body, which marks each (Alt, position) it  *)
(* enters and cuts a second visit.  The marks live in a memo the stub      *)
(* keeps for the search; until it has one each call places its own.        *)
(***************************************************************************)
EXTENDS Programs

CONSTANTS
    Programs,   \* the patterns considered, see Program
    Texts,      \* the texts, as [ptr, bytes]
    Rate,       \* k * budgetN: the pops a search is allowed per position
    Modes       \* what the host may do, see Mode

Text == [ptr : Nat, bytes : Seq(Bytes)]
\* The texts a host searches one after the other on one block, if it does not
\* zero it; and whether it may run out of memory.
Mode == [again : SUBSET Texts, refuse : BOOLEAN]

ASSUME ProgramAssumption == Programs \subseteq Program
ASSUME TextAssumption == Texts \subseteq Text
ASSUME RateAssumption == Rate \in Nat \ {0}
ASSUME ModeAssumption == Modes \subseteq Mode
ASSUME PcAssumption == IsFiniteSet(Pcs)

VARIABLES
    prog,     \* the pattern's program, fixed
    plan,     \* what the compiler derived from it, fixed
    mode,     \* fixed
    text,     \* the text being searched
    ends,     \* ghost: the match each instruction leads to from each position
    host,     \* the iterator: [from, prevEnd, answers, status]
    blk,      \* the search block's Backtracking fields, which the host owns
    memo,     \* the search's memo: the (pc, position) bits that are set
    own,      \* the memo a fallback call placed for itself
    pc,       \* where the running call is, "host" between calls
    w,        \* the locals of the find body that is running
    opened,   \* ghost: the text the block was zeroed for
    owner,    \* ghost: the text the memo's marks were made on
    pops,     \* ghost: frames the ordinary body popped, on this block
    guards    \* ghost: Alts the fallback entered, in this search

vars == <<prog, plan, mode, text, ends, host, blk, memo, own, pc, w,
          opened, owner, pops, guards>>
fixed == <<prog, plan, mode>>
ghosts == <<opened, owner, pops, guards>>
-----------------------------------------------------------------------------
(* What the compiler derives from the program. *)

\* Where control goes from p without reading a byte, assertions taken to hold.
Free(d, p) ==
    CASE OpAt(d, p) = "alt" -> {d.inst[p].out, d.inst[p].arg}
      [] OpAt(d, p) \in {"nop", "empty"} -> {d.inst[p].out}
      [] OTHER -> {}

FreeFrom(d, S) ==
    LET Hop(T) == T \union UNION {Free(d, p) : p \in T}
        f[k \in 0..Cardinality(Pcs)] == IF k = 0 THEN S ELSE Hop(f[k - 1])
    IN  f[Cardinality(Pcs)]

\* progHasZeroWidthCycle.
ZeroWidthCycle(d) == \E p \in Pcs : p \in FreeFrom(d, Free(d, p))

\* btStartAnchored: the leading assertions, which Alts end, include \A.
StartAnchored(d) ==
    LET lead[p \in Pcs, k \in 0..Cardinality(Pcs)] ==
            \/ OpAt(d, p) = "fail"
            \/ OpAt(d, p) = "empty" /\ d.inst[p].need = "beginText"
            \/ k > 0 /\ OpAt(d, p) \in {"empty", "nop"} /\ lead[d.inst[p].out, k - 1]
    IN  \E k \in 0..Cardinality(Pcs) : lead[d.start, k]

\* nfaFirstBytes; every byte when a match may need none.
FirstBytes(d) ==
    LET S == FreeFrom(d, {d.start})
    IN  IF \E p \in S : OpAt(d, p) = "match" THEN Bytes
        ELSE UNION {d.inst[p].set : p \in {q \in S : OpAt(d, q) = "byte"}}

\* planBT: a program with a zero-width cycle has no ordinary body.
Plan(d) == [force |-> ZeroWidthCycle(d), anchored |-> StartAnchored(d),
            first |-> FirstBytes(d)]

Table == [s \in DOMAIN ends |-> ends[s][prog.start]]
-----------------------------------------------------------------------------
(* What Ends computes by recursion over the text, as far as the proofs use it: *)
(* an instruction from which a match follows is "match", or leads on to one    *)
(* from which a match follows, and is nearer.                                  *)

\* Where control goes from p at position s, assertions tested: <<position, pc>>.
Onward(d, t, s, p) ==
    IF OpAt(d, p) = "byte"
    THEN IF s < LenOf(t) /\ ByteAt(t, s) \in d.inst[p].set
         THEN {<<s + 1, d.inst[p].out>>} ELSE {}
    ELSE IF OpAt(d, p) = "empty" /\ ~Holds(d.inst[p].need, t, s) THEN {}
    ELSE {<<s, q>> : q \in Free(d, p)}

\* How far from a match, of the instructions one follows from: bytes left, and
\* then instructions to go before the next byte is read, or the match.
Distance(d, t, e, s, p) ==
    LET Led(q) == e[s][q] # NoMatch
        Ready == {q \in Pcs : OpAt(d, q) \in {"match", "byte"} /\ Led(q)}
        Nearer(S) == S \union {q \in Pcs : Led(q) /\ \E c \in Onward(d, t, s, q) :
                                               c[1] = s /\ c[2] \in S}
        near[k \in 0..Cardinality(Pcs)] == IF k = 0 THEN Ready ELSE Nearer(near[k - 1])
    IN  (LenOf(t) - s) * (Cardinality(Pcs) + 2)
            + Cardinality({k \in 0..Cardinality(Pcs) : p \notin near[k]})

Distances(d, t, e) == [s \in 0..LenOf(t) |-> [p \in Pcs |-> Distance(d, t, e, s, p)]]

\* e is what the instructions lead to, far how far they are from it.
Explained(d, t, e, far) ==
    /\ e \in [0..LenOf(t) -> [Pcs -> (0..LenOf(t)) \union {NoMatch}]]
    /\ far \in [0..LenOf(t) -> [Pcs -> Nat]]
    /\ \A s \in 0..LenOf(t), p \in Pcs :
          e[s][p] # NoMatch =>
             \/ OpAt(d, p) = "match"
             \/ \E c \in Onward(d, t, s, p) :
                   e[c[1]][c[2]] # NoMatch /\ far[c[1]][c[2]] < far[s][p]

ASSUME MeaningAssumption ==
    \A d \in Programs, t \in Texts :
       LET e == Ends(d, t) IN Explained(d, t, e, Distances(d, t, e))
-----------------------------------------------------------------------------
(* The block and the host. *)

ZeroBlock == [state |-> "new", budget |-> 0, memo |-> FALSE, cap |-> 0,
              ptr |-> 0, len |-> 0]

HostAt(offset) == [from |-> offset, prevEnd |-> NoMatch, answers |-> << >>,
                   status |-> "driving"]

NoLocals == [start |-> 0, pos |-> 0, at |-> prog.start, stack |-> << >>, work |-> 0,
             fallback |-> FALSE, kept |-> FALSE, ready |-> FALSE]

Init ==
    /\ prog \in Programs /\ plan = Plan(prog) /\ mode \in Modes
    /\ text \in (IF mode.again = {} THEN Texts ELSE mode.again)
    /\ ends = Ends(prog, text)
    /\ host = HostAt(0) /\ blk = ZeroBlock
    /\ memo = {} /\ own = {}
    /\ pc = "host" /\ w = NoLocals
    /\ opened = text /\ owner = text /\ pops = 0 /\ guards = 0

n == LenOf(text)

\* Where the stub calls next.
ResumeAfter(start, end) == IF end > start THEN end ELSE start + 1

\* The stub hands the block over and calls the export with its offset.
CallFind ==
    /\ pc = "host" /\ host.status = "driving" /\ host.from <= n
    /\ w' = [NoLocals EXCEPT !.start = host.from]
    /\ pc' = IF plan.force THEN "forced" ELSE "anchor"
    /\ UNCHANGED <<fixed, text, ends, host, blk, memo, own, ghosts>>

\* off > len: the iterator ends without a call.
PastTheEnd ==
    /\ pc = "host" /\ host.status = "driving" /\ host.from > n
    /\ host' = [host EXCEPT !.status = "done"]
    /\ UNCHANGED <<fixed, text, ends, blk, memo, own, pc, w, ghosts>>

WantsMemo == blk.state = "tripped" /\ ~blk.memo

\* After a match the stub gives a tripped search its memo, zeroed, or cannot.
GiveMemo ==
    /\ pc = "after" /\ WantsMemo
    /\ blk' = [blk EXCEPT !.memo = TRUE, !.cap = n + 1]
    /\ memo' = {}
    /\ pc' = "host"
    /\ UNCHANGED <<fixed, text, ends, host, own, w, ghosts>>

MemoRefused ==
    /\ pc = "after" /\ WantsMemo /\ mode.refuse
    /\ host' = [host EXCEPT !.status = "unknown"]
    /\ pc' = "host"
    /\ UNCHANGED <<fixed, text, ends, blk, memo, own, w, ghosts>>

NothingToGive ==
    /\ pc = "after" /\ ~WantsMemo
    /\ pc' = "host"
    /\ UNCHANGED <<fixed, text, ends, host, blk, memo, own, w, ghosts>>

\* docs/wasm.md: the one reuse of a block the module cannot notice, another
\* text at the same address and of the same length as the memo's.
Undetectable(t) == blk.len = LenOf(t) + 1 /\ blk.ptr = t.ptr /\ t # owner

\* A host that searches again on the block as it is: another text, which is its
\* mistake, or the same one at a later position, which is allowed.
ReuseBlock ==
    /\ pc = "host" /\ host.status # "driving"
    /\ \E t \in mode.again : \E offset \in 0..LenOf(t) :
          /\ ~Undetectable(t)
          /\ IF t = text THEN offset > host.from ELSE offset = 0
          /\ text' = t
          /\ ends' = Ends(prog, t)
          /\ host' = HostAt(offset)
    /\ guards' = 0
    /\ UNCHANGED <<fixed, blk, memo, own, pc, w, opened, owner, pops>>
-----------------------------------------------------------------------------
(* Entering a call. *)

Trip(b) == [b EXCEPT !.state = "tripped"]

Goto(label) == /\ pc' = label
               /\ UNCHANGED <<fixed, text, ends, host, memo, own, ghosts>>

\* btTailCallBodySearch: the whole ordinary body of a forced program.
EnterForced ==
    /\ pc = "forced"
    /\ blk' = IF plan.anchored THEN blk ELSE Trip(blk)
    /\ w' = [w EXCEPT !.fallback = TRUE]
    /\ Goto("anchor")

\* Both bodies: a program that matches only at 0 answers at once elsewhere.
CheckAnchor ==
    /\ pc = "anchor"
    /\ UNCHANGED <<blk, w>>
    /\ Goto(IF plan.anchored /\ w.start # 0 THEN "none"
            ELSE IF w.fallback THEN "outer" ELSE "entry")

\* Mutant: the patched call names the body it is in.
HandedToItself == [NoLocals EXCEPT !.start = host.from]
\* emitBTFallbackCall: the call starts over on the fallback body.
Handed == [NoLocals EXCEPT !.start = host.from, !.fallback = TRUE]
ToFallback == w' = Handed /\ Goto("anchor")

EnterTripped ==
    /\ pc = "entry" /\ blk.state = "tripped"
    /\ UNCHANGED blk
    /\ ToFallback

\* emitFindEntry's new search: the budget is stored with the state.
Opened(b, budget) == [b EXCEPT !.state = "live", !.budget = budget]

EnterNew ==
    /\ pc = "entry" /\ blk.state = "new"
    /\ blk' = Opened(blk, Rate * (n + 1))
    /\ w' = [w EXCEPT !.work = Rate * (n + 1)]
    /\ Goto("outer")

\* Mutant: a budget per call.
BudgetPerCall(b) == Rate * (n + 1)
BudgetLeft(b) == b.budget

EnterLive ==
    /\ pc = "entry" /\ blk.state = "live"
    /\ w' = [w EXCEPT !.work = BudgetLeft(blk)]
    /\ UNCHANGED blk
    /\ Goto("outer")
-----------------------------------------------------------------------------
(* The attempts. *)

Candidate(s) == s < n => ByteAt(text, s) \in plan.first

Attempt ==
    /\ pc = "outer" /\ w.start <= n
    /\ \E s \in w.start..n :
          /\ Candidate(s) /\ \A k \in w.start..(s - 1) : ~Candidate(k)
          /\ w' = [w EXCEPT !.start = s, !.pos = s, !.at = prog.start, !.stack = << >>]
    /\ UNCHANGED blk
    /\ Goto(IF w.ready THEN "run" ELSE "place")

Saved(b) == IF w.fallback THEN b ELSE [b EXCEPT !.budget = w.work]

NoMoreStarts ==
    /\ pc = "outer" /\ w.start > n
    /\ blk' = Saved(blk)
    /\ UNCHANGED w
    /\ Goto("none")

\* The first attempt of a call places its frame stack (emitBTGrowStackInit).
PlaceStack ==
    /\ pc = "place" /\ ~w.fallback
    /\ w' = [w EXCEPT !.ready = TRUE]
    /\ UNCHANGED blk
    /\ Goto("run")

StackRefused ==
    /\ pc = "place" /\ ~w.fallback /\ mode.refuse
    /\ blk' = Trip(blk)
    /\ ToFallback

\* emitFallbackPlace: the search's memo serves when it covers this text.
Serves == blk.memo /\ blk.cap >= n + 1

\* The memo's marks were made on this text, as far as the block says.
Recorded == blk.ptr = text.ptr /\ blk.len = n + 1

\* Its marks on another text are dropped, row by row of this text's.
PlaceSearchMemo ==
    /\ pc = "place" /\ w.fallback /\ Serves
    /\ memo' = IF blk.len = 0 \/ Recorded THEN memo
               ELSE {mark \in memo : mark[2] > n}
    /\ blk' = [blk EXCEPT !.ptr = text.ptr, !.len = n + 1]
    /\ w' = [w EXCEPT !.ready = TRUE, !.kept = TRUE]
    /\ owner' = text
    /\ \/ pc' = "run"
       \/ mode.refuse /\ pc' = "unknown"
    /\ UNCHANGED <<fixed, text, ends, host, own, opened, pops, guards>>

\* emitBTScratchInit: no memo to use, so one for this call.
PlaceOwnMemo ==
    /\ pc = "place" /\ w.fallback /\ ~Serves
    /\ own' = {}
    /\ w' = [w EXCEPT !.ready = TRUE]
    /\ \/ pc' = "run"
       \/ mode.refuse /\ pc' = "unknown"
    /\ UNCHANGED <<fixed, text, ends, host, blk, memo, ghosts>>
-----------------------------------------------------------------------------
(* The instructions. *)

Here == prog.inst[w.at]
GoesOn(pos, to) == w' = [w EXCEPT !.pos = pos, !.at = to]

Fails == w' = w /\ UNCHANGED blk /\ Goto("fail")

ReadByte ==
    /\ pc = "run" /\ Here.op = "byte"
    /\ \/ /\ w.pos < n /\ ByteAt(text, w.pos) \in Here.set
          /\ GoesOn(w.pos + 1, Here.out)
          /\ UNCHANGED blk /\ Goto("run")
       \/ ~(w.pos < n /\ ByteAt(text, w.pos) \in Here.set) /\ Fails

EmptyWidth ==
    /\ pc = "run" /\ Here.op \in {"empty", "nop"}
    /\ \/ /\ Here.op = "empty" => Holds(Here.need, text, w.pos)
          /\ GoesOn(w.pos, Here.out)
          /\ UNCHANGED blk /\ Goto("run")
       \/ /\ Here.op = "empty" /\ ~Holds(Here.need, text, w.pos)
          /\ Fails

Fail == pc = "run" /\ Here.op = "fail" /\ Fails

\* btPushFrame, and on with the preferred branch.
Push == w' = [w EXCEPT !.stack = Append(@, <<w.pos, Here.arg>>), !.at = Here.out]

Alt ==
    /\ pc = "run" /\ Here.op = "alt" /\ ~w.fallback
    /\ Push
    /\ UNCHANGED blk
    /\ Goto("run")

\* Mutant: an overflow with no frame to pop just fails.
ArmAlways(stack) == TRUE
\* btArmTrip: with frames to pop, the next pop trips.
Arms(stack) == stack # << >>

AltOverflows ==
    /\ pc = "run" /\ Here.op = "alt" /\ ~w.fallback /\ mode.refuse
    /\ \/ /\ Arms(w.stack)
          /\ w' = [w EXCEPT !.work = 1]
          /\ UNCHANGED blk
          /\ Goto("fail")
       \/ /\ ~Arms(w.stack)
          /\ blk' = Trip(blk)
          /\ ToFallback

Mark == <<w.at, w.pos>>
Marked == Mark \in (IF w.kept THEN memo ELSE own)

\* emitBitStateGuardDyn: visited before, or marked.
AltVisited ==
    /\ pc = "run" /\ Here.op = "alt" /\ w.fallback /\ Marked
    /\ pc' = "fail"
    /\ guards' = guards + 1
    /\ UNCHANGED <<fixed, text, ends, host, blk, memo, own, w, opened, owner, pops>>

\* The mark is made before the push, which may find no memory.
AltMarks ==
    /\ pc = "run" /\ Here.op = "alt" /\ w.fallback /\ ~Marked
    /\ IF w.kept THEN memo' = memo \union {Mark} /\ UNCHANGED own
                 ELSE own' = own \union {Mark} /\ UNCHANGED memo
    /\ \/ Push /\ pc' = "run"
       \/ mode.refuse /\ pc' = "unknown" /\ UNCHANGED w
    /\ guards' = guards + 1
    /\ UNCHANGED <<fixed, text, ends, host, blk, opened, owner, pops>>

\* The FAIL handler, nothing to pop: the next start.
FailEmpty ==
    /\ pc = "fail" /\ w.stack = << >>
    /\ w' = [w EXCEPT !.start = @ + 1]
    /\ UNCHANGED blk
    /\ Goto("outer")

Top == w.stack[Len(w.stack)]
Popped == [w EXCEPT !.pos = Top[1], !.at = Top[2],
                    !.stack = SubSeq(@, 1, Len(@) - 1)]

PopFallback ==
    /\ pc = "fail" /\ w.stack # << >> /\ w.fallback
    /\ w' = Popped
    /\ UNCHANGED blk
    /\ Goto("run")

\* Mutant: a pop costs two, and the counter can step over zero.
ChargedTwo == w.work - 2
\* emitBTWorkCharge: a pop costs one, and the one that leaves zero trips.
Charged == w.work - 1

Pop ==
    /\ pc = "fail" /\ w.stack # << >> /\ ~w.fallback /\ Charged # 0
    /\ w' = [Popped EXCEPT !.work = Charged]
    /\ pops' = pops + 1
    /\ pc' = "run"
    /\ UNCHANGED <<fixed, text, ends, host, blk, memo, own, opened, owner, guards>>

BudgetSpent ==
    /\ pc = "fail" /\ w.stack # << >> /\ ~w.fallback /\ Charged = 0
    /\ blk' = Trip(blk)
    /\ ToFallback
-----------------------------------------------------------------------------
(* How a call ends. *)

\* Mutant: the marks stand.
MarksStand == memo
\* emitFallbackMatched: the marks on the path of a match are not failures.
MemoAfterMatch == {mark \in memo : mark[2] < w.start \/ mark[2] > w.pos}

Match ==
    /\ pc = "run" /\ Here.op = "match"
    /\ LET end == w.pos
           delivered == ~(w.start = end /\ w.start = host.prevEnd)
       IN  host' = [host EXCEPT
                      !.from = ResumeAfter(w.start, end), !.prevEnd = end,
                      !.answers = IF delivered THEN Append(@, <<w.start, end>>) ELSE @]
    /\ blk' = Saved(blk)
    /\ memo' = IF w.kept THEN MemoAfterMatch ELSE memo
    /\ pc' = "after" /\ w' = NoLocals /\ own' = {}
    /\ UNCHANGED <<fixed, text, ends, ghosts>>

\* -1: the iterator ends.
None ==
    /\ pc = "none"
    /\ host' = [host EXCEPT !.status = "done"]
    /\ pc' = "host" /\ w' = NoLocals /\ own' = {}
    /\ UNCHANGED <<fixed, text, ends, blk, memo, ghosts>>

\* -2: the fallback could not get memory.
Unknown ==
    /\ pc = "unknown"
    /\ host' = [host EXCEPT !.status = "unknown"]
    /\ pc' = "host" /\ w' = NoLocals /\ own' = {}
    /\ UNCHANGED <<fixed, text, ends, blk, memo, ghosts>>
-----------------------------------------------------------------------------
Host == CallFind \/ PastTheEnd \/ GiveMemo \/ MemoRefused \/ NothingToGive

Call == \/ EnterForced \/ CheckAnchor \/ EnterTripped \/ EnterNew \/ EnterLive
        \/ Attempt \/ NoMoreStarts
        \/ PlaceStack \/ StackRefused \/ PlaceSearchMemo \/ PlaceOwnMemo
        \/ ReadByte \/ EmptyWidth \/ Fail \/ Alt \/ AltOverflows \/ AltVisited \/ AltMarks
        \/ FailEmpty \/ PopFallback \/ Pop \/ BudgetSpent
        \/ Match \/ None \/ Unknown

Next == Host \/ Call \/ ReuseBlock

\* A call runs to its end, and an iterator that is driven is driven on.
Spec == Init /\ [][Next]_vars
FairSpec == Spec /\ WF_vars(Host \/ Call)
-----------------------------------------------------------------------------
(* Properties. *)

Marks == Pcs \X Nat

Block == [state : {"new", "live", "tripped"}, budget : Nat, memo : BOOLEAN,
          cap : Nat, ptr : Nat, len : Nat]

Hosts ==
    [from : Nat, prevEnd : Nat \union {NoMatch}, answers : Seq(Nat \X Nat),
     status : {"driving", "done", "unknown"}]

Locals ==
    [start : Nat, pos : Nat, at : Pcs, stack : Seq(Nat \X Pcs), work : Nat,
     fallback : BOOLEAN, kept : BOOLEAN, ready : BOOLEAN]

\* The types.
TypeOK ==
    /\ prog \in Programs /\ plan = Plan(prog) /\ mode \in Modes
    /\ text \in Texts
    /\ ends \in [0..n -> [Pcs -> (0..n) \union {NoMatch}]]
    /\ host \in Hosts /\ blk \in Block
    /\ memo \subseteq Marks /\ own \subseteq Marks
    /\ pc \in {"host", "forced", "anchor", "entry", "outer", "place", "run", "fail",
               "none", "unknown", "after"}
    /\ w \in Locals
    /\ opened \in Texts /\ owner \in Texts /\ pops \in Nat /\ guards \in Nat

\* "The memo's marks are failures": between the calls of a search, no marked
\* instruction leads to a match from where it is marked.
MarksFail ==
    pc = "host" /\ host.status = "driving" /\ blk.memo /\ Recorded =>
        \A mark \in memo : mark[2] <= n => ends[mark[2]][mark[1]] = NoMatch

\* A search, however many calls it takes, spends its budget once; and a search
\* that counts always has some left, so that a pop can bring it to zero.
SearchBudget ==
    /\ pops <= Rate * (LenOf(opened) + 1)
    /\ blk.state = "live" => blk.budget > 0
    /\ pc \in {"run", "fail"} /\ ~w.fallback => w.work > 0

Alts == {p \in Pcs : OpAt(prog, p) = "alt"}

\* A search whose every call runs the fallback is linear: it enters an Alt at a
\* position a fixed number of times, whatever the number of calls.  Not so on a
\* block kept from a shorter text, whose memo is too small to serve: every call
\* then uses one of its own (docs/wasm.md, "The Backtracking memo").
GuardsBounded ==
    (blk.memo => blk.cap >= n + 1) => guards <= 9 * Cardinality(Alts) * (n + 1)

\* The cost of a search does not grow with the number of its calls, before the
\* trip or after (bt_search.go, "one work budget per SEARCH").
SearchLinear == SearchBudget /\ GuardsBounded

Drive == INSTANCE MatchDrive WITH
            table <- Table, from <- host.from, prevEnd <- host.prevEnd,
            answers <- host.answers, status <- host.status
\* The drive reports what the program alone would, whichever body answers.
DrivesLeftmost == Drive!Spec

\* Every search ends.
SearchEnds == (host.status = "driving") ~> (host.status # "driving")
=============================================================================
